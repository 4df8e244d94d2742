--------------------------- MODULE ChatTurnProofs ---------------------------
(* What TLAPS proves of ChatTurn, for any turns, conversations and questions. *)
EXTENDS ChatTurn, TLAPS

-----------------------------------------------------------------------------
(* The inductive invariants.                                                *)

\* A request that was let in works on a conversation that was minted for it or
\* before it, and on a question.
Admitted(t) ==
  pc[t] \notin {"idle", "rejected"} =>
    conv[t] \in Conv /\ status[conv[t]] # "absent" /\ question[t] \in Question
OthersAdmitted ==
  /\ \A r \in Rater : rater[r].pc # "idle" => rater[r].conv \in Conv
  /\ \A s \in Staff : desk[s].pc # "idle" => desk[s].conv \in Conv

\* Until the run settles nothing is escalated, and what the gate sees in the
\* agent state is what this run's own nodes put into final.
OwnEvidence(t) ==
  /\ pc[t] \in ({"idle"} \cup Requested \cup Running) \ {"hit", "settling", "storing"}
       => ~final[t].escalated
  /\ pc[t] \in {"judging", "responding"} =>
       final[t].cited = graph[t].cited /\ (graph[t].cited => graph[t].chunks)
  /\ pc[t] = "responding" => graph[t].cited /\ final[t].sure

\* What is settled, replayed or done is vetted unless it is escalated, ...
SettledIsVetted(t) ==
  /\ pc[t] \in {"settling", "storing", "closing", "hit", "replaying", "done"}
       => Vetted(final[t]) \/ final[t].escalated
  /\ pc[t] \in {"hit", "replaying", "storing"} => ~final[t].escalated

\* ... and what is escalated has its ticket, or a conversation whose deletion
\* keeps the turn from ever being done.
EscalatedIsTicketed(t) ==
  pc[t] \in {"settling", "storing", "closing", "done"} /\ final[t].escalated =>
    verdict[t] = "ticketed" \/ (pc[t] = "settling" /\ status[conv[t]] = "deleted")

TurnInv ==
  /\ TypeOK /\ OthersAdmitted /\ CacheIsVetted
  /\ \A t \in Turn : Admitted(t) /\ OwnEvidence(t) /\ SettledIsVetted(t)
                     /\ EscalatedIsTicketed(t)

\* The question of a turn that is under way stays in the transcript for as long
\* as its conversation does: behind AnswerFollowsQuestion.
QuestionKept(t) ==
  pc[t] \in (Requested \cup Streaming) \ {"ensured"} /\ Exists(conv[t]) =>
    Row(t, "user") \in messages
TranscriptInv == AnswerFollowsQuestion /\ \A t \in Turn : QuestionKept(t)

\* A score belongs to the one visitor whose rating was accepted, and a visitor is
\* refused only when somebody else's was, or the conversation is gone: behind
\* ScoredOnce.
Scored(r) ==
  /\ rater[r].pc = "rated" => score[rater[r].conv] = r
  /\ \A c \in Conv : score[c] = r => rater[r].pc = "rated"
  /\ rater[r].pc \in {"checked", "conflict"} => status[rater[r].conv] # "absent"
  /\ rater[r].pc = "conflict" =>
       score[rater[r].conv] # NoRater \/ ~Exists(rater[r].conv)
ScoreInv == \A r \in Rater : Scored(r)

\* The text that promises a human goes out only when the run has settled, with its
\* ticket or for a conversation that is deleted: behind HandoffHasTicket.
Told(t) ==
  "handoff" \in seen[t] =>
    /\ pc[t] \in {"settling", "storing", "closing", "done", "error", "gone"}
    /\ verdict[t] = "ticketed" \/ status[conv[t]] = "deleted"
    /\ pc[t] \in {"settling", "storing", "closing", "done"} => final[t].escalated
ToldInv == \A t \in Turn : Told(t)

\* Every answer on its way to a customer, or in the cache, was approved by a run
\* for the same question, and a turn decides only at the end of its own run:
\* behind KeepsPromise.
ApprovedFor(q) == \E s \in Turn : verdict[s] = "approved" /\ question[s] = q
Decided(t) ==
  /\ pc[t] = "idle" => question[t] = NoQuestion
  /\ pc[t] \in ({"idle", "replaying"} \cup Requested \cup Running) \ {"settling", "storing"}
       => verdict[t] = "none"
  /\ pc[t] \in {"hit", "replaying"} => ApprovedFor(question[t])
  /\ pc[t] \in {"settling", "storing", "closing"} /\ ~final[t].escalated
       => verdict[t] = "approved"
PromiseInv ==
  /\ \A t \in Turn : Decided(t)
  /\ \A q \in Question : cache[q] # Miss => ApprovedFor(q)

-----------------------------------------------------------------------------

LEMMA InitTurnInv == Init => TurnInv
BY ConstantsDistinct DEF Init, TurnInv, TypeOK, OthersAdmitted, CacheIsVetted, Admitted,
  OwnEvidence, SettledIsVetted, EscalatedIsTicketed, Status, Text, AgentState, Answer,
  FreshState, NoAnswer, MessageRow, EscalationRow, Phase, Requested, Running, Streaming,
  Ended, RaterState, DeskState, Away

-----------------------------------------------------------------------------
(* Types.                                                                   *)

LEMMA AgentStateTyped ==
  /\ FreshState \in AgentState
  /\ \A g \in AgentState, b \in BOOLEAN :
       /\ [g EXCEPT !.chunks = b] \in AgentState
       /\ [g EXCEPT !.sure = b] \in AgentState
       /\ Answered(g, b) \in AgentState
BY DEF AgentState, FreshState, Answered

LEMMA AnswerTyped ==
  /\ NoAnswer \in Answer
  /\ \A a \in Answer, b \in BOOLEAN, x \in Text :
       /\ [a EXCEPT !.cited = b] \in Answer
       /\ [a EXCEPT !.sure = b] \in Answer
       /\ [a EXCEPT !.content = x] \in Answer
       /\ [a EXCEPT !.content = x, !.escalated = b] \in Answer
<1>1. NoAnswer \in Answer
  BY DEF Answer, NoAnswer, Text
<1>2. ASSUME NEW a \in Answer, NEW b \in BOOLEAN
      PROVE  [a EXCEPT !.cited = b] \in Answer /\ [a EXCEPT !.sure = b] \in Answer
  BY <1>2 DEF Answer
<1>3. ASSUME NEW a \in Answer, NEW b \in BOOLEAN, NEW x \in Text
      PROVE  /\ [a EXCEPT !.content = x] \in Answer
             /\ [a EXCEPT !.content = x, !.escalated = b] \in Answer
  BY <1>3 DEF Answer
<1> QED
  BY <1>1, <1>2, <1>3

LEMMA OpenTyped ==
  ASSUME TypeOK, NEW t \in Turn, Open(t) \/ Reject(t)
  PROVE  TypeOK'
BY DEF TypeOK, Open, Reject, Status, conversations, Goto, Phase, Ended, Requested

LEMMA PersistTyped ==
  ASSUME TypeOK, NEW t \in Turn, Admitted(t), PersistUser(t) \/ PersistHit(t)
  PROVE  TypeOK'
BY DEF TypeOK, Admitted, PersistUser, PersistHit, Persist, Row, Goto, MessageRow, Phase, Requested, Streaming

LEMMA CacheStepTyped ==
  ASSUME TypeOK, NEW t \in Turn, Admitted(t), Hit(t) \/ MissOrBypass(t) \/ StoreInCache(t)
  PROVE  TypeOK'
BY DEF TypeOK, Admitted, Hit, MissOrBypass, StoreInCache, conversations, Goto, Phase, Requested, Streaming, Running

LEMMA EmitTyped ==
  ASSUME TypeOK, NEW t \in Turn, Replay(t) \/ Finish(t) \/ Stream(t) \/ SendCanned(t)
  PROVE  TypeOK'
<1>1. PICK events \in SUBSET Event : Emit(t, events)
  BY DEF Replay, Finish, Stream, SendCanned, Closing, Event
<1>2. seen' \in [Turn -> SUBSET Event]
  BY <1>1 DEF TypeOK, Emit
<1> QED
  BY <1>2 DEF TypeOK, Replay, Finish, Stream, SendCanned, conversations, Goto, Phase, Ended

LEMMA PersistAnswerTyped ==
  ASSUME TypeOK, NEW t \in Turn, Admitted(t), PersistAnswer(t)
  PROVE  TypeOK'
BY DEF TypeOK, Admitted, PersistAnswer, Persist, Row, Goto, MessageRow, Phase, Requested, Streaming, Running

LEMMA RouteTyped ==
  ASSUME TypeOK, NEW t \in Turn, Admitted(t), Route(t)
  PROVE  TypeOK'
BY DEF TypeOK, Admitted, Route, Checkpoint, Goto, conversations, Phase, Requested, Streaming, Running

LEMMA CheckpointTyped ==
  ASSUME TypeOK, NEW t \in Turn, conv[t] \in Conv, NEW g \in AgentState, Checkpoint(t, g)
  PROVE  /\ graph' \in [Turn -> AgentState] /\ thread' \in [Conv -> AgentState]
         /\ graph'[t] = g
BY DEF TypeOK, Checkpoint

LEMMA FinalTyped ==
  ASSUME TypeOK, NEW t \in Turn, NEW a \in Answer, final' = [final EXCEPT ![t] = a]
  PROVE  final' \in [Turn -> Answer] /\ final'[t] = a
BY DEF TypeOK

LEMMA RetrieveTyped ==
  ASSUME TypeOK, NEW t \in Turn, Admitted(t), Retrieve(t)
  PROVE  TypeOK'
<1>1. conv[t] \in Conv /\ pc' \in [Turn -> Phase]
  BY DEF TypeOK, Admitted, Retrieve, Goto, Phase, Streaming, Running
<1>2. PICK found \in BOOLEAN : Checkpoint(t, [graph[t] EXCEPT !.chunks = found])
  BY DEF Retrieve
<1>3. [graph[t] EXCEPT !.chunks = found] \in AgentState
  BY AgentStateTyped DEF TypeOK
<1>4. graph' \in [Turn -> AgentState] /\ thread' \in [Conv -> AgentState]
  BY <1>1, <1>2, <1>3, CheckpointTyped
<1> QED
  BY <1>1, <1>4 DEF TypeOK, Retrieve, conversations

LEMMA ChitTyped ==
  ASSUME TypeOK, NEW t \in Turn, RouteToChitchat(t)
  PROVE  TypeOK'
<1>1. final' = [final EXCEPT ![t] = [final[t] EXCEPT !.content = "chitchat"]]
  BY DEF RouteToChitchat
<1>2. [final[t] EXCEPT !.content = "chitchat"] \in Answer
  BY AnswerTyped DEF TypeOK, Text
<1>3. final' \in [Turn -> Answer]
  BY <1>1, <1>2, FinalTyped
<1> QED
  BY <1>3 DEF TypeOK, RouteToChitchat, Goto, conversations, Phase, Streaming, Running

LEMMA FinishAnswerTyped ==
  ASSUME TypeOK, NEW t \in Turn, Admitted(t), FinishAnswer(t)
  PROVE  TypeOK'
<1>1. conv[t] \in Conv /\ pc' \in [Turn -> Phase]
  BY DEF TypeOK, Admitted, FinishAnswer, Goto, Phase, Streaming, Running
<1>2. PICK cites \in BOOLEAN :
        /\ Checkpoint(t, Answered(graph[t], cites))
        /\ final' = [final EXCEPT ![t] = [final[t] EXCEPT !.cited = cites]]
  BY DEF FinishAnswer
<1>3. Answered(graph[t], cites) \in AgentState /\ [final[t] EXCEPT !.cited = cites] \in Answer
  BY AgentStateTyped, AnswerTyped DEF TypeOK, Text
<1>4. /\ graph' \in [Turn -> AgentState] /\ thread' \in [Conv -> AgentState]
      /\ final' \in [Turn -> Answer]
  BY <1>1, <1>2, <1>3, CheckpointTyped, FinalTyped
<1> QED
  BY <1>1, <1>4 DEF TypeOK, FinishAnswer, conversations

LEMMA JudgeTyped ==
  ASSUME TypeOK, NEW t \in Turn, Admitted(t), Judge(t)
  PROVE  TypeOK'
<1>1. conv[t] \in Conv /\ pc' \in [Turn -> Phase]
  BY DEF TypeOK, Admitted, Judge, Goto, Gate, Phase, Streaming, Running
<1>2. PICK sure \in BOOLEAN :
        /\ Checkpoint(t, [graph[t] EXCEPT !.sure = sure])
        /\ final' = [final EXCEPT ![t] = [final[t] EXCEPT !.sure = sure]]
  BY DEF Judge
<1>3. [graph[t] EXCEPT !.sure = sure] \in AgentState /\ [final[t] EXCEPT !.sure = sure] \in Answer
  BY AgentStateTyped, AnswerTyped DEF TypeOK, Text
<1>4. /\ graph' \in [Turn -> AgentState] /\ thread' \in [Conv -> AgentState]
      /\ final' \in [Turn -> Answer]
  BY <1>1, <1>2, <1>3, CheckpointTyped, FinalTyped
<1> QED
  BY <1>1, <1>4 DEF TypeOK, Judge, conversations

\* Settle leaves a typed answer, whichever node it is called from.
LEMMA SettleTyped ==
  ASSUME TypeOK, NEW t \in Turn, NEW x \in Text, NEW b \in BOOLEAN, Settle(t, x, b)
  PROVE  /\ pc' \in [Turn -> Phase] /\ graph' \in [Turn -> AgentState]
         /\ thread' \in [Conv -> AgentState] /\ final' \in [Turn -> Answer]
<1>1. final' = [final EXCEPT ![t] =
                  [final[t] EXCEPT !.content = Content(t, x), !.escalated = b]]
  BY DEF Settle
<1>2. Content(t, x) \in Text
  BY DEF Content, Text
<1>3. [final[t] EXCEPT !.content = Content(t, x), !.escalated = b] \in Answer
  BY <1>2, AnswerTyped DEF TypeOK
<1>4. final' \in [Turn -> Answer]
  BY <1>1, <1>3, FinalTyped
<1> QED
  BY <1>4, AgentStateTyped DEF TypeOK, Settle, Goto, Phase, Streaming, Running

LEMMA RespondTyped ==
  ASSUME TypeOK, NEW t \in Turn, Respond(t)
  PROVE  TypeOK'
<1>1. Settle(t, IF graph[t].chunks THEN "draft" ELSE "refusal", FALSE)
  BY DEF Respond
<1>2. (IF graph[t].chunks THEN "draft" ELSE "refusal") \in Text
  BY DEF Text
<1>3. /\ pc' \in [Turn -> Phase] /\ graph' \in [Turn -> AgentState]
      /\ thread' \in [Conv -> AgentState] /\ final' \in [Turn -> Answer]
  BY <1>1, <1>2, SettleTyped
<1> QED
  BY <1>3 DEF TypeOK, Respond, conversations

LEMMA RecordReadTyped ==
  ASSUME TypeOK, NEW t \in Turn, Admitted(t), RecordRead(t)
  PROVE  TypeOK'
<1>1. /\ pc' \in [Turn -> Phase] /\ graph' \in [Turn -> AgentState]
      /\ thread' \in [Conv -> AgentState] /\ final' \in [Turn -> Answer]
  <2>1. CASE Settle(t, "handoff", TRUE)
    BY <2>1, SettleTyped DEF Text
  <2>2. CASE Goto(t, "recording") /\ UNCHANGED <<thread, final, graph>>
    BY <2>2 DEF TypeOK, Goto, Phase, Streaming, Running
  <2> QED
    BY <2>1, <2>2 DEF RecordRead
<1>2. saw' \in [Turn -> Status]
  BY DEF TypeOK, RecordRead, Admitted, Requested
<1> QED
  BY <1>1, <1>2 DEF TypeOK, RecordRead, conversations

LEMMA RecordCommitTyped ==
  ASSUME TypeOK, NEW t \in Turn, Admitted(t), RecordCommit(t)
  PROVE  TypeOK'
<1>1. /\ pc' \in [Turn -> Phase] /\ graph' \in [Turn -> AgentState]
      /\ thread' \in [Conv -> AgentState] /\ final' \in [Turn -> Answer]
  BY SettleTyped DEF RecordCommit, Text
<1>2. Ticket(t) \in EscalationRow
  BY DEF TypeOK, RecordCommit, Admitted, Ticket, EscalationRow
<1>3. status' \in [Conv -> Status] /\ saw' \in [Turn -> Status]
  BY DEF TypeOK, RecordCommit, AfterUpdate, Status
<1> QED
  BY <1>1, <1>2, <1>3 DEF TypeOK, RecordCommit

LEMMA DropTyped ==
  ASSUME TypeOK, NEW t \in Turn, Fail(t) \/ Abort(t)
  PROVE  TypeOK'
<1>1. PICK p \in Ended : Drop(t, p)
  BY DEF Fail, Abort, Ended
<1>2. seen' \in [Turn -> SUBSET Event]
  BY DEF TypeOK, Fail, Abort, Emit, Event
<1>3. FreshState \in AgentState /\ NoAnswer \in Answer
  BY AgentStateTyped, AnswerTyped
<1> QED
  BY <1>1, <1>2, <1>3 DEF TypeOK, Drop, Goto, Status, conversations, Phase

LEMMA RatingTyped ==
  ASSUME TypeOK, NEW r \in Rater, OthersAdmitted, RateCommit(r) \/ \E c \in Conv : RateRead(r, c)
  PROVE  TypeOK'
<1>1. \A x \in RaterState : /\ [x EXCEPT !.pc = "rated"] \in RaterState
                            /\ [x EXCEPT !.pc = "conflict"] \in RaterState
  BY DEF RaterState
<1>2. CASE RateCommit(r)
  <2>1. \/ rater' = [rater EXCEPT ![r] = [rater[r] EXCEPT !.pc = "rated"]]
        \/ rater' = [rater EXCEPT ![r] = [rater[r] EXCEPT !.pc = "conflict"]]
    BY <1>2 DEF RateCommit
  <2>2. /\ [rater[r] EXCEPT !.pc = "rated"] \in RaterState
        /\ [rater[r] EXCEPT !.pc = "conflict"] \in RaterState
    BY <1>1 DEF TypeOK
  <2>3. rater' \in [Rater -> RaterState]
    BY <2>1, <2>2 DEF TypeOK
  <2>4. rater[r].conv \in Conv
    BY <1>2 DEF OthersAdmitted, RateCommit
  <2> QED
    BY <1>2, <2>3, <2>4 DEF TypeOK, RateCommit, AfterRating, Status, turnVars
<1>3. CASE \E c \in Conv : RateRead(r, c)
  BY <1>3 DEF TypeOK, RateRead, RaterState, conversations, turnVars
<1> QED
  BY <1>2, <1>3

LEMMA DeskStateTyped ==
  /\ Away \in DeskState
  /\ \A x \in DeskState, tickets \in SUBSET Turn :
       [x EXCEPT !.pc = "resolving", !.tickets = tickets] \in DeskState
  /\ \A c \in Conv, saw_ \in Status :
       [Away EXCEPT !.pc = "loaded", !.conv = c, !.saw = saw_] \in DeskState
BY DEF Away, DeskState, Status

LEMMA ResolvingTyped ==
  ASSUME TypeOK, NEW s \in Staff, OthersAdmitted,
         \/ ResolveSelect(s) \/ ResolveCommit(s)
         \/ \E c \in Conv : ResolveRead(s, c)
  PROVE  TypeOK'
<1>1. CASE ResolveSelect(s)
  <2>1. PendingOf(desk[s].conv) \in SUBSET Turn
    BY DEF TypeOK, PendingOf, EscalationRow
  <2>2. [desk[s] EXCEPT !.pc = "resolving", !.tickets = PendingOf(desk[s].conv)] \in DeskState
    BY <2>1, DeskStateTyped DEF TypeOK
  <2>3. desk' \in [Staff -> DeskState]
    BY <1>1, <2>2, DeskStateTyped DEF TypeOK, ResolveSelect
  <2> QED
    BY <1>1, <2>3 DEF TypeOK, ResolveSelect, conversations, turnVars
<1>2. CASE ResolveCommit(s)
  <2>1. ASSUME NEW e \in EscalationRow PROVE Resolved(e) \in EscalationRow
    BY DEF Resolved, EscalationRow
  <2>2. desk' \in [Staff -> DeskState]
    BY <1>2, DeskStateTyped DEF TypeOK, ResolveCommit
  <2>3. status' \in [Conv -> Status]
    BY <1>2 DEF TypeOK, OthersAdmitted, ResolveCommit, AfterUpdate, Status
  <2>4. CASE escalations' = {IF e.conv = desk[s].conv /\ e.turn \in desk[s].tickets
                             THEN Resolved(e) ELSE e : e \in escalations}
    <3>1. escalations' \subseteq EscalationRow
      BY <2>1, <2>4 DEF TypeOK
    <3> QED
      BY <1>2, <2>2, <2>3, <3>1 DEF TypeOK, ResolveCommit, turnVars
  <2>5. CASE escalations' = escalations
    BY <1>2, <2>2, <2>3, <2>5 DEF TypeOK, ResolveCommit, turnVars
  <2> QED
    BY <1>2, <2>4, <2>5 DEF ResolveCommit
<1>3. ASSUME NEW c \in Conv, ResolveRead(s, c) PROVE TypeOK'
  <2>1. desk' \in [Staff -> DeskState]
    BY <1>3, DeskStateTyped DEF TypeOK, ResolveRead
  <2> QED
    BY <1>3, <2>1 DEF TypeOK, ResolveRead, conversations, turnVars
<1> QED
  BY <1>1, <1>2, <1>3

LEMMA OthersTyped ==
  ASSUME TypeOK,
         \/ \E c \in Conv : Reply(c)
         \/ ResetDemo
         \/ \E q \in Question : Expire(q)
  PROVE  TypeOK'
<1>1. ASSUME NEW c \in Conv, Reply(c) PROVE TypeOK'
  BY <1>1 DEF TypeOK, Reply, MessageRow, turnVars
<1>2. CASE ResetDemo
  BY <1>2, ConstantsDistinct DEF TypeOK, ResetDemo, Status, turnVars
<1>3. ASSUME NEW q \in Question, Expire(q) PROVE TypeOK'
  BY <1>3 DEF TypeOK, Expire, conversations, turnVars
<1> QED
  BY <1>1, <1>2, <1>3

LEMMA TypeStep ==
  ASSUME TypeOK, OthersAdmitted, \A t \in Turn : Admitted(t), Next
  PROVE  TypeOK'
<1>1. ASSUME NEW t \in Turn, Open(t) \/ Reject(t) \/ Progress(t) \/ Fail(t) \/ Abort(t)
      PROVE  TypeOK'
  BY <1>1, OpenTyped, PersistTyped, CacheStepTyped, EmitTyped, PersistAnswerTyped,
     RouteTyped, RetrieveTyped, ChitTyped, FinishAnswerTyped, JudgeTyped, RespondTyped,
     RecordReadTyped, RecordCommitTyped, DropTyped DEF Progress
<1> QED
  BY <1>1, RatingTyped, ResolvingTyped, OthersTyped DEF Next

-----------------------------------------------------------------------------
(* The invariant: what a step leaves of the turns it is not about.           *)

OwnInv(t) == Admitted(t) /\ OwnEvidence(t) /\ SettledIsVetted(t) /\ EscalatedIsTicketed(t)

Undisturbed(t) ==
  /\ pc'[t] = pc[t] /\ conv'[t] = conv[t] /\ question'[t] = question[t]
  /\ graph'[t] = graph[t] /\ final'[t] = final[t] /\ verdict'[t] = verdict[t]

\* A conversation row is created once and, once deleted, never comes back.
RowsAreNotReborn ==
  \A c \in Conv : /\ status[c] # "absent" => status'[c] # "absent"
                  /\ status[c] = "deleted" => status'[c] = "deleted"

\* Whatever happens elsewhere, a turn keeps its part of the invariant.
LEMMA FrameOwn ==
  ASSUME NEW t \in Turn, OwnInv(t), Undisturbed(t), RowsAreNotReborn
  PROVE  OwnInv(t)'
<1>1. Admitted(t)'
  BY DEF OwnInv, Admitted, Undisturbed, RowsAreNotReborn
<1>2. OwnEvidence(t)'
  BY DEF OwnInv, OwnEvidence, Undisturbed, Requested, Running
<1>3. SettledIsVetted(t)'
  BY DEF OwnInv, SettledIsVetted, Vetted, Undisturbed
<1>4. EscalatedIsTicketed(t)'
  BY DEF OwnInv, Admitted, EscalatedIsTicketed, Undisturbed, RowsAreNotReborn
<1> QED
  BY <1>1, <1>2, <1>3, <1>4 DEF OwnInv

LEMMA RowsStep ==
  ASSUME TypeOK, OthersAdmitted, \A t \in Turn : Admitted(t), Next
  PROVE  RowsAreNotReborn
<1>1. ASSUME NEW t \in Turn, Open(t) PROVE RowsAreNotReborn
  BY <1>1 DEF TypeOK, Open, RowsAreNotReborn
<1>2. ASSUME NEW t \in Turn, RecordCommit(t) PROVE RowsAreNotReborn
  BY <1>2 DEF TypeOK, RecordCommit, AfterUpdate, Exists, IsRow, RowsAreNotReborn
<1>3. ASSUME NEW t \in Turn, Reject(t) \/ Progress(t) \/ Fail(t) \/ Abort(t)
      PROVE  status' = status \/ RecordCommit(t)
  BY <1>3 DEF Reject, Progress, Fail, Abort, Drop, PersistUser, Hit, MissOrBypass, PersistHit,
     Replay, Route, RouteToChitchat, Retrieve, Stream, SendCanned, FinishAnswer, Judge, Respond,
     RecordRead, PersistAnswer, StoreInCache, Finish, conversations
<1>4. ASSUME NEW r \in Rater, RateCommit(r) \/ \E c \in Conv : RateRead(r, c)
      PROVE  RowsAreNotReborn
  BY <1>4 DEF TypeOK, RateCommit, RateRead, AfterRating, Unrated, Exists, IsRow,
     RowsAreNotReborn, conversations
<1>5. ASSUME NEW s \in Staff,
             ResolveSelect(s) \/ ResolveCommit(s) \/ \E c \in Conv : ResolveRead(s, c)
      PROVE  RowsAreNotReborn
  BY <1>5 DEF TypeOK, ResolveSelect, ResolveCommit, ResolveRead, AfterUpdate, Exists, IsRow,
     RowsAreNotReborn, conversations
<1>6. CASE ResetDemo
  BY <1>6 DEF TypeOK, ResetDemo, Exists, IsRow, RowsAreNotReborn
<1>7. status' = status => RowsAreNotReborn
  BY DEF RowsAreNotReborn
<1>8. ASSUME NEW c \in Conv, Reply(c) PROVE status' = status
  BY <1>8 DEF Reply
<1>9. ASSUME NEW q \in Question, Expire(q) PROVE status' = status
  BY <1>9 DEF Expire, conversations
<1> QED
  BY <1>1, <1>2, <1>3, <1>4, <1>5, <1>6, <1>7, <1>8, <1>9 DEF Next

LEMMA OthersStep ==
  ASSUME TypeOK, OthersAdmitted, Next
  PROVE  OthersAdmitted'
<1>1. ASSUME NEW t \in Turn, Open(t) \/ Reject(t) \/ Progress(t) \/ Fail(t) \/ Abort(t)
      PROVE  rater' = rater /\ desk' = desk
  BY <1>1 DEF Open, Reject, Progress, Fail, Abort, Drop, PersistUser, Hit, MissOrBypass,
     PersistHit, Replay, Route, RouteToChitchat, Retrieve, Stream, SendCanned, FinishAnswer, Judge,
     Respond, RecordRead, RecordCommit, PersistAnswer, StoreInCache, Finish
<1>2. ASSUME NEW r \in Rater, RateCommit(r) PROVE OthersAdmitted'
  <2>1. \A x \in RaterState : /\ [x EXCEPT !.pc = "rated"].conv = x.conv
                              /\ [x EXCEPT !.pc = "conflict"].conv = x.conv
    BY DEF RaterState
  <2>2. \/ rater' = [rater EXCEPT ![r] = [rater[r] EXCEPT !.pc = "rated"]]
        \/ rater' = [rater EXCEPT ![r] = [rater[r] EXCEPT !.pc = "conflict"]]
    BY <1>2 DEF RateCommit
  <2>3. rater'[r].conv = rater[r].conv /\ \A u \in Rater \ {r} : rater'[u] = rater[u]
    BY <2>1, <2>2 DEF TypeOK
  <2> QED
    BY <1>2, <2>3 DEF RateCommit, OthersAdmitted, turnVars
<1>3. ASSUME NEW r \in Rater, NEW c \in Conv, RateRead(r, c) PROVE OthersAdmitted'
  BY <1>3 DEF TypeOK, OthersAdmitted, RateRead
<1>4. ASSUME NEW s \in Staff, ResolveSelect(s) \/ ResolveCommit(s) PROVE OthersAdmitted'
  <2>1. \A x \in DeskState : \A d : [x EXCEPT !.pc = "resolving", !.tickets = d].conv = x.conv
    BY DEF DeskState
  <2>2. desk' = [desk EXCEPT ![s] = Away] \/
        desk' = [desk EXCEPT ![s] = [desk[s] EXCEPT !.pc = "resolving",
                                                    !.tickets = PendingOf(desk[s].conv)]]
    BY <1>4 DEF ResolveSelect, ResolveCommit
  <2>3. desk'[s] = Away \/ desk'[s].conv = desk[s].conv
    <3>1. desk[s] \in DeskState /\ desk \in [Staff -> DeskState]
      BY DEF TypeOK
    <3>2. CASE desk' = [desk EXCEPT ![s] = Away]
      BY <3>1, <3>2
    <3>3. CASE desk' = [desk EXCEPT ![s] = [desk[s] EXCEPT !.pc = "resolving",
                                                !.tickets = PendingOf(desk[s].conv)]]
      BY <2>1, <3>1, <3>3
    <3> QED
      BY <2>2, <3>2, <3>3
  <2>4. \A u \in Staff \ {s} : desk'[u] = desk[u]
    BY <2>2 DEF TypeOK
  <2>5. desk[s].pc # "idle" /\ rater' = rater
    BY <1>4 DEF ResolveSelect, ResolveCommit
  <2> QED
    BY <2>3, <2>4, <2>5 DEF OthersAdmitted, Away
<1>5. ASSUME NEW s \in Staff, NEW c \in Conv, ResolveRead(s, c) PROVE OthersAdmitted'
  <2>1. [Away EXCEPT !.pc = "loaded", !.conv = c, !.saw = status[c]].conv = c
    BY DEF Away
  <2> QED
    BY <1>5, <2>1 DEF TypeOK, OthersAdmitted, ResolveRead
<1>6. ASSUME \/ \E c \in Conv : Reply(c)
             \/ ResetDemo
             \/ \E q \in Question : Expire(q)
      PROVE  rater' = rater /\ desk' = desk
  BY <1>6 DEF Reply, ResetDemo, Expire
<1>7. rater' = rater /\ desk' = desk => OthersAdmitted'
  BY DEF OthersAdmitted
<1> QED
  BY <1>1, <1>2, <1>3, <1>4, <1>5, <1>6, <1>7 DEF Next

-----------------------------------------------------------------------------
(* The invariant: what a step leaves of the turn that takes it.              *)

LEMMA OtherTurns ==
  ASSUME TypeOK, NEW t \in Turn, NEW u \in Turn, u # t,
         Open(t) \/ Reject(t) \/ Progress(t) \/ Fail(t) \/ Abort(t)
  PROVE  Undisturbed(u)
<1>1. ASSUME Open(t) \/ Reject(t) PROVE Undisturbed(u)
  BY <1>1 DEF TypeOK, Open, Reject, Goto, Undisturbed
<1>2. ASSUME PersistUser(t) \/ Hit(t) \/ MissOrBypass(t) \/ PersistHit(t) \/ Replay(t)
      PROVE  Undisturbed(u)
  BY <1>2 DEF TypeOK, PersistUser, Hit, MissOrBypass, PersistHit, Replay, Goto, Undisturbed
<1>3. ASSUME Route(t) \/ RouteToChitchat(t) \/ Retrieve(t) \/ Stream(t) PROVE Undisturbed(u)
  BY <1>3 DEF TypeOK, Route, RouteToChitchat, Retrieve, Stream, Checkpoint, Goto, Undisturbed
<1>4. ASSUME FinishAnswer(t) \/ Judge(t) PROVE Undisturbed(u)
  BY <1>4 DEF TypeOK, FinishAnswer, Judge, Checkpoint, Goto, Undisturbed
<1>5. ASSUME Respond(t) \/ RecordRead(t) \/ RecordCommit(t) PROVE Undisturbed(u)
  BY <1>5 DEF TypeOK, Respond, RecordRead, RecordCommit, Settle, Goto, Undisturbed
<1>6. ASSUME SendCanned(t) \/ PersistAnswer(t) \/ StoreInCache(t) \/ Finish(t)
      PROVE  Undisturbed(u)
  BY <1>6 DEF TypeOK, SendCanned, PersistAnswer, StoreInCache, Finish, Goto, Undisturbed
<1>7. ASSUME Fail(t) \/ Abort(t) PROVE Undisturbed(u)
  BY <1>7 DEF TypeOK, Fail, Abort, Drop, Goto, Undisturbed
<1> QED
  BY <1>1, <1>2, <1>3, <1>4, <1>5, <1>6, <1>7 DEF Progress

\* The updates of a settled answer's fields.
LEMMA AnswerFields ==
  ASSUME NEW a \in Answer, NEW b \in BOOLEAN, NEW x \in Text
  PROVE  /\ [a EXCEPT !.cited = b].cited = b
         /\ [a EXCEPT !.cited = b].escalated = a.escalated
         /\ [a EXCEPT !.sure = b].sure = b
         /\ [a EXCEPT !.sure = b].cited = a.cited
         /\ [a EXCEPT !.sure = b].escalated = a.escalated
         /\ [a EXCEPT !.content = x].content = x
         /\ [a EXCEPT !.content = x].escalated = a.escalated
         /\ [a EXCEPT !.content = x, !.escalated = b].content = x
         /\ [a EXCEPT !.content = x, !.escalated = b].escalated = b
         /\ [a EXCEPT !.content = x, !.escalated = b].cited = a.cited
         /\ [a EXCEPT !.content = x, !.escalated = b].sure = a.sure
BY DEF Answer

LEMMA GraphFields ==
  ASSUME NEW g \in AgentState, NEW b \in BOOLEAN
  PROVE  /\ Answered(g, b).chunks = g.chunks
         /\ Answered(g, b).cited = (g.chunks /\ b)
         /\ [g EXCEPT !.sure = b].chunks = g.chunks
         /\ [g EXCEPT !.sure = b].cited = g.cited
         /\ [g EXCEPT !.sure = b].sure = b
BY DEF AgentState, Answered

\* Steps that leave final alone, or replace it as a whole.
LEMMA SimpleOwn ==
  ASSUME TypeOK, CacheIsVetted, NEW t \in Turn, OwnInv(t), RowsAreNotReborn,
         \/ Open(t) \/ Reject(t) \/ PersistUser(t) \/ Hit(t) \/ MissOrBypass(t)
         \/ PersistHit(t) \/ Replay(t) \/ Stream(t) \/ SendCanned(t) \/ StoreInCache(t) \/ Finish(t)
         \/ PersistAnswer(t) \/ Route(t) \/ Retrieve(t) \/ Fail(t) \/ Abort(t)
  PROVE  OwnInv(t)'
<1>1. CASE Open(t)
  BY <1>1 DEF TypeOK, OwnInv, Admitted, OwnEvidence, SettledIsVetted, EscalatedIsTicketed, Open, Goto, Requested
<1>2. CASE Reject(t)
  BY <1>2 DEF TypeOK, OwnInv, Admitted, OwnEvidence, SettledIsVetted, EscalatedIsTicketed, Reject, Goto, Requested, Running
<1>3. CASE PersistUser(t) \/ MissOrBypass(t)
  BY <1>3 DEF TypeOK, OwnInv, Admitted, OwnEvidence, SettledIsVetted, EscalatedIsTicketed, PersistUser, MissOrBypass, Goto, Requested, Running, conversations
<1>4. CASE Hit(t)
  BY <1>4 DEF TypeOK, OwnInv, Admitted, OwnEvidence, SettledIsVetted, EscalatedIsTicketed, Hit, Goto, Requested, Running, conversations, CacheIsVetted, Vetted
<1>5. CASE PersistHit(t) \/ Replay(t)
  BY <1>5 DEF TypeOK, OwnInv, Admitted, OwnEvidence, SettledIsVetted, EscalatedIsTicketed, PersistHit, Replay, Goto, Requested, Running, conversations, Vetted
<1>6. CASE Stream(t) \/ SendCanned(t)
  BY <1>6, FrameOwn DEF Stream, SendCanned, Undisturbed
<1>7. CASE StoreInCache(t) \/ Finish(t)
  BY <1>7 DEF TypeOK, OwnInv, Admitted, OwnEvidence, SettledIsVetted, EscalatedIsTicketed, StoreInCache, Finish, Goto, Requested, Running, conversations, Vetted
<1>8. CASE PersistAnswer(t)
  BY <1>8 DEF TypeOK, OwnInv, Admitted, OwnEvidence, SettledIsVetted, EscalatedIsTicketed, PersistAnswer, Persist, Exists, IsRow, Cacheable, Goto, Requested, Running, Vetted
<1>9. CASE Route(t) \/ Retrieve(t)
  BY <1>9 DEF TypeOK, OwnInv, Admitted, OwnEvidence, SettledIsVetted, EscalatedIsTicketed, Route, Retrieve, Goto, Requested, Running, conversations
<1>10. CASE Fail(t) \/ Abort(t)
  BY <1>10 DEF TypeOK, OwnInv, Admitted, OwnEvidence, SettledIsVetted, EscalatedIsTicketed, Fail, Abort, Drop, Goto, Requested, Running, Streaming, conversations
<1> QED
  BY <1>1, <1>2, <1>3, <1>4, <1>5, <1>6, <1>7, <1>8, <1>9, <1>10

LEMMA ChitchatOwn ==
  ASSUME TypeOK, NEW t \in Turn, OwnInv(t), RouteToChitchat(t)
  PROVE  OwnInv(t)'
<1>1. final' = [final EXCEPT ![t] = [final[t] EXCEPT !.content = "chitchat"]]
  BY DEF RouteToChitchat
<1>2. final[t] \in Answer /\ "chitchat" \in Text
  BY DEF TypeOK, Text
<1>3. final'[t].content = "chitchat" /\ ~final'[t].escalated
  <2>1. final'[t] = [final[t] EXCEPT !.content = "chitchat"]
    BY <1>1 DEF TypeOK
  <2>2. ~final[t].escalated
    BY DEF OwnInv, OwnEvidence, RouteToChitchat, Running
  <2> QED
    BY <1>2, <2>1, <2>2, AnswerFields
<1>4. pc'[t] = "settling" /\ pc[t] = "routing"
  BY DEF TypeOK, RouteToChitchat, Goto
<1>5. Admitted(t)'
  BY <1>4 DEF OwnInv, Admitted, RouteToChitchat, conversations
<1> QED
  BY <1>3, <1>4, <1>5 DEF OwnInv, OwnEvidence, SettledIsVetted, Vetted, EscalatedIsTicketed

\* The answer node: the citations of the run and those of the agent state agree.
LEMMA FinishAnswerOwn ==
  ASSUME TypeOK, NEW t \in Turn, OwnInv(t), FinishAnswer(t)
  PROVE  OwnInv(t)'
<1>1. PICK cites \in BOOLEAN :
        /\ cites => graph[t].chunks
        /\ Checkpoint(t, Answered(graph[t], cites))
        /\ final' = [final EXCEPT ![t] = [final[t] EXCEPT !.cited = cites]]
  BY DEF FinishAnswer
<1>2. pc'[t] = "judging" /\ pc[t] = "answering"
  BY DEF TypeOK, FinishAnswer, Goto
<1>3. final[t] \in Answer /\ graph[t] \in AgentState
  BY DEF TypeOK
<1>4. graph'[t].cited = cites /\ graph'[t].chunks = graph[t].chunks
  <2>1. graph'[t] = Answered(graph[t], cites)
    BY <1>1 DEF TypeOK, Checkpoint
  <2>2. graph[t].chunks \in BOOLEAN
    BY <1>3 DEF AgentState
  <2>3. Answered(graph[t], cites).cited = (graph[t].chunks /\ cites)
        /\ Answered(graph[t], cites).chunks = graph[t].chunks
    BY <1>3, GraphFields
  <2> QED
    BY <1>1, <2>1, <2>2, <2>3
<1>5. final'[t].cited = cites /\ ~final'[t].escalated
  <2>1. final'[t] = [final[t] EXCEPT !.cited = cites]
    BY <1>1 DEF TypeOK
  <2>2. ~final[t].escalated
    BY <1>2 DEF OwnInv, OwnEvidence, Running
  <2>3. "none" \in Text
    BY DEF Text
  <2> QED
    BY <1>3, <2>1, <2>2, <2>3, AnswerFields
<1>6. Admitted(t)'
  BY <1>2 DEF OwnInv, Admitted, FinishAnswer, conversations
<1> QED
  BY <1>1, <1>2, <1>4, <1>5, <1>6 DEF OwnInv, OwnEvidence, SettledIsVetted, EscalatedIsTicketed

\* The judge and the gate: only a cited and judged answer reaches respond.
LEMMA JudgeOwn ==
  ASSUME TypeOK, NEW t \in Turn, OwnInv(t), Judge(t)
  PROVE  OwnInv(t)'
<1>1. PICK sure \in BOOLEAN :
        /\ Checkpoint(t, [graph[t] EXCEPT !.sure = sure])
        /\ final' = [final EXCEPT ![t] = [final[t] EXCEPT !.sure = sure]]
  BY DEF Judge
<1>2. final[t] \in Answer /\ graph[t] \in AgentState /\ pc[t] = "judging"
  BY DEF TypeOK, Judge
<1>3. /\ graph'[t].cited = graph[t].cited /\ graph'[t].sure = sure
      /\ graph'[t].chunks = graph[t].chunks
  <2>1. graph'[t] = [graph[t] EXCEPT !.sure = sure]
    BY <1>1 DEF TypeOK, Checkpoint
  <2> QED
    BY <1>2, <2>1, GraphFields
<1>4. /\ final'[t].sure = sure /\ final'[t].cited = final[t].cited
      /\ ~final'[t].escalated
  <2>1. final'[t] = [final[t] EXCEPT !.sure = sure]
    BY <1>1 DEF TypeOK
  <2>2. ~final[t].escalated
    BY <1>2 DEF OwnInv, OwnEvidence, Running
  <2>3. "none" \in Text
    BY DEF Text
  <2> QED
    BY <1>2, <2>1, <2>2, <2>3, AnswerFields
<1>5. \/ pc'[t] = "responding" /\ graph'[t].cited /\ graph'[t].sure
      \/ pc'[t] = "escalating"
  BY DEF TypeOK, Judge, Goto, Gate
<1>6. Admitted(t)'
  BY <1>2 DEF OwnInv, Admitted, Judge, conversations
<1>7. final[t].cited = graph[t].cited /\ (graph[t].cited => graph[t].chunks)
  BY <1>2 DEF OwnInv, OwnEvidence
<1> QED
  BY <1>3, <1>4, <1>5, <1>6, <1>7 DEF OwnInv, OwnEvidence, SettledIsVetted, EscalatedIsTicketed

\* What Settle makes of final, whichever node it is called from.
LEMMA SettleFields ==
  ASSUME TypeOK, NEW t \in Turn, NEW x \in Text, NEW b \in BOOLEAN, Settle(t, x, b)
  PROVE  /\ pc'[t] = "settling"
         /\ final'[t].content = Content(t, x) /\ final'[t].escalated = b
         /\ final'[t].cited = final[t].cited /\ final'[t].sure = final[t].sure
<1>1. final' = [final EXCEPT ![t] =
                  [final[t] EXCEPT !.content = Content(t, x), !.escalated = b]]
  BY DEF Settle
<1>2. final'[t] = [final[t] EXCEPT !.content = Content(t, x), !.escalated = b]
  BY <1>1 DEF TypeOK
<1>3. final[t] \in Answer /\ Content(t, x) \in Text
  BY DEF TypeOK, Content, Text
<1> QED
  BY <1>2, <1>3, AnswerFields DEF TypeOK, Settle, Goto

LEMMA RespondOwn ==
  ASSUME TypeOK, NEW t \in Turn, OwnInv(t), Respond(t)
  PROVE  OwnInv(t)'
<1>1. /\ pc[t] = "responding" /\ graph[t].chunks
      /\ final[t].cited = TRUE /\ final[t].sure = TRUE
  <2>1. final[t] \in Answer /\ graph[t] \in AgentState
    BY DEF TypeOK
  <2> QED
    BY <2>1 DEF Respond, OwnInv, OwnEvidence, Answer, AgentState
<1>2. Settle(t, "draft", FALSE)
  BY <1>1 DEF Respond
<1>3. /\ pc'[t] = "settling" /\ final'[t].content = "draft" /\ ~final'[t].escalated
      /\ final'[t].cited /\ final'[t].sure
  BY <1>1, <1>2, SettleFields DEF Text, Content
<1>4. Admitted(t)'
  BY <1>1 DEF OwnInv, Admitted, Respond, conversations
<1> QED
  BY <1>3, <1>4 DEF OwnInv, OwnEvidence, SettledIsVetted, Vetted, EscalatedIsTicketed

\* Without a conversation to escalate the turn settles without a ticket, but
\* the conversation is deleted for good.
LEMMA RecordReadOwn ==
  ASSUME TypeOK, NEW t \in Turn, OwnInv(t), RecordRead(t)
  PROVE  OwnInv(t)'
<1>1. /\ pc[t] = "escalating" /\ Admitted(t)'
      /\ status' = status /\ conv' = conv
  BY DEF OwnInv, Admitted, RecordRead, conversations
<1>2. CASE Exists(conv[t]) /\ Goto(t, "recording") /\ UNCHANGED <<thread, final, graph>>
  BY <1>1, <1>2 DEF TypeOK, Goto, OwnInv, OwnEvidence, SettledIsVetted,
     EscalatedIsTicketed, Running
<1>3. CASE ~Exists(conv[t]) /\ Settle(t, "handoff", TRUE)
  <2>1. pc'[t] = "settling" /\ final'[t].escalated
    BY <1>3, SettleFields DEF Text
  <2>2. status'[conv'[t]] = "deleted"
    BY <1>1, <1>3 DEF TypeOK, OwnInv, Admitted, Exists, IsRow, Status
  <2> QED
    BY <1>1, <2>1, <2>2 DEF OwnInv, OwnEvidence, SettledIsVetted, EscalatedIsTicketed
<1> QED
  BY <1>2, <1>3 DEF RecordRead

LEMMA RecordCommitOwn ==
  ASSUME TypeOK, NEW t \in Turn, OwnInv(t), RowsAreNotReborn, RecordCommit(t)
  PROVE  OwnInv(t)'
<1>1. pc[t] = "recording" /\ Admitted(t)'
  BY DEF OwnInv, Admitted, RecordCommit, RowsAreNotReborn
<1>2. pc'[t] = "settling" /\ final'[t].escalated
  BY SettleFields DEF RecordCommit, Text
<1>3. verdict'[t] = "ticketed"
  BY DEF TypeOK, RecordCommit
<1> QED
  BY <1>1, <1>2, <1>3 DEF OwnInv, OwnEvidence, SettledIsVetted, EscalatedIsTicketed

-----------------------------------------------------------------------------
(* The cache.                                                                *)

LEMMA CacheStep ==
  ASSUME TypeOK, CacheIsVetted, \A t \in Turn : OwnInv(t), Next
  PROVE  CacheIsVetted'
<1>1. ASSUME NEW t \in Turn, StoreInCache(t) PROVE CacheIsVetted'
  <2>1. Vetted(final[t])
    BY <1>1 DEF StoreInCache, OwnInv, SettledIsVetted
  <2> QED
    BY <1>1, <2>1 DEF TypeOK, StoreInCache, CacheIsVetted, Vetted
<1>2. ASSUME NEW t \in Turn, Open(t) \/ Reject(t) \/ Progress(t) \/ Fail(t) \/ Abort(t)
      PROVE  cache' = cache \/ StoreInCache(t)
  BY <1>2 DEF Open, Reject, Progress, Fail, Abort, Drop, PersistUser, Hit, MissOrBypass,
     PersistHit, Replay, Route, RouteToChitchat, Retrieve, Stream, SendCanned, FinishAnswer, Judge,
     Respond, RecordRead, RecordCommit, PersistAnswer, Finish
<1>3. ASSUME \/ \E r \in Rater : RateCommit(r) \/ \E c \in Conv : RateRead(r, c)
             \/ \E s \in Staff : ResolveSelect(s) \/ ResolveCommit(s) \/ \E c \in Conv : ResolveRead(s, c)
             \/ \E c \in Conv : Reply(c)
             \/ ResetDemo
      PROVE  cache' = cache
  BY <1>3 DEF RateCommit, RateRead, ResolveSelect, ResolveCommit, ResolveRead, Reply, ResetDemo
<1>4. ASSUME NEW q \in Question, Expire(q) PROVE CacheIsVetted'
  BY <1>4 DEF TypeOK, Expire, CacheIsVetted, Vetted
<1>5. cache' = cache => CacheIsVetted'
  BY DEF CacheIsVetted, Vetted
<1> QED
  BY <1>1, <1>2, <1>3, <1>4, <1>5 DEF Next

-----------------------------------------------------------------------------
(* The theorems.                                                             *)

LEMMA OwnStep ==
  ASSUME TurnInv, Next, NEW u \in Turn
  PROVE  OwnInv(u)'
<1>1. /\ TypeOK /\ OthersAdmitted /\ CacheIsVetted
      /\ \A t \in Turn : OwnInv(t) /\ Admitted(t)
  BY DEF TurnInv, OwnInv
<1>2. RowsAreNotReborn
  BY <1>1, RowsStep
<1>3. ASSUME NEW t \in Turn, Open(t) \/ Reject(t) \/ Progress(t) \/ Fail(t) \/ Abort(t)
      PROVE  OwnInv(u)'
  <2>1. CASE u = t
    BY <1>1, <1>2, <1>3, <2>1, SimpleOwn, ChitchatOwn, FinishAnswerOwn, JudgeOwn, RespondOwn,
       RecordReadOwn, RecordCommitOwn DEF Progress
  <2>2. CASE u # t
    BY <1>1, <1>2, <1>3, <2>2, OtherTurns, FrameOwn
  <2> QED
    BY <2>1, <2>2
<1>4. ASSUME \/ \E r \in Rater : RateCommit(r) \/ \E c \in Conv : RateRead(r, c)
             \/ \E s \in Staff : ResolveSelect(s) \/ ResolveCommit(s) \/ \E c \in Conv : ResolveRead(s, c)
             \/ \E c \in Conv : Reply(c)
             \/ ResetDemo
             \/ \E q \in Question : Expire(q)
      PROVE  OwnInv(u)'
  <2>1. Undisturbed(u)
    BY <1>4 DEF RateCommit, RateRead, ResolveSelect, ResolveCommit, ResolveRead, Reply,
       ResetDemo, Expire, turnVars, Undisturbed
  <2> QED
    BY <1>1, <1>2, <2>1, FrameOwn
<1> QED
  BY <1>3, <1>4 DEF Next

LEMMA TurnInvStep == TurnInv /\ [Next]_vars => TurnInv'
<1> SUFFICES ASSUME TurnInv, [Next]_vars PROVE TurnInv'
  OBVIOUS
<1>1. CASE Next
  <2>1. /\ TypeOK /\ OthersAdmitted /\ CacheIsVetted
        /\ \A t \in Turn : OwnInv(t) /\ Admitted(t)
    BY DEF TurnInv, OwnInv
  <2>2. TypeOK' /\ OthersAdmitted' /\ CacheIsVetted'
    BY <1>1, <2>1, TypeStep, OthersStep, CacheStep
  <2>3. \A t \in Turn : OwnInv(t)'
    BY <1>1, OwnStep
  <2> QED
    BY <2>2, <2>3 DEF TurnInv, OwnInv
<1>2. CASE UNCHANGED vars
  BY <1>2 DEF vars, conversations, turnVars, TurnInv, TypeOK, OthersAdmitted, CacheIsVetted,
     Vetted, Admitted, OwnEvidence, SettledIsVetted, EscalatedIsTicketed
<1> QED
  BY <1>1, <1>2

\* In every behaviour, whatever the turns, conversations and questions, the
\* invariant that carries all the guarantees of a turn holds.
THEOREM TurnInvariant == Spec => []TurnInv
BY InitTurnInv, TurnInvStep, PTL DEF Spec

\* The types of all variables.
THEOREM TypeCorrect == Spec => []TypeOK
<1>1. TurnInv => TypeOK
  BY DEF TurnInv
<1> QED
  BY <1>1, TurnInvariant, PTL

\* Nothing escalated, empty or ungrounded is ever put in the response cache.
THEOREM CacheVetted == Spec => []CacheIsVetted
<1>1. TurnInv => CacheIsVetted
  BY DEF TurnInv
<1> QED
  BY <1>1, TurnInvariant, PTL

\* A turn that the step is not about was told no more than before.
LEMMA ToldFrame ==
  ASSUME NEW u \in Turn, Admitted(u), Told(u), Undisturbed(u), seen'[u] = seen[u],
         RowsAreNotReborn
  PROVE  Told(u)'
<1>1. "handoff" \in seen[u] => conv[u] \in Conv
  BY DEF Told, Admitted
<1> QED
  BY <1>1 DEF Told, Undisturbed, RowsAreNotReborn

\* The canned text of an escalated turn: its ticket is there, or its conversation
\* is deleted.
LEMMA SendCannedTold ==
  ASSUME TypeOK, NEW t \in Turn, OwnInv(t), Told(t), SendCanned(t)
  PROVE  Told(t)'
<1>1. /\ pc[t] = "settling" /\ UNCHANGED <<pc, conv, final, verdict, status>>
      /\ seen'[t] = seen[t] \cup ({"token"} \cup ({final[t].content} \cap {"handoff"}))
  BY DEF TypeOK, SendCanned, Emit, conversations
<1>2. CASE "handoff" \in seen[t]
  BY <1>1, <1>2 DEF Told
<1>3. CASE "handoff" \notin seen[t] /\ final[t].content = "handoff"
  <2>1. final[t].escalated
    BY <1>1, <1>3 DEF OwnInv, SettledIsVetted, Vetted
  <2>2. verdict[t] = "ticketed" \/ status[conv[t]] = "deleted"
    BY <1>1, <2>1 DEF OwnInv, EscalatedIsTicketed
  <2> QED
    BY <1>1, <2>1, <2>2 DEF Told
<1>4. CASE "handoff" \notin seen[t] /\ final[t].content # "handoff"
  BY <1>1, <1>4 DEF Told
<1> QED
  BY <1>2, <1>3, <1>4

\* What happens to a turn that has told its customer, and to one that has not.
LEMMA OwnTold ==
  ASSUME TypeOK, NEW t \in Turn, OwnInv(t), Told(t), RowsAreNotReborn,
         Open(t) \/ Reject(t) \/ Progress(t) \/ Fail(t) \/ Abort(t)
  PROVE  Told(t)'
<1>1. CASE SendCanned(t)
  BY <1>1, SendCannedTold
<1>2. CASE PersistAnswer(t) \/ StoreInCache(t) \/ Finish(t)
  <2>1. /\ pc[t] \in {"settling", "storing", "closing"} /\ pc'[t] \in {"storing", "closing", "done"}
        /\ UNCHANGED <<conv, final, verdict, status>>
    BY <1>2 DEF TypeOK, PersistAnswer, StoreInCache, Finish, Goto, conversations
  <2>2. "handoff" \in seen'[t] => "handoff" \in seen[t]
    BY <1>2 DEF TypeOK, PersistAnswer, StoreInCache, Finish, Emit, Closing
  <2> QED
    BY <2>1, <2>2 DEF Told
<1>3. CASE Fail(t) \/ Abort(t)
  <2>1. /\ UNCHANGED <<conv, verdict, status>> /\ pc[t] \in Requested \cup Streaming
        /\ \/ pc'[t] \in {"error", "gone"}
           \/ pc'[t] = "failed" /\ pc[t] \in Requested
    BY <1>3 DEF TypeOK, Fail, Abort, Drop, Goto, conversations, Streaming
  <2>2. "handoff" \in seen'[t] => "handoff" \in seen[t]
    BY <1>3 DEF TypeOK, Fail, Abort, Emit
  <2> QED
    BY <2>1, <2>2 DEF Told, Requested
<1>4. CASE \/ Open(t) \/ Reject(t) \/ PersistUser(t) \/ Hit(t) \/ MissOrBypass(t) \/ PersistHit(t)
           \/ Replay(t) \/ Route(t) \/ RouteToChitchat(t) \/ Retrieve(t) \/ Stream(t)
           \/ FinishAnswer(t) \/ Judge(t) \/ Respond(t) \/ RecordRead(t) \/ RecordCommit(t)
  <2>1. pc[t] \notin {"settling", "storing", "closing", "done", "error", "gone"}
    BY <1>4 DEF Open, Reject, PersistUser, Hit, MissOrBypass, PersistHit, Replay, Route,
       RouteToChitchat, Retrieve, Stream, FinishAnswer, Judge, Respond, RecordRead, RecordCommit
  <2>2. CASE Replay(t) \/ Stream(t)
    BY <2>1, <2>2 DEF TypeOK, Told, Replay, Stream, Emit, Closing
  <2>3. CASE ~Replay(t) /\ ~Stream(t)
    <3>1. seen' = seen
      BY <1>4, <2>3 DEF Open, Reject, PersistUser, Hit, MissOrBypass, PersistHit, Route,
         RouteToChitchat, Retrieve, FinishAnswer, Judge, Respond, RecordRead, RecordCommit
    <3> QED
      BY <2>1, <3>1 DEF Told
  <2> QED
    BY <2>2, <2>3
<1> QED
  BY <1>1, <1>2, <1>3, <1>4 DEF Progress

\* Nobody else's step tells a customer anything.
LEMMA OthersSeen ==
  ASSUME TypeOK, NEW t \in Turn, NEW u \in Turn, u # t,
         Open(t) \/ Reject(t) \/ Progress(t) \/ Fail(t) \/ Abort(t)
  PROVE  seen'[u] = seen[u]
<1>1. seen' = seen \/ \E events \in SUBSET Event : Emit(t, events)
  <2>1. CASE Replay(t) \/ Finish(t) \/ Stream(t) \/ SendCanned(t)
    BY <2>1 DEF Replay, Finish, Stream, SendCanned, Closing, Event
  <2>2. CASE Fail(t) \/ Abort(t)
    BY <2>2 DEF Fail, Abort, Event
  <2>3. CASE ~(\/ Replay(t) \/ Finish(t) \/ Stream(t) \/ SendCanned(t) \/ Fail(t) \/ Abort(t))
    BY <2>3 DEF Open, Reject, Progress, PersistUser, Hit, MissOrBypass, PersistHit, Route,
       RouteToChitchat, Retrieve, FinishAnswer, Judge, Respond, RecordRead, RecordCommit,
       PersistAnswer, StoreInCache
  <2> QED
    BY <2>1, <2>2, <2>3
<1> QED
  BY <1>1 DEF TypeOK, Emit

LEMMA ToldStep == TurnInv /\ ToldInv /\ [Next]_vars => ToldInv'
<1> SUFFICES ASSUME TurnInv, ToldInv, [Next]_vars, NEW u \in Turn PROVE Told(u)'
  BY DEF ToldInv
<1>1. TypeOK /\ OthersAdmitted /\ Told(u) /\ \A t \in Turn : OwnInv(t) /\ Admitted(t)
  BY DEF TurnInv, ToldInv, OwnInv
<1>2. CASE UNCHANGED vars
  BY <1>1, <1>2 DEF vars, turnVars, conversations, Told
<1>3. CASE Next
  <2>1. RowsAreNotReborn
    BY <1>1, <1>3, RowsStep
  <2>2. ASSUME NEW t \in Turn, Open(t) \/ Reject(t) \/ Progress(t) \/ Fail(t) \/ Abort(t)
        PROVE  Told(u)'
    <3>1. CASE u = t
      BY <1>1, <2>1, <2>2, <3>1, OwnTold
    <3>2. CASE u # t
      BY <1>1, <2>1, <2>2, <3>2, OtherTurns, OthersSeen, ToldFrame
    <3> QED
      BY <3>1, <3>2
  <2>3. ASSUME \/ \E r \in Rater : RateCommit(r) \/ \E c \in Conv : RateRead(r, c)
               \/ \E s \in Staff : ResolveSelect(s) \/ ResolveCommit(s) \/ \E c \in Conv : ResolveRead(s, c)
               \/ \E c \in Conv : Reply(c)
               \/ ResetDemo
               \/ \E q \in Question : Expire(q)
        PROVE  Told(u)'
    <3>1. Undisturbed(u) /\ seen' = seen
      BY <2>3 DEF RateCommit, RateRead, ResolveSelect, ResolveCommit, ResolveRead, Reply,
         ResetDemo, Expire, turnVars, Undisturbed
    <3> QED
      BY <1>1, <2>1, <3>1, ToldFrame
  <2> QED
    BY <1>3, <2>2, <2>3 DEF Next
<1> QED
  BY <1>2, <1>3

\* A turn that ends as escalated recorded a ticket itself; a customer to whom the text
\* went out that promises a human has it too, unless the conversation is deleted, and
\* then the turn never ends with done.
THEOREM HandoffTicketed == Spec => []HandoffHasTicket
<1>1. Init => ToldInv
  BY DEF Init, ToldInv, Told
<1>2. Spec => []ToldInv
  BY <1>1, ToldStep, TurnInvariant, PTL DEF Spec
<1>3. TurnInv /\ ToldInv => HandoffHasTicket
  BY DEF TurnInv, ToldInv, Told, HandoffHasTicket, EscalatedIsTicketed
<1> QED
  BY <1>2, <1>3, TurnInvariant, PTL

\* A turn that ends as answered was vetted by its own run or by the run that
\* filled the cache.
THEOREM AnswerGrounded == Spec => []AnsweredIsGrounded
<1>1. TurnInv => AnsweredIsGrounded
  BY DEF TurnInv, AnsweredIsGrounded, SettledIsVetted
<1> QED
  BY <1>1, TurnInvariant, PTL

-----------------------------------------------------------------------------
(* The transcript.                                                           *)

\* What was true of the rows of a turn's conversation before a step that leaves
\* the conversation in place.
LEMMA ExistedBefore ==
  ASSUME TypeOK, RowsAreNotReborn, NEW c \in Conv, status[c] # "absent",
         IsRow(status'[c])
  PROVE  Exists(c)
BY DEF TypeOK, RowsAreNotReborn, Exists, IsRow, Status

\* A turn under way keeps its question through every step that keeps the rows,
\* or removes the conversation.
LEMMA KeepsQuestion ==
  ASSUME TypeOK, RowsAreNotReborn, NEW t \in Turn, Admitted(t), QuestionKept(t),
         conv'[t] = conv[t],
         \/ pc'[t] \notin Requested \cup Streaming
         \/ pc'[t] = pc[t]
         \/ pc[t] \in (Requested \cup Streaming) \ {"ensured"},
         messages \subseteq messages' \/ ~IsRow(status'[conv[t]])
  PROVE  QuestionKept(t)'
<1> SUFFICES ASSUME pc'[t] \in (Requested \cup Streaming) \ {"ensured"}, IsRow(status'[conv[t]])
             PROVE  [conv |-> conv[t], turn |-> t, role |-> "user"] \in messages'
  BY DEF QuestionKept, Exists, Row
<1>1. pc[t] \in (Requested \cup Streaming) \ {"ensured"}
  OBVIOUS
<1>2. conv[t] \in Conv /\ status[conv[t]] # "absent"
  BY <1>1 DEF Admitted, Requested, Streaming, Running
<1>3. Exists(conv[t])
  BY <1>2, ExistedBefore
<1> QED
  BY <1>1, <1>3 DEF QuestionKept, Row

\* The steps of a turn that leave the transcript alone.
LEMMA TurnMessages ==
  ASSUME NEW t \in Turn, Open(t) \/ Reject(t) \/ Progress(t) \/ Fail(t) \/ Abort(t)
  PROVE  messages' = messages \/ PersistUser(t) \/ PersistHit(t) \/ PersistAnswer(t)
BY DEF Open, Reject, Progress, Fail, Abort, Drop, Hit, MissOrBypass, Replay, Route,
  RouteToChitchat, Retrieve, Stream, SendCanned, FinishAnswer, Judge, Respond, RecordRead, RecordCommit,
  StoreInCache, Finish, conversations

LEMMA TurnRows ==
  ASSUME NEW t \in Turn, Open(t) \/ Reject(t) \/ Progress(t) \/ Fail(t) \/ Abort(t)
  PROVE  messages \subseteq messages'
BY TurnMessages DEF PersistUser, PersistHit, PersistAnswer, Persist

\* The turn that takes the step.
LEMMA OwnQuestion ==
  ASSUME TypeOK, RowsAreNotReborn, NEW t \in Turn, Admitted(t), QuestionKept(t),
         Open(t) \/ Reject(t) \/ Progress(t) \/ Fail(t) \/ Abort(t)
  PROVE  QuestionKept(t)'
<1>1. CASE Open(t) \/ Reject(t)
  BY <1>1 DEF TypeOK, Open, Reject, Goto, QuestionKept, Requested, Streaming, Running
<1>2. CASE PersistUser(t)
  BY <1>2 DEF PersistUser, Persist, Row, QuestionKept
<1>3. ASSUME Progress(t), ~PersistUser(t)
      PROVE  /\ conv'[t] = conv[t]
             /\ pc[t] \in (Requested \cup Streaming) \ {"ensured"}
  BY <1>3 DEF Progress, Hit, MissOrBypass, PersistHit, Replay, Route, RouteToChitchat,
     Retrieve, Stream, SendCanned, FinishAnswer, Judge, Respond, RecordRead, RecordCommit, PersistAnswer,
     StoreInCache, Finish, Requested, Streaming, Running
<1>4. ASSUME Fail(t) \/ Abort(t)
      PROVE  conv'[t] = conv[t] /\ pc'[t] \notin Requested \cup Streaming
  BY <1>4 DEF TypeOK, Fail, Abort, Drop, Goto, Requested, Streaming, Running
<1> QED
  BY <1>1, <1>2, <1>3, <1>4, TurnRows, KeepsQuestion

LEMMA TranscriptStep ==
  ASSUME TurnInv, TranscriptInv, Next
  PROVE  TranscriptInv'
<1>1. /\ TypeOK /\ OthersAdmitted
      /\ \A t \in Turn : Admitted(t) /\ QuestionKept(t)
  BY DEF TurnInv, TranscriptInv
<1>2. RowsAreNotReborn
  BY <1>1, RowsStep
<1>3. ASSUME NEW t \in Turn, Open(t) \/ Reject(t) \/ Progress(t) \/ Fail(t) \/ Abort(t)
      PROVE  TranscriptInv'
  <2>1. ASSUME NEW u \in Turn, u # t PROVE QuestionKept(u)'
    BY <1>1, <1>2, <1>3, <2>1, OtherTurns, TurnRows, KeepsQuestion DEF Undisturbed
  <2>2. QuestionKept(t)'
    BY <1>1, <1>2, <1>3, OwnQuestion
  <2>3. ASSUME PersistHit(t) \/ PersistAnswer(t) PROVE Row(t, "user") \in messages
    BY <1>1, <2>3 DEF PersistHit, PersistAnswer, Persist, QuestionKept, Requested, Streaming,
       Running
  <2>4. AnswerFollowsQuestion'
    <3>1. \/ messages' = messages
          \/ messages' = messages \cup {Row(t, "user")}
          \/ /\ messages' = messages \cup {Row(t, "assistant")}
             /\ Row(t, "user") \in messages
      BY <1>3, <2>3, TurnMessages DEF PersistUser, PersistHit, PersistAnswer, Persist
    <3>2. AnswerFollowsQuestion
      BY DEF TranscriptInv
    <3> QED
      BY <3>1, <3>2 DEF AnswerFollowsQuestion, Row
  <2> QED
    BY <2>1, <2>2, <2>4 DEF TranscriptInv
<1>4. ASSUME \/ \E r \in Rater : RateCommit(r) \/ \E c \in Conv : RateRead(r, c)
             \/ \E s \in Staff : ResolveSelect(s) \/ ResolveCommit(s) \/ \E c \in Conv : ResolveRead(s, c)
             \/ \E c \in Conv : Reply(c)
             \/ ResetDemo
             \/ \E q \in Question : Expire(q)
      PROVE  TranscriptInv'
  <2>1. /\ pc' = pc /\ conv' = conv
        /\ \/ messages' = messages
           \/ \E c \in Conv : messages' = messages \cup
                               {[conv |-> c, turn |-> NoTurn, role |-> "assistant"]}
           \/ messages' = {} /\ \A c \in Conv : ~IsRow(status'[c])
    BY <1>1, <1>4 DEF RateCommit, RateRead, ResolveSelect, ResolveCommit, ResolveRead, Reply,
       ResetDemo, Expire, turnVars, conversations, TypeOK, Exists, IsRow
  <2>2. ASSUME NEW u \in Turn PROVE QuestionKept(u)'
    <3>1. CASE messages \subseteq messages'
      BY <1>1, <1>2, <2>1, <3>1, KeepsQuestion
    <3>2. CASE \A c \in Conv : ~IsRow(status'[c])
      <4>1. conv[u] \in Conv \/ pc[u] \notin (Requested \cup Streaming)
        BY <1>1 DEF Admitted, Requested, Streaming, Running
      <4> QED
        BY <2>1, <3>2, <4>1 DEF QuestionKept, Exists
    <3> QED
      BY <2>1, <3>1, <3>2
  <2>3. AnswerFollowsQuestion'
    BY <2>1 DEF TranscriptInv, AnswerFollowsQuestion
  <2> QED
    BY <2>2, <2>3 DEF TranscriptInv
<1> QED
  BY <1>3, <1>4 DEF Next

LEMMA TranscriptInvStep ==
  TurnInv /\ TranscriptInv /\ [Next]_vars => TranscriptInv'
<1>1. TranscriptInv /\ UNCHANGED vars => TranscriptInv'
  BY DEF vars, conversations, turnVars, TranscriptInv, AnswerFollowsQuestion, QuestionKept, Exists, Row
<1> QED
  BY <1>1, TranscriptStep

LEMMA InitTranscript == Init => TranscriptInv
BY DEF Init, TranscriptInv, AnswerFollowsQuestion, QuestionKept, Requested, Streaming, Running

\* The transcript never holds an answer without the question it answers, whatever
\* the demo reset deletes between the two.
THEOREM AnswersHaveQuestions == Spec => []AnswerFollowsQuestion
<1>1. Spec => []TranscriptInv
  BY InitTranscript, TranscriptInvStep, TurnInvariant, PTL DEF Spec
<1>2. TranscriptInv => AnswerFollowsQuestion
  BY DEF TranscriptInv
<1> QED
  BY <1>1, <1>2, PTL

-----------------------------------------------------------------------------
(* The ratings.                                                              *)

\* The steps that are not a rating's leave both sides of a rating alone.
LEMMA RatingsUndisturbed ==
  ASSUME Next, \A r \in Rater : ~RateCommit(r) /\ \A c \in Conv : ~RateRead(r, c)
  PROVE  score' = score /\ rater' = rater
<1>1. ASSUME NEW t \in Turn, Open(t) \/ Reject(t) \/ Progress(t) \/ Fail(t) \/ Abort(t)
      PROVE  score' = score /\ rater' = rater
  BY <1>1 DEF Open, Reject, Progress, Fail, Abort, Drop, PersistUser, Hit, MissOrBypass,
     PersistHit, Replay, Route, RouteToChitchat, Retrieve, Stream, SendCanned, FinishAnswer, Judge,
     Respond, RecordRead, RecordCommit, PersistAnswer, StoreInCache, Finish, conversations
<1>2. ASSUME \/ \E s \in Staff : ResolveSelect(s) \/ ResolveCommit(s) \/ \E c \in Conv : ResolveRead(s, c)
             \/ \E c \in Conv : Reply(c)
             \/ ResetDemo
             \/ \E q \in Question : Expire(q)
      PROVE  score' = score /\ rater' = rater
  BY <1>2 DEF ResolveSelect, ResolveCommit, ResolveRead, Reply, ResetDemo, Expire, conversations
<1> QED
  BY <1>1, <1>2 DEF Next

\* A rating stays what it is while the conversation rows only come and go.
LEMMA RatingStays ==
  ASSUME RowsAreNotReborn, OthersAdmitted, TypeOK, ScoreInv, score' = score, rater' = rater
  PROVE  ScoreInv'
<1> SUFFICES ASSUME NEW r \in Rater PROVE Scored(r)'
  BY DEF ScoreInv
<1>1. rater[r].pc # "idle" => rater[r].conv \in Conv
  BY DEF OthersAdmitted
<1>2. ASSUME rater[r].pc # "idle", status[rater[r].conv] # "absent",
             IsRow(status'[rater[r].conv])
      PROVE  Exists(rater[r].conv)
  BY <1>1, <1>2, ExistedBefore
<1> QED
  BY <1>1, <1>2 DEF ScoreInv, Scored, RowsAreNotReborn, Exists

\* widget_csat's existence check.
LEMMA RateReadScored ==
  ASSUME TypeOK, ScoreInv, NEW r \in Rater, NEW c \in Conv, RateRead(r, c)
  PROVE  ScoreInv'
BY DEF TypeOK, RateRead, ScoreInv, Scored, Exists, conversations

\* Its two updates: the score is written by whoever still finds none.
LEMMA RateCommitScored ==
  ASSUME TypeOK, OthersAdmitted, RowsAreNotReborn, ScoreInv, NEW r \in Rater, RateCommit(r)
  PROVE  ScoreInv'
<1> DEFINE c == rater[r].conv
<1>1. c \in Conv /\ rater[r].pc = "checked" /\ status[c] # "absent" /\ status'[c] # "absent"
  BY DEF OthersAdmitted, RateCommit, ScoreInv, Scored, RowsAreNotReborn
<1>2. \A x \in RaterState : /\ [x EXCEPT !.pc = "rated"].conv = x.conv
                            /\ [x EXCEPT !.pc = "rated"].pc = "rated"
                            /\ [x EXCEPT !.pc = "conflict"].conv = x.conv
                            /\ [x EXCEPT !.pc = "conflict"].pc = "conflict"
  BY DEF RaterState
<1>3. \A u \in Rater : rater[u] \in RaterState
  BY DEF TypeOK
<1>4. CASE Unrated(c)
  <2>1. /\ score' = [score EXCEPT ![c] = r]
        /\ rater' = [rater EXCEPT ![r] = [rater[r] EXCEPT !.pc = "rated"]]
    BY <1>4 DEF RateCommit
  <2>2. rater'[r].pc = "rated" /\ rater'[r].conv = c /\ \A u \in Rater \ {r} : rater'[u] = rater[u]
    BY <1>2, <1>3, <2>1 DEF TypeOK
  <2>3. score'[c] = r /\ score[c] = NoRater /\ \A d \in Conv \ {c} : score'[d] = score[d]
    BY <1>1, <1>4, <2>1 DEF TypeOK, Unrated
  <2>4. ASSUME NEW u \in Rater PROVE Scored(u)'
    <3>1. u # NoRater /\ r # NoRater
      BY ConstantsDistinct
    <3>2. rater[u].pc # "idle" => rater[u].conv \in Conv
      BY DEF OthersAdmitted
    <3>3. Scored(u)
      BY DEF ScoreInv
    <3>4. ASSUME rater[u].pc # "idle", status[rater[u].conv] # "absent",
                 IsRow(status'[rater[u].conv])
          PROVE  Exists(rater[u].conv)
      BY <3>2, <3>4, ExistedBefore
    <3> QED
      BY <1>1, <2>2, <2>3, <3>1, <3>2, <3>3, <3>4 DEF Scored, RowsAreNotReborn, Exists
  <2> QED
    BY <2>4 DEF ScoreInv
<1>5. CASE ~Unrated(c)
  <2>1. /\ score' = score /\ status' = status
        /\ rater' = [rater EXCEPT ![r] = [rater[r] EXCEPT !.pc = "conflict"]]
    BY <1>5 DEF RateCommit
  <2>2. /\ rater'[r].pc = "conflict" /\ rater'[r].conv = c
        /\ \A u \in Rater \ {r} : rater'[u] = rater[u]
    BY <1>2, <1>3, <2>1 DEF TypeOK
  <2>3. score[c] # NoRater \/ ~Exists(c)
    BY <1>5 DEF Unrated
  <2> QED
    BY <1>1, <2>1, <2>2, <2>3 DEF ScoreInv, Scored, Exists
<1> QED
  BY <1>4, <1>5

LEMMA ScoreInvStep == TurnInv /\ ScoreInv /\ [Next]_vars => ScoreInv'
<1> SUFFICES ASSUME TurnInv, ScoreInv, [Next]_vars PROVE ScoreInv'
  OBVIOUS
<1>1. TypeOK /\ OthersAdmitted /\ \A t \in Turn : Admitted(t)
  BY DEF TurnInv
<1>2. CASE Next
  <2>1. RowsAreNotReborn
    BY <1>1, <1>2, RowsStep
  <2> QED
    BY <1>1, <1>2, <2>1, RatingsUndisturbed, RatingStays, RateReadScored, RateCommitScored
<1>3. CASE UNCHANGED vars
  BY <1>3 DEF vars, conversations, ScoreInv, Scored, Exists
<1> QED
  BY <1>2, <1>3

LEMMA InitScore == Init => ScoreInv
BY ConstantsDistinct DEF Init, ScoreInv, Scored

\* Of all the ratings of a conversation that raced past the check exactly one is
\* stored, and every visitor that was refused was refused for somebody else's.
THEOREM RatedOnce == Spec => []ScoredOnce
<1>1. Spec => []ScoreInv
  BY InitScore, ScoreInvStep, TurnInvariant, PTL DEF Spec
<1>2. TurnInv /\ ScoreInv => ScoredOnce
  <2> SUFFICES ASSUME TurnInv, ScoreInv, NEW r \in Rater, rater[r].pc = "conflict",
                      Exists(rater[r].conv)
               PROVE  score[rater[r].conv] \in Rater \ {r}
    BY DEF ScoreInv, Scored, ScoredOnce
  <2>1. rater[r].conv \in Conv /\ score[rater[r].conv] \in Rater
    BY DEF TurnInv, OthersAdmitted, TypeOK, ScoreInv, Scored
  <2>2. score[rater[r].conv] # r
    BY <2>1 DEF ScoreInv, Scored
  <2> QED
    BY <2>1, <2>2
<1> QED
  BY <1>1, <1>2, TurnInvariant, PTL

-----------------------------------------------------------------------------
(* The escalated queue.                                                      *)

LEMMA ResolvedIsNotPending ==
  ASSUME NEW e \in EscalationRow
  PROVE  /\ Resolved(e).conv = e.conv /\ Resolved(e).turn = e.turn
         /\ Resolved(e).status = "resolved"
BY DEF EscalationRow, Resolved

\* No other step takes a conversation out of the queue ...
LEMMA OnlyResolutionCloses ==
  ASSUME TypeOK, OthersAdmitted, NEW c \in Conv, status[c] = "escalated", status'[c] = "closed", Next
  PROVE  \E s \in Staff : ResolveCommit(s) /\ desk[s].conv = c
<1>1. ASSUME NEW t \in Turn, Open(t) PROVE FALSE
  BY <1>1 DEF TypeOK, Open
<1>2. ASSUME NEW t \in Turn, RecordCommit(t) PROVE FALSE
  BY <1>2 DEF TypeOK, RecordCommit, AfterUpdate, Exists, IsRow
<1>3. ASSUME NEW t \in Turn, Reject(t) \/ Progress(t) \/ Fail(t) \/ Abort(t)
      PROVE  status' = status \/ RecordCommit(t)
  BY <1>3 DEF Reject, Progress, Fail, Abort, Drop, PersistUser, Hit, MissOrBypass, PersistHit,
     Replay, Route, RouteToChitchat, Retrieve, Stream, SendCanned, FinishAnswer, Judge, Respond,
     RecordRead, PersistAnswer, StoreInCache, Finish, conversations
<1>4. ASSUME NEW r \in Rater, RateCommit(r) \/ \E d \in Conv : RateRead(r, d) PROVE FALSE
  BY <1>4 DEF TypeOK, RateCommit, RateRead, AfterRating, conversations
<1>5. ASSUME NEW s \in Staff, ResolveSelect(s) \/ \E d \in Conv : ResolveRead(s, d) PROVE FALSE
  BY <1>5 DEF ResolveSelect, ResolveRead, conversations
<1>6. ASSUME NEW s \in Staff, ResolveCommit(s) PROVE desk[s].conv = c
  BY <1>6 DEF TypeOK, ResolveCommit
<1>7. CASE ResetDemo
  BY <1>7 DEF TypeOK, ResetDemo, Exists
<1>8. ASSUME NEW d \in Conv, Reply(d) PROVE status' = status
  BY <1>8 DEF Reply
<1>9. ASSUME NEW q \in Question, Expire(q) PROVE status' = status
  BY <1>9 DEF Expire, conversations
<1> QED
  BY <1>1, <1>2, <1>3, <1>4, <1>5, <1>6, <1>7, <1>8, <1>9 DEF Next

\* ... and a resolution takes along the tickets that it found.
LEMMA ResolutionSettles ==
  ASSUME TypeOK, NEW s \in Staff, ResolveCommit(s), status'[desk[s].conv] # status[desk[s].conv]
  PROVE  /\ desk[s].pc = "resolving" /\ desk'[s].pc = "idle"
         /\ desk[s].tickets \cap {e.turn : e \in
              {f \in escalations' : f.conv = desk[s].conv /\ f.status = "pending"}} = {}
<1>1. desk[s].pc = "resolving" /\ desk'[s].pc = "idle"
  BY DEF TypeOK, ResolveCommit, Away
<1>2. escalations' = {IF e.conv = desk[s].conv /\ e.turn \in desk[s].tickets
                      THEN Resolved(e) ELSE e : e \in escalations}
  BY DEF ResolveCommit
<1>3. ASSUME NEW f \in escalations', f.conv = desk[s].conv, f.status = "pending",
             f.turn \in desk[s].tickets
      PROVE  FALSE
  <2>1. PICK e \in escalations : f = IF e.conv = desk[s].conv /\ e.turn \in desk[s].tickets
                                     THEN Resolved(e) ELSE e
    BY <1>2
  <2>2. e \in EscalationRow
    BY DEF TypeOK
  <2> QED
    BY <1>3, <2>1, <2>2, ResolvedIsNotPending
<1> QED
  BY <1>1, <1>3

LEMMA QueueStep ==
  TurnInv /\ [Next]_vars =>
    [\A c \in Conv : status[c] = "escalated" /\ status'[c] = "closed" =>
       \E s \in Staff : /\ desk[s].pc = "resolving" /\ desk'[s].pc = "idle" /\ desk[s].conv = c
                        /\ desk[s].tickets \cap {e.turn : e \in
                             {f \in escalations' : f.conv = c /\ f.status = "pending"}} = {}]_vars
<1> SUFFICES ASSUME TurnInv, Next, NEW c \in Conv, status[c] = "escalated",
                    status'[c] = "closed"
             PROVE  \E s \in Staff :
                      /\ desk[s].pc = "resolving" /\ desk'[s].pc = "idle" /\ desk[s].conv = c
                      /\ desk[s].tickets \cap {e.turn : e \in
                           {f \in escalations' : f.conv = c /\ f.status = "pending"}} = {}
  OBVIOUS
<1>1. TypeOK /\ OthersAdmitted
  BY DEF TurnInv
<1>2. PICK s \in Staff : ResolveCommit(s) /\ desk[s].conv = c
  BY <1>1, OnlyResolutionCloses
<1>3. /\ desk[s].pc = "resolving" /\ desk'[s].pc = "idle"
      /\ desk[s].tickets \cap {e.turn : e \in
           {f \in escalations' : f.conv = desk[s].conv /\ f.status = "pending"}} = {}
  BY <1>1, <1>2, ResolutionSettles
<1> QED
  BY <1>2, <1>3

\* Only a resolution closes an escalated conversation, and it settles the tickets
\* that it found pending: a rating never takes work away from the inbox.
THEOREM QueueLeft == Spec => QueueLeftByResolution
BY TurnInvariant, QueueStep, PTL DEF Spec, QueueLeftByResolution

\* While a resolution that will close its conversation holds the lock, the tickets
\* that come to be pending are those of turns that found the conversation queued:
\* behind PendingIsQueued.
Taken(s) ==
  desk[s].pc = "resolving" /\ desk[s].saw # "closed" =>
    \A e \in escalations :
      e.conv = desk[s].conv /\ e.status = "pending" /\ ~e.queued => e.turn \in desk[s].tickets
QueueInv == PendingIsQueued /\ \A s \in Staff : Taken(s)

LEMMA InitQueue == Init => QueueInv
BY DEF Init, QueueInv, PendingIsQueued, Taken

\* Steps that open no ticket and leave the desk alone.
LEMMA QueueUndisturbed ==
  ASSUME QueueInv, escalations' = escalations, desk' = desk,
         \A c \in Conv : status[c] = "escalated" => status'[c] = "escalated", TypeOK
  PROVE  QueueInv'
BY DEF QueueInv, PendingIsQueued, Taken, TypeOK, EscalationRow

LEMMA RecordCommitQueue ==
  ASSUME TypeOK, QueueInv, NEW t \in Turn, Admitted(t), RecordCommit(t)
  PROVE  QueueInv'
<1>1. /\ conv[t] \in Conv /\ desk' = desk /\ escalations' = escalations \cup {Ticket(t)}
      /\ status' = [status EXCEPT ![conv[t]] = AfterUpdate(@, saw[t], "escalated")]
      /\ saw[t] = "escalated" \/ ~Locked(conv[t])
  BY DEF Admitted, RecordCommit
<1>2. /\ Ticket(t).conv = conv[t] /\ Ticket(t).queued = (saw[t] = "escalated")
      /\ \A c \in Conv : status[c] = "escalated" => status'[c] = "escalated"
      /\ ~Ticket(t).queued => status'[conv[t]] = "escalated"
  BY <1>1 DEF Ticket, TypeOK, AfterUpdate
<1>3. PendingIsQueued'
  BY <1>1, <1>2 DEF QueueInv, PendingIsQueued, TypeOK, EscalationRow
<1>4. ASSUME NEW s \in Staff PROVE Taken(s)'
  <2> SUFFICES ASSUME desk[s].pc = "resolving", desk[s].saw # "closed", NEW e \in escalations',
                      e.conv = desk[s].conv, e.status = "pending", ~e.queued
               PROVE  e.turn \in desk[s].tickets
    BY <1>1 DEF Taken
  <2>1. ASSUME e = Ticket(t) PROVE FALSE
    <3>1. desk[s].conv = conv[t] /\ saw[t] # "escalated"
      BY <1>2, <2>1
    <3>2. Locked(conv[t])
      BY <3>1 DEF Locked
    <3> QED
      BY <1>1, <3>1, <3>2
  <2> QED
    BY <1>1, <2>1 DEF QueueInv, Taken
<1> QED
  BY <1>3, <1>4 DEF QueueInv

LEMMA ResolveReadQueue ==
  ASSUME TypeOK, QueueInv, NEW s \in Staff, NEW c \in Conv, ResolveRead(s, c)
  PROVE  QueueInv'
<1>1. desk'[s].pc = "loaded" /\ \A u \in Staff \ {s} : desk'[u] = desk[u]
  BY DEF TypeOK, ResolveRead, Away
<1> QED
  BY <1>1 DEF QueueInv, PendingIsQueued, Taken, ResolveRead, conversations

LEMMA ResolveSelectQueue ==
  ASSUME TypeOK, QueueInv, NEW s \in Staff, ResolveSelect(s)
  PROVE  QueueInv'
<1>1. escalations' = escalations /\ status' = status /\ \A u \in Staff \ {s} : desk'[u] = desk[u]
  BY DEF TypeOK, ResolveSelect, conversations
<1>2. Taken(s)'
  <2>1. CASE Exists(desk[s].conv)
    <3>1. desk'[s].conv = desk[s].conv /\ desk'[s].tickets = PendingOf(desk[s].conv)
      BY <2>1 DEF TypeOK, DeskState, ResolveSelect
    <3> QED
      BY <1>1, <3>1 DEF Taken, PendingOf
  <2>2. CASE ~Exists(desk[s].conv)
    <3>1. desk'[s].pc = "idle"
      BY <2>2 DEF TypeOK, ResolveSelect, Away
    <3> QED
      BY <3>1 DEF Taken
  <2> QED
    BY <2>1, <2>2
<1>3. \A u \in Staff \ {s} : Taken(u)'
  BY <1>1 DEF QueueInv, Taken
<1> QED
  BY <1>1, <1>2, <1>3 DEF QueueInv, PendingIsQueued

LEMMA ResolveCommitQueue ==
  ASSUME TypeOK, OthersAdmitted, QueueInv, NEW s \in Staff, ResolveCommit(s)
  PROVE  QueueInv'
<1>1. /\ desk'[s].pc = "idle" /\ desk[s].pc = "resolving" /\ desk[s].conv \in Conv
      /\ \A u \in Staff \ {s} : desk'[u] = desk[u]
  BY DEF TypeOK, OthersAdmitted, ResolveCommit, Away
<1>2. CASE UNCHANGED <<status, escalations>>
  BY <1>1, <1>2 DEF QueueInv, PendingIsQueued, Taken
<1>3. CASE /\ status' = [status EXCEPT ![desk[s].conv] = AfterUpdate(@, desk[s].saw, "closed")]
           /\ escalations' = {IF e.conv = desk[s].conv /\ e.turn \in desk[s].tickets
                              THEN Resolved(e) ELSE e : e \in escalations}
  <2>1. \A f \in escalations' : f.status = "pending" =>
          f \in escalations /\ ~(f.conv = desk[s].conv /\ f.turn \in desk[s].tickets)
    <3> SUFFICES ASSUME NEW f \in escalations', f.status = "pending"
                 PROVE  f \in escalations /\ ~(f.conv = desk[s].conv /\ f.turn \in desk[s].tickets)
      OBVIOUS
    <3>1. PICK e \in escalations : f = IF e.conv = desk[s].conv /\ e.turn \in desk[s].tickets
                                       THEN Resolved(e) ELSE e
      BY <1>3
    <3>2. Resolved(e).status = "resolved"
      BY ResolvedIsNotPending DEF TypeOK
    <3> QED
      BY <3>1, <3>2
  <2>2. PendingIsQueued'
    <3> SUFFICES ASSUME NEW f \in escalations', f.status = "pending", ~f.queued
                 PROVE  status'[f.conv] = "escalated"
      BY DEF PendingIsQueued
    <3>1. f \in escalations /\ ~(f.conv = desk[s].conv /\ f.turn \in desk[s].tickets)
      BY <2>1
    <3>2. f.conv \in Conv /\ status[f.conv] = "escalated"
      BY <3>1 DEF QueueInv, PendingIsQueued, TypeOK, EscalationRow
    <3>3. f.conv # desk[s].conv \/ desk[s].saw = "closed"
      BY <1>1, <3>1 DEF QueueInv, Taken
    <3> QED
      BY <1>1, <1>3, <3>2, <3>3 DEF TypeOK, AfterUpdate
  <2>3. \A u \in Staff \ {s} : Taken(u)'
    BY <1>1, <2>1 DEF QueueInv, Taken
  <2>4. Taken(s)'
    BY <1>1 DEF Taken
  <2> QED
    BY <2>2, <2>3, <2>4 DEF QueueInv
<1> QED
  BY <1>2, <1>3 DEF ResolveCommit

LEMMA QueueInvStep == TurnInv /\ QueueInv /\ [Next]_vars => QueueInv'
<1> SUFFICES ASSUME TurnInv, QueueInv, [Next]_vars PROVE QueueInv'
  OBVIOUS
<1>1. TypeOK /\ OthersAdmitted /\ \A t \in Turn : Admitted(t)
  BY DEF TurnInv
<1>2. ASSUME NEW t \in Turn, Open(t) PROVE QueueInv'
  <2>1. \A c \in Conv : status[c] = "escalated" => status'[c] = "escalated"
    BY <1>1, <1>2 DEF TypeOK, Open
  <2> QED
    BY <1>1, <1>2, <2>1, QueueUndisturbed DEF Open
<1>3. ASSUME NEW t \in Turn, Reject(t) \/ Progress(t) \/ Fail(t) \/ Abort(t) PROVE QueueInv'
  <2>1. (escalations' = escalations /\ status' = status /\ desk' = desk) \/ RecordCommit(t)
    BY <1>3 DEF Reject, Progress, Fail, Abort, Drop, PersistUser, Hit, MissOrBypass, PersistHit,
       Replay, Route, RouteToChitchat, Retrieve, Stream, SendCanned, FinishAnswer, Judge, Respond,
       RecordRead, PersistAnswer, StoreInCache, Finish, conversations
  <2> QED
    BY <1>1, <2>1, QueueUndisturbed, RecordCommitQueue
<1>4. ASSUME NEW r \in Rater, RateCommit(r) \/ \E d \in Conv : RateRead(r, d) PROVE QueueInv'
  <2>1. /\ escalations' = escalations /\ desk' = desk
        /\ \A c \in Conv : status[c] = "escalated" => status'[c] = "escalated"
    BY <1>1, <1>4 DEF TypeOK, RateCommit, RateRead, AfterRating, conversations
  <2> QED
    BY <1>1, <2>1, QueueUndisturbed
<1>5. ASSUME NEW s \in Staff,
             ResolveSelect(s) \/ ResolveCommit(s) \/ \E c \in Conv : ResolveRead(s, c)
      PROVE  QueueInv'
  BY <1>1, <1>5, ResolveReadQueue, ResolveSelectQueue, ResolveCommitQueue
<1>6. ASSUME ResetDemo PROVE QueueInv'
  BY <1>6 DEF ResetDemo, QueueInv, PendingIsQueued, Taken
<1>7. ASSUME \/ \E d \in Conv : Reply(d)
             \/ \E q \in Question : Expire(q)
             \/ UNCHANGED vars
      PROVE  QueueInv'
  <2>1. escalations' = escalations /\ status' = status /\ desk' = desk
    BY <1>7 DEF Reply, Expire, vars, conversations
  <2> QED
    BY <1>1, <2>1, QueueUndisturbed
<1> QED
  BY <1>2, <1>3, <1>4, <1>5, <1>6, <1>7 DEF Next

\* A pending ticket is off the inbox queue only if its turn had found the conversation in
\* the queue: no other race of turns, ratings, resolutions and resets hides one.
THEOREM PendingQueued == Spec => []PendingIsQueued
<1>1. Spec => []QueueInv
  BY InitQueue, QueueInvStep, TurnInvariant, PTL DEF Spec
<1>2. QueueInv => PendingIsQueued
  BY DEF QueueInv
<1> QED
  BY <1>1, <1>2, PTL

\* A handoff reaches the inbox: whoever is told of it has a ticket or a deleted
\* conversation, who is told that the turn is done has a ticket, and a pending ticket is
\* where staff look for it, but for that one race.
THEOREM HandoffReaches == Spec => []HandoffReachesInbox
<1>1. HandoffHasTicket /\ PendingIsQueued => HandoffReachesInbox
  BY DEF HandoffReachesInbox
<1> QED
  BY <1>1, HandoffTicketed, PendingQueued, PTL

-----------------------------------------------------------------------------
(* The promise: ChatTurn implements SupportDesk.                             *)

Outcomes == [t \in Turn |-> Outcome(t)]

\* Whatever was approved for a question stays so.
ApprovalsStand ==
  \A q \in Question : ApprovedFor(q) => ApprovedFor(q)'

LEMMA PromiseInit == Init => Promise!DeskInit /\ PromiseInv
BY DEF Init, Promise!DeskInit, Outcome, Ended, PromiseInv, Decided

\* Outcomes are those of the phases.
LEMMA OutcomeStays ==
  ASSUME NEW t \in Turn, pc[t] \notin Ended, pc'[t] \notin Ended
  PROVE  Outcome(t)' = Outcome(t)
BY DEF Outcome, Ended

LEMMA OutcomeUndisturbed ==
  ASSUME NEW t \in Turn, Undisturbed(t)
  PROVE  Outcome(t)' = Outcome(t)
BY DEF Outcome, Undisturbed, Ended

LEMMA OnlyOutcome ==
  ASSUME TypeOK, NEW t \in Turn, \A u \in Turn \ {t} : Undisturbed(u)
  PROVE  Outcomes' = [Outcomes EXCEPT ![t] = Outcome(t)']
BY OutcomeUndisturbed DEF Outcomes

\* A turn that neither decides nor ends does nothing the desk would see.
LEMMA Unseen ==
  ASSUME TypeOK, NEW t \in Turn, \A u \in Turn \ {t} : Undisturbed(u),
         pc[t] \notin Ended, pc'[t] \notin Ended
  PROVE  UNCHANGED Outcomes
BY OutcomeUndisturbed, OutcomeStays DEF Outcomes

\* The last step of a turn.
LEMMA Closes ==
  ASSUME TypeOK, NEW t \in Turn, \A u \in Turn \ {t} : Undisturbed(u),
         pc[t] \notin Ended, UNCHANGED <<question, verdict>>,
         \/ pc'[t] \in Ended \ {"done"}
         \/ pc'[t] = "done" /\ final'[t].escalated /\ verdict[t] = "ticketed"
         \/ /\ pc'[t] = "done" /\ ~final'[t].escalated
            /\ verdict[t] # "ticketed" /\ ApprovedFor(question[t])
  PROVE  Promise!DeskNext
<1>1. Outcomes[t] = "none"
  BY DEF Outcomes, Outcome, Ended
<1>2. Outcomes' = [Outcomes EXCEPT ![t] = Outcome(t)']
  BY OnlyOutcome
<1>3. CASE pc'[t] \in Ended \ {"done"}
  <2>1. Outcome(t)' = "dropped"
    BY <1>3 DEF Outcome, Ended
  <2>2. Promise!Close(t, "dropped")
    BY <1>1, <1>2, <2>1 DEF Promise!Close, Outcomes
  <2> QED
    BY <2>2 DEF Promise!DeskNext
<1>4. CASE pc'[t] = "done" /\ final'[t].escalated /\ verdict[t] = "ticketed"
  <2>1. Outcome(t)' = "handed_off"
    BY <1>4 DEF Outcome
  <2>2. Promise!Close(t, "handed_off")
    BY <1>1, <1>2, <2>1 DEF Promise!Close, Outcomes
  <2> QED
    BY <1>4, <2>2 DEF Promise!DeskNext
<1>5. CASE /\ pc'[t] = "done" /\ ~final'[t].escalated
           /\ verdict[t] # "ticketed" /\ ApprovedFor(question[t])
  <2>1. Outcome(t)' = "answered"
    BY <1>5 DEF Outcome
  <2>2. Promise!Close(t, "answered") /\ Promise!AnswerIsApproved(t)
    BY <1>1, <1>2, <1>5, <2>1 DEF Promise!Close, Promise!AnswerIsApproved, Outcomes, ApprovedFor
  <2> QED
    BY <2>2 DEF Promise!DeskNext
<1> QED
  BY <1>3, <1>4, <1>5

\* The desk's own decision.
LEMMA Decides ==
  ASSUME TypeOK, NEW t \in Turn, \A u \in Turn \ {t} : Undisturbed(u),
         pc[t] \notin Ended, pc'[t] \notin Ended, UNCHANGED question,
         question[t] # NoQuestion, verdict[t] = "none",
         NEW v \in {"approved", "ticketed"}, verdict' = [verdict EXCEPT ![t] = v]
  PROVE  Promise!DeskNext
<1>1. UNCHANGED Outcomes /\ Outcomes[t] = "none"
  BY Unseen DEF Outcomes, Outcome, Ended
<1>2. Promise!Decide(t, v)
  BY <1>1 DEF Promise!Decide, Outcomes
<1> QED
  BY <1>2 DEF Promise!DeskNext

LEMMA RequestPromised ==
  ASSUME TypeOK, PromiseInv, NEW t \in Turn, Open(t) \/ Reject(t),
         \A u \in Turn \ {t} : Undisturbed(u)
  PROVE  Promise!DeskNext
<1>1. pc[t] = "idle" /\ question[t] = NoQuestion
  BY DEF PromiseInv, Decided, Open, Reject
<1>2. CASE Open(t)
  <2>1. UNCHANGED Outcomes
    BY <1>1, <1>2, Unseen DEF TypeOK, Open, Goto, Ended
  <2>2. PICK q \in Question : question' = [question EXCEPT ![t] = q]
    BY <1>2 DEF Open
  <2>3. Promise!Ask(t, q)
    BY <1>1, <1>2, <2>1, <2>2 DEF Promise!Ask, Open, Outcomes
  <2> QED
    BY <2>3 DEF Promise!DeskNext
<1>3. CASE Reject(t)
  <2>1. pc'[t] \in Ended \ {"done"} /\ UNCHANGED <<question, verdict>> /\ pc[t] \notin Ended
    BY <1>1, <1>3 DEF TypeOK, Reject, Goto, Ended
  <2> QED
    BY <2>1, Closes
<1> QED
  BY <1>2, <1>3

LEMMA RunPromised ==
  ASSUME TurnInv, PromiseInv, NEW t \in Turn, Progress(t) \/ Fail(t) \/ Abort(t),
         \A u \in Turn \ {t} : Undisturbed(u)
  PROVE  Promise!DeskNext \/ UNCHANGED <<question, verdict, Outcomes>>
<1>1. TypeOK /\ Decided(t) /\ Admitted(t) /\ EscalatedIsTicketed(t) /\ SettledIsVetted(t)
  BY DEF TurnInv, PromiseInv
<1>2. question[t] # NoQuestion \/ pc[t] \in {"idle", "rejected"}
  BY <1>1, ConstantsDistinct DEF Admitted
<1>3. CASE RouteToChitchat(t) \/ Respond(t)
  <2>1. /\ pc[t] \in {"routing", "responding"} /\ pc'[t] = "settling"
        /\ verdict' = [verdict EXCEPT ![t] = "approved"] /\ UNCHANGED question
    BY <1>1, <1>3 DEF TypeOK, RouteToChitchat, Respond, Settle, Goto
  <2>2. verdict[t] = "none"
    BY <1>1, <2>1 DEF Decided, Running
  <2> QED
    BY <1>1, <1>2, <2>1, <2>2, Decides DEF Ended
<1>4. CASE RecordCommit(t)
  <2>1. /\ pc[t] = "recording" /\ pc'[t] = "settling"
        /\ verdict' = [verdict EXCEPT ![t] = "ticketed"] /\ UNCHANGED question
    BY <1>1, <1>4 DEF TypeOK, RecordCommit, Settle, Goto
  <2>2. verdict[t] = "none"
    BY <1>1, <2>1 DEF Decided, Running
  <2> QED
    BY <1>1, <1>2, <2>1, <2>2, Decides DEF Ended
<1>5. CASE Replay(t)
  <2>1. /\ pc[t] = "replaying" /\ pc'[t] = "done" /\ final' = final
        /\ UNCHANGED <<question, verdict>>
    BY <1>1, <1>5 DEF TypeOK, Replay, Goto
  <2>2. ~final[t].escalated /\ verdict[t] = "none" /\ ApprovedFor(question[t])
    BY <1>1, <2>1 DEF Decided, SettledIsVetted
  <2> QED
    BY <1>1, <2>1, <2>2, Closes DEF Ended
<1>6. CASE Finish(t)
  <2>1. /\ pc[t] = "closing" /\ pc'[t] = "done" /\ final' = final
        /\ UNCHANGED <<question, verdict>>
    BY <1>1, <1>6 DEF TypeOK, Finish, Goto
  <2>2. \/ final[t].escalated /\ verdict[t] = "ticketed"
        \/ ~final[t].escalated /\ verdict[t] = "approved"
    BY <1>1, <2>1 DEF Decided, EscalatedIsTicketed
  <2>3. verdict[t] = "approved" => ApprovedFor(question[t])
    BY DEF ApprovedFor
  <2> QED
    BY <1>1, <2>1, <2>2, <2>3, Closes DEF Ended
<1>7. CASE Fail(t) \/ Abort(t)
  <2>1. /\ pc[t] \notin Ended /\ pc'[t] \in Ended \ {"done"}
        /\ UNCHANGED <<question, verdict>>
    BY <1>1, <1>7 DEF TypeOK, Fail, Abort, Drop, Goto, Ended, Requested, Streaming, Running
  <2> QED
    BY <1>1, <2>1, Closes
<1>8. CASE \/ PersistUser(t) \/ Hit(t) \/ MissOrBypass(t) \/ PersistHit(t) \/ Route(t)
           \/ Retrieve(t) \/ Stream(t) \/ FinishAnswer(t) \/ Judge(t) \/ RecordRead(t)
           \/ SendCanned(t) \/ PersistAnswer(t) \/ StoreInCache(t)
  <2>1. pc[t] \notin Ended /\ UNCHANGED <<question, verdict>>
    BY <1>8 DEF PersistUser, Hit, MissOrBypass, PersistHit, Route, Retrieve, Stream, SendCanned, FinishAnswer,
       Judge, RecordRead, PersistAnswer, StoreInCache, Ended
  <2>2. pc'[t] \notin Ended
    BY <1>1, <1>8 DEF TypeOK, PersistUser, Hit, MissOrBypass, PersistHit, Route, Retrieve, Stream, SendCanned,
       FinishAnswer, Judge, Gate, RecordRead, Settle, PersistAnswer, StoreInCache, Goto, Ended
  <2> QED
    BY <1>1, <2>1, <2>2, Unseen
<1> QED
  BY <1>3, <1>4, <1>5, <1>6, <1>7, <1>8 DEF Progress

LEMMA PromiseStep ==
  TurnInv /\ PromiseInv /\ [Next]_vars => [Promise!DeskNext]_(Promise!deskVars)
<1> SUFFICES ASSUME TurnInv, PromiseInv, [Next]_vars
             PROVE  Promise!DeskNext \/ UNCHANGED <<question, verdict, Outcomes>>
  BY DEF Promise!deskVars, Outcomes
<1>1. CASE UNCHANGED vars
  BY <1>1 DEF vars, turnVars, Outcomes, Outcome, Ended
<1>2. ASSUME NEW t \in Turn, Open(t) \/ Reject(t) \/ Progress(t) \/ Fail(t) \/ Abort(t)
      PROVE  Promise!DeskNext \/ UNCHANGED <<question, verdict, Outcomes>>
  <2>1. TypeOK /\ \A u \in Turn \ {t} : Undisturbed(u)
    BY <1>2, OtherTurns DEF TurnInv
  <2> QED
    BY <1>2, <2>1, RequestPromised, RunPromised
<1>3. ASSUME \/ \E r \in Rater : RateCommit(r) \/ \E c \in Conv : RateRead(r, c)
             \/ \E s \in Staff : ResolveSelect(s) \/ ResolveCommit(s) \/ \E c \in Conv : ResolveRead(s, c)
             \/ \E c \in Conv : Reply(c)
             \/ ResetDemo
             \/ \E q \in Question : Expire(q)
      PROVE  UNCHANGED <<question, verdict, Outcomes>>
  <2>1. UNCHANGED turnVars
    BY <1>3 DEF RateCommit, RateRead, ResolveSelect, ResolveCommit, ResolveRead, Reply,
       ResetDemo, Expire
  <2> QED
    BY <2>1 DEF turnVars, Outcomes, Outcome, Ended
<1> QED
  BY <1>1, <1>2, <1>3 DEF Next

\* An approval is given once, at the end of a run, for the question the turn keeps.
LEMMA ApprovalsStep ==
  ASSUME TypeOK, \A t \in Turn : Decided(t), Next
  PROVE  ApprovalsStand
<1>1. ASSUME NEW t \in Turn, Open(t) \/ Reject(t) \/ Progress(t) \/ Fail(t) \/ Abort(t),
             verdict[t] = "approved"
      PROVE  verdict'[t] = "approved" /\ question'[t] = question[t]
  <2>1. CASE Open(t) \/ RecordCommit(t)
    BY <1>1, <2>1 DEF Open, RecordCommit, Decided, Running
  <2>2. CASE RouteToChitchat(t) \/ Respond(t)
    BY <2>2 DEF TypeOK, RouteToChitchat, Respond
  <2>3. \/ Open(t) \/ RecordCommit(t) \/ RouteToChitchat(t) \/ Respond(t)
        \/ verdict' = verdict /\ question' = question
    BY <1>1 DEF Reject, Progress, Fail, Abort, Drop, PersistUser, Hit, MissOrBypass, PersistHit,
       Replay, Route, Retrieve, Stream, SendCanned, FinishAnswer, Judge, RecordRead, PersistAnswer,
       StoreInCache, Finish
  <2> QED
    BY <1>1, <2>1, <2>2, <2>3
<1>2. ASSUME NEW t \in Turn, Open(t) \/ Reject(t) \/ Progress(t) \/ Fail(t) \/ Abort(t)
      PROVE  ApprovalsStand
  <2>1. \A u \in Turn : verdict[u] = "approved" =>
          verdict'[u] = "approved" /\ question'[u] = question[u]
    BY <1>1, <1>2, OtherTurns DEF Undisturbed
  <2> QED
    BY <2>1 DEF ApprovalsStand, ApprovedFor
<1>3. ASSUME \/ \E r \in Rater : RateCommit(r) \/ \E c \in Conv : RateRead(r, c)
             \/ \E s \in Staff : ResolveSelect(s) \/ ResolveCommit(s) \/ \E c \in Conv : ResolveRead(s, c)
             \/ \E c \in Conv : Reply(c)
             \/ ResetDemo
             \/ \E q \in Question : Expire(q)
      PROVE  UNCHANGED <<question, verdict>>
  BY <1>3 DEF RateCommit, RateRead, ResolveSelect, ResolveCommit, ResolveRead, Reply,
     ResetDemo, Expire, turnVars
<1>4. UNCHANGED <<question, verdict>> => ApprovalsStand
  BY DEF ApprovalsStand, ApprovedFor
<1> QED
  BY <1>2, <1>3, <1>4 DEF Next

LEMMA DecidedFrame ==
  ASSUME NEW u \in Turn, Admitted(u), Decided(u), Undisturbed(u), ApprovalsStand
  PROVE  Decided(u)'
<1>1. ASSUME NEW q \in Question, q = question[u], pc[u] \in {"hit", "replaying"}
      PROVE  ApprovedFor(q)'
  BY <1>1 DEF Decided, ApprovalsStand
<1>2. question[u] \in Question \/ pc[u] \notin {"hit", "replaying"}
  BY DEF Admitted
<1>3. pc'[u] = pc[u] /\ question'[u] = question[u]
  BY DEF Undisturbed
<1>4. (pc[u] \in {"hit", "replaying"} => ApprovedFor(question[u]))'
  BY <1>1, <1>2, <1>3 DEF ApprovedFor
<1> QED
  BY <1>4 DEF Decided, Undisturbed, Requested, Running

\* The turn that takes the step.
LEMMA DecidedOwn ==
  ASSUME TurnInv, PromiseInv, ApprovalsStand, NEW t \in Turn,
         Open(t) \/ Reject(t) \/ Progress(t) \/ Fail(t) \/ Abort(t)
  PROVE  Decided(t)'
<1>1. /\ TypeOK /\ Decided(t) /\ Admitted(t)
  BY DEF TurnInv, PromiseInv
<1>2. CASE Open(t) \/ Reject(t)
  BY <1>1, <1>2 DEF TypeOK, Open, Reject, Goto, Decided, Requested, Running
<1>3. CASE Fail(t) \/ Abort(t)
  BY <1>1, <1>3 DEF TypeOK, Fail, Abort, Drop, Goto, Decided, Requested, Running
<1>4. CASE Hit(t)
  <2>1. pc[t] = "asked" /\ pc'[t] = "hit" /\ cache[question[t]] # Miss /\ question[t] \in Question
        /\ UNCHANGED <<question, verdict>>
    BY <1>1, <1>4 DEF TypeOK, Admitted, Hit, Goto
  <2>2. ApprovedFor(question[t])
    BY <2>1 DEF PromiseInv
  <2>3. (ApprovedFor(question[t]))'
    BY <2>1, <2>2 DEF ApprovedFor
  <2> QED
    BY <1>1, <2>1, <2>3 DEF Decided, Requested, Running
<1>5. CASE PersistHit(t)
  <2>1. pc[t] = "hit" /\ pc'[t] = "replaying" /\ UNCHANGED <<question, verdict>>
    BY <1>1, <1>5 DEF TypeOK, PersistHit, Goto
  <2>2. (ApprovedFor(question[t]))'
    BY <1>1, <2>1 DEF Decided, ApprovedFor
  <2> QED
    BY <1>1, <2>1, <2>2 DEF Decided, Requested, Running
<1>6. CASE RouteToChitchat(t) \/ Respond(t)
  <2>1. pc'[t] = "settling" /\ verdict'[t] = "approved"
    BY <1>1, <1>6 DEF TypeOK, RouteToChitchat, Respond, Settle, Goto
  <2> QED
    BY <2>1 DEF Decided, Requested, Running
<1>7. CASE RecordCommit(t)
  <2>1. pc'[t] = "settling" /\ final'[t].escalated
    BY <1>1, <1>7, SettleFields DEF RecordCommit, Text
  <2> QED
    BY <2>1 DEF Decided, Requested, Running
<1>8. CASE RecordRead(t)
  <2>1. pc[t] = "escalating" /\ verdict' = verdict
    BY <1>8 DEF RecordRead
  <2>2. CASE Goto(t, "recording")
    <3>1. pc'[t] = "recording"
      BY <1>1, <2>2 DEF TypeOK, Goto
    <3> QED
      BY <1>1, <2>1, <3>1 DEF Decided, Requested, Running
  <2>3. CASE Settle(t, "handoff", TRUE)
    <3>1. pc'[t] = "settling" /\ final'[t].escalated
      BY <1>1, <2>3, SettleFields DEF Text
    <3> QED
      BY <3>1 DEF Decided, Requested, Running
  <2> QED
    BY <1>8, <2>2, <2>3 DEF RecordRead
<1>9. CASE PersistAnswer(t) \/ StoreInCache(t)
  <2>1. pc[t] \in {"settling", "storing"} /\ pc'[t] \in {"storing", "closing"}
        /\ UNCHANGED <<final, verdict>>
    BY <1>1, <1>9 DEF TypeOK, PersistAnswer, StoreInCache, Goto
  <2> QED
    BY <1>1, <2>1 DEF Decided, Requested, Running
<1>10. CASE Replay(t) \/ Finish(t)
  BY <1>1, <1>10 DEF TypeOK, Replay, Finish, Goto, Decided, Requested, Running
<1>12. CASE SendCanned(t)
  BY <1>1, <1>12, DecidedFrame DEF SendCanned, Undisturbed
<1>11. CASE \/ PersistUser(t) \/ MissOrBypass(t) \/ Route(t) \/ Retrieve(t) \/ Stream(t)
            \/ FinishAnswer(t) \/ Judge(t)
  <2>1. /\ verdict' = verdict
        /\ pc[t] \in {"ensured", "asked", "routing", "retrieving", "answering", "judging"}
        /\ pc'[t] \in {"asked", "routing", "retrieving", "escalating", "answering", "judging",
                       "responding"}
    BY <1>1, <1>11 DEF TypeOK, PersistUser, MissOrBypass, Route, Retrieve, Stream, SendCanned, FinishAnswer,
       Judge, Gate, Goto
  <2> QED
    BY <1>1, <2>1 DEF Decided, Requested, Running
<1> QED
  BY <1>2, <1>3, <1>4, <1>5, <1>6, <1>7, <1>8, <1>9, <1>10, <1>11,
     <1>12 DEF Progress

LEMMA CacheApproved ==
  ASSUME TurnInv, PromiseInv, ApprovalsStand, Next, NEW q \in Question, cache'[q] # Miss
  PROVE  ApprovedFor(q)'
<1>1. TypeOK
  BY DEF TurnInv
<1>2. cache[q] # Miss => ApprovedFor(q)'
  BY DEF PromiseInv, ApprovalsStand
<1>3. ASSUME NEW t \in Turn, StoreInCache(t) PROVE ApprovedFor(q)'
  <2>1. verdict[t] = "approved" /\ UNCHANGED <<question, verdict>>
    BY <1>3 DEF StoreInCache, TurnInv, SettledIsVetted, PromiseInv, Decided
  <2>2. cache'[q] = cache[q] \/ q = question[t]
    BY <1>1, <1>3 DEF TypeOK, StoreInCache
  <2> QED
    BY <1>2, <2>1, <2>2 DEF ApprovedFor
<1>4. ASSUME NEW t \in Turn, Open(t) \/ Reject(t) \/ Progress(t) \/ Fail(t) \/ Abort(t)
      PROVE  cache' = cache \/ StoreInCache(t)
  BY <1>4 DEF Open, Reject, Progress, Fail, Abort, Drop, PersistUser, Hit, MissOrBypass,
     PersistHit, Replay, Route, RouteToChitchat, Retrieve, Stream, SendCanned, FinishAnswer, Judge,
     Respond, RecordRead, RecordCommit, PersistAnswer, Finish
<1>5. ASSUME \/ \E r \in Rater : RateCommit(r) \/ \E c \in Conv : RateRead(r, c)
             \/ \E s \in Staff : ResolveSelect(s) \/ ResolveCommit(s) \/ \E c \in Conv : ResolveRead(s, c)
             \/ \E c \in Conv : Reply(c)
             \/ ResetDemo
      PROVE  cache' = cache
  BY <1>5 DEF RateCommit, RateRead, ResolveSelect, ResolveCommit, ResolveRead, Reply, ResetDemo
<1>6. ASSUME NEW x \in Question, Expire(x) PROVE cache[q] # Miss
  BY <1>1, <1>6 DEF TypeOK, Expire
<1> QED
  BY <1>2, <1>3, <1>4, <1>5, <1>6 DEF Next

LEMMA PromiseInvStep == TurnInv /\ PromiseInv /\ [Next]_vars => PromiseInv'
<1> SUFFICES ASSUME TurnInv, PromiseInv, [Next]_vars PROVE PromiseInv'
  OBVIOUS
<1>1. TypeOK /\ \A t \in Turn : Admitted(t) /\ Decided(t)
  BY DEF TurnInv, PromiseInv
<1>2. CASE Next
  <2>1. ApprovalsStand
    BY <1>1, <1>2, ApprovalsStep
  <2>2. \A q \in Question : cache'[q] # Miss => ApprovedFor(q)'
    BY <1>2, <2>1, CacheApproved
  <2>3. ASSUME NEW t \in Turn, Open(t) \/ Reject(t) \/ Progress(t) \/ Fail(t) \/ Abort(t),
               NEW u \in Turn
        PROVE  Decided(u)'
    <3>1. CASE u = t
      BY <2>1, <2>3, <3>1, DecidedOwn
    <3>2. CASE u # t
      BY <1>1, <2>1, <2>3, <3>2, OtherTurns, DecidedFrame
    <3> QED
      BY <3>1, <3>2
  <2>4. ASSUME \/ \E r \in Rater : RateCommit(r) \/ \E c \in Conv : RateRead(r, c)
               \/ \E s \in Staff : ResolveSelect(s) \/ ResolveCommit(s) \/ \E c \in Conv : ResolveRead(s, c)
               \/ \E c \in Conv : Reply(c)
               \/ ResetDemo
               \/ \E q \in Question : Expire(q),
               NEW u \in Turn
        PROVE  Decided(u)'
    <3>1. Undisturbed(u)
      BY <2>4 DEF RateCommit, RateRead, ResolveSelect, ResolveCommit, ResolveRead, Reply,
         ResetDemo, Expire, turnVars, Undisturbed
    <3> QED
      BY <1>1, <2>1, <3>1, DecidedFrame
  <2>5. \A u \in Turn : Decided(u)'
    BY <1>2, <2>3, <2>4 DEF Next
  <2> QED
    BY <2>2, <2>5 DEF PromiseInv
<1>3. CASE UNCHANGED vars
  BY <1>3 DEF vars, turnVars, PromiseInv, Decided, ApprovedFor
<1> QED
  BY <1>2, <1>3

\* The endpoint, the agent graph, the cache and the inbox keep what a support desk
\* promises: an answer only if it was approved for the question asked, a handoff only
\* with a ticket of the turn itself, and never both.
THEOREM ImplementsSupportDesk == Spec => KeepsPromise
<1>1. Spec => Promise!DeskInit /\ [][Promise!DeskNext]_(Promise!deskVars)
  BY PromiseInit, PromiseInvStep, PromiseStep, TurnInvariant, PTL DEF Spec
<1> QED
  BY <1>1 DEF KeepsPromise, Promise!DeskSpec

=============================================================================
