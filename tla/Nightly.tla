------------------------------ MODULE Nightly ------------------------------
(***************************************************************************)
(* The nightly quality sample (workers/online_eval.py) in the worker of    *)
(* Gateway: it draws cited answers of the last day, has a judge score each *)
(* against the passages it cites, writes one eval_runs row, and compares   *)
(* the means of two weeks.  One night is modelled; the rows of the nights  *)
(* before it are whatever they may be.                                     *)
(*                                                                         *)
(* Every await is a step of its own.  A chunk is named by the answer and   *)
(* the number that cite it; its content never changes, but it goes when    *)
(* its document is indexed again or deleted.  A score is a number of       *)
(* alert thresholds.                                                       *)
(***************************************************************************)
EXTENDS Gateway, Integers, Sequences, FiniteSetsExt

CONSTANTS
  Answer,      \* assistant messages of the last day
  Slot,        \* the passage numbers an answer may cite
  Score,       \* what a judge may say
  MinSample, MaxSample, SampleEvery,   \* SampleEvery = 1 / SAMPLE_RATE
  Threshold,   \* ALERT_DROP_THRESHOLD
  Week,        \* nights that the alert averages
  MaxTries     \* deliveries of the job

ASSUME NightlyAssumption ==
  /\ IsFiniteSet(Answer) /\ IsFiniteSet(Slot) /\ Slot \subseteq Nat \ {0}
  /\ Score \subseteq Nat
  /\ MinSample \in Nat /\ MaxSample \in Nat /\ SampleEvery \in Nat \ {0}
  /\ Threshold \in Nat /\ Week \in Nat \ {0} /\ MaxTries \in Nat \ {0}

\* Scores are from 0 to 1, and a threshold is 0.05.
ASSUME ScoresAssumption ==
  IsFiniteSet(Score) /\ \E low, high \in Score : high - low > 2 * Threshold

VARIABLES
  job,     \* the job and its local variables
  traced,  \* the sum of the online_faithfulness scores this delivery sent to traces
  lacking, \* auxiliary: it has scored an answer that has no trace_id
  rows,    \* the eval_runs rows of this night
  alerted  \* whether the log and the webhook have been told of a regression

nightVars == <<job, traced, lacking, rows, alerted>>
vars == <<gatewayVars, nightVars>>

Nothing == [of |-> {}, passages |-> <<>>]
Queued(try) ==
  [pc |-> "queued", try |-> try, llm |-> "offline", cites |-> [m \in Answer |-> {}],
   found |-> {}, todo |-> {}, asked |-> Nothing, count |-> 0, total |-> 0, skipped |-> 0]

Init ==
  /\ GatewayInit
  /\ job = Queued(1) /\ traced = 0 /\ lacking = FALSE /\ rows = <<>> /\ alerted = FALSE

At(pc) == job.pc = pc
Goto(pc) == job' = [job EXCEPT !.pc = pc]
Leave(pc) == job' = [Queued(job.try) EXCEPT !.pc = pc]   \* with none of its variables

-----------------------------------------------------------------------------
(* Sampling.                                                                *)

\* Not the offline provider, which would make scores up.
MayJudge(llm) == llm # "offline"

Begin ==
  /\ At("queued") /\ probe' = AfterLlm(Worker)
  /\ LET llm == LlmProvider(Worker) IN
     IF MayJudge(llm) THEN job' = [job EXCEPT !.pc = "rows", !.llm = llm] ELSE Leave("done")
  /\ UNCHANGED <<keys, up, since, services, traced, lacking, rows, alerted>>

SampleSize(n) == Min({MaxSample, Max({MinSample, n \div SampleEvery}), n})

\* The SELECT finds answers with citations, or none at all; random.sample draws
\* from them.
ReadAnswers ==
  /\ At("rows")
  /\ \/ Leave("done")
     \/ \E found \in (SUBSET Answer) \ {{}} :
        \E sample \in kSubset(SampleSize(Cardinality(found)), found) :
        \E cites \in [sample -> (SUBSET Slot) \ {{}}] :
          job' = [job EXCEPT !.pc = "chunks", !.todo = sample,
                    !.cites = [m \in Answer |-> IF m \in sample THEN cites[m] ELSE {}]]
  /\ UNCHANGED <<gatewayVars, traced, lacking, rows, alerted>>

Cited(m) == {m} \X job.cites[m]

\* One query for all cited chunks; documents may have been indexed again since
\* the answers, or since the sample was drawn.
ReadChunks ==
  /\ At("chunks")
  /\ \E found \in SUBSET UNION {Cited(m) : m \in job.todo} :
       job' = [job EXCEPT !.pc = "loop", !.found = found]
  /\ UNCHANGED <<gatewayVars, traced, lacking, rows, alerted>>

-----------------------------------------------------------------------------
(* Judging, one answer after the other.                                     *)

AllFound(m) == Cited(m) \subseteq job.found

Skip(m) ==
  /\ At("loop") /\ m \in job.todo /\ ~AllFound(m)
  /\ job' = [job EXCEPT !.todo = @ \ {m}, !.skipped = @ + 1]
  /\ UNCHANGED <<gatewayVars, traced, lacking, rows, alerted>>

Padding == <<>>

\* Fault: the cited passages one after the other, whatever their numbers.
PassagesClosedUp(m) ==
  [i \in 1..Cardinality(job.cites[m]) |->
     <<m, CHOOSE n \in job.cites[m] : Cardinality({k \in job.cites[m] : k <= n}) = i>>]

\* The judge's prompt numbers passages by position: slots that are not cited are
\* padded.
Passages(m) ==
  [n \in 1..Max(job.cites[m]) |-> IF <<m, n>> \in Cited(m) \cap job.found THEN <<m, n>> ELSE Padding]

AskJudge(m) ==
  /\ At("loop") /\ m \in job.todo /\ AllFound(m)
  /\ job' = [job EXCEPT !.pc = "asked", !.todo = @ \ {m},
                        !.asked = [of |-> {m}, passages |-> Passages(m)]]
  /\ UNCHANGED <<gatewayVars, traced, lacking, rows, alerted>>

\* parse_confidence; the score also goes to the answer's trace, if it has a
\* trace_id: an answer given while tracing was off has none.
Scored ==
  /\ At("asked") /\ MayAnswer(job.llm)
  /\ \E v \in Score, trace_id \in BOOLEAN :
       /\ job' = [job EXCEPT !.pc = "loop", !.asked = Nothing, !.count = @ + 1,
                             !.total = @ + v]
       /\ traced' = IF trace_id THEN traced + v ELSE traced
       /\ lacking' = (lacking \/ ~trace_id)
  /\ UNCHANGED <<gatewayVars, rows, alerted>>

\* Fault: an answer whose judge fails is passed over.
JudgeRaisesOn == [job EXCEPT !.pc = "loop", !.asked = Nothing]

\* LLMError ends the job: no row is written.
JudgeRaises == [Queued(job.try) EXCEPT !.pc = "failed"]

\* Any other call may raise as well.
Raise ==
  /\ \/ At("asked") /\ MayRaise(job.llm) /\ job' = JudgeRaises
     \/ At("rows") /\ Leave("failed")
     \/ At("chunks") /\ Leave("failed")
     \/ At("loop") /\ job.todo = {} /\ Leave("failed")
     \/ At("alert") /\ Leave("failed")
  /\ UNCHANGED <<gatewayVars, traced, lacking, rows, alerted>>

Commit ==
  /\ At("loop") /\ job.todo = {} /\ Leave("alert")
  /\ rows' = Append(rows, [count |-> job.count, total |-> job.total, skipped |-> job.skipped,
                           sampled |-> Cardinality({m \in Answer : job.cites[m] # {}})])
  /\ UNCHANGED <<gatewayVars, traced, lacking, alerted>>

-----------------------------------------------------------------------------
(* The regression alert.  Nights are counted so that tonight is 2 * Week;   *)
(* a night before has one row, or none with a mean.  The row of exactly a   *)
(* week ago is older than a week or not, by seconds; that of two weeks ago  *)
(* is night 0, and not there if it is too old.                              *)

Tonight == 2 * Week
Past == [0..(Tonight - 1) -> {{}} \cup {{v} : v \in Score}]

\* Rows with a mean, as night, row and mean.
Averaged(past) ==
  (UNION {{<<d, 0, v>> : v \in past[d]} : d \in DOMAIN past})
    \cup {<<Tonight, i, rows[i].total \div rows[i].count>> : i \in {j \in DOMAIN rows : rows[j].count # 0}}

\* created_at >= now - week; edge is whether the row of a week ago still is.
Recent(row, edge) == row[1] > Tonight - Week \/ (edge /\ row[1] = Tonight - Week)

SumOf(window) == MapThenSumSet(LAMBDA row : row[3], window)

\* Fault: the difference the other way round.
FallsBackwards(previous, current) ==
  /\ previous # {} /\ current # {}
  /\ SumOf(current) * Cardinality(previous) - SumOf(previous) * Cardinality(current)
       > Threshold * Cardinality(previous) * Cardinality(current)

\* The mean of current is lower than that of previous by more than the threshold.
Falls(previous, current) ==
  /\ previous # {} /\ current # {}
  /\ SumOf(previous) * Cardinality(current) - SumOf(current) * Cardinality(previous)
       > Threshold * Cardinality(previous) * Cardinality(current)

Regressed(past, edge) ==
  LET averaged == Averaged(past)
      current == {row \in averaged : Recent(row, edge)}
  IN Falls(averaged \ current, current)

Alert ==
  /\ At("alert") /\ Leave("done")
  /\ \E told \in {Regressed(past, edge) : past \in Past, edge \in BOOLEAN} :
       alerted' = (alerted \/ told)
  /\ UNCHANGED <<gatewayVars, traced, lacking, rows>>

-----------------------------------------------------------------------------
\* The worker dies and starts anew; arq delivers an unfinished job again.
RestartWorker ==
  /\ StartWorker
  /\ IF job.pc \in {"queued", "done", "failed"} THEN UNCHANGED <<job, traced, lacking>>
     ELSE /\ job' = IF job.try < MaxTries THEN Queued(job.try + 1)
                    ELSE [Queued(job.try) EXCEPT !.pc = "failed"]
          /\ traced' = 0 /\ lacking' = FALSE
  /\ UNCHANGED <<rows, alerted>>

Next ==
  \/ GatewayStep /\ UNCHANGED nightVars
  \/ RestartWorker
  \/ Begin \/ ReadAnswers \/ ReadChunks
  \/ \E m \in Answer : Skip(m) \/ AskJudge(m)
  \/ Scored \/ Raise \/ Commit \/ Alert

Spec == Init /\ [][Next]_vars

-----------------------------------------------------------------------------
(* Correctness.                                                             *)

JobState ==
  [pc : {"queued", "rows", "chunks", "loop", "asked", "alert", "done", "failed"},
   try : 1..MaxTries, llm : Llms, cites : [Answer -> SUBSET Slot],
   found : SUBSET (Answer \X Slot), todo : SUBSET Answer,
   asked : [of : SUBSET Answer, passages : Seq((Answer \X Slot) \cup {Padding})],
   count : Nat, total : Nat, skipped : Nat]
Row == [count : Nat, total : Nat, skipped : Nat, sampled : Nat]

TypeOK ==
  /\ GatewayTypeOK /\ job \in JobState /\ rows \in Seq(Row)
  /\ traced \in Nat /\ lacking \in BOOLEAN /\ alerted \in BOOLEAN

\* What the judge reads as passage [n] is the chunk the answer cites as [n], with
\* none missing, however often documents were indexed again since; and the judge
\* is never a stand-in, whatever the server did while the night's job was built,
\* started again or waiting.
JudgeSeesCitations ==
  At("asked") =>
    /\ job.llm # "offline"
    /\ \A m \in job.asked.of : \A n \in job.cites[m] :
         n \in DOMAIN job.asked.passages /\ job.asked.passages[n] = <<m, n>>

\* A row stands for its whole sample, each answer scored or skipped, and the scores
\* of its mean are those that its delivery sent to the traces: all of them if each
\* answer has a trace_id.  (A delivery that broke off may have sent some before.)
RowAccountsForSample ==
  /\ \A i \in DOMAIN rows : rows[i].count + rows[i].skipped = rows[i].sampled
  /\ At("alert") =>
       /\ traced <= rows[Len(rows)].total
       /\ ~lacking => traced = rows[Len(rows)].total

\* The rows of the last week are bad, those of the week before were good; or each
\* night was at least as good as the one before.
Bad == Min(Score)
Good == Max(Score)
Collapsed(past) ==
  /\ \E i \in DOMAIN rows : rows[i].count # 0
  /\ \E d \in 1..(Week - 1) : past[d] # {}
  /\ {row[3] : row \in {r \in Averaged(past) : r[1] > Week}} = {Bad}
  /\ {row[3] : row \in {r \in Averaged(past) : r[1] <= Week}} = {Good}
Steady(past) ==
  \A r, s \in Averaged(past) : r[1] < s[1] => r[3] <= s[3]

\* A collapse of a week alerts at its end at the latest, and a steady or improving
\* record never does, whichever nights have no row or no mean, on whichever side
\* of the seconds a row of a week ago falls, and if tonight has two rows.
AlertsOnCollapse ==
  At("alert") => \A past \in Past :
    /\ Collapsed(past) => \A edge \in BOOLEAN : Regressed(past, edge)
    /\ Steady(past) => \A edge \in BOOLEAN : ~Regressed(past, edge)
=============================================================================
