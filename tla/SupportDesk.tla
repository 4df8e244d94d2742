---------------------------- MODULE SupportDesk ----------------------------
(***************************************************************************)
(* What one support desk promises its customers, with no agent, database,  *)
(* cache or stream in sight.  A request (a "turn") asks one question.  The *)
(* desk either approves an answer of its own or opens a ticket for a human,*)
(* never both, and then closes the turn in one of three ways:              *)
(*   answered    the customer got an approved answer: the turn's own, or   *)
(*               one approved for another turn that asked the same thing;  *)
(*   handed_off  the customer was told a human will follow up, and a       *)
(*               ticket of this very turn exists;                          *)
(*   dropped     the turn failed or the customer left.                     *)
(* ChatTurn (routers/chat.py and agent/graph.py) is shown to implement it. *)
(***************************************************************************)
CONSTANTS Turn, Question, NoQuestion

VARIABLES asked,    \* the question of each turn, NoQuestion before it starts
          verdict,  \* what the desk decided on its own for each turn
          outcome   \* how each turn ended for the customer

deskVars == <<asked, verdict, outcome>>

DeskInit == /\ asked = [t \in Turn |-> NoQuestion]
            /\ verdict = [t \in Turn |-> "none"]
            /\ outcome = [t \in Turn |-> "none"]

Ask(t, q) == /\ asked[t] = NoQuestion
             /\ asked' = [asked EXCEPT ![t] = q]
             /\ UNCHANGED <<verdict, outcome>>

\* The desk's own decision, at most once per turn.
Decide(t, v) == /\ asked[t] # NoQuestion
                /\ verdict[t] = "none" /\ outcome[t] = "none"
                /\ verdict' = [verdict EXCEPT ![t] = v]
                /\ UNCHANGED <<asked, outcome>>

Close(t, o) == /\ outcome[t] = "none"
               /\ outcome' = [outcome EXCEPT ![t] = o]
               /\ UNCHANGED <<asked, verdict>>

\* No ticket is open for the turn, and the answer was approved for its question.
AnswerIsApproved(t) == /\ verdict[t] # "ticketed"
                       /\ \E s \in Turn : verdict[s] = "approved" /\ asked[s] = asked[t]

DeskNext == \E t \in Turn :
  \/ \E q \in Question : Ask(t, q)
  \/ Decide(t, "approved")
  \/ Decide(t, "ticketed")
  \/ AnswerIsApproved(t) /\ Close(t, "answered")
  \/ verdict[t] = "ticketed" /\ Close(t, "handed_off")
  \/ Close(t, "dropped")

DeskSpec == DeskInit /\ [][DeskNext]_deskVars
=============================================================================
