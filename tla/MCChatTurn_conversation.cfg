\* Two turns of one conversation, two ratings, an inbox user and a demo reset.
SPECIFICATION Spec
CONSTANTS
  Turn = {t1, t2}
  Conv = {c1}
  Question = {q1}
  Rater = {r1, r2}
  Staff = {s1}
  NoConv = NoConv
  NoQuestion = NoQuestion
  NoRater = NoRater
  NoTurn = NoTurn
  Miss = Miss
  MaxResets = 1
SYMMETRY Symmetric
INVARIANT HandoffReachesInbox
INVARIANT AnsweredIsGrounded
INVARIANT AnswerFollowsQuestion
INVARIANT ScoredOnce
PROPERTY QueueLeftByResolution
CHECK_DEADLOCK FALSE
