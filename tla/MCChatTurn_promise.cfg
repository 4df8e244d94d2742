\* Two turns that may share a conversation, a question and so a cached answer;
\* the calls a turn awaits return or raise.
SPECIFICATION FairSpec
CONSTANTS
  Turn = {t1, t2}
  Conv = {c1}
  Question = {q1, q2}
  Rater = {}
  Staff = {}
  NoConv = NoConv
  NoQuestion = NoQuestion
  NoRater = NoRater
  NoTurn = NoTurn
  Miss = Miss
  MaxResets = 1
INVARIANT CacheIsVetted
PROPERTY KeepsPromise
PROPERTY StreamsTerminate
CHECK_DEADLOCK FALSE
