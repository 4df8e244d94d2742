\* Three questions of one visitor.
SPECIFICATION ClientSpec
CONSTANT MaxTurns = 3
INVARIANT AnswersStayApart
INVARIANT StorageFollows
INVARIANT RatedComesBackOnlyLate
INVARIANT ComposerComesBack
CHECK_DEADLOCK FALSE
