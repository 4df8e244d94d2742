\* Two requests under one or two keys from one address, with a limit of one request
\* a window, across two windows and next to a revocation.
SPECIFICATION Spec
CONSTANTS
  Request = {r1, r2}
  Key = {k1, k2}
  Ip = {i1}
  Revoker = {o1}
  NoKey = NoKey
  NoIp = NoIp
  Limit = 1
  MaxWindow = 2
SYMMETRY Symmetric
INVARIANT LimitIsExact
INVARIANT LastUsedIsTrue
INVARIANT ScoreFollowsFeedback
CHECK_DEADLOCK FALSE
