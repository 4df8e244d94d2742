\* One API process and the worker; two answers of the day, both sampled, with up
\* to two citations each; a second delivery of the job; a week of two nights.
SPECIFICATION Spec
CONSTANTS
  Api = {p1}
  Worker = worker
  Ttl = 1
  Answer = {m1, m2}
  Slot = {1, 2}
  Score = {0, 20}
  MinSample = 2
  MaxSample = 2
  SampleEvery = 10
  Threshold = 1
  Week = 2
  MaxTries = 2
SYMMETRY Symmetric
INVARIANT RecoversWithinTtl
INVARIANT NeverHalfOffline
INVARIANT JudgeSeesCitations
INVARIANT RowAccountsForSample
INVARIANT AlertsOnCollapse
CHECK_DEADLOCK FALSE
