\* Two calls on an uploaded and a URL document, for instance an upload and a re-index
\* with both jobs at once, or a deletion next to a running job; a second delivery.
\* The worker keeps running.
SPECIFICATION FairSpec
CONSTANTS
  Request = {r1, r2}
  Doc = {d1, u1}
  UrlDoc = {u1}
  NoDoc = NoDoc
  MaxTries = 2
INVARIANT RedeliveryIsIdempotent
INVARIANT ReadyHasSource
INVARIANT StrandedOnlyByLoss
PROPERTY IsKnowledgeBase
PROPERTY LeavesPending
CHECK_DEADLOCK FALSE
