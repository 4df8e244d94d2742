\* Two documents, four indexing runs and a turn: the answers that several turns
\* would store do not interact.
SPECIFICATION Spec
CONSTANTS
  Doc = {d1, d2}
  Job = {j1, j2, j3, j4}
  Turn = {t1}
  NoDoc = NoDoc
SYMMETRY Symmetric
INVARIANT SettledHitIsCurrent
CHECK_DEADLOCK FALSE
