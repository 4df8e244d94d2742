\* Two jobs of different organizations that overlap.
SPECIFICATION Spec
CONSTANTS
  Org = {o1, o2}
  NoTenant = NoTenant
  ApiConn = {}
  WorkerConn = {w1, w2}
  NoConn = NoConn
  Request = {}
  Job = {j1, j2}
SYMMETRY Symmetric
INVARIANT StaysScoped
CHECK_DEADLOCK FALSE
