\* Two organizations; two API requests that reuse a connection, next to two jobs
\* on two connections of the worker.
SPECIFICATION Spec
CONSTANTS
  Org = {o1, o2}
  NoTenant = NoTenant
  ApiConn = {a1, a2}
  WorkerConn = {w1, w2}
  NoConn = NoConn
  Request = {r1, r2}
  Job = {j1, j2}
SYMMETRY Symmetric
INVARIANT ApiScoped
INVARIANT ReplacedTogether
 
CHECK_DEADLOCK FALSE
