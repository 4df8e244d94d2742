------------------------ MODULE TenantSessionProofs ------------------------
(* What TLAPS proves of TenantSession, for any organizations, connections,  *)
(* requests and jobs.                                                       *)
EXTENDS TenantSession, TLAPS

-----------------------------------------------------------------------------
(* The inductive invariants.                                                *)

\* What the API's sessions do stays in their transactions, ...
RequestOK(x) ==
  /\ x.pc \in {"none", "tenant", "identity", "over"} /\ ~x.kept
  /\ x.conn \in ApiConn \cup {NoConn}
  /\ x.pc \in InTransaction => x.tenant = x.org
ApiPoolClean == \A c \in ApiConn : setting[c] = NoTenant

\* ... a job's stay with the connections of the worker, and whether its second
\* transaction deletes anything depends on the tenant it inserts under.
JobOK(x) ==
  /\ x.pc \in {"none", "over"} \cup JobAtWork /\ x.conn \in WorkerConn \cup {NoConn}
  /\ x.kept => x.pc = "reading" /\ x.conn # NoConn
  /\ x.pc = "replacing" => x.removed = (x.tenant = x.org)

SessionInv ==
  /\ TypeOK /\ ApiPoolClean /\ ReplacedTogether
  /\ \A r \in Request : RequestOK(session[r])
  /\ \A j \in Job : JobOK(session[j])

\* A tenant setting is the organization o, or was cut off and is none.
Own(t, o, cut) == t = o \/ (cut /\ t = NoTenant)

\* While no two jobs have overlapped the worker has made one connection.  Either
\* the job at work has it, under its own tenant, or the pool has it, under that
\* tenant between the job's two transactions, unless it died there and has none:
\* behind LoneJobScoped.
Alone(x, free, tenants, cut) ==
  /\ x.conn # NoConn => x.pc \in {"reading", "replacing"}
  /\ x.pc \in {"reading", "replacing"} => x.conn # NoConn /\ free = {}
  /\ x.pc = "reading" => x.kept /\ x.tenant = x.org
  /\ x.pc = "replacing" => Own(x.tenant, x.org, cut)
  /\ x.pc = "working" => \E c \in free : Own(tenants[c], x.org, cut)

LoneInv ==
  ~overlap =>
    /\ \A j, k \in Job : session[j].pc \in JobAtWork /\ session[k].pc \in JobAtWork => j = k
    /\ \A c, d \in idle \cap WorkerConn : c = d
    /\ \A j \in Job : Alone(session[j], idle \cap WorkerConn, setting, j \in cutOff)

-----------------------------------------------------------------------------

LEMMA ClosedTyped == /\ Closed \in Session
                     /\ \A o \in Org : Scoped(o) \in Session /\ ScopedByConnection(o) \in Session
BY SessionAssumption DEF Closed, Scoped, ScopedByConnection, Session, Tenant, InTransaction, JobAtWork

LEMMA InitSessionInv == Init => SessionInv
<1> SUFFICES ASSUME Init PROVE SessionInv
  OBVIOUS
<1>1. TypeOK
  <2>1. doc \in [Job -> Document]
    BY DEF Init, Document
  <2> QED
    BY <2>1, ClosedTyped DEF Init, TypeOK, Tenant
<1>2. RequestOK(Closed) /\ JobOK(Closed)
  BY DEF RequestOK, JobOK, Closed, InTransaction, JobAtWork
<1>3. ApiPoolClean /\ ReplacedTogether
  BY DEF Init, ApiPoolClean, ReplacedTogether, Conn
<1> QED
  BY <1>1, <1>2, <1>3 DEF Init, SessionInv

-----------------------------------------------------------------------------
(* The session records that the actions write.                              *)

LEMMA BegunTyped ==
  ASSUME NEW x \in Session, NEW c \in Conn
  PROVE  /\ [x EXCEPT !.conn = c] \in Session
         /\ [x EXCEPT !.conn = c].conn = c
         /\ [x EXCEPT !.conn = c].pc = x.pc /\ [x EXCEPT !.conn = c].kept = x.kept
         /\ [x EXCEPT !.conn = c].org = x.org /\ [x EXCEPT !.conn = c].tenant = x.tenant
         /\ [x EXCEPT !.conn = c].removed = x.removed
BY DEF Session

LEMMA AfterOK ==
  ASSUME TypeOK, NEW s \in Request \cup Job,
         NEW p \in {"over", "working", "failing", "leaving"}
  PROVE  /\ After(s, p) \in Session
         /\ p = "over" => RequestOK(After(s, p))
         /\ JobOK(After(s, p))
BY DEF TypeOK, After, Closed, Session, RequestOK, JobOK, InTransaction, JobAtWork, Tenant

\* A session that changes alone.
LEMMA OneSession ==
  ASSUME SessionInv, NEW s \in Request \cup Job, NEW x \in Session,
         s \in Request => RequestOK(x), s \in Job => JobOK(x),
         session' = [session EXCEPT ![s] = x]
  PROVE  /\ session' \in [Request \cup Job -> Session]
         /\ \A r \in Request : RequestOK(session'[r])
         /\ \A j \in Job : JobOK(session'[j])
BY DEF SessionInv, TypeOK

LEMMA OfferedConns ==
  ASSUME NEW s, NEW c \in Offered(s), idle \subseteq Conn
  PROVE  /\ c \in Conn
         /\ s \in Job => c \in WorkerConn
         /\ s \in Request => c \in ApiConn
BY SessionAssumption DEF Offered, Unused, Pool, Conn

\* A transaction's end: the pool and the connections' settings stay typed, and
\* the API's stay clean.
LEMMA ReturnOK ==
  ASSUME SessionInv, NEW s \in Request \cup Job,
         NEW p \in {"over", "working", "failing", "leaving"}, s \in Request => p = "over",
         Return(s, p), setting' \in {setting, Committed(s)}
  PROVE  /\ setting' \in [Conn -> Tenant] /\ idle' \subseteq Conn /\ ApiPoolClean'
         /\ session' \in [Request \cup Job -> Session]
         /\ \A r \in Request : RequestOK(session'[r])
         /\ \A j \in Job : JobOK(session'[j])
<1>1. session[s] \in Session /\ session[s].conn \in Conn \cup {NoConn}
      /\ session[s].tenant \in Tenant
  BY DEF SessionInv, TypeOK, Session
<1>2. idle' \subseteq Conn
  BY <1>1 DEF Return, SessionInv, TypeOK
<1>3. setting' \in [Conn -> Tenant]
  BY <1>1 DEF SessionInv, TypeOK, Committed
<1>4. ApiPoolClean'
  <2>1. CASE s \in Request
    BY <2>1 DEF SessionInv, RequestOK, Committed, ApiPoolClean
  <2>2. CASE s \in Job
    <3>1. session[s].conn \notin ApiConn
      BY <2>2, SessionAssumption DEF SessionInv, JobOK
    <3>2. \A c \in ApiConn : setting'[c] = setting[c]
      BY <3>1 DEF SessionInv, TypeOK, Committed, Conn
    <3> QED
      BY <3>2 DEF SessionInv, ApiPoolClean
  <2> QED
    BY <2>1, <2>2
<1>5. session' = [session EXCEPT ![s] = After(s, p)]
  BY DEF Return
<1>6. After(s, p) \in Session /\ (s \in Request => RequestOK(After(s, p))) /\ JobOK(After(s, p))
  BY AfterOK DEF SessionInv
<1> QED
  BY <1>2, <1>3, <1>4, <1>5, <1>6, OneSession

-----------------------------------------------------------------------------
(* The API.                                                                 *)

LEMMA OpenTenantOK ==
  ASSUME SessionInv, NEW r \in Request, NEW o \in Org, NEW c \in Conn, OpenTenant(r, o, c)
  PROVE  SessionInv'
<1> DEFINE x == [Scoped(o) EXCEPT !.conn = c]
<1>1. c \in ApiConn
  BY OfferedConns DEF OpenTenant, Begin, SessionInv, TypeOK
<1>2. x \in Session /\ RequestOK(x)
  <2>1. Scoped(o) \in Session /\ Scoped(o).pc = "tenant" /\ Scoped(o).kept = FALSE
        /\ Scoped(o).tenant = o /\ Scoped(o).org = o
    BY ClosedTyped DEF Scoped, Closed
  <2> QED
    BY <1>1, <2>1, BegunTyped DEF RequestOK
<1>3. r \notin Job
  BY SessionAssumption
<1>4. session' = [session EXCEPT ![r] = x]
  BY DEF OpenTenant, Begin
<1> HIDE DEF x
<1>5. /\ session' \in [Request \cup Job -> Session]
      /\ \A s \in Request : RequestOK(session'[s])
      /\ \A j \in Job : JobOK(session'[j])
  BY <1>2, <1>3, <1>4, OneSession
<1> QED
  BY <1>5 DEF OpenTenant, Begin, SessionInv, TypeOK, ApiPoolClean, ReplacedTogether, aux

LEMMA OpenIdentityOK ==
  ASSUME SessionInv, NEW r \in Request, NEW c \in Conn, OpenIdentity(r, c)
  PROVE  SessionInv'
<1> DEFINE y == [Closed EXCEPT !.pc = "identity", !.tenant = setting[c]]
           x == [y EXCEPT !.conn = c]
<1>1. c \in ApiConn /\ setting[c] = NoTenant
  BY OfferedConns DEF OpenIdentity, Begin, SessionInv, TypeOK, ApiPoolClean
<1>2. y \in Session /\ y.pc = "identity" /\ y.kept = FALSE /\ y.tenant = NoTenant /\ y.org = NoTenant
  BY <1>1, SessionAssumption DEF Closed, Session, Tenant, InTransaction
<1>3. x \in Session /\ RequestOK(x)
  <2> HIDE DEF y
  <2> QED
    BY <1>1, <1>2, BegunTyped DEF RequestOK
<1>4. r \notin Job
  BY SessionAssumption
<1>5. session' = [session EXCEPT ![r] = x]
  BY DEF OpenIdentity, Begin
<1> HIDE DEF x
<1>6. /\ session' \in [Request \cup Job -> Session]
      /\ \A s \in Request : RequestOK(session'[s])
      /\ \A j \in Job : JobOK(session'[j])
  BY <1>3, <1>4, <1>5, OneSession
<1> QED
  BY <1>6 DEF OpenIdentity, Begin, SessionInv, TypeOK, ApiPoolClean, ReplacedTogether, aux

LEMMA SignupOK ==
  ASSUME SessionInv, NEW r \in Request, NEW o \in Org, Signup(r, o)
  PROVE  SessionInv'
<1> DEFINE x == [session[r] EXCEPT !.org = o, !.tenant = o]
<1>1. session[r] \in Session /\ RequestOK(session[r])
  BY DEF SessionInv, TypeOK
<1>2. x \in Session /\ x.pc = session[r].pc /\ x.kept = session[r].kept
      /\ x.conn = session[r].conn /\ x.tenant = x.org
  BY <1>1 DEF Session, Tenant
<1>3. RequestOK(x)
  BY <1>1, <1>2 DEF RequestOK
<1>4. r \notin Job
  BY SessionAssumption
<1>5. session' = [session EXCEPT ![r] = x]
  BY DEF Signup, SessionInv, TypeOK
<1> HIDE DEF x
<1>6. /\ session' \in [Request \cup Job -> Session]
      /\ \A s \in Request : RequestOK(session'[s])
      /\ \A j \in Job : JobOK(session'[j])
  BY <1>2, <1>3, <1>4, <1>5, OneSession
<1> QED
  BY <1>6 DEF Signup, SessionInv, TypeOK, ApiPoolClean, ReplacedTogether, aux

LEMMA CloseOK ==
  ASSUME SessionInv, NEW r \in Request, Close(r)
  PROVE  SessionInv'
<1>1. /\ setting' \in [Conn -> Tenant] /\ idle' \subseteq Conn /\ ApiPoolClean'
      /\ session' \in [Request \cup Job -> Session]
      /\ \A s \in Request : RequestOK(session'[s])
      /\ \A j \in Job : JobOK(session'[j])
  BY ReturnOK DEF Close
<1> QED
  BY <1>1 DEF Close, SessionInv, TypeOK, ReplacedTogether, aux

-----------------------------------------------------------------------------
(* The worker.                                                              *)

LEMMA OpenJobOK ==
  ASSUME SessionInv, NEW j \in Job, NEW o \in Org, NEW c \in Conn, OpenJob(j, o, c)
  PROVE  SessionInv'
<1> DEFINE x == [ScopedByConnection(o) EXCEPT !.conn = c]
<1>1. c \in WorkerConn /\ c # NoConn
  BY OfferedConns, SessionAssumption DEF OpenJob, Begin, SessionInv, TypeOK
<1>2. x \in Session /\ JobOK(x)
  <2>1. ScopedByConnection(o) \in Session /\ ScopedByConnection(o).pc = "reading"
    BY ClosedTyped DEF ScopedByConnection, Closed
  <2> QED
    BY <1>1, <2>1, BegunTyped DEF JobOK, JobAtWork
<1>3. j \notin Request
  BY SessionAssumption
<1>4. session' = [session EXCEPT ![j] = x]
  BY DEF OpenJob, Begin
<1> HIDE DEF x
<1>5. /\ session' \in [Request \cup Job -> Session]
      /\ \A s \in Request : RequestOK(session'[s])
      /\ \A k \in Job : JobOK(session'[k])
  BY <1>2, <1>3, <1>4, OneSession
<1>6. overlap' \in BOOLEAN
  BY DEF OpenJob, SessionInv, TypeOK
<1> QED
  BY <1>5, <1>6 DEF OpenJob, Begin, SessionInv, TypeOK, ApiPoolClean, ReplacedTogether

LEMMA DeleteOldOK ==
  ASSUME SessionInv, NEW j \in Job, NEW c \in Conn, DeleteOld(j, c)
  PROVE  SessionInv'
<1> DEFINE y == [session[j] EXCEPT !.pc = "replacing", !.tenant = setting[c],
                                   !.removed = (setting[c] = session[j].org)]
           x == [y EXCEPT !.conn = c]
<1>1. c \in WorkerConn
  BY OfferedConns DEF DeleteOld, Begin, SessionInv, TypeOK
<1>2. session[j] \in Session /\ JobOK(session[j]) /\ setting[c] \in Tenant
  BY DEF SessionInv, TypeOK
<1>3. y \in Session /\ y.pc = "replacing" /\ y.kept = session[j].kept
      /\ y.removed = (y.tenant = y.org)
  BY <1>2 DEF Session, InTransaction
<1>4. ~session[j].kept
  BY <1>2 DEF DeleteOld, JobOK
<1>5. x \in Session /\ JobOK(x)
  <2> HIDE DEF y
  <2>1. x \in Session /\ x.pc = "replacing" /\ x.conn = c /\ x.kept = session[j].kept
        /\ x.removed = (x.tenant = x.org)
    BY <1>3, BegunTyped
  <2> QED
    BY <1>1, <1>4, <2>1 DEF JobOK, JobAtWork
<1>6. j \notin Request
  BY SessionAssumption
<1>7. session' = [session EXCEPT ![j] = x]
  BY DEF DeleteOld, Begin
<1> HIDE DEF x
<1>8. /\ session' \in [Request \cup Job -> Session]
      /\ \A s \in Request : RequestOK(session'[s])
      /\ \A k \in Job : JobOK(session'[k])
  BY <1>5, <1>6, <1>7, OneSession
<1> QED
  BY <1>8 DEF DeleteOld, Begin, SessionInv, TypeOK, ApiPoolClean, ReplacedTogether, aux

LEMMA CommitProcessingOK ==
  ASSUME SessionInv, NEW j \in Job, CommitProcessing(j)
  PROVE  SessionInv'
<1>1. /\ setting' \in [Conn -> Tenant] /\ idle' \subseteq Conn /\ ApiPoolClean'
      /\ session' \in [Request \cup Job -> Session]
      /\ \A s \in Request : RequestOK(session'[s])
      /\ \A k \in Job : JobOK(session'[k])
  <2>1. j \notin Request
    BY SessionAssumption
  <2> QED
    BY <2>1, ReturnOK DEF CommitProcessing
<1>2. doc' \in [Job -> Document] /\ ReplacedTogether'
  BY DEF CommitProcessing, SessionInv, TypeOK, Document, ReplacedTogether
<1> QED
  BY <1>1, <1>2 DEF CommitProcessing, SessionInv, TypeOK, aux

LEMMA CommitReadyOK ==
  ASSUME SessionInv, NEW j \in Job, CommitReady(j)
  PROVE  SessionInv'
<1>1. /\ setting' \in [Conn -> Tenant] /\ idle' \subseteq Conn /\ ApiPoolClean'
      /\ session' \in [Request \cup Job -> Session]
      /\ \A s \in Request : RequestOK(session'[s])
      /\ \A k \in Job : JobOK(session'[k])
  <2>1. j \notin Request
    BY SessionAssumption
  <2> QED
    BY <2>1, ReturnOK DEF CommitReady
<1>2. OwnRows(j) => session[j].removed
  BY DEF CommitReady, SessionInv, JobOK, OwnRows
<1>3. Replaced(j) \in Document /\ (Replaced(j).new => ~Replaced(j).old)
  <2>1. doc[j] \in Document /\ (doc[j].new => ~doc[j].old)
    BY DEF SessionInv, TypeOK, ReplacedTogether
  <2> QED
    BY <1>2, <2>1 DEF Replaced, Document
<1>4. doc' \in [Job -> Document] /\ ReplacedTogether'
  BY <1>3 DEF CommitReady, SessionInv, TypeOK, ReplacedTogether
<1> QED
  BY <1>1, <1>4 DEF CommitReady, SessionInv, TypeOK, aux

LEMMA EndOfTransactionOK ==
  ASSUME SessionInv, NEW j \in Job, Fail(j) \/ Break(j)
  PROVE  SessionInv'
<1>1. /\ setting' \in [Conn -> Tenant] /\ idle' \subseteq Conn /\ ApiPoolClean'
      /\ session' \in [Request \cup Job -> Session]
      /\ \A s \in Request : RequestOK(session'[s])
      /\ \A k \in Job : JobOK(session'[k])
  <2>1. j \notin Request
    BY SessionAssumption
  <2> QED
    BY <2>1, ReturnOK DEF Fail, Break
<1> QED
  BY <1>1 DEF Fail, Break, SessionInv, TypeOK, ReplacedTogether, aux

LEMMA ShortTransactionOK ==
  ASSUME SessionInv, NEW j \in Job, NEW c \in Conn, MarkFailed(j, c) \/ Leave(j, c)
  PROVE  SessionInv'
<1>1. c \in WorkerConn
  BY OfferedConns DEF MarkFailed, Leave, SessionInv, TypeOK
<1>2. PICK p \in {"over", "leaving"} : session' = [session EXCEPT ![j] = After(j, p)]
  BY DEF MarkFailed, Leave
<1>3. j \notin Request
  BY SessionAssumption
<1>4. After(j, p) \in Session /\ JobOK(After(j, p))
  BY AfterOK DEF SessionInv
<1>5. /\ session' \in [Request \cup Job -> Session]
      /\ \A s \in Request : RequestOK(session'[s])
      /\ \A k \in Job : JobOK(session'[k])
  BY <1>2, <1>3, <1>4, OneSession
<1>6. setting' \in [Conn -> Tenant] /\ ApiPoolClean'
  <2>1. setting' \in [Conn -> Tenant] /\ \A d \in Conn \ {c} : setting'[d] = setting[d]
    BY DEF MarkFailed, Leave, SessionInv, TypeOK, Tenant
  <2> QED
    BY <1>1, <2>1, SessionAssumption DEF SessionInv, ApiPoolClean, Conn
<1>7. doc' \in [Job -> Document] /\ ReplacedTogether'
  BY DEF MarkFailed, Leave, SessionInv, TypeOK, Document, ReplacedTogether
<1> QED
  BY <1>5, <1>6, <1>7 DEF MarkFailed, Leave, SessionInv, TypeOK, aux

\* A dead connection comes back without a setting, which is what an API connection
\* has anyway.
LEMMA DieOK ==
  ASSUME SessionInv, NEW c \in Conn, Die(c)
  PROVE  SessionInv'
<1>1. setting' \in [Conn -> Tenant] /\ ApiPoolClean'
  BY DEF Die, SessionInv, TypeOK, Tenant, ApiPoolClean, Conn
<1>2. cutOff' \subseteq Job
  BY DEF Die, SessionInv, TypeOK
<1> QED
  BY <1>1, <1>2 DEF Die, SessionInv, TypeOK, ReplacedTogether

-----------------------------------------------------------------------------
LEMMA SessionInvStep == SessionInv /\ [Next]_vars => SessionInv'
<1> SUFFICES ASSUME SessionInv, [Next]_vars PROVE SessionInv'
  OBVIOUS
<1>1. ASSUME NEW r \in Request,
             \/ \E c \in Conn : OpenIdentity(r, c)
             \/ \E o \in Org, c \in Conn : OpenTenant(r, o, c)
             \/ \E o \in Org : Signup(r, o)
             \/ Close(r)
      PROVE  SessionInv'
  BY <1>1, OpenIdentityOK, OpenTenantOK, SignupOK, CloseOK
<1>2. ASSUME NEW j \in Job,
             \/ \E o \in Org, c \in Conn : OpenJob(j, o, c)
             \/ CommitProcessing(j) \/ CommitReady(j) \/ Fail(j) \/ Break(j)
             \/ \E c \in Conn : DeleteOld(j, c) \/ MarkFailed(j, c) \/ Leave(j, c)
      PROVE  SessionInv'
  BY <1>2, OpenJobOK, CommitProcessingOK, CommitReadyOK, EndOfTransactionOK, DeleteOldOK,
     ShortTransactionOK
<1>3. ASSUME NEW c \in Conn, Die(c) PROVE SessionInv'
  BY <1>3, DieOK
<1>4. CASE UNCHANGED vars
  BY <1>4 DEF vars, aux, SessionInv, TypeOK, ApiPoolClean, ReplacedTogether, RequestOK, JobOK
<1> QED
  BY <1>1, <1>2, <1>3, <1>4 DEF Next

\* In every behaviour: the API's settings end with their transactions, and the
\* worker's stay in its own pool.
THEOREM SessionInvariant == Spec => []SessionInv
BY InitSessionInv, SessionInvStep, PTL DEF Spec

\* A request works on its own organization, or on none, in every transaction.
THEOREM RequestsScoped == Spec => []ApiScoped
<1>1. SessionInv => ApiScoped
  BY DEF SessionInv, RequestOK, ApiScoped
<1> QED
  BY <1>1, SessionInvariant, PTL

\* Old chunks are never left next to new ones by a job that lost its tenant.
THEOREM ChunksReplaced == Spec => []ReplacedTogether
<1>1. SessionInv => ReplacedTogether
  BY DEF SessionInv
<1> QED
  BY <1>1, SessionInvariant, PTL

-----------------------------------------------------------------------------
(* One job at a time.                                                       *)

LEMMA InitLone == Init => LoneInv
BY DEF Init, LoneInv, Closed, JobAtWork, Alone

\* What the API does to its own connections is no job's business.
LEMMA RequestAlone ==
  ASSUME SessionInv, LoneInv, NEW r \in Request,
         \/ \E c \in Conn : OpenIdentity(r, c)
         \/ \E o \in Org, c \in Conn : OpenTenant(r, o, c)
         \/ \E o \in Org : Signup(r, o)
         \/ Close(r)
  PROVE  LoneInv'
<1>1. /\ r \notin Job /\ TypeOK /\ RequestOK(session[r])
      /\ ApiConn \cap WorkerConn = {} /\ NoConn \notin WorkerConn
  BY SessionAssumption DEF SessionInv
<1>2. \A j \in Job : session'[j] = session[j]
  BY <1>1 DEF TypeOK, OpenIdentity, OpenTenant, Signup, Close, Begin, Return
<1>3. setting' = setting
  BY <1>1 DEF OpenIdentity, OpenTenant, Signup, Close, Committed, RequestOK
<1>4. overlap' = overlap /\ cutOff' = cutOff
  BY DEF OpenIdentity, OpenTenant, Signup, Close, aux
<1>5. idle' \cap WorkerConn = idle \cap WorkerConn
  <2>1. ASSUME NEW c \in Conn, NEW x, Begin(r, c, x) PROVE idle' \cap WorkerConn = idle \cap WorkerConn
    <3>1. c \in ApiConn /\ idle' = idle \ {c}
      BY <1>1, <2>1, OfferedConns DEF Begin, TypeOK
    <3> QED
      BY <1>1, <3>1
  <2>2. ASSUME Close(r) PROVE idle' \cap WorkerConn = idle \cap WorkerConn
    <3>1. session[r].conn \notin WorkerConn /\ idle' = (idle \cup {session[r].conn}) \ {NoConn}
      BY <1>1, <2>2 DEF RequestOK, Close, Return
    <3> QED
      BY <1>1, <3>1
  <2> QED
    BY <2>1, <2>2 DEF OpenIdentity, OpenTenant, Signup
<1> QED
  BY <1>2, <1>3, <1>4, <1>5 DEF LoneInv

\* A job that is alone at work: the others hold no connection, so its own step is
\* all that matters.
LEMMA OnlyJob ==
  ASSUME SessionInv, LoneInv, ~overlap, NEW j \in Job,
         \A k \in Job \ {j} : session[k].pc \notin JobAtWork /\ session'[k] = session[k],
         \A c, d \in idle' \cap WorkerConn : c = d,
         Alone(session'[j], idle' \cap WorkerConn, setting', j \in cutOff')
  PROVE  LoneInv'
<1>1. \A k \in Job \ {j} : Alone(session'[k], idle' \cap WorkerConn, setting', k \in cutOff')
  BY DEF LoneInv, Alone, JobAtWork
<1> QED
  BY <1>1 DEF LoneInv

\* A connection offered to the only job is the one that the worker has, if any.
LEMMA LoneOffer ==
  ASSUME SessionInv, LoneInv, ~overlap, NEW j \in Job, NEW c \in Offered(j)
  PROVE  /\ c \in WorkerConn
         /\ idle \cap WorkerConn \subseteq {c}
         /\ idle \cap WorkerConn # {} => idle \cap WorkerConn = {c}
<1>1. c \in WorkerConn
  BY OfferedConns DEF SessionInv, TypeOK
<1>2. idle \cap WorkerConn # {} => c \in idle \cap WorkerConn
  BY DEF Offered, Pool
<1>3. \A d, e \in idle \cap WorkerConn : d = e
  BY DEF LoneInv
<1> QED
  BY <1>1, <1>2, <1>3

\* The fields of what a job goes on as.
LEMMA AfterFields ==
  ASSUME NEW s \in Request \cup Job, NEW p
  PROVE  /\ After(s, p).pc = p /\ After(s, p).conn = NoConn /\ ~After(s, p).kept
         /\ After(s, p).org = session[s].org
BY DEF After, Closed

LEMMA OpenJobAlone ==
  ASSUME SessionInv, LoneInv, ~overlap', NEW j \in Job, NEW o \in Org, NEW c \in Conn,
         OpenJob(j, o, c)
  PROVE  LoneInv'
<1> DEFINE x == [ScopedByConnection(o) EXCEPT !.conn = c]
<1>1. ~overlap /\ \A k \in Job : session[k].pc \notin JobAtWork
  BY DEF OpenJob
<1>2. c \in Offered(j) /\ c # NoConn /\ idle' = idle \ {c}
  BY SessionAssumption DEF OpenJob, Begin, Conn
<1>3. x.pc = "reading" /\ x.conn = c /\ x.tenant = o /\ x.org = o /\ x.kept
  <2>1. /\ ScopedByConnection(o) \in Session /\ ScopedByConnection(o).pc = "reading"
        /\ ScopedByConnection(o).org = o /\ ScopedByConnection(o).tenant = o
        /\ ScopedByConnection(o).kept = TRUE
    BY ClosedTyped DEF ScopedByConnection, Closed
  <2> QED
    BY <2>1, BegunTyped
<1>4. session' = [session EXCEPT ![j] = x]
  BY DEF OpenJob, Begin
<1> HIDE DEF x
<1>5. session'[j] = x /\ \A k \in Job \ {j} : session'[k] = session[k]
  BY <1>4 DEF SessionInv, TypeOK
<1>6. idle' \cap WorkerConn = {}
  BY <1>1, <1>2, LoneOffer
<1>7. Alone(session'[j], idle' \cap WorkerConn, setting', j \in cutOff')
  BY <1>2, <1>3, <1>5, <1>6 DEF Alone
<1> QED
  BY <1>1, <1>5, <1>6, <1>7, OnlyJob

LEMMA DeleteOldAlone ==
  ASSUME SessionInv, LoneInv, ~overlap, NEW j \in Job, NEW c \in Conn, DeleteOld(j, c)
  PROVE  LoneInv'
<1> DEFINE y == [session[j] EXCEPT !.pc = "replacing", !.tenant = setting[c],
                                   !.removed = (setting[c] = session[j].org)]
           x == [y EXCEPT !.conn = c]
<1>1. /\ session[j].pc = "working" /\ \A k \in Job \ {j} : session[k].pc \notin JobAtWork
      /\ Alone(session[j], idle \cap WorkerConn, setting, j \in cutOff)
  BY DEF DeleteOld, LoneInv, JobAtWork
<1>2. c \in Offered(j) /\ c # NoConn /\ idle' = idle \ {c}
  BY SessionAssumption DEF DeleteOld, Begin, Conn
<1>3. idle \cap WorkerConn = {c} /\ Own(setting[c], session[j].org, j \in cutOff)
  BY <1>1, <1>2, LoneOffer DEF Alone
<1>4. session[j] \in Session /\ setting[c] \in Tenant
  BY DEF SessionInv, TypeOK
<1>5. y \in Session /\ y.pc = "replacing" /\ y.tenant = setting[c] /\ y.org = session[j].org
  BY <1>4 DEF Session, InTransaction
<1>6. x.pc = "replacing" /\ x.conn = c /\ Own(x.tenant, x.org, j \in cutOff')
  <2>1. cutOff' = cutOff
    BY DEF DeleteOld, aux
  <2> HIDE DEF y
  <2> QED
    BY <1>3, <1>5, <2>1, BegunTyped
<1>7. session' = [session EXCEPT ![j] = x]
  BY DEF DeleteOld, Begin
<1> HIDE DEF x
<1>8. session'[j] = x /\ \A k \in Job \ {j} : session'[k] = session[k]
  BY <1>7 DEF SessionInv, TypeOK
<1>9. idle' \cap WorkerConn = {}
  BY <1>2, <1>3
<1>10. Alone(session'[j], idle' \cap WorkerConn, setting', j \in cutOff')
  BY <1>2, <1>6, <1>8, <1>9 DEF Alone
<1> QED
  BY <1>1, <1>8, <1>9, <1>10, OnlyJob

\* A transaction of the only job ends: its connection is the only one in the pool.
LEMMA ReturnAlone ==
  ASSUME SessionInv, LoneInv, ~overlap, NEW j \in Job, session[j].pc \in JobAtWork,
         NEW p \in {"working", "failing", "leaving"}, Return(j, p)
  PROVE  /\ \A k \in Job \ {j} : session[k].pc \notin JobAtWork /\ session'[k] = session[k]
         /\ session'[j] = After(j, p)
         /\ \A c, d \in idle' \cap WorkerConn : c = d
         /\ session[j].conn # NoConn => session[j].conn \in idle' \cap WorkerConn
<1>1. /\ \A k \in Job \ {j} : session[k].pc \notin JobAtWork
      /\ Alone(session[j], idle \cap WorkerConn, setting, j \in cutOff)
      /\ \A c, d \in idle \cap WorkerConn : c = d
  BY DEF LoneInv
<1>2. session[j].conn \in WorkerConn \cup {NoConn} /\ NoConn \notin WorkerConn
  BY SessionAssumption DEF SessionInv, JobOK
<1>3. session'[j] = After(j, p) /\ \A k \in Job \ {j} : session'[k] = session[k]
  BY DEF Return, SessionInv, TypeOK
<1>4. idle' \cap WorkerConn = (idle \cap WorkerConn) \cup ({session[j].conn} \ {NoConn})
  BY <1>2 DEF Return
<1>5. session[j].conn # NoConn => idle \cap WorkerConn = {}
  BY <1>1 DEF Alone
<1> QED
  BY <1>1, <1>2, <1>3, <1>4, <1>5

LEMMA CommitProcessingAlone ==
  ASSUME SessionInv, LoneInv, ~overlap, NEW j \in Job, CommitProcessing(j)
  PROVE  LoneInv'
<1>1. session[j].pc = "reading" /\ session[j].pc \in JobAtWork /\ Return(j, "working")
  BY DEF CommitProcessing, JobAtWork
<1>2. /\ \A k \in Job \ {j} : session[k].pc \notin JobAtWork /\ session'[k] = session[k]
      /\ session'[j] = After(j, "working")
      /\ \A c, d \in idle' \cap WorkerConn : c = d
      /\ session[j].conn # NoConn => session[j].conn \in idle' \cap WorkerConn
  BY <1>1, ReturnAlone
<1>3. session[j].conn # NoConn /\ session[j].kept /\ session[j].tenant = session[j].org
  BY <1>1 DEF LoneInv, Alone
<1>4. setting'[session[j].conn] = session[j].org
  <2>1. session[j].conn \in Conn
    BY <1>3 DEF SessionInv, JobOK, Conn
  <2> QED
    BY <1>3, <2>1 DEF CommitProcessing, Committed, SessionInv, TypeOK
<1>5. Alone(session'[j], idle' \cap WorkerConn, setting', j \in cutOff')
  BY <1>2, <1>3, <1>4, AfterFields DEF Alone, Own
<1> QED
  BY <1>2, <1>5, OnlyJob

LEMMA EndAlone ==
  ASSUME SessionInv, LoneInv, ~overlap, NEW j \in Job, CommitReady(j) \/ Fail(j) \/ Break(j)
  PROVE  LoneInv'
<1>1. session[j].pc \in JobAtWork /\ \E p \in {"failing", "leaving"} : Return(j, p)
  BY DEF CommitReady, Fail, Break, JobAtWork
<1>2. PICK p \in {"failing", "leaving"} : Return(j, p)
  BY <1>1
<1>3. /\ \A k \in Job \ {j} : session[k].pc \notin JobAtWork /\ session'[k] = session[k]
      /\ session'[j] = After(j, p)
      /\ \A c, d \in idle' \cap WorkerConn : c = d
  BY <1>1, <1>2, ReturnAlone
<1>4. Alone(session'[j], idle' \cap WorkerConn, setting', j \in cutOff')
  BY <1>3, AfterFields DEF Alone
<1> QED
  BY <1>3, <1>4, OnlyJob

LEMMA ShortAlone ==
  ASSUME SessionInv, LoneInv, ~overlap, NEW j \in Job, NEW c \in Conn,
         MarkFailed(j, c) \/ Leave(j, c)
  PROVE  LoneInv'
<1>1. /\ session[j].pc \in JobAtWork /\ c \in Offered(j) /\ idle' = idle \cup {c}
      /\ \E p \in {"leaving", "over"} : session' = [session EXCEPT ![j] = After(j, p)]
  BY DEF MarkFailed, Leave, JobAtWork
<1>2. PICK p \in {"leaving", "over"} : session' = [session EXCEPT ![j] = After(j, p)]
  BY <1>1
<1>3. /\ \A k \in Job \ {j} : session[k].pc \notin JobAtWork /\ session'[k] = session[k]
      /\ session'[j] = After(j, p)
  BY <1>1, <1>2 DEF LoneInv, SessionInv, TypeOK
<1>4. \A d, e \in idle' \cap WorkerConn : d = e
  BY <1>1, LoneOffer
<1>5. Alone(session'[j], idle' \cap WorkerConn, setting', j \in cutOff')
  BY <1>3, AfterFields DEF Alone
<1> QED
  BY <1>3, <1>4, <1>5, OnlyJob

\* The worker's connection dies, between two transactions of the only job if there
\* is one, which then counts as cut off.
LEMMA DieAlone ==
  ASSUME SessionInv, LoneInv, ~overlap, NEW c \in Conn, Die(c)
  PROVE  LoneInv'
<1>1. /\ session' = session /\ idle' = idle /\ cutOff \subseteq cutOff'
      /\ setting'[c] = NoTenant /\ \A d \in Conn \ {c} : setting'[d] = setting[d]
  BY DEF Die, SessionInv, TypeOK
<1>2. ASSUME NEW j \in Job
      PROVE  Alone(session'[j], idle' \cap WorkerConn, setting', j \in cutOff')
  <2>1. Alone(session[j], idle \cap WorkerConn, setting, j \in cutOff)
    BY DEF LoneInv
  <2>2. ASSUME session[j].pc = "working"
        PROVE  \E d \in idle \cap WorkerConn : Own(setting'[d], session[j].org, j \in cutOff')
    <3>1. PICK d \in idle \cap WorkerConn : Own(setting[d], session[j].org, j \in cutOff)
      BY <2>1, <2>2 DEF Alone
    <3>2. CASE d # c
      <4>1. setting'[d] = setting[d]
        BY <1>1, <3>2 DEF Conn
      <4> QED
        BY <1>1, <3>1, <4>1 DEF Own
    <3>3. CASE d = c
      <4>1. j \in cutOff'
        BY <1>1, <2>2, <3>1, <3>3 DEF Own, Die
      <4> QED
        BY <1>1, <3>3, <4>1 DEF Own
    <3> QED
      BY <3>2, <3>3
  <2> QED
    BY <1>1, <2>1, <2>2 DEF Alone, Own
<1> QED
  BY <1>1, <1>2 DEF LoneInv, Die

LEMMA LoneStep == SessionInv /\ LoneInv /\ [Next]_vars => LoneInv'
<1> SUFFICES ASSUME SessionInv, LoneInv, [Next]_vars PROVE LoneInv'
  OBVIOUS
<1>1. ASSUME NEW r \in Request,
             \/ \E c \in Conn : OpenIdentity(r, c)
             \/ \E o \in Org, c \in Conn : OpenTenant(r, o, c)
             \/ \E o \in Org : Signup(r, o)
             \/ Close(r)
      PROVE  LoneInv'
  BY <1>1, RequestAlone
<1>2. ASSUME NEW j \in Job,
             \/ \E o \in Org, c \in Conn : OpenJob(j, o, c)
             \/ CommitProcessing(j) \/ CommitReady(j) \/ Fail(j) \/ Break(j)
             \/ \E c \in Conn : DeleteOld(j, c) \/ MarkFailed(j, c) \/ Leave(j, c)
      PROVE  LoneInv'
  <2>1. CASE overlap'
    BY <2>1 DEF LoneInv
  <2>2. CASE ~overlap'
    <3>1. ~overlap
      BY <1>2, <2>2 DEF OpenJob, CommitProcessing, CommitReady, Fail, Break, DeleteOld, MarkFailed,
         Leave, aux
    <3> QED
      BY <1>2, <2>2, <3>1, OpenJobAlone, DeleteOldAlone, CommitProcessingAlone, EndAlone, ShortAlone
  <2> QED
    BY <2>1, <2>2
<1>3. ASSUME NEW c \in Conn, Die(c) PROVE LoneInv'
  <2>1. CASE overlap
    BY <1>3, <2>1 DEF Die, LoneInv
  <2> QED
    BY <1>3, <2>1, DieAlone
<1>4. CASE UNCHANGED vars
  BY <1>4 DEF vars, aux, LoneInv
<1> QED
  BY <1>1, <1>2, <1>3, <1>4 DEF Next

\* As long as jobs run one after the other each works on its own organization, in
\* its second transaction too, which relies on getting back the connection that the
\* first one returned; if that one died in between, it works on none.
THEOREM LoneJobsScoped == Spec => []LoneJobScoped
<1>1. Spec => []LoneInv
  BY InitLone, LoneStep, SessionInvariant, PTL DEF Spec
<1>2. SessionInv /\ LoneInv => LoneJobScoped
  BY DEF SessionInv, JobOK, LoneInv, Alone, Own, LoneJobScoped, OwnRows, InTransaction, JobAtWork
<1> QED
  BY <1>1, <1>2, SessionInvariant, PTL

=============================================================================
