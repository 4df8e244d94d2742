--------------------------- MODULE TenantSession ---------------------------
(***************************************************************************)
(* Sessions, pooled connections and app.current_tenant (core/db.py), the   *)
(* setting that the row-level policies compare with org_id.                *)
(*                                                                         *)
(* The API process opens tenant sessions, whose setting ends with their    *)
(* only transaction, and identity sessions, which have none until signup   *)
(* scopes one.  The worker process opens one session per ingestion job;    *)
(* its setting belongs to the connection, and SQLAlchemy returns the       *)
(* connection to the pool at every commit and rollback.  Each process has  *)
(* its own pool, which hands out an idle connection (the model: any, the   *)
(* code: the one idle for longest) before it makes another.  Both pools    *)
(* ping what they hand out (pool_pre_ping): an idle connection that has    *)
(* died is replaced by a fresh one, without the setting.                   *)
(*                                                                         *)
(* A statement sees and changes only rows of the tenant that is set: an    *)
(* UPDATE or DELETE under another one finds nothing, an INSERT raises.     *)
(***************************************************************************)
CONSTANTS Org, NoTenant,
          ApiConn, WorkerConn,   \* connections each pool may make
          NoConn,
          Request, Job           \* one document per job

ASSUME SessionAssumption ==
  /\ NoTenant \notin Org /\ ApiConn \cap WorkerConn = {}
  /\ NoConn \notin ApiConn \cup WorkerConn /\ Request \cap Job = {}

VARIABLES
  setting,  \* app.current_tenant of each connection, outside transactions
  idle,     \* connections in the pools
  session,  \* the session of each request and job
  doc,      \* each job's document: status, old chunks there, new chunks there
  overlap,  \* auxiliary: two jobs have run at once
  cutOff    \* auxiliary: jobs whose tenant's connection died between their transactions

aux == <<overlap, cutOff>>
vars == <<setting, idle, session, doc, aux>>

Conn == ApiConn \cup WorkerConn
Tenant == Org \cup {NoTenant}
Pool(s) == IF s \in Job THEN WorkerConn ELSE ApiConn

InTransaction == {"tenant", "identity", "reading", "replacing"}
JobAtWork == {"reading", "working", "replacing", "failing", "leaving"}
Session == [pc : {"none", "over"} \cup InTransaction \cup JobAtWork,
            org : Tenant, conn : Conn \cup {NoConn},
            tenant : Tenant,     \* the setting as the transaction sees it
            kept : BOOLEAN,      \* it stays with the connection after a commit
            removed : BOOLEAN]   \* the old chunks are deleted in it
Document == [status : {"pending", "processing", "ready", "failed"},
             old : BOOLEAN, new : BOOLEAN]

Closed == [pc |-> "none", org |-> NoTenant, conn |-> NoConn, tenant |-> NoTenant,
           kept |-> FALSE, removed |-> FALSE]

Init ==
  /\ setting = [c \in Conn |-> NoTenant] /\ idle = {} /\ overlap = FALSE /\ cutOff = {}
  /\ session = [s \in Request \cup Job |-> Closed]
  /\ doc \in [Job -> [status : {"pending"}, old : BOOLEAN, new : {FALSE}]]

-----------------------------------------------------------------------------
(* The pool.                                                                *)

Unused(s) == {c \in Pool(s) \ idle : \A x \in Request \cup Job : session[x].conn # c}
Offered(s) == IF idle \cap Pool(s) # {} THEN idle \cap Pool(s) ELSE Unused(s)

\* The transaction of s begins on connection c.
Begin(s, c, new) == /\ c \in Offered(s)
                    /\ idle' = idle \ {c}
                    /\ session' = [session EXCEPT ![s] = [new EXCEPT !.conn = c]]

\* What s goes on as once its transaction is over.
After(s, p) == [Closed EXCEPT !.pc = p, !.org = session[s].org]

\* The transaction ends, and the connection returns to the pool.
Return(s, p) == /\ idle' = (idle \cup {session[s].conn}) \ {NoConn}
                /\ session' = [session EXCEPT ![s] = After(s, p)]

Committed(s) == IF session[s].kept
                THEN [setting EXCEPT ![session[s].conn] = session[s].tenant]
                ELSE setting

\* An idle connection is dead, and the ping makes it a fresh one.  One that dies
\* in a transaction makes that raise, and is idle and dead after it.
Die(c) ==
  /\ c \in idle
  /\ setting' = [setting EXCEPT ![c] = NoTenant]
  /\ cutOff' = cutOff \cup {j \in Job : /\ session[j].pc = "working"
                                       /\ session[j].org = setting[c]}
  /\ UNCHANGED <<idle, session, doc, overlap>>

-----------------------------------------------------------------------------
(* The API: tenant_session, and plain sessions of the identity endpoints.   *)

\* Fault: set_config(..., false).
ScopedForGood(o) == [Closed EXCEPT !.pc = "tenant", !.org = o, !.tenant = o, !.kept = TRUE]

\* set_config('app.current_tenant', o, true) is the first statement.
Scoped(o) == [Closed EXCEPT !.pc = "tenant", !.org = o, !.tenant = o]

OpenTenant(r, o, c) ==
  /\ session[r].pc = "none" /\ Begin(r, c, Scoped(o))
  /\ UNCHANGED <<setting, doc, aux>>

OpenIdentity(r, c) ==
  /\ session[r].pc = "none"
  /\ Begin(r, c, [Closed EXCEPT !.pc = "identity", !.tenant = setting[c]])
  /\ UNCHANGED <<setting, doc, aux>>

\* signup scopes its transaction to the organization it has just created.
Signup(r, o) ==
  /\ session[r].pc = "identity" /\ session[r].org = NoTenant
  /\ session' = [session EXCEPT ![r].org = o, ![r].tenant = o]
  /\ UNCHANGED <<setting, idle, doc, aux>>

\* The block is left, with a commit or, after an exception, a rollback.
Close(r) ==
  /\ session[r].pc \in {"tenant", "identity"} /\ Return(r, "over")
  /\ setting' \in {setting, Committed(r)}
  /\ UNCHANGED <<doc, aux>>

-----------------------------------------------------------------------------
(* The worker: tenant_worker_session around run_ingestion.                  *)

\* Fault: set_config(..., true).
ScopedOnce(o) == [Closed EXCEPT !.pc = "reading", !.org = o, !.tenant = o]

\* set_config('app.current_tenant', o, false), then the document is read.
ScopedByConnection(o) ==
  [Closed EXCEPT !.pc = "reading", !.org = o, !.tenant = o, !.kept = TRUE]

OpenJob(j, o, c) ==
  /\ session[j].pc = "none" /\ Begin(j, c, ScopedByConnection(o))
  /\ overlap' = (overlap \/ \E k \in Job : session[k].pc \in JobAtWork)
  /\ UNCHANGED <<setting, doc, cutOff>>

CommitProcessing(j) ==
  /\ session[j].pc = "reading" /\ Return(j, "working")
  /\ setting' = Committed(j)
  /\ doc' = [doc EXCEPT ![j].status = "processing"]
  /\ UNCHANGED aux

OwnRows(j) == session[j].tenant = session[j].org

\* The chunks and vectors are there; the DELETE opens the second transaction.
DeleteOld(j, c) ==
  /\ session[j].pc = "working"
  /\ Begin(j, c, [session[j] EXCEPT !.pc = "replacing", !.tenant = setting[c],
                                    !.removed = (setting[c] = session[j].org)])
  /\ UNCHANGED <<setting, doc, aux>>

\* Fault: the chunks are inserted without the policy's check.
InsertUnchecked(j) == [doc[j] EXCEPT !.old = @ /\ ~session[j].removed, !.new = TRUE,
                                     !.status = IF OwnRows(j) THEN "ready" ELSE @]

\* What INSERT and UPDATE make of the document.
Replaced(j) == IF OwnRows(j)
               THEN [status |-> "ready", old |-> doc[j].old /\ ~session[j].removed,
                     new |-> TRUE]
               ELSE doc[j]

\* The INSERT raises under another tenant; without chunks to insert, the UPDATE
\* finds no row and the transaction commits nothing.
CommitReady(j) ==
  /\ session[j].pc = "replacing" /\ Return(j, "leaving")
  /\ doc' = [doc EXCEPT ![j] = Replaced(j)]
  /\ setting' = Committed(j)
  /\ UNCHANGED aux

\* An exception in the try block, from its first commit to its last, among them
\* the INSERT's.
Fail(j) ==
  /\ session[j].pc \in {"reading", "working", "replacing"} /\ Return(j, "failing")
  /\ UNCHANGED <<setting, doc, aux>>

\* _mark_failed, a transaction that ends where it began in the pool; a document
\* it does not find is left alone.
MarkFailed(j, c) ==
  /\ session[j].pc = "failing" /\ c \in Offered(j)
  /\ idle' = idle \cup {c}
  /\ session' = [session EXCEPT ![j] = After(j, "leaving")]
  /\ doc' = [doc EXCEPT ![j].status = IF setting[c] = session[j].org THEN "failed" ELSE @]
  /\ UNCHANGED <<setting, aux>>

\* The document is not found, the job is cancelled, or _mark_failed raises.
Break(j) ==
  /\ session[j].pc \in JobAtWork \ {"leaving"} /\ Return(j, "leaving")
  /\ UNCHANGED <<setting, doc, aux>>

\* The finally block: a transaction that clears the setting of the connection
\* it gets, or that fails.
Leave(j, c) ==
  /\ session[j].pc = "leaving" /\ c \in Offered(j)
  /\ idle' = idle \cup {c}
  /\ session' = [session EXCEPT ![j] = After(j, "over")]
  /\ setting' \in {setting, [setting EXCEPT ![c] = NoTenant]}
  /\ UNCHANGED <<doc, aux>>

-----------------------------------------------------------------------------
Next ==
  \/ \E r \in Request : \/ \E c \in Conn : OpenIdentity(r, c)
                        \/ \E o \in Org, c \in Conn : OpenTenant(r, o, c)
                        \/ \E o \in Org : Signup(r, o)
                        \/ Close(r)
  \/ \E j \in Job : \/ \E o \in Org, c \in Conn : OpenJob(j, o, c)
                    \/ CommitProcessing(j) \/ CommitReady(j) \/ Fail(j) \/ Break(j)
                    \/ \E c \in Conn : DeleteOld(j, c) \/ MarkFailed(j, c) \/ Leave(j, c)
  \/ \E c \in Conn : Die(c)

Spec == Init /\ [][Next]_vars

-----------------------------------------------------------------------------
(* Correctness.                                                             *)

TypeOK ==
  /\ setting \in [Conn -> Tenant] /\ idle \subseteq Conn /\ overlap \in BOOLEAN
  /\ cutOff \subseteq Job /\ session \in [Request \cup Job -> Session] /\ doc \in [Job -> Document]

\* Whatever connection a request gets, and however the sessions before it ended:
\* a tenant session works on its own organization, and an identity session on
\* none, or on the one that its signup has created.
ApiScoped ==
  \A r \in Request : session[r].pc \in InTransaction => session[r].tenant = session[r].org

\* A document never has its old chunks next to its new ones: a DELETE that found
\* nothing because the tenant was lost is not followed by an INSERT.
ReplacedTogether == \A j \in Job : doc[j].new => ~doc[j].old

\* As long as jobs run one after the other, each works on its own organization
\* in all its transactions, whatever earlier jobs left on the connection.  When
\* that connection dies between two of them, and only then, the next one has no
\* tenant, so it finds nothing; it never has another's.
LoneJobScoped ==
  ~overlap =>
    \A j \in Job : session[j].pc \in InTransaction =>
      OwnRows(j) \/ (j \in cutOff /\ session[j].tenant = NoTenant)

-----------------------------------------------------------------------------
(* A claim of the documentation that the code does not keep.                *)

\* core/db.py 104-107: "the tenant setting is session-scoped (survives the job's
\* internal commits), so multi-transaction work like the ingestion pipeline
\* stays scoped end to end".  Without the jobs whose connection died.
StaysScoped == \A j \in Job \ cutOff : session[j].pc \in InTransaction => OwnRows(j)
=============================================================================
