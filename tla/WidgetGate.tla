----------------------------- MODULE WidgetGate -----------------------------
(***************************************************************************)
(* What a request of the widget passes before it is served                 *)
(* (routers/widget.py): its public key (services/api_keys.py), its origin, *)
(* and the rate limits of its key and its address (services/rate_limit.py);*)
(* next to the owners who revoke keys (routers/keys.py), and the thumb of  *)
(* the feedback endpoint with its copy in the traces.                      *)
(*                                                                         *)
(* The clock counts rate-limit windows; a throttle key in Redis lives as   *)
(* long as a window.  Redis and Postgres calls are steps, since any of     *)
(* them may be slow, or raise.                                             *)
(***************************************************************************)
EXTENDS Naturals, FiniteSets

CONSTANTS
  Request, Key, Ip, Revoker,
  NoKey, NoIp,
  Limit,       \* WIDGET_RATE_LIMIT_PER_MINUTE
  MaxWindow    \* bound on the clock

ASSUME GateAssumption ==
  /\ NoKey \notin Key /\ NoIp \notin Ip /\ Key \cap Ip = {}
  /\ Limit \in Nat /\ MaxWindow \in Nat \ {0} /\ IsFiniteSet(Request)

VARIABLES
  clock,      \* the window that the time is in
  req,        \* the requests
  revoker,    \* the revocations
  count,      \* Redis: the counter of each identifier and window, 0 if absent
  deadline,   \* Redis: the window in which it expires, 0 if it has no expiry
  throttle,   \* Redis: the window in which helpdeck:key_used expires, 0 if absent
  lastUsed,   \* api_keys.last_used_at, 0 if null
  revokedAt,  \* api_keys.revoked_at, 0 if null
  feedback,   \* messages.feedback of the message that is voted on, 0 if null
  scored,     \* the last user_feedback score of its trace
  hits,       \* auxiliary: who has incremented the counter of an identifier and window
  restarted,  \* auxiliary: the counters that were counted anew after they had expired
  dead,       \* auxiliary: when a key's first revocation was committed, 0 before
  orphans,    \* auxiliary: counters whose request failed between INCR and EXPIRE
  disturbed   \* auxiliary: keys whose touch failed, and votes, if they overlapped or
              \* one of them failed between its commit and its score

redis == <<count, deadline, throttle>>
keys == <<lastUsed, revokedAt, dead>>
votes == <<feedback, scored>>
past == <<restarted, orphans, disturbed>>
vars == <<clock, req, revoker, redis, keys, votes, hits, past>>

Window == 1..MaxWindow
Ident == Key \cup Ip
Rating == {1, 2}      \* thumbs down, thumbs up

Nobody == [pc |-> "idle", key |-> NoKey, ip |-> NoIp, began |-> 0, keyWin |-> 0, ipWin |-> 0,
           vote |-> 0, read |-> 0]

Init ==
  /\ clock = 1
  /\ req = [r \in Request |-> Nobody]
  /\ revoker = [o \in Revoker |-> [pc |-> "idle", key |-> NoKey, at |-> 0]]
  /\ count = [i \in Ident |-> [w \in Window |-> 0]]
  /\ deadline = [i \in Ident |-> [w \in Window |-> 0]]
  /\ hits = [i \in Ident |-> [w \in Window |-> {}]]
  /\ restarted = {}
  /\ throttle = [k \in Key |-> 0]
  /\ lastUsed = [k \in Key |-> 0] /\ revokedAt = [k \in Key |-> 0] /\ dead = [k \in Key |-> 0]
  /\ feedback = 0 /\ scored = 0 /\ orphans = {} /\ disturbed = {}

At(r, pc) == req[r].pc = pc
Goto(r, pc) == req' = [req EXCEPT ![r].pc = pc]

\* A response that no limit refused; nothing more is known of the request.
Answered(r, pc) == req' = [req EXCEPT ![r] = [Nobody EXCEPT !.pc = pc]]

-----------------------------------------------------------------------------
(* The key.                                                                 *)

\* resolve_api_key.
Unrevoked(k) == revokedAt[k] = 0

\* _org_for_key: the lookup opens the transaction, whose time is now() in all
\* of it.
Resolve(r, k, i) ==
  /\ At(r, "idle")
  /\ IF Unrevoked(k)
     THEN req' = [req EXCEPT ![r] = [@ EXCEPT !.pc = "throttle", !.key = k, !.ip = i,
                                              !.began = clock]]
     ELSE Answered(r, "401")
  /\ UNCHANGED <<clock, revoker, redis, keys, votes, hits, past>>

\* touch_last_used: SET NX EX.
Throttle(r) ==
  LET k == req[r].key IN
  /\ At(r, "throttle")
  /\ IF throttle[k] = 0
     THEN throttle' = [throttle EXCEPT ![k] = clock + 1] /\ Goto(r, "touch")
     ELSE throttle' = throttle /\ Goto(r, "known")
  /\ UNCHANGED <<clock, revoker, count, deadline, keys, votes, hits, past>>

\* Fault: the time of the statement, not of the transaction.
TouchTimeLate(r) == clock

\* Fault: the session is closed without a commit.
TouchTimeLost(r) == lastUsed[req[r].key]

\* now() in touch_api_key.
TouchTime(r) == req[r].began

\* touch_api_key, and the commit of the session.
Touch(r) ==
  /\ At(r, "touch") /\ Goto(r, "known")
  /\ lastUsed' = [lastUsed EXCEPT ![req[r].key] = TouchTime(r)]
  /\ UNCHANGED <<clock, revoker, redis, revokedAt, dead, votes, hits, past>>

\* The organization is gone, or _check_origin misses the origin in its allowlist.
Refuse(r) ==
  /\ At(r, "known") /\ \E pc \in {"401", "403"} : Answered(r, pc)
  /\ UNCHANGED <<clock, revoker, redis, keys, votes, hits, past>>

-----------------------------------------------------------------------------
(* The rate limits: the key's, then the address's.  A hit of either reads   *)
(* the clock, increments the counter of that window, and sets its expiry    *)
(* if it was the first.                                                     *)

\* Fault: one counter for all windows.
CounterForever(w) == 1

\* The window in the name of the counter.
CounterOf(w) == w

\* Fault: one request more than the limit.
OverByOne(n) == n > Limit + 1

Over(n) == n > Limit

\* result.allowed: on to the address, or to the endpoint.
Verdict(n, allowed) == IF Over(n) THEN "429" ELSE allowed

AfterIncr(n, expire, allowed) == IF n = 1 THEN expire ELSE Verdict(n, allowed)

\* The clock was read some time before: win may be over.
Incr(r, i, win, expire, allowed) ==
  LET w == CounterOf(win)
      n == count[i][w] + 1 IN
  /\ count' = [count EXCEPT ![i][w] = n]
  /\ hits' = [hits EXCEPT ![i][win] = @ \cup {r}]
  /\ restarted' = restarted \cup IF n = 1 /\ hits[i][win] # {} THEN {<<i, win>>} ELSE {}
  /\ LET pc == AfterIncr(n, expire, allowed) IN
     req' = [req EXCEPT ![r] = IF i \in Key THEN [@ EXCEPT !.pc = pc, !.keyWin = win]
                               ELSE [@ EXCEPT !.pc = pc, !.ipWin = win]]
  /\ UNCHANGED <<clock, revoker, deadline, throttle, keys, votes, orphans, disturbed>>

\* EXPIRE does nothing to a counter that is gone.
SetExpiry(r, i, win, allowed) ==
  LET w == CounterOf(win) IN
  /\ deadline' = [deadline EXCEPT ![i][w] = IF count[i][w] = 0 THEN @ ELSE clock + 1]
  /\ Goto(r, Verdict(1, allowed))
  /\ UNCHANGED <<clock, revoker, count, throttle, keys, votes, hits, past>>

HitKey(r) ==
  \/ At(r, "known") /\ \E win \in req[r].began..clock :
                         Incr(r, req[r].key, win, "keyExpire", "ip")
  \/ At(r, "keyExpire") /\ SetExpiry(r, req[r].key, req[r].keyWin, "ip")

HitIp(r) ==
  \/ At(r, "ip") /\ \E win \in req[r].keyWin..clock :
                      Incr(r, req[r].ip, win, "ipExpire", "served")
  \/ At(r, "ipExpire") /\ SetExpiry(r, req[r].ip, req[r].ipWin, "served")

-----------------------------------------------------------------------------
(* The endpoints.  Only a vote is followed beyond the gate.                 *)

Voting(r) == At(r, "vote") \/ At(r, "score")

\* session.get of the message; a second vote may be reading too.
ReadMessage(r) ==
  /\ At(r, "served")
  /\ \E v \in Rating : req' = [req EXCEPT ![r].pc = "vote", ![r].vote = v, ![r].read = feedback]
  /\ disturbed' = disturbed \cup IF \E q \in Request : Voting(q) THEN {"votes"} ELSE {}
  /\ UNCHANGED <<clock, revoker, redis, keys, votes, hits, restarted, orphans>>

\* Fault: the score is recorded before the commit, which may fail.
CommitVoteLate(r) ==
  /\ At(r, "vote") /\ scored' = req[r].vote
  /\ \/ Goto(r, "score") /\ feedback' = req[r].vote
     \/ Goto(r, "500") /\ feedback' = feedback
  /\ UNCHANGED <<clock, revoker, redis, keys, hits, past>>

\* No UPDATE is sent when the row had this vote already.
CommitVote(r) ==
  /\ At(r, "vote") /\ Goto(r, "score")
  /\ feedback' = IF req[r].read = req[r].vote THEN feedback ELSE req[r].vote
  /\ UNCHANGED <<clock, revoker, redis, keys, scored, hits, past>>

\* record_score, after the commit.
RecordScore(r) ==
  /\ At(r, "score") /\ Goto(r, "done") /\ scored' = req[r].vote
  /\ UNCHANGED <<clock, revoker, redis, keys, feedback, hits, past>>

\* A call raises or the process dies.  What was written stays.
Fail(r) ==
  /\ req[r].pc \in {"throttle", "touch", "known", "keyExpire", "ip", "ipExpire", "vote", "score"}
  /\ Answered(r, "500")
  /\ disturbed' = disturbed \cup CASE At(r, "touch") -> {req[r].key}
                                   [] At(r, "score") -> {"votes"}
                                   [] OTHER -> {}
  /\ orphans' = orphans \cup CASE At(r, "keyExpire") -> {<<req[r].key, req[r].keyWin>>}
                               [] At(r, "ipExpire") -> {<<req[r].ip, req[r].ipWin>>}
                               [] OTHER -> {}
  /\ UNCHANGED <<clock, revoker, redis, keys, votes, hits, restarted>>

-----------------------------------------------------------------------------
(* Revocation by an owner: read, then commit with the audit row.            *)

ReadKey(o, k) ==
  /\ revoker[o].pc = "idle" /\ Unrevoked(k)
  /\ revoker' = [revoker EXCEPT ![o] = [pc |-> "commit", key |-> k, at |-> clock]]
  /\ UNCHANGED <<clock, req, redis, keys, votes, hits, past>>

\* Two owners who have both read may both commit: the later time stays.
Revoke(o) ==
  LET k == revoker[o].key IN
  /\ revoker[o].pc = "commit" /\ revoker' = [revoker EXCEPT ![o].pc = "done"]
  /\ revokedAt' = [revokedAt EXCEPT ![k] = revoker[o].at]
  /\ dead' = [dead EXCEPT ![k] = IF @ = 0 THEN clock ELSE @]
  /\ UNCHANGED <<clock, req, redis, lastUsed, votes, hits, past>>

-----------------------------------------------------------------------------
(* Time, and what Redis forgets.                                            *)

\* A counter or throttle that expires in this window is gone before the next.
Due(i, w) == count[i][w] # 0 /\ deadline[i][w] # 0 /\ deadline[i][w] <= clock

Tick ==
  /\ clock < MaxWindow /\ clock' = clock + 1
  /\ \A i \in Ident, w \in Window : ~Due(i, w)
  /\ \A k \in Key : throttle[k] = 0 \/ throttle[k] > clock
  /\ UNCHANGED <<req, revoker, redis, keys, votes, hits, past>>

ExpireCounter(i, w) ==
  /\ Due(i, w)
  /\ count' = [count EXCEPT ![i][w] = 0] /\ deadline' = [deadline EXCEPT ![i][w] = 0]
  /\ UNCHANGED <<clock, req, revoker, throttle, keys, votes, hits, past>>

ExpireThrottle(k) ==
  /\ throttle[k] # 0 /\ throttle[k] <= clock /\ throttle' = [throttle EXCEPT ![k] = 0]
  /\ UNCHANGED <<clock, req, revoker, count, deadline, keys, votes, hits, past>>

Next ==
  \/ \E r \in Request :
       \/ \E k \in Key, i \in Ip : Resolve(r, k, i)
       \/ Throttle(r) \/ Touch(r) \/ Refuse(r) \/ HitKey(r) \/ HitIp(r)
       \/ ReadMessage(r) \/ CommitVote(r) \/ RecordScore(r) \/ Fail(r)
  \/ \E o \in Revoker : (\E k \in Key : ReadKey(o, k)) \/ Revoke(o)
  \/ Tick
  \/ \E i \in Ident, w \in Window : ExpireCounter(i, w)
  \/ \E k \in Key : ExpireThrottle(k)

Spec == Init /\ [][Next]_vars

-----------------------------------------------------------------------------
(* Correctness.                                                             *)

Time == 0..MaxWindow
PC == {"idle", "throttle", "touch", "known", "keyExpire", "ip", "ipExpire", "served", "vote",
       "score", "done", "401", "403", "429", "500"}

TypeOK ==
  /\ clock \in Window
  /\ req \in [Request -> [pc : PC, key : Key \cup {NoKey}, ip : Ip \cup {NoIp}, began : Time,
                          keyWin : Time, ipWin : Time, vote : Rating \cup {0},
                          read : Rating \cup {0}]]
  /\ revoker \in [Revoker -> [pc : {"idle", "commit", "done"}, key : Key \cup {NoKey}, at : Time]]
  /\ count \in [Ident -> [Window -> Nat]] /\ deadline \in [Ident -> [Window -> 0..(MaxWindow + 1)]]
  /\ throttle \in [Key -> 0..(MaxWindow + 1)]
  /\ lastUsed \in [Key -> Time] /\ revokedAt \in [Key -> Time] /\ dead \in [Key -> Time]
  /\ feedback \in Rating \cup {0} /\ scored \in Rating \cup {0}
  /\ hits \in [Ident -> [Window -> SUBSET Request]]

\* The identifier and window that a refused request was refused for.
RefusedFor(r) == IF req[r].ipWin = 0 THEN <<req[r].key, req[r].keyWin>>
                                     ELSE <<req[r].ip, req[r].ipWin>>

\* The first half of LimitIsExact: nobody gets a 429 unless more requests than the limit came under that key or
\* from that address in that very window: neither a counter of another window
\* nor one that lost its expiry shuts anybody out.
RejectedOnlyWhenFull ==
  \A r \in Request :
    At(r, "429") => LET f == RefusedFor(r) IN Cardinality(hits[f[1]][f[2]]) > Limit

Admitted(r) == \E pc \in {"served", "vote", "score", "done"} : At(r, pc)

\* The second half: no more requests than the limit are served under a key or to an address in a
\* window, unless one of them was so slow that it found the counter expired.
WithinLimit ==
  \A i \in Ident, w \in Window :
    <<i, w>> \notin restarted => Cardinality({r \in hits[i][w] : Admitted(r)}) <= Limit

\* A fixed window lets the limit through and refuses only what is beyond it,
\* although its counter is read, expires and is given its expiry in steps of their
\* own.
LimitIsExact == RejectedOnlyWhenFull /\ WithinLimit

\* A counter that Redis keeps for ever is one whose request died between INCR and
\* EXPIRE.
CountersGoAway ==
  \A i \in Ident, w \in Window :
    count[i][w] # 0 /\ deadline[i][w] = 0 =>
      \/ <<i, w>> \in orphans
      \/ \E r \in Request : \/ At(r, "keyExpire") /\ <<req[r].key, req[r].keyWin>> = <<i, w>>
                            \/ At(r, "ipExpire") /\ <<req[r].ip, req[r].ipWin>> = <<i, w>>

\* The first half of LastUsedIsTrue: a key that let a request in is not shown as
\* never used, however requests share the throttle, once the
\* request that won it has committed; unless that one failed.
UsedKeyIsShown ==
  \A k \in Key :
    (\E w \in Window : hits[k][w] # {}) =>
      \/ lastUsed[k] # 0 \/ k \in disturbed
      \/ \E r \in Request : At(r, "touch") /\ req[r].key = k

\* The second half: nor is a revoked key shown as used after its revocation,
\* although a request in flight may commit its touch later.
NeverUsedAfterRevocation == \A k \in Key : dead[k] # 0 => lastUsed[k] <= dead[k]

\* Owners decide by last_used_at which keys to revoke, and whether a revocation came
\* in time.
LastUsedIsTrue == UsedKeyIsShown /\ NeverUsedAfterRevocation

\* The thumb in the traces is the one in the transcript, once votes are settled
\* that did not overlap and did not fail between the two.
ScoreFollowsFeedback ==
  "votes" \notin disturbed /\ (\A r \in Request : ~At(r, "score")) => scored = feedback

=============================================================================
