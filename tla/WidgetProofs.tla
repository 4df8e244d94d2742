---------------------------- MODULE WidgetProofs ----------------------------
(***************************************************************************)
(* What TLAPS proves of WidgetGate, for any requests, keys, addresses and  *)
(* limits: the rate limit is exact, counters outlive their window only by  *)
(* a failure, and last_used_at and the scores are what was shown and       *)
(* voted. And of WidgetClient, for any number of questions: answers stay   *)
(* apart, what is stored is what is shown, a rated conversation comes back *)
(* only late, and the composer comes back.                                 *)
(***************************************************************************)
EXTENDS WidgetGate, WidgetClient, FiniteSetTheorems, SequenceTheorems, TLAPS

-----------------------------------------------------------------------------
(* WidgetGate.                                                              *)

-----------------------------------------------------------------------------
(* The inductive invariant.                                                 *)

BeforeKeyHit == {"idle", "throttle", "touch", "known"}
BeforeIpHit == BeforeKeyHit \cup {"keyExpire", "ip"}
AfterKeyHit == {"keyExpire", "ip", "ipExpire", "served", "vote", "score", "done", "429"}
InGate == {"throttle", "touch", "known"} \cup AfterKeyHit

\* What a request knows of itself: where it was counted, and how often it was refused.
ReqOK(r) ==
  /\ req[r].pc \in InGate =>
       req[r].key \in Key /\ req[r].ip \in Ip /\ req[r].began \in 1..clock
  /\ req[r].pc \in AfterKeyHit => req[r].keyWin \in 1..clock /\ r \in hits[req[r].key][req[r].keyWin]
  /\ req[r].pc = "ipExpire" => req[r].ipWin \in 1..clock /\ r \in hits[req[r].ip][req[r].ipWin]
  /\ req[r].pc \in BeforeIpHit => req[r].ipWin = 0
  /\ req[r].pc = "429" => Cardinality(hits[RefusedFor(r)[1]][RefusedFor(r)[2]]) > Limit

\* Nobody is counted twice.
HitOnce ==
  /\ \A i \in Key, w \in Window : \A r \in hits[i][w] : req[r].pc \notin BeforeKeyHit
  /\ \A i \in Ip, w \in Window : \A r \in hits[i][w] : req[r].pc \notin BeforeIpHit

\* Those that a limit has let through, or will when it has set the expiry.
Passed(r) ==
  \/ req[r].pc \in {"ip", "served", "vote", "score", "done"}
  \/ req[r].pc \in {"keyExpire", "ipExpire"} /\ Limit > 0

CountOK(i, w) ==
  /\ count[i][w] <= Cardinality(hits[i][w])
  /\ <<i, w>> \notin restarted =>
       /\ count[i][w] = 0 \/ count[i][w] = Cardinality(hits[i][w])
       /\ \/ Cardinality(hits[i][w]) <= Limit
          \/ Cardinality({r \in hits[i][w] : Passed(r)}) <= Limit

GateInv ==
  /\ TypeOK /\ HitOnce /\ CountersGoAway
  /\ \A r \in Request : ReqOK(r)
  /\ \A i \in Ident, w \in Window : CountOK(i, w)

LEMMA InitOK == Init => GateInv
<1> SUFFICES ASSUME Init PROVE GateInv
  OBVIOUS
<1>1. TypeOK
  BY GateAssumption DEF Init, TypeOK, Nobody, Window, Time, PC, Rating
<1>2. HitOnce /\ CountersGoAway
  BY DEF Init, HitOnce, CountersGoAway, Ident, Window
<1>3. ASSUME NEW r \in Request PROVE ReqOK(r)
  BY <1>3 DEF Init, Nobody, ReqOK, InGate, AfterKeyHit
<1>4. ASSUME NEW i \in Ident, NEW w \in Window PROVE CountOK(i, w)
  <2>1. count[i][w] = 0 /\ hits[i][w] = {}
    BY DEF Init
  <2>2. Cardinality(hits[i][w]) = 0
    BY <2>1, FS_EmptySet
  <2> QED
    BY <2>1, <2>2, GateAssumption DEF CountOK
<1> QED
  BY <1>1, <1>2, <1>3, <1>4 DEF GateInv

-----------------------------------------------------------------------------
(* Steps that count nobody.                                                 *)

LEMMA HitsFinite ==
  ASSUME TypeOK, NEW i \in Ident, NEW w \in Window, NEW S \in SUBSET hits[i][w]
  PROVE  /\ IsFiniteSet(hits[i][w]) /\ Cardinality(hits[i][w]) \in Nat
         /\ IsFiniteSet(S) /\ Cardinality(S) \in Nat
         /\ Cardinality(S) <= Cardinality(hits[i][w])
<1>1. hits[i][w] \subseteq Request
  BY DEF TypeOK
<1>2. IsFiniteSet(hits[i][w])
  BY <1>1, GateAssumption, FS_Subset
<1> QED
  BY <1>2, FS_Subset, FS_CardinalityType

\* A request goes on: not back to where it is still to be counted, and not past a
\* limit that refused it.
Moves(r) ==
  /\ req'[r].pc \in BeforeKeyHit => req[r].pc \in BeforeKeyHit
  /\ req'[r].pc \in BeforeIpHit => req[r].pc \in BeforeIpHit
  /\ Passed(r)' => Passed(r)

LEMMA QuietStep ==
  ASSUME GateInv, TypeOK', CountersGoAway', UNCHANGED <<hits, restarted>>,
         clock <= clock',
         \A i \in Ident, w \in Window : count'[i][w] \in {0, count[i][w]},
         \A r \in Request : req'[r] = req[r] \/ (ReqOK(r)' /\ Moves(r))
  PROVE  GateInv'
<1>1. TypeOK /\ clock \in Nat /\ clock' \in Nat
  BY DEF GateInv, TypeOK, Window
<1>2. HitOnce'
  BY <1>1 DEF GateInv, HitOnce, Moves, TypeOK, Ident
<1>3. ASSUME NEW r \in Request PROVE ReqOK(r)'
  <2>1. CASE req'[r] = req[r]
    BY <1>1, <2>1 DEF GateInv, ReqOK, RefusedFor
  <2> QED
    BY <2>1
<1>4. ASSUME NEW i \in Ident, NEW w \in Window PROVE CountOK(i, w)'
  <2> DEFINE S == {r \in hits[i][w] : Passed(r)}
             T == {r \in hits[i][w] : Passed(r)'}
  <2>1. hits[i][w] \subseteq Request
    BY <1>1 DEF TypeOK
  <2>2. T \subseteq S
    BY <2>1 DEF Moves, Passed
  <2>3. /\ Cardinality(hits[i][w]) \in Nat /\ Cardinality(S) \in Nat /\ IsFiniteSet(S)
    BY <1>1, HitsFinite
  <2>4. Cardinality(T) \in Nat /\ Cardinality(T) <= Cardinality(S)
    BY <2>2, <2>3, FS_Subset, FS_CardinalityType
  <2>5. CountOK(i, w) /\ count[i][w] \in Nat
    BY <1>1 DEF GateInv, TypeOK
  <2>6. T = {r \in hits'[i][w] : Passed(r)'}
    OBVIOUS
  <2> HIDE DEF S, T
  <2>7. Cardinality({r \in hits'[i][w] : Passed(r)'}) <= Cardinality(S)
    BY <2>4, <2>6
  <2>8. <<i, w>> \notin restarted => Cardinality(hits[i][w]) <= Limit \/ Cardinality(S) <= Limit
    BY <2>5 DEF CountOK, S
  <2>9. <<i, w>> \notin restarted => Cardinality(hits[i][w]) <= Limit \/ Cardinality(T) <= Limit
    BY <2>3, <2>4, <2>8, GateAssumption
  <2>10. count'[i][w] \in {0, count[i][w]}
    OBVIOUS
  <2>11. /\ count[i][w] <= Cardinality(hits[i][w])
         /\ <<i, w>> \notin restarted => count[i][w] = 0 \/ count[i][w] = Cardinality(hits[i][w])
    BY <2>5 DEF CountOK
  <2>12. /\ count'[i][w] <= Cardinality(hits'[i][w])
         /\ <<i, w>> \notin restarted' =>
              count'[i][w] = 0 \/ count'[i][w] = Cardinality(hits'[i][w])
    BY <2>3, <2>5, <2>10, <2>11
  <2> QED
    BY <2>6, <2>9, <2>12 DEF CountOK
<1> QED
  BY <1>2, <1>3, <1>4 DEF GateInv

\* CountersGoAway, of a step that neither makes a counter nor frees its request.
LEMMA CountersStay ==
  ASSUME CountersGoAway, orphans \subseteq orphans',
         \A i \in Ident, w \in Window : count'[i][w] # 0 /\ deadline'[i][w] = 0
                                          => count[i][w] # 0 /\ deadline[i][w] = 0,
         \A r \in Request : req'[r] = req[r] \/ req[r].pc \notin {"keyExpire", "ipExpire"}
  PROVE  CountersGoAway'
BY DEF CountersGoAway, At

-----------------------------------------------------------------------------
(* The steps of a request that are not INCR.                                *)

\* What a request is; updates keep it that.
Rec == [pc : PC, key : Key \cup {NoKey}, ip : Ip \cup {NoIp}, began : Time,
        keyWin : Time, ipWin : Time, vote : Rating \cup {0}, read : Rating \cup {0}]

LEMMA UpdateRec ==
  ASSUME TypeOK, NEW r \in Request, NEW x \in Rec, req' = [req EXCEPT ![r] = x]
  PROVE  /\ req' \in [Request -> Rec] /\ req'[r] = x
         /\ \A q \in Request : q # r => req'[q] = req[q]
<1>1. req \in [Request -> Rec]
  BY DEF TypeOK, Rec
<1> QED
  BY <1>1

\* Goto, with the fields that it leaves alone.
LEMMA GotoMoves ==
  ASSUME TypeOK, NEW r \in Request, NEW pc \in PC, Goto(r, pc)
  PROVE  /\ req' \in [Request -> Rec]
         /\ req'[r].pc = pc /\ req'[r].key = req[r].key /\ req'[r].ip = req[r].ip
         /\ req'[r].began = req[r].began
         /\ req'[r].keyWin = req[r].keyWin /\ req'[r].ipWin = req[r].ipWin
         /\ \A q \in Request : q # r => req'[q] = req[q]
<1> DEFINE x == [req[r] EXCEPT !.pc = pc]
<1>1. req[r] \in Rec
  BY DEF TypeOK, Rec
<1>2. /\ x \in Rec /\ x.pc = pc /\ x.key = req[r].key /\ x.ip = req[r].ip
      /\ x.began = req[r].began /\ x.keyWin = req[r].keyWin /\ x.ipWin = req[r].ipWin
  BY <1>1 DEF Rec
<1>3. req' = [req EXCEPT ![r] = x]
  BY DEF Goto
<1> HIDE DEF x
<1> QED
  BY <1>2, <1>3, UpdateRec

\* Answered, and what it leaves of a request.
LEMMA AnsweredMoves ==
  ASSUME TypeOK, NEW r \in Request, NEW pc \in {"401", "403", "500"}, Answered(r, pc)
  PROVE  /\ req' \in [Request -> Rec] /\ ReqOK(r)' /\ Moves(r)
         /\ \A q \in Request : q # r => req'[q] = req[q]
<1> DEFINE x == [Nobody EXCEPT !.pc = pc]
<1>1. x = [pc |-> pc, key |-> NoKey, ip |-> NoIp, began |-> 0, keyWin |-> 0, ipWin |-> 0,
           vote |-> 0, read |-> 0]
  BY DEF Nobody
<1>2. 0 \in Time /\ 0 \in Rating \cup {0} /\ pc \in PC
  BY GateAssumption DEF Time, Rating, PC
<1>3. x \in Rec /\ x.pc = pc /\ x.ipWin = 0
  BY <1>1, <1>2 DEF Rec
<1>4. req' = [req EXCEPT ![r] = x]
  BY DEF Answered
<1> HIDE DEF x
<1>5. /\ req' \in [Request -> Rec] /\ req'[r] = x
      /\ \A q \in Request : q # r => req'[q] = req[q]
  BY <1>3, <1>4, UpdateRec
<1> QED
  BY <1>3, <1>5 DEF ReqOK, Moves, Passed, InGate, AfterKeyHit, BeforeIpHit, BeforeKeyHit

LEMMA ResolveStep ==
  ASSUME GateInv, NEW r \in Request, NEW k \in Key, NEW i \in Ip, Resolve(r, k, i)
  PROVE  GateInv'
<1> DEFINE x == [req[r] EXCEPT !.pc = "throttle", !.key = k, !.ip = i, !.began = clock]
<1>1. TypeOK /\ req[r].pc = "idle" /\ ReqOK(r)
  BY DEF GateInv, Resolve, At
<1>2. /\ req' \in [Request -> Rec] /\ ReqOK(r)' /\ Moves(r)
      /\ \A q \in Request : q # r => req'[q] = req[q]
  <2>1. CASE Answered(r, "401")
    BY <1>1, <2>1, AnsweredMoves
  <2>2. CASE req' = [req EXCEPT ![r] = x]
    <3>1. req[r] \in Rec /\ "throttle" \in PC /\ clock \in Time
      BY <1>1 DEF TypeOK, Rec, PC, Time, Window
    <3> DEFINE x1 == [req[r] EXCEPT !.pc = "throttle"]
               x2 == [x1 EXCEPT !.key = k]
               x3 == [x2 EXCEPT !.ip = i]
               x4 == [x3 EXCEPT !.began = clock]
    <3>2. x1 \in Rec /\ x1.pc = "throttle" /\ x1.ipWin = req[r].ipWin
      BY <3>1 DEF Rec
    <3> HIDE DEF x1
    <3>3. x2 \in Rec /\ x2.pc = "throttle" /\ x2.ipWin = req[r].ipWin /\ x2.key = k
      BY <3>2 DEF Rec
    <3> HIDE DEF x2
    <3>4. x3 \in Rec /\ x3.pc = "throttle" /\ x3.ipWin = req[r].ipWin /\ x3.key = k /\ x3.ip = i
      BY <3>3 DEF Rec
    <3> HIDE DEF x3
    <3>5. /\ x4 \in Rec /\ x4.pc = "throttle" /\ x4.ipWin = req[r].ipWin /\ x4.key = k
          /\ x4.ip = i /\ x4.began = clock
      BY <3>1, <3>4 DEF Rec
    <3>6. x = x4
      BY DEF x1, x2, x3
    <3>7. /\ x \in Rec /\ x.pc = "throttle" /\ x.key = k /\ x.ip = i /\ x.began = clock
          /\ x.ipWin = req[r].ipWin
      BY <3>5, <3>6
    <3> HIDE DEF x
    <3>8. /\ req' \in [Request -> Rec] /\ req'[r] = x
          /\ \A q \in Request : q # r => req'[q] = req[q]
      BY <1>1, <2>2, <3>7, UpdateRec
    <3>9. clock \in 1..clock /\ clock' = clock
      BY <1>1 DEF TypeOK, Window, Resolve
    <3> QED
      BY <1>1, <3>7, <3>8, <3>9 DEF ReqOK, Moves, Passed, InGate, AfterKeyHit, BeforeIpHit,
                                    BeforeKeyHit
  <2> QED
    BY <2>1, <2>2 DEF Resolve
<1>3. TypeOK'
  BY <1>1, <1>2 DEF Resolve, TypeOK, Rec, redis, keys, votes
<1>4. CountersGoAway'
  BY <1>1, <1>2, CountersStay DEF GateInv, Resolve, redis, past
<1> QED
  BY <1>1, <1>2, <1>3, <1>4, QuietStep DEF Resolve, redis, past, TypeOK, Window

LEMMA ThrottleStep ==
  ASSUME GateInv, NEW r \in Request, Throttle(r) PROVE GateInv'
<1>1. TypeOK /\ req[r].pc = "throttle" /\ ReqOK(r)
  BY DEF GateInv, Throttle, At
<1>2. PICK pc \in {"touch", "known"} : Goto(r, pc)
  BY DEF Throttle
<1>3. pc \in PC
  BY DEF PC
<1>4. /\ req' \in [Request -> Rec]
      /\ req'[r].pc = pc /\ req'[r].key = req[r].key /\ req'[r].ip = req[r].ip
      /\ req'[r].began = req[r].began /\ req'[r].ipWin = req[r].ipWin
      /\ \A q \in Request : q # r => req'[q] = req[q]
  BY <1>1, <1>2, <1>3, GotoMoves
<1>5. req[r].key \in Key /\ clock + 1 \in 0..(MaxWindow + 1)
  BY <1>1, GateAssumption DEF ReqOK, InGate, TypeOK, Window
<1>6. throttle' \in [Key -> 0..(MaxWindow + 1)]
  BY <1>1, <1>5 DEF Throttle, TypeOK
<1>7. TypeOK'
  BY <1>1, <1>4, <1>6 DEF Throttle, TypeOK, Rec, keys, votes
<1>8. CountersGoAway'
  BY <1>1, <1>4, CountersStay DEF GateInv, Throttle, past
<1>9. ReqOK(r)' /\ Moves(r)
  BY <1>1, <1>4 DEF ReqOK, Moves, Passed, InGate, AfterKeyHit, BeforeIpHit, BeforeKeyHit,
                    Throttle
<1> QED
  BY <1>1, <1>4, <1>7, <1>8, <1>9, QuietStep DEF Throttle, past, TypeOK, Window

LEMMA TouchStep ==
  ASSUME GateInv, NEW r \in Request, Touch(r) PROVE GateInv'
<1>1. TypeOK /\ req[r].pc = "touch" /\ ReqOK(r) /\ Goto(r, "known") /\ "known" \in PC
  BY DEF GateInv, Touch, At, PC
<1>2. /\ req' \in [Request -> Rec]
      /\ req'[r].pc = "known" /\ req'[r].key = req[r].key /\ req'[r].ip = req[r].ip
      /\ req'[r].began = req[r].began /\ req'[r].ipWin = req[r].ipWin
      /\ \A q \in Request : q # r => req'[q] = req[q]
  BY <1>1, GotoMoves
<1>3. lastUsed' \in [Key -> Time]
  BY <1>1 DEF Touch, TouchTime, TypeOK, Rec
<1>4. TypeOK'
  BY <1>1, <1>2, <1>3 DEF Touch, TypeOK, Rec, redis, keys, votes
<1>5. CountersGoAway'
  BY <1>1, <1>2, CountersStay DEF GateInv, Touch, redis, past
<1>6. ReqOK(r)' /\ Moves(r)
  BY <1>1, <1>2 DEF ReqOK, Moves, Passed, InGate, AfterKeyHit, BeforeIpHit, BeforeKeyHit, Touch
<1> QED
  BY <1>1, <1>2, <1>4, <1>5, <1>6, QuietStep DEF Touch, redis, past, TypeOK, Window

LEMMA RefuseStep ==
  ASSUME GateInv, NEW r \in Request, Refuse(r) PROVE GateInv'
<1>1. TypeOK /\ req[r].pc = "known"
  BY DEF GateInv, Refuse, At
<1>2. PICK pc \in {"401", "403", "500"} : Answered(r, pc)
  BY DEF Refuse
<1>3. TypeOK'
  BY <1>1, <1>2, AnsweredMoves DEF Refuse, TypeOK, Rec, redis, keys, votes
<1>4. CountersGoAway'
  BY <1>1, <1>2, AnsweredMoves, CountersStay DEF GateInv, Refuse, redis, past
<1> QED
  BY <1>1, <1>2, <1>3, <1>4, AnsweredMoves, QuietStep DEF Refuse, redis, past, TypeOK, Window

\* An update of one counter.
LEMMA UpdateCounter ==
  ASSUME NEW S, NEW f \in [Ident -> [Window -> S]], NEW i \in Ident, NEW w \in Window, NEW v \in S,
         NEW g, g = [f EXCEPT ![i][w] = v]
  PROVE  /\ g \in [Ident -> [Window -> S]] /\ g[i][w] = v
         /\ \A j \in Ident, u \in Window : <<j, u>> # <<i, w>> => g[j][u] = f[j][u]
<1>1. f[i] \in [Window -> S]
  OBVIOUS
<1> DEFINE h == [f[i] EXCEPT ![w] = v]
<1>2. h \in [Window -> S] /\ h[w] = v /\ \A u \in Window : u # w => h[u] = f[i][u]
  BY <1>1
<1>3. g = [f EXCEPT ![i] = h]
  OBVIOUS
<1> HIDE DEF h
<1>4. g \in [Ident -> [Window -> S]] /\ g[i] = h /\ \A j \in Ident : j # i => g[j] = f[j]
  BY <1>2, <1>3
<1> QED
  BY <1>2, <1>4

\* EXPIRE, by a request that was counted first.
LEMMA SetExpiryStep ==
  ASSUME GateInv, NEW r \in Request, NEW i \in Ident, NEW win, NEW allowed, NEW pc,
         req[r].pc = pc, SetExpiry(r, i, win, allowed),
         \/ /\ pc = "keyExpire" /\ allowed = "ip"
            /\ i = req[r].key /\ win = req[r].keyWin
         \/ /\ pc = "ipExpire" /\ allowed = "served"
            /\ i = req[r].ip /\ win = req[r].ipWin
  PROVE  GateInv'
<1>1. TypeOK /\ ReqOK(r)
  BY DEF GateInv
<1>2. win \in Window /\ win \in 1..clock /\ r \in hits[i][win]
  <2>1. clock \in 1..MaxWindow
    BY <1>1 DEF TypeOK, Window
  <2>2. CASE pc = "keyExpire"
    BY <1>1, <2>1, <2>2, GateAssumption DEF ReqOK, AfterKeyHit, Window
  <2>3. CASE pc = "ipExpire"
    BY <1>1, <2>1, <2>3, GateAssumption DEF ReqOK, Window
  <2> QED
    BY <2>2, <2>3
<1>3. PICK to \in {"429", allowed} : /\ Goto(r, to) /\ (to = "429" => 1 > Limit)
                                     /\ (to # "429" => ~(1 > Limit))
  BY DEF SetExpiry, Verdict, Over
<1>4. to \in PC
  BY DEF PC
<1>5. /\ req' \in [Request -> Rec]
      /\ req'[r].pc = to /\ req'[r].key = req[r].key /\ req'[r].ip = req[r].ip
      /\ req'[r].began = req[r].began
      /\ req'[r].keyWin = req[r].keyWin /\ req'[r].ipWin = req[r].ipWin
      /\ \A q \in Request : q # r => req'[q] = req[q]
  BY <1>1, <1>3, <1>4, GotoMoves
<1>6. /\ deadline' \in [Ident -> [Window -> 0..(MaxWindow + 1)]]
      /\ count[i][win] # 0 => deadline'[i][win] # 0
      /\ \A j \in Ident, u \in Window : <<j, u>> # <<i, win>> => deadline'[j][u] = deadline[j][u]
  <2> DEFINE v == IF count[i][win] = 0 THEN deadline[i][win] ELSE clock + 1
  <2>1. v \in 0..(MaxWindow + 1) /\ (count[i][win] # 0 => v # 0)
    BY <1>1, <1>2, GateAssumption DEF TypeOK, Window
  <2>2. deadline' = [deadline EXCEPT ![i][win] = v]
    BY DEF SetExpiry, CounterOf
  <2>3. deadline \in [Ident -> [Window -> 0..(MaxWindow + 1)]]
    BY <1>1 DEF TypeOK
  <2> HIDE DEF v
  <2> QED
    BY <1>2, <2>1, <2>2, <2>3, UpdateCounter
<1>7. TypeOK'
  BY <1>1, <1>5, <1>6 DEF SetExpiry, TypeOK, Rec, keys, votes
<1>8. CountersGoAway'
  <2> SUFFICES ASSUME NEW j \in Ident, NEW u \in Window, count'[j][u] # 0, deadline'[j][u] = 0
               PROVE  \/ <<j, u>> \in orphans'
                      \/ \E q \in Request :
                           \/ At(q, "keyExpire")' /\ <<req'[q].key, req'[q].keyWin>> = <<j, u>>
                           \/ At(q, "ipExpire")' /\ <<req'[q].ip, req'[q].ipWin>> = <<j, u>>
    BY DEF CountersGoAway
  <2>1. count' = count /\ orphans' = orphans
    BY DEF SetExpiry, past
  <2>2. <<j, u>> # <<i, win>> /\ deadline[j][u] = 0
    BY <1>2, <1>6, <2>1
  <2>3. \/ <<j, u>> \in orphans
        \/ \E q \in Request :
             \/ At(q, "keyExpire") /\ <<req[q].key, req[q].keyWin>> = <<j, u>>
             \/ At(q, "ipExpire") /\ <<req[q].ip, req[q].ipWin>> = <<j, u>>
    BY <2>1, <2>2 DEF GateInv, CountersGoAway
  <2> QED
    BY <1>5, <2>1, <2>2, <2>3 DEF At
<1>9. ReqOK(r)' /\ Moves(r)
  <2>1. to = "429" => Cardinality(hits[i][win]) > Limit
    <3>1. IsFiniteSet(hits[i][win]) /\ Cardinality(hits[i][win]) \in Nat
      BY <1>1, <1>2, HitsFinite
    <3>2. Cardinality(hits[i][win]) # 0
      BY <1>2, <3>1, FS_EmptySet
    <3> QED
      BY <1>3, <3>1, <3>2, GateAssumption
  <2>2. pc \in AfterKeyHit /\ pc \in InGate /\ to \in AfterKeyHit
    BY DEF AfterKeyHit, InGate
  <2>3. hits' = hits /\ clock' = clock
    BY DEF SetExpiry
  <2>4. CASE pc = "keyExpire"
    BY <1>1, <1>3, <1>5, <2>1, <2>2, <2>3, <2>4, GateAssumption
       DEF ReqOK, Moves, Passed, BeforeIpHit, BeforeKeyHit, RefusedFor
  <2>5. CASE pc = "ipExpire"
    BY <1>1, <1>2, <1>3, <1>5, <2>1, <2>2, <2>3, <2>5, GateAssumption
       DEF ReqOK, Moves, Passed, BeforeIpHit, BeforeKeyHit, RefusedFor
  <2> QED
    BY <2>4, <2>5
<1> QED
  BY <1>1, <1>5, <1>7, <1>8, <1>9, QuietStep DEF SetExpiry, past, TypeOK, Window

LEMMA ReadMessageStep ==
  ASSUME GateInv, NEW r \in Request, ReadMessage(r) PROVE GateInv'
<1>1. TypeOK /\ req[r].pc = "served" /\ ReqOK(r)
  BY DEF GateInv, ReadMessage, At
<1>2. PICK v \in Rating : req' = [req EXCEPT ![r].pc = "vote", ![r].vote = v, ![r].read = feedback]
  BY DEF ReadMessage
<1> DEFINE x1 == [req[r] EXCEPT !.pc = "vote"]
           x2 == [x1 EXCEPT !.vote = v]
           x == [x2 EXCEPT !.read = feedback]
<1>3. req[r] \in Rec /\ "vote" \in PC /\ feedback \in Rating \cup {0}
  BY <1>1 DEF TypeOK, Rec, PC
<1>4. req' = [req EXCEPT ![r] = x]
  BY <1>1, <1>2 DEF TypeOK
<1>5. /\ x1 \in Rec /\ x1.pc = "vote" /\ x1.key = req[r].key /\ x1.ip = req[r].ip
      /\ x1.began = req[r].began /\ x1.keyWin = req[r].keyWin /\ x1.ipWin = req[r].ipWin
  BY <1>3 DEF Rec
<1> HIDE DEF x1
<1>6. /\ x2 \in Rec /\ x2.pc = "vote" /\ x2.key = req[r].key /\ x2.ip = req[r].ip
      /\ x2.began = req[r].began /\ x2.keyWin = req[r].keyWin /\ x2.ipWin = req[r].ipWin
  BY <1>5 DEF Rec
<1> HIDE DEF x2
<1>7. /\ x \in Rec /\ x.pc = "vote" /\ x.key = req[r].key /\ x.ip = req[r].ip
      /\ x.began = req[r].began /\ x.keyWin = req[r].keyWin /\ x.ipWin = req[r].ipWin
  BY <1>3, <1>6 DEF Rec
<1> HIDE DEF x
<1>8. /\ req' \in [Request -> Rec] /\ req'[r] = x
      /\ \A q \in Request : q # r => req'[q] = req[q]
  BY <1>1, <1>4, <1>7, UpdateRec
<1>9. TypeOK'
  BY <1>1, <1>8 DEF ReadMessage, TypeOK, Rec, redis, keys, votes
<1>10. CountersGoAway'
  BY <1>1, <1>8, CountersStay DEF GateInv, ReadMessage, redis
<1>11. ReqOK(r)' /\ Moves(r)
  BY <1>1, <1>7, <1>8 DEF ReqOK, Moves, Passed, InGate, AfterKeyHit, BeforeIpHit, BeforeKeyHit,
                          ReadMessage
<1> QED
  BY <1>1, <1>8, <1>9, <1>10, <1>11, QuietStep DEF ReadMessage, redis, TypeOK, Window

\* The steps after it.
LEMMA VoteStep ==
  ASSUME GateInv, NEW r \in Request, CommitVote(r) \/ RecordScore(r) PROVE GateInv'
<1>1. TypeOK /\ req[r].pc \in {"vote", "score"} /\ ReqOK(r)
  BY DEF GateInv, CommitVote, RecordScore, At
<1>2. PICK pc \in {"score", "done"} : Goto(r, pc)
  BY DEF CommitVote, RecordScore
<1>3. pc \in PC
  BY DEF PC
<1>4. /\ req' \in [Request -> Rec]
      /\ req'[r].pc = pc /\ req'[r].key = req[r].key /\ req'[r].ip = req[r].ip
      /\ req'[r].began = req[r].began
      /\ req'[r].keyWin = req[r].keyWin /\ req'[r].ipWin = req[r].ipWin
      /\ \A q \in Request : q # r => req'[q] = req[q]
  BY <1>1, <1>2, <1>3, GotoMoves
<1>5. UNCHANGED <<clock, revoker, redis, keys, hits, past>>
  BY DEF CommitVote, RecordScore
<1>6. feedback' \in Rating \cup {0} /\ scored' \in Rating \cup {0}
  BY <1>1 DEF CommitVote, RecordScore, TypeOK, Rec
<1>7. TypeOK'
  BY <1>1, <1>4, <1>5, <1>6 DEF TypeOK, Rec, redis, keys
<1>8. CountersGoAway'
  BY <1>1, <1>4, <1>5, CountersStay DEF GateInv, redis, past
<1>9. ReqOK(r)' /\ Moves(r)
  BY <1>1, <1>4, <1>5 DEF ReqOK, Moves, Passed, InGate, AfterKeyHit, BeforeIpHit, BeforeKeyHit
<1> QED
  BY <1>1, <1>4, <1>5, <1>7, <1>8, <1>9, QuietStep DEF redis, past, TypeOK, Window

LEMMA FailStep ==
  ASSUME GateInv, NEW r \in Request, Fail(r) PROVE GateInv'
<1>1. TypeOK
  BY DEF GateInv
<1>2. Answered(r, "500")
  BY DEF Fail
<1>3. /\ req' \in [Request -> Rec] /\ ReqOK(r)' /\ Moves(r)
      /\ \A q \in Request : q # r => req'[q] = req[q]
  BY <1>1, <1>2, AnsweredMoves
<1>4. TypeOK'
  BY <1>1, <1>3 DEF Fail, TypeOK, Rec, redis, keys, votes
<1>5. CountersGoAway'
  <2>1. /\ orphans \subseteq orphans'
        /\ At(r, "keyExpire") => <<req[r].key, req[r].keyWin>> \in orphans'
        /\ At(r, "ipExpire") => <<req[r].ip, req[r].ipWin>> \in orphans'
    BY DEF Fail, At
  <2>2. count' = count /\ deadline' = deadline
    BY DEF Fail, redis
  <2> QED
    BY <1>3, <2>1, <2>2 DEF GateInv, CountersGoAway, At
<1> QED
  BY <1>1, <1>3, <1>4, <1>5, QuietStep DEF Fail, redis, TypeOK, Window

-----------------------------------------------------------------------------
(* Revocation, time, and expiry.                                            *)

LEMMA OtherStep ==
  ASSUME GateInv,
         \/ \E o \in Revoker : (\E k \in Key : ReadKey(o, k)) \/ Revoke(o)
         \/ Tick
         \/ \E k \in Key : ExpireThrottle(k)
  PROVE  GateInv'
<1>1. TypeOK
  BY DEF GateInv
<1>2. /\ UNCHANGED <<req, count, deadline, hits, restarted, orphans>>
      /\ clock' = clock \/ Tick
  BY DEF ReadKey, Revoke, Tick, ExpireThrottle, redis, past
<1>3. clock' \in Window /\ clock <= clock'
  BY <1>1, <1>2, GateAssumption DEF TypeOK, Tick, Window
<1>4. TypeOK'
  <2>1. ASSUME NEW o \in Revoker, NEW k \in Key, ReadKey(o, k) PROVE TypeOK'
    <3>1. clock \in Time
      BY <1>1 DEF TypeOK, Time, Window
    <3>2. revoker' \in [Revoker -> [pc : {"idle", "commit", "done"}, key : Key \cup {NoKey},
                                    at : Time]]
      BY <1>1, <2>1, <3>1 DEF ReadKey, TypeOK
    <3> QED
      BY <1>1, <2>1, <3>2 DEF ReadKey, TypeOK, redis, keys, votes
  <2>2. ASSUME NEW o \in Revoker, Revoke(o) PROVE TypeOK'
    <3>1. clock \in Time /\ revoker[o].at \in Time
      BY <1>1 DEF TypeOK, Time, Window
    <3>2. revokedAt' \in [Key -> Time] /\ dead' \in [Key -> Time]
      BY <1>1, <2>2, <3>1 DEF Revoke, TypeOK
    <3>3. revoker' \in [Revoker -> [pc : {"idle", "commit", "done"}, key : Key \cup {NoKey},
                                    at : Time]]
      BY <1>1, <2>2, SMTT(20), ZenonT(20) DEF Revoke, TypeOK
    <3> QED
      BY <1>1, <2>2, <3>2, <3>3 DEF Revoke, TypeOK, redis, votes
  <2>3. CASE Tick
    BY <1>1, <1>3, <2>3 DEF Tick, TypeOK, redis, keys, votes
  <2>4. ASSUME NEW k \in Key, ExpireThrottle(k) PROVE TypeOK'
    BY <1>1, <2>4, GateAssumption DEF ExpireThrottle, TypeOK, keys, votes
  <2> QED
    BY <2>1, <2>2, <2>3, <2>4
<1>5. CountersGoAway'
  BY <1>2, CountersStay DEF GateInv
<1> QED
  BY <1>2, <1>3, <1>4, <1>5, QuietStep

LEMMA ExpireCounterStep ==
  ASSUME GateInv, NEW i \in Ident, NEW w \in Window, ExpireCounter(i, w) PROVE GateInv'
<1>1. TypeOK
  BY DEF GateInv
<1>2. 0 \in Nat /\ 0 \in 0..(MaxWindow + 1)
  BY GateAssumption
<1>3. /\ count' \in [Ident -> [Window -> Nat]] /\ count'[i][w] = 0
      /\ \A j \in Ident, u \in Window : <<j, u>> # <<i, w>> => count'[j][u] = count[j][u]
  BY <1>1, <1>2, UpdateCounter DEF ExpireCounter, TypeOK
<1>4. /\ deadline' \in [Ident -> [Window -> 0..(MaxWindow + 1)]]
      /\ \A j \in Ident, u \in Window : <<j, u>> # <<i, w>> => deadline'[j][u] = deadline[j][u]
  BY <1>1, <1>2, UpdateCounter DEF ExpireCounter, TypeOK
<1>5. \A j \in Ident, u \in Window : /\ count'[j][u] \in {0, count[j][u]}
                                     /\ count'[j][u] # 0 => deadline'[j][u] = deadline[j][u]
  BY <1>3, <1>4
<1>6. TypeOK'
  BY <1>1, <1>3, <1>4 DEF ExpireCounter, TypeOK, keys, votes
<1>7. CountersGoAway'
  BY <1>5, CountersStay DEF GateInv, ExpireCounter, past
<1> QED
  BY <1>1, <1>5, <1>6, <1>7, QuietStep DEF ExpireCounter, past, TypeOK, Window

-----------------------------------------------------------------------------
(* INCR.                                                                    *)

\* What is left of CountOK when r is counted for i in the window win.
LEMMA IncrCount ==
  ASSUME GateInv, NEW r \in Request, NEW i \in Ident, NEW win \in Window,
         NEW expire \in {"keyExpire", "ipExpire"}, NEW allowed,
         Incr(r, i, win, expire, allowed), r \notin hits[i][win],
         req'[r].pc = AfterIncr(count[i][win] + 1, expire, allowed),
         \A q \in Request : q # r => req'[q] = req[q],
         \A j \in Ident, w \in Window : r \in hits[j][w] => (Passed(r)' => Passed(r))
  PROVE  /\ count' \in [Ident -> [Window -> Nat]]
         /\ hits' \in [Ident -> [Window -> SUBSET Request]]
         /\ count'[i][win] = count[i][win] + 1
         /\ hits'[i][win] = hits[i][win] \cup {r}
         /\ count'[i][win] <= Cardinality(hits'[i][win])
         /\ \A j \in Ident, w \in Window :
              /\ <<j, w>> # <<i, win>> => count'[j][w] = count[j][w] /\ hits'[j][w] = hits[j][w]
              /\ Cardinality(hits[j][w]) \in Nat /\ Cardinality(hits'[j][w]) \in Nat
              /\ Cardinality(hits[j][w]) <= Cardinality(hits'[j][w])
              /\ CountOK(j, w)'
<1> DEFINE n == count[i][win] + 1
           H == hits[i][win]
<1>1. TypeOK /\ CountOK(i, win) /\ Limit \in Nat
  BY GateAssumption DEF GateInv
<1>2. /\ count \in [Ident -> [Window -> Nat]] /\ hits \in [Ident -> [Window -> SUBSET Request]]
      /\ n \in Nat /\ count[i][win] \in Nat
  BY <1>1 DEF TypeOK
<1>3. /\ count' \in [Ident -> [Window -> Nat]] /\ count'[i][win] = n
      /\ \A j \in Ident, w \in Window : <<j, w>> # <<i, win>> => count'[j][w] = count[j][w]
  <2>1. count' = [count EXCEPT ![i][win] = n]
    BY DEF Incr, CounterOf
  <2> HIDE DEF n
  <2> QED
    BY <1>2, <2>1, UpdateCounter
<1>4. /\ hits' \in [Ident -> [Window -> SUBSET Request]] /\ hits'[i][win] = H \cup {r}
      /\ \A j \in Ident, w \in Window : <<j, w>> # <<i, win>> => hits'[j][w] = hits[j][w]
  <2> DEFINE v == H \cup {r}
  <2>1. hits' = [hits EXCEPT ![i][win] = v]
    BY <1>2 DEF Incr
  <2>2. v \in SUBSET Request
    BY <1>2
  <2> HIDE DEF v
  <2>3. /\ hits' \in [Ident -> [Window -> SUBSET Request]] /\ hits'[i][win] = v
        /\ \A j \in Ident, w \in Window : <<j, w>> # <<i, win>> => hits'[j][w] = hits[j][w]
    BY <1>2, <2>1, <2>2, UpdateCounter
  <2> QED
    BY <2>3 DEF v
<1>5. /\ IsFiniteSet(H) /\ Cardinality(H) \in Nat
      /\ Cardinality(H \cup {r}) = Cardinality(H) + 1
  BY <1>1, HitsFinite, FS_AddElement
<1>6. ASSUME NEW j \in Ident, NEW w \in Window
      PROVE  /\ Cardinality(hits[j][w]) \in Nat /\ Cardinality(hits'[j][w]) \in Nat
             /\ Cardinality(hits[j][w]) <= Cardinality(hits'[j][w])
  <2>1. Cardinality(hits[j][w]) \in Nat
    BY <1>1, HitsFinite
  <2>2. CASE <<j, w>> # <<i, win>>
    BY <1>4, <2>1, <2>2
  <2>3. CASE j = i /\ w = win
    <3>1. Cardinality(hits'[j][w]) = Cardinality(hits[j][w]) + 1
      BY <1>4, <1>5, <2>3
    <3> QED
      BY <2>1, <3>1
  <2> QED
    BY <2>2, <2>3
<1>7. count[i][win] <= Cardinality(H) /\ n <= Cardinality(hits'[i][win])
  BY <1>1, <1>2, <1>4, <1>5 DEF CountOK
<1>8. restarted \subseteq restarted'
      /\ (n = 1 /\ H # {} => <<i, win>> \in restarted')
  BY DEF Incr, CounterOf
<1>9. ASSUME NEW j \in Ident, NEW w \in Window PROVE CountOK(j, w)'
  <2> DEFINE S == {q \in hits[j][w] : Passed(q)}
             T == {q \in hits'[j][w] : Passed(q)'}
  <2>1. /\ IsFiniteSet(S) /\ Cardinality(S) \in Nat /\ Cardinality(S) <= Cardinality(hits[j][w])
    BY <1>1, HitsFinite
  <2>2. CountOK(j, w)
    BY DEF GateInv
  <2>3. \A q \in Request : q # r => (Passed(q)' <=> Passed(q))
    BY DEF Passed
  <2>4. CASE <<j, w>> # <<i, win>>
    <3>1. hits'[j][w] = hits[j][w] /\ count'[j][w] = count[j][w]
      BY <1>3, <1>4, <2>4
    <3>2. T \subseteq S
      BY <1>2, <2>3, <3>1
    <3>3. Cardinality(T) \in Nat /\ Cardinality(T) <= Cardinality(S)
      BY <2>1, <3>2, FS_Subset, FS_CardinalityType
    <3>4. <<j, w>> \notin restarted' => <<j, w>> \notin restarted
      BY <1>8
    <3>5. <<j, w>> \notin restarted => Cardinality(hits[j][w]) <= Limit \/ Cardinality(S) <= Limit
      BY <2>2 DEF CountOK
    <3>6. T = {q \in hits'[j][w] : Passed(q)'}
      OBVIOUS
    <3> HIDE DEF S, T
    <3>7. <<j, w>> \notin restarted' => Cardinality(hits'[j][w]) <= Limit \/ Cardinality(T) <= Limit
      BY <1>1, <2>1, <3>1, <3>3, <3>4, <3>5
    <3> QED
      BY <2>2, <3>1, <3>4, <3>6, <3>7 DEF CountOK
  <2>5. CASE j = i /\ w = win
    <3>1. count'[j][w] <= Cardinality(hits'[j][w])
      BY <1>3, <1>7, <2>5
    <3>2. ASSUME <<j, w>> \notin restarted'
          PROVE  /\ count'[j][w] = Cardinality(hits'[j][w])
                 /\ <<j, w>> \notin restarted
      <4>1. <<j, w>> \notin restarted /\ ~(n = 1 /\ H # {})
        BY <1>8, <2>5, <3>2
      <4>2. count[i][win] = 0 \/ count[i][win] = Cardinality(H)
        BY <2>2, <2>5, <4>1 DEF CountOK
      <4>3. H = {} => Cardinality(H) = 0
        BY FS_EmptySet
      <4>4. count[i][win] = Cardinality(H)
        BY <1>2, <4>1, <4>2, <4>3
      <4> QED
        BY <1>3, <1>4, <1>5, <2>5, <4>1, <4>4
    <3>3. ASSUME <<j, w>> \notin restarted', ~(Cardinality(hits'[j][w]) <= Limit)
          PROVE  Cardinality(T) <= Limit
      <4>1. n > Limit
        BY <1>1, <1>2, <1>3, <1>6, <2>5, <3>2, <3>3
      <4>2. req'[r].pc = "429" \/ (req'[r].pc = expire /\ Limit = 0)
        BY <1>1, <1>2, <4>1 DEF AfterIncr, Verdict, Over
      <4>3. ~Passed(r)'
        BY <4>2 DEF Passed
      <4>4. T \subseteq S
        BY <1>2, <1>4, <2>3, <2>5, <4>3
      <4>5. Cardinality(T) \in Nat /\ Cardinality(T) <= Cardinality(S)
        BY <2>1, <4>4, FS_Subset, FS_CardinalityType
      <4>6. Cardinality(hits[j][w]) <= Limit \/ Cardinality(S) <= Limit
        BY <2>2, <3>2, <3>3 DEF CountOK
      <4> HIDE DEF S, T
      <4> QED
        BY <1>1, <1>6, <2>1, <4>5, <4>6
    <3> QED
      BY <3>1, <3>2, <3>3 DEF CountOK
  <2> QED
    BY <2>4, <2>5
<1> QED
  BY <1>3, <1>4, <1>6, <1>7, <1>9

\* INCR: of the key, then of the address.
LEMMA IncrStep ==
  ASSUME GateInv, NEW r \in Request, NEW i \in Ident, NEW win \in 1..clock,
         NEW expire, NEW allowed, NEW pc, req[r].pc = pc, Incr(r, i, win, expire, allowed),
         \/ /\ pc = "known" /\ i = req[r].key /\ i \in Key
            /\ expire = "keyExpire" /\ allowed = "ip"
         \/ /\ pc = "ip" /\ i = req[r].ip /\ i \in Ip
            /\ expire = "ipExpire" /\ allowed = "served"
  PROVE  GateInv'
<1> DEFINE n == count[i][win] + 1
           to == AfterIncr(n, expire, allowed)
           x == IF i \in Key THEN [req[r] EXCEPT !.pc = to, !.keyWin = win]
                             ELSE [req[r] EXCEPT !.pc = to, !.ipWin = win]
<1>1. TypeOK /\ ReqOK(r) /\ HitOnce /\ Limit \in Nat /\ (i \in Key <=> pc = "known")
  BY GateAssumption DEF GateInv
<1>2. win \in Window /\ win # 0 /\ win \in Time
  BY <1>1, GateAssumption DEF TypeOK, Window, Time
<1>3. to \in {expire, "429", allowed} /\ to \in PC /\ to \in {"keyExpire", "ip", "ipExpire", "served", "429"}
      /\ (to = "429" => n > Limit)
  BY DEF AfterIncr, Verdict, Over, PC
<1>4. /\ x \in Rec /\ x.pc = to /\ x.key = req[r].key /\ x.ip = req[r].ip
      /\ x.began = req[r].began
      /\ x.keyWin = IF i \in Key THEN win ELSE req[r].keyWin
      /\ x.ipWin = IF i \in Key THEN req[r].ipWin ELSE win
  <2> DEFINE y == [req[r] EXCEPT !.pc = to]
             z == IF i \in Key THEN [y EXCEPT !.keyWin = win] ELSE [y EXCEPT !.ipWin = win]
  <2>1. req[r] \in Rec
    BY <1>1 DEF TypeOK, Rec
  <2>2. to \in PC
    BY <1>3
  <2>3. x = z
    OBVIOUS
  <2> HIDE DEF to
  <2>4. /\ y \in Rec /\ y.pc = to /\ y.key = req[r].key /\ y.ip = req[r].ip
        /\ y.began = req[r].began /\ y.keyWin = req[r].keyWin /\ y.ipWin = req[r].ipWin
    BY <2>1, <2>2 DEF Rec
  <2> HIDE DEF y
  <2>5. /\ z \in Rec /\ z.pc = to /\ z.key = req[r].key /\ z.ip = req[r].ip
        /\ z.began = req[r].began
        /\ z.keyWin = IF i \in Key THEN win ELSE req[r].keyWin
        /\ z.ipWin = IF i \in Key THEN req[r].ipWin ELSE win
    BY <1>2, <2>4 DEF Rec
  <2> HIDE DEF x, z
  <2> QED
    BY <2>3, <2>5
<1>5. req' = [req EXCEPT ![r] = x]
  BY <1>1 DEF Incr, CounterOf, TypeOK
<1>6. UNCHANGED <<clock, revoker, deadline, throttle, keys, votes, orphans>>
  BY DEF Incr
<1> HIDE DEF x
<1>7. /\ req' \in [Request -> Rec] /\ req'[r] = x
      /\ \A q \in Request : q # r => req'[q] = req[q]
  BY <1>1, <1>4, <1>5, UpdateRec
<1>8. req'[r].pc = to
  BY <1>4, <1>7
<1>9. /\ r \notin hits[i][win]
      /\ \A j \in Ident, w \in Window : r \in hits[j][w] => (Passed(r)' => Passed(r))
  <2>1. CASE pc = "known"
    BY <1>1, <1>2, <2>1 DEF HitOnce, BeforeKeyHit, BeforeIpHit, Ident
  <2>2. CASE pc = "ip"
    BY <1>1, <1>2, <2>2 DEF HitOnce, BeforeIpHit, Passed
  <2> QED
    BY <2>1, <2>2
<1>10. /\ count' \in [Ident -> [Window -> Nat]]
       /\ hits' \in [Ident -> [Window -> SUBSET Request]]
       /\ count'[i][win] = n
       /\ hits'[i][win] = hits[i][win] \cup {r}
       /\ count'[i][win] <= Cardinality(hits'[i][win])
       /\ \A j \in Ident, w \in Window :
            /\ <<j, w>> # <<i, win>> => count'[j][w] = count[j][w] /\ hits'[j][w] = hits[j][w]
            /\ Cardinality(hits[j][w]) \in Nat /\ Cardinality(hits'[j][w]) \in Nat
            /\ Cardinality(hits[j][w]) <= Cardinality(hits'[j][w])
            /\ CountOK(j, w)'
  <2>1. expire \in {"keyExpire", "ipExpire"}
    OBVIOUS
  <2>2. req'[r].pc = AfterIncr(count[i][win] + 1, expire, allowed)
    BY <1>8
  <2> QED
    BY <1>2, <1>7, <1>9, <2>1, <2>2, IncrCount
<1> HIDE DEF to
<1>11. TypeOK'
  BY <1>1, <1>6, <1>7, <1>10 DEF TypeOK, Rec, keys, votes
<1>12. HitOnce'
  <2>1. ASSUME NEW j \in Key, NEW w \in Window, NEW q \in hits'[j][w]
        PROVE  req'[q].pc \notin BeforeKeyHit
    <3>1. q \in Request /\ j \in Ident
      BY <1>10 DEF Ident
    <3>2. CASE q = r
      BY <1>3, <1>8, <3>2 DEF BeforeKeyHit
    <3>3. CASE q # r
      <4>1. q \in hits[j][w]
        BY <1>10, <3>1, <3>3
      <4> QED
        BY <1>1, <1>7, <3>1, <3>3, <4>1 DEF HitOnce
    <3> QED
      BY <3>2, <3>3
  <2>2. ASSUME NEW j \in Ip, NEW w \in Window, NEW q \in hits'[j][w]
        PROVE  req'[q].pc \notin BeforeIpHit
    <3>1. q \in Request /\ j \in Ident /\ j \notin Key
      BY <1>10, GateAssumption DEF Ident
    <3>2. CASE q = r
      <4>1. r \notin hits[j][w]
        BY <1>1 DEF HitOnce, BeforeIpHit, BeforeKeyHit
      <4>2. j = i /\ pc = "ip"
        BY <1>1, <1>10, <3>1, <3>2, <4>1
      <4> QED
        BY <1>3, <1>8, <3>2, <4>2 DEF BeforeIpHit, BeforeKeyHit
    <3>3. CASE q # r
      <4>1. q \in hits[j][w]
        BY <1>10, <3>1, <3>3
      <4> QED
        BY <1>1, <1>7, <3>1, <3>3, <4>1 DEF HitOnce
    <3> QED
      BY <3>2, <3>3
  <2> QED
    BY <2>1, <2>2 DEF HitOnce
<1>13. CountersGoAway'
  <2> SUFFICES ASSUME NEW j \in Ident, NEW u \in Window, count'[j][u] # 0, deadline'[j][u] = 0
               PROVE  \/ <<j, u>> \in orphans'
                      \/ \E q \in Request :
                           \/ At(q, "keyExpire")' /\ <<req'[q].key, req'[q].keyWin>> = <<j, u>>
                           \/ At(q, "ipExpire")' /\ <<req'[q].ip, req'[q].ipWin>> = <<j, u>>
    BY DEF CountersGoAway
  <2>1. CASE count[j][u] # 0
    <3>1. \/ <<j, u>> \in orphans
          \/ \E q \in Request :
               \/ At(q, "keyExpire") /\ <<req[q].key, req[q].keyWin>> = <<j, u>>
               \/ At(q, "ipExpire") /\ <<req[q].ip, req[q].ipWin>> = <<j, u>>
      BY <1>6, <2>1 DEF GateInv, CountersGoAway
    <3>2. ~At(r, "keyExpire") /\ ~At(r, "ipExpire")
      BY DEF At
    <3> QED
      BY <1>6, <1>7, <3>1, <3>2 DEF At
  <2>2. CASE count[j][u] = 0
    <3>1. j = i /\ u = win /\ n = 1
      BY <1>10, <2>2
    <3>2. to = expire
      BY <3>1 DEF to, AfterIncr
    <3>3. CASE i \in Key
      BY <1>1, <1>4, <1>7, <3>1, <3>2, <3>3 DEF At
    <3>4. CASE i \notin Key
      BY <1>1, <1>4, <1>7, <3>1, <3>2, <3>4 DEF At
    <3> QED
      BY <3>3, <3>4
  <2> QED
    BY <2>1, <2>2
<1>14. ASSUME NEW q \in Request PROVE ReqOK(q)'
  <2>1. CASE q # r
    <3>1. req'[q] = req[q] /\ clock' = clock /\ ReqOK(q)
      BY <1>6, <1>7, <2>1 DEF GateInv
    <3>2. ASSUME NEW j \in Ident, NEW w \in Window
          PROVE  /\ hits[j][w] \subseteq hits'[j][w]
                 /\ Cardinality(hits[j][w]) > Limit => Cardinality(hits'[j][w]) > Limit
      BY <1>1, <1>10
    <3>3. req[q] \in Rec /\ \A c \in 1..clock : c \in Window
      BY <1>1, GateAssumption DEF TypeOK, Rec, Window
    <3>4. req[q].pc = "429" => RefusedFor(q)[1] \in Ident /\ RefusedFor(q)[2] \in Window
      <4>1. req[q].ipWin # 0 => req[q].ipWin \in Window
        BY <3>3, GateAssumption DEF Rec, Time, Window
      <4> QED
        BY <3>1, <3>3, <4>1 DEF ReqOK, RefusedFor, InGate, AfterKeyHit, Ident
    <3>5. RefusedFor(q)' = RefusedFor(q)
      BY <3>1 DEF RefusedFor
    <3>6. req[q].pc \in AfterKeyHit => q \in hits'[req[q].key][req[q].keyWin]
      BY <3>1, <3>2, <3>3 DEF ReqOK, InGate, Ident
    <3>7. req[q].pc = "ipExpire" => q \in hits'[req[q].ip][req[q].ipWin]
      BY <3>1, <3>2, <3>3 DEF ReqOK, InGate, AfterKeyHit, Ident
    <3> QED
      BY <3>1, <3>2, <3>4, <3>5, <3>6, <3>7 DEF ReqOK
  <2>2. CASE q = r
    <3>1. to \in AfterKeyHit /\ to \in InGate /\ pc \in InGate
      BY <1>3 DEF AfterKeyHit, InGate
    <3>2. req'[r].key \in Key /\ req'[r].ip \in Ip /\ req'[r].began \in 1..clock'
      BY <1>1, <1>4, <1>6, <1>7, <3>1 DEF ReqOK
    <3>3. r \in hits'[i][win] /\ win \in 1..clock'
      BY <1>6, <1>10
    <3>4. to = "429" => Cardinality(hits'[i][win]) > Limit
      <4>1. n <= Cardinality(hits'[i][win]) /\ Cardinality(hits'[i][win]) \in Nat
        BY <1>2, <1>10
      <4>2. n \in Nat
        BY <1>1, <1>2 DEF TypeOK
      <4> HIDE DEF n
      <4> QED
        BY <1>1, <1>3, <4>1, <4>2
    <3>5. CASE i \in Key
      <4>1. req'[r].keyWin = win /\ req'[r].key = i /\ req'[r].ipWin = 0
        BY <1>1, <1>4, <1>7, <3>5 DEF ReqOK, BeforeIpHit, BeforeKeyHit
      <4>2. to # "ipExpire"
        BY <1>1, <1>3, <3>5
      <4> QED
        BY <1>8, <2>2, <3>2, <3>3, <3>4, <4>1, <4>2 DEF ReqOK, RefusedFor
    <3>6. CASE i \notin Key
      <4>1. req'[r].keyWin = req[r].keyWin /\ req'[r].key = req[r].key /\ req'[r].ip = i
            /\ req'[r].ipWin = win
        BY <1>1, <1>4, <1>7, <3>6
      <4>2. to \notin BeforeIpHit
        BY <1>1, <1>3, <3>6 DEF BeforeIpHit, BeforeKeyHit
      <4>3. req[r].keyWin \in 1..clock' /\ r \in hits[req[r].key][req[r].keyWin]
        BY <1>1, <1>6, <3>6 DEF ReqOK, AfterKeyHit
      <4>4. req[r].key # i /\ req[r].key \in Ident /\ req[r].keyWin \in Window
        <5>1. req[r].key \in Key
          BY <1>1, <1>6, <3>1, <3>6 DEF ReqOK, InGate, AfterKeyHit
        <5>2. clock' \in 1..MaxWindow
          BY <1>1, <1>6 DEF TypeOK, Window
        <5>3. req[r].keyWin \in Window
          BY <4>3, <5>2, GateAssumption DEF Window
        <5> QED
          BY <3>6, <5>1, <5>3 DEF Ident
      <4>5. r \in hits'[req[r].key][req[r].keyWin]
        BY <1>10, <4>3, <4>4
      <4> QED
        BY <1>2, <1>8, <2>2, <3>2, <3>3, <3>4, <4>1, <4>2, <4>3, <4>5 DEF ReqOK, RefusedFor
    <3> QED
      BY <3>5, <3>6
  <2> QED
    BY <2>1, <2>2
<1> QED
  BY <1>10, <1>11, <1>12, <1>13, <1>14 DEF GateInv

-----------------------------------------------------------------------------
(* The theorems.                                                            *)

LEMMA GateInvStep ==
  ASSUME GateInv, [Next]_vars
  PROVE  GateInv'
<1>1. TypeOK
  BY DEF GateInv
<1>2. CASE UNCHANGED vars
  <2>1. UNCHANGED <<clock, req, revoker, count, deadline, throttle, lastUsed, revokedAt, dead,
                    feedback, scored, hits, restarted, orphans>>
    BY <1>2 DEF vars, redis, keys, votes, past
  <2>2. TypeOK' /\ CountersGoAway'
    BY <2>1 DEF GateInv, TypeOK, CountersGoAway, At
  <2> QED
    BY <1>1, <2>1, <2>2, QuietStep DEF TypeOK, Window
<1>3. ASSUME NEW r \in Request, HitKey(r) PROVE GateInv'
  <2>1. ReqOK(r)
    BY DEF GateInv
  <2>2. ASSUME At(r, "known"), NEW win \in req[r].began..clock,
               Incr(r, req[r].key, win, "keyExpire", "ip")
        PROVE  GateInv'
    <3>1. req[r].key \in Key /\ win \in 1..clock
      BY <1>1, <2>1, <2>2 DEF At, ReqOK, InGate, TypeOK, Window
    <3> QED
      BY <2>2, <3>1, IncrStep DEF At, Ident
  <2>3. ASSUME At(r, "keyExpire"), SetExpiry(r, req[r].key, req[r].keyWin, "ip") PROVE GateInv'
    BY <2>1, <2>3, SetExpiryStep DEF At, Ident, ReqOK, InGate, AfterKeyHit
  <2> QED
    BY <1>3, <2>2, <2>3 DEF HitKey
<1>4. ASSUME NEW r \in Request, HitIp(r) PROVE GateInv'
  <2>1. ReqOK(r)
    BY DEF GateInv
  <2>2. ASSUME At(r, "ip"), NEW win \in req[r].keyWin..clock,
               Incr(r, req[r].ip, win, "ipExpire", "served")
        PROVE  GateInv'
    <3>1. req[r].ip \in Ip /\ win \in 1..clock
      BY <1>1, <2>1, <2>2 DEF At, ReqOK, InGate, AfterKeyHit, TypeOK, Window
    <3> QED
      BY <2>2, <3>1, IncrStep DEF At, Ident
  <2>3. ASSUME At(r, "ipExpire"), SetExpiry(r, req[r].ip, req[r].ipWin, "served") PROVE GateInv'
    BY <2>1, <2>3, SetExpiryStep DEF At, Ident, ReqOK, InGate, AfterKeyHit
  <2> QED
    BY <1>4, <2>2, <2>3 DEF HitIp
<1> QED
  BY <1>2, <1>3, <1>4, ResolveStep, ThrottleStep, TouchStep, RefuseStep, ReadMessageStep, VoteStep,
     FailStep, OtherStep, ExpireCounterStep
     DEF Next

\* What is true of the counters, the requests and the hits in every reachable state.
THEOREM GateInvariant == Spec => []GateInv
<1>1. GateInv /\ [Next]_vars => GateInv'
  BY GateInvStep
<1> QED
  BY InitOK, <1>1, PTL DEF Spec

\* The fixed window is exact, for any limit, requests, keys and addresses: nobody is
\* refused below the limit, and no more are served than the limit unless the counter
\* had expired under a slow request.
THEOREM LimitExact == Spec => []LimitIsExact
<1>1. GateInv => LimitIsExact
  <2> SUFFICES ASSUME GateInv PROVE LimitIsExact
    OBVIOUS
  <2>1. RejectedOnlyWhenFull
    BY DEF GateInv, ReqOK, RejectedOnlyWhenFull, At
  <2>2. ASSUME NEW i \in Ident, NEW w \in Window, <<i, w>> \notin restarted
        PROVE  Cardinality({r \in hits[i][w] : Admitted(r)}) <= Limit
    <3> DEFINE A == {r \in hits[i][w] : Admitted(r)}
               S == {r \in hits[i][w] : Passed(r)}
    <3>1. /\ IsFiniteSet(S) /\ Cardinality(S) \in Nat /\ Cardinality(hits[i][w]) \in Nat
          /\ Cardinality(S) <= Cardinality(hits[i][w])
      BY HitsFinite DEF GateInv
    <3>2. A \subseteq S
      BY DEF Admitted, Passed, At
    <3>3. Cardinality(A) \in Nat /\ Cardinality(A) <= Cardinality(S)
      BY <3>1, <3>2, FS_Subset, FS_CardinalityType
    <3>4. Cardinality(hits[i][w]) <= Limit \/ Cardinality(S) <= Limit
      BY <2>2 DEF GateInv, CountOK
    <3> HIDE DEF A, S
    <3>5. Cardinality(A) <= Limit
      BY <3>1, <3>3, <3>4, GateAssumption
    <3> QED
      BY <3>5 DEF A
  <2> QED
    BY <2>1, <2>2 DEF LimitIsExact, WithinLimit
<1> QED
  BY GateInvariant, <1>1, PTL

\* A counter outlives its window only by a failure between INCR and EXPIRE.
THEOREM CountersExpire == Spec => []CountersGoAway
<1>1. GateInv => CountersGoAway
  BY DEF GateInv
<1> QED
  BY GateInvariant, <1>1, PTL

-----------------------------------------------------------------------------
(* What a request's steps make of its record, beyond the gate's own fields.  *)

LEMMA IncrMoves ==
  ASSUME TypeOK, NEW r \in Request, NEW i, NEW win \in Time, NEW expire \in PC, NEW allowed \in PC,
         Incr(r, i, win, expire, allowed)
  PROVE  /\ req'[r].pc \in {expire, "429", allowed} /\ req'[r].key = req[r].key
         /\ req'[r].began = req[r].began
         /\ \A q \in Request : q # r => req'[q] = req[q]
<1> DEFINE pc == AfterIncr(count[i][CounterOf(win)] + 1, expire, allowed)
           y == [req[r] EXCEPT !.pc = pc]
           x == IF i \in Key THEN [y EXCEPT !.keyWin = win] ELSE [y EXCEPT !.ipWin = win]
<1>1. req[r] \in Rec
  BY DEF TypeOK, Rec
<1>2. pc \in {expire, "429", allowed} /\ pc \in PC
  BY DEF AfterIncr, Verdict, PC
<1>3. req' = [req EXCEPT ![r] = x]
  BY DEF Incr
<1> HIDE DEF pc
<1>4. y \in Rec /\ y.pc = pc /\ y.key = req[r].key /\ y.began = req[r].began
  BY <1>1, <1>2 DEF Rec
<1> HIDE DEF y
<1>5. x \in Rec /\ x.pc = pc /\ x.key = req[r].key /\ x.began = req[r].began
  BY <1>4 DEF Rec
<1> HIDE DEF x
<1>6. req'[r] = x /\ \A q \in Request : q # r => req'[q] = req[q]
  BY <1>3, <1>5, UpdateRec
<1> QED
  BY <1>2, <1>5, <1>6

LEMMA ResolveMoves ==
  ASSUME TypeOK, NEW r \in Request, NEW k \in Key, NEW i \in Ip, Resolve(r, k, i)
  PROVE  /\ \/ req'[r].pc = "401"
            \/ /\ Unrevoked(k) /\ req'[r].pc = "throttle"
               /\ req'[r].key = k /\ req'[r].began = clock
         /\ \A q \in Request : q # r => req'[q] = req[q]
<1>1. req \in [Request -> Rec] /\ req[r] \in Rec
  BY DEF TypeOK, Rec
<1>2. CASE Answered(r, "401")
  BY <1>1, <1>2 DEF Answered, Nobody
<1>3. CASE ~Answered(r, "401")
  <2> DEFINE x == [req[r] EXCEPT !.pc = "throttle", !.key = k, !.ip = i, !.began = clock]
  <2>1. Unrevoked(k) /\ req' = [req EXCEPT ![r] = x]
    BY <1>3 DEF Resolve
  <2>2. x.pc = "throttle" /\ x.key = k /\ x.began = clock
    BY <1>1 DEF Rec
  <2> HIDE DEF x
  <2> QED
    BY <1>1, <2>1, <2>2
<1> QED
  BY <1>2, <1>3

LEMMA ReadMoves ==
  ASSUME TypeOK, NEW r \in Request, ReadMessage(r)
  PROVE  /\ req'[r].pc = "vote" /\ req'[r].read = feedback
         /\ \A q \in Request : q # r => req'[q] = req[q]
<1>1. PICK v \in Rating : req' = [req EXCEPT ![r].pc = "vote", ![r].vote = v, ![r].read = feedback]
  BY DEF ReadMessage
<1> DEFINE x1 == [req[r] EXCEPT !.pc = "vote"]
           x2 == [x1 EXCEPT !.vote = v]
           x == [x2 EXCEPT !.read = feedback]
<1>2. req[r] \in Rec /\ req \in [Request -> Rec]
  BY DEF TypeOK, Rec
<1>3. req' = [req EXCEPT ![r] = x]
  BY <1>1, <1>2
<1>4. DOMAIN x1 = DOMAIN req[r] /\ x1.pc = "vote"
  BY <1>2 DEF Rec
<1>5. x.pc = "vote" /\ x.read = feedback
  <2>1. DOMAIN req[r] = {"pc", "key", "ip", "began", "keyWin", "ipWin", "vote", "read"}
    BY <1>2 DEF Rec
  <2> HIDE DEF x1
  <2> QED
    BY <1>4, <2>1
<1> HIDE DEF x
<1> QED
  BY <1>2, <1>3, <1>5

LEMMA GotoOnly ==
  ASSUME TypeOK, NEW r \in Request, NEW pc, Goto(r, pc)
  PROVE  /\ req'[r].pc = pc /\ req'[r].key = req[r].key /\ req'[r].began = req[r].began
         /\ req'[r].vote = req[r].vote /\ req'[r].read = req[r].read
         /\ \A q \in Request : q # r => req'[q] = req[q]
<1>1. req \in [Request -> Rec] /\ req[r] \in Rec
  BY DEF TypeOK, Rec
<1> DEFINE x == [req[r] EXCEPT !.pc = pc]
<1>2. /\ x.pc = pc /\ x.key = req[r].key /\ x.began = req[r].began
      /\ x.vote = req[r].vote /\ x.read = req[r].read
  BY <1>1 DEF Rec
<1>3. req' = [req EXCEPT ![r] = x]
  BY DEF Goto
<1> HIDE DEF x
<1> QED
  BY <1>1, <1>2, <1>3

LEMMA AnsweredOnly ==
  ASSUME TypeOK, NEW r \in Request, NEW pc, Answered(r, pc)
  PROVE  req'[r].pc = pc /\ \A q \in Request : q # r => req'[q] = req[q]
BY DEF TypeOK, Answered, Nobody

\* The first hit of a request counts it under its key, and nothing under another one.
LEMMA KeyHit ==
  ASSUME GateInv, NEW r \in Request, HitKey(r) \/ HitIp(r)
  PROVE  /\ \A k \in Key, w \in Window :
              hits'[k][w] = hits[k][w] \/ (k = req[r].key /\ At(r, "known"))
         /\ req'[r].pc \in AfterKeyHit /\ req'[r].key = req[r].key
         /\ req[r].pc \in {"known", "keyExpire", "ip", "ipExpire"}
         /\ \A q \in Request : q # r => req'[q] = req[q]
<1>1. TypeOK /\ ReqOK(r)
  BY DEF GateInv
<1>2. {"keyExpire", "ip", "ipExpire", "served", "429"} \subseteq PC
  BY DEF PC
<1>3. ASSUME NEW i \in Key \cup Ip, NEW win \in 1..clock, NEW expire \in {"keyExpire", "ipExpire"},
             NEW allowed \in {"ip", "served"}, Incr(r, i, win, expire, allowed)
      PROVE  /\ req'[r].pc \in {expire, "429", allowed} /\ req'[r].key = req[r].key
             /\ \A q \in Request : q # r => req'[q] = req[q]
             /\ \A k \in Key, w \in Window : hits'[k][w] = hits[k][w] \/ k = i
  <2>1. win \in Time
    BY <1>1, GateAssumption DEF TypeOK, Window, Time
  <2>2. \A k \in Key, w \in Window : hits'[k][w] = hits[k][w] \/ k = i
    BY <1>1, <1>3 DEF Incr, TypeOK, Ident
  <2> QED
    BY <1>1, <1>2, <1>3, <2>1, <2>2, IncrMoves
<1>4. ASSUME NEW i, NEW win, NEW allowed, SetExpiry(r, i, win, allowed)
      PROVE  /\ req'[r].pc \in {"429", allowed} /\ req'[r].key = req[r].key /\ hits' = hits
             /\ \A q \in Request : q # r => req'[q] = req[q]
  BY <1>1, <1>4, GotoOnly DEF SetExpiry, Verdict
<1>5. ASSUME At(r, "known"), NEW win \in req[r].began..clock,
             Incr(r, req[r].key, win, "keyExpire", "ip")
      PROVE  win \in 1..clock /\ req[r].key \in Key
  BY <1>1, <1>5 DEF At, ReqOK, InGate, TypeOK, Window
<1>6. ASSUME At(r, "ip"), NEW win \in req[r].keyWin..clock,
             Incr(r, req[r].ip, win, "ipExpire", "served")
      PROVE  win \in 1..clock /\ req[r].ip \in Ip /\ req[r].ip \notin Key
  BY <1>1, <1>6, GateAssumption DEF At, ReqOK, InGate, AfterKeyHit, TypeOK, Window
<1>7. CASE HitKey(r)
  BY <1>3, <1>4, <1>5, <1>7 DEF HitKey, At, AfterKeyHit
<1>8. CASE HitIp(r)
  BY <1>3, <1>4, <1>6, <1>8 DEF HitIp, At, AfterKeyHit
<1> QED
  BY <1>7, <1>8

-----------------------------------------------------------------------------
(* last_used_at: a key that let a request in is shown as used.               *)

\* The key is shown as used, or the request that won its throttle is about to
\* commit that.
Shown(k) ==
  \/ lastUsed[k] # 0 \/ k \in disturbed
  \/ \E r \in Request : At(r, "touch") /\ req[r].key = k

\* Nobody passes the throttle of a key that is not shown.
UseInv ==
  /\ \A k \in Key : throttle[k] # 0 \/ (\E w \in Window : hits[k][w] # {}) => Shown(k)
  /\ \A r \in Request : At(r, "known") => Shown(req[r].key)

\* A key stays shown: its touch commits a time, or fails and is counted as disturbed.
LEMMA ShownStays ==
  ASSUME GateInv, NEW r \in Request, NEW k \in Key, Shown(k),
         \/ \E l \in Key, i \in Ip : Resolve(r, l, i)
         \/ Throttle(r) \/ Touch(r) \/ Refuse(r) \/ HitKey(r) \/ HitIp(r)
         \/ ReadMessage(r) \/ CommitVote(r) \/ RecordScore(r) \/ Fail(r)
  PROVE  Shown(k)'
<1>1. TypeOK /\ ReqOK(r)
  BY DEF GateInv
<1>2. \A q \in Request : q # r => req'[q] = req[q]
  BY <1>1, ResolveMoves, GotoOnly, AnsweredOnly, KeyHit, ReadMoves
     DEF Throttle, Touch, Refuse, CommitVote, RecordScore, Fail
<1>3. disturbed \subseteq disturbed'
  BY DEF Resolve, Throttle, Touch, Refuse, HitKey, HitIp, Incr, SetExpiry, ReadMessage,
         CommitVote, RecordScore, Fail, past
<1>4. lastUsed[k] # 0 => lastUsed'[k] # 0
  <2>1. CASE Touch(r)
    BY <1>1, <2>1 DEF Touch, TouchTime, ReqOK, InGate, At, TypeOK, Window
  <2>2. CASE ~Touch(r)
    BY <2>2 DEF Resolve, Throttle, Refuse, HitKey, HitIp, Incr, SetExpiry, ReadMessage,
         CommitVote, RecordScore, Fail, keys
  <2> QED
    BY <2>1, <2>2
<1>5. ASSUME At(r, "touch"), req[r].key = k PROVE lastUsed'[k] # 0 \/ k \in disturbed'
  <2>1. CASE Touch(r)
    BY <1>1, <1>5, <2>1 DEF Touch, TouchTime, ReqOK, InGate, At, TypeOK, Window
  <2>2. CASE Fail(r)
    BY <1>5, <2>2 DEF Fail, At
  <2>3. Touch(r) \/ Fail(r)
    BY <1>5 DEF At, Resolve, Throttle, Refuse, HitKey, HitIp, ReadMessage, CommitVote, RecordScore
  <2> QED
    BY <2>1, <2>2, <2>3
<1>6. CASE lastUsed[k] # 0 \/ k \in disturbed
  BY <1>3, <1>4, <1>6 DEF Shown
<1>7. ASSUME NEW q \in Request, At(q, "touch"), req[q].key = k PROVE Shown(k)'
  BY <1>2, <1>5, <1>7 DEF Shown, At
<1> QED
  BY <1>6, <1>7 DEF Shown

\* What a step of a request adds to who passed under a key.
LEMMA UseStep ==
  ASSUME GateInv, UseInv, NEW r \in Request,
         \/ \E k \in Key, i \in Ip : Resolve(r, k, i)
         \/ Throttle(r) \/ Touch(r) \/ Refuse(r) \/ HitKey(r) \/ HitIp(r)
         \/ ReadMessage(r) \/ CommitVote(r) \/ RecordScore(r) \/ Fail(r)
  PROVE  UseInv'
<1>1. TypeOK /\ ReqOK(r)
  BY DEF GateInv
<1>2. \A k \in Key : Shown(k) => Shown(k)'
  BY ShownStays
<1>3. /\ \A q \in Request : q # r => req'[q] = req[q]
      /\ req'[r].pc = "known" => Throttle(r) \/ Touch(r)
  <2>1. CASE \E k \in Key, i \in Ip : Resolve(r, k, i)
    BY <1>1, <2>1, ResolveMoves
  <2>2. CASE Throttle(r) \/ Touch(r)
    BY <1>1, <2>2, GotoOnly DEF Throttle, Touch
  <2>3. CASE Refuse(r) \/ Fail(r)
    BY <1>1, <2>3, AnsweredOnly DEF Refuse, Fail
  <2>4. CASE HitKey(r) \/ HitIp(r)
    BY <2>4, KeyHit DEF AfterKeyHit
  <2>5. CASE ReadMessage(r)
    BY <1>1, <2>5, ReadMoves
  <2>6. CASE CommitVote(r) \/ RecordScore(r)
    BY <1>1, <2>6, GotoOnly DEF CommitVote, RecordScore
  <2> QED
    BY <2>1, <2>2, <2>3, <2>4, <2>5, <2>6
<1>4. ASSUME At(r, "known")' PROVE (Shown(req[r].key))'
  <2>1. CASE Throttle(r)
    <3>1. Goto(r, "known") /\ throttle[req[r].key] # 0
      BY <1>1, <1>4, <2>1, GotoOnly DEF Throttle, At
    <3>2. req[r].key \in Key /\ req'[r].key = req[r].key
      BY <1>1, <2>1, <3>1, GotoOnly DEF Throttle, At, ReqOK, InGate
    <3>3. \A k \in Key : k = req[r].key => Shown(k)'
      BY <1>2, <3>1 DEF UseInv
    <3> QED
      BY <3>2, <3>3 DEF Shown
  <2>2. CASE Touch(r)
    <3>1. req'[r].key = req[r].key /\ lastUsed'[req[r].key] # 0
      BY <1>1, <2>2, GotoOnly DEF Touch, TouchTime, ReqOK, InGate, At, TypeOK, Window
    <3> QED
      BY <3>1 DEF Shown
  <2> QED
    BY <1>3, <1>4, <2>1, <2>2 DEF At
<1>5. ASSUME NEW q \in Request, q # r, At(q, "known")' PROVE (Shown(req[q].key))'
  <2>1. req'[q] = req[q] /\ At(q, "known") /\ req[q].key \in Key
    BY <1>3, <1>5 DEF At, GateInv, ReqOK, InGate
  <2>2. \A k \in Key : k = req[q].key => Shown(k)'
    BY <1>2, <2>1 DEF UseInv
  <2> QED
    BY <2>1, <2>2 DEF Shown
<1>6. ASSUME NEW k \in Key, throttle'[k] # 0 PROVE Shown(k)'
  <2>1. CASE throttle[k] # 0
    BY <1>2, <2>1 DEF UseInv
  <2>2. CASE throttle[k] = 0
    <3>1. Throttle(r)
      BY <1>6, <2>2 DEF Resolve, Touch, Refuse, HitKey, HitIp, Incr, SetExpiry, ReadMessage,
         CommitVote, RecordScore, Fail, redis
    <3>2. k = req[r].key /\ Goto(r, "touch")
      BY <1>1, <1>6, <2>2, <3>1 DEF Throttle, TypeOK
    <3>3. req'[r].pc = "touch" /\ req'[r].key = k
      BY <1>1, <3>2, GotoOnly
    <3> QED
      BY <3>3 DEF Shown, At
  <2> QED
    BY <2>1, <2>2
<1>7. ASSUME NEW k \in Key, NEW w \in Window, hits'[k][w] # {} PROVE Shown(k)'
  <2>1. CASE hits[k][w] # {}
    BY <1>2, <2>1 DEF UseInv
  <2>2. CASE hits[k][w] = {}
    <3>1. HitKey(r) \/ HitIp(r)
      BY <1>7, <2>2 DEF Resolve, Throttle, Touch, Refuse, ReadMessage, CommitVote, RecordScore, Fail
    <3>2. k = req[r].key /\ At(r, "known")
      BY <1>7, <2>2, <3>1, KeyHit
    <3> QED
      BY <1>2, <3>2 DEF UseInv
  <2> QED
    BY <2>1, <2>2
<1> QED
  BY <1>4, <1>5, <1>6, <1>7 DEF UseInv

LEMMA UseInvStep ==
  ASSUME GateInv, UseInv, [Next]_vars
  PROVE  UseInv'
<1>1. CASE \/ \E o \in Revoker : (\E k \in Key : ReadKey(o, k)) \/ Revoke(o)
           \/ Tick
           \/ \E i \in Ident, w \in Window : ExpireCounter(i, w)
           \/ UNCHANGED vars
  BY <1>1 DEF ReadKey, Revoke, Tick, ExpireCounter, vars, redis, keys, past, UseInv, Shown, At
<1>2. ASSUME NEW k \in Key, ExpireThrottle(k) PROVE UseInv'
  <2>1. UNCHANGED <<req, hits, lastUsed, disturbed>>
        /\ \A l \in Key : throttle'[l] # 0 => throttle[l] # 0
    BY <1>2 DEF ExpireThrottle, keys, past, GateInv, TypeOK
  <2> QED
    BY <2>1 DEF UseInv, Shown, At
<1> QED
  BY <1>1, <1>2, UseStep DEF Next

-----------------------------------------------------------------------------
(* last_used_at: no use is shown that is later than the revocation.          *)

\* A request that found its key unrevoked began before the revocation, and that is
\* the time it may still write.
RevokeInv ==
  /\ \A k \in Key : /\ lastUsed[k] <= clock
                    /\ dead[k] # 0 => revokedAt[k] # 0 /\ lastUsed[k] <= dead[k]
  /\ \A r \in Request, k \in Key :
       req[r].pc \in {"throttle", "touch"} /\ req[r].key = k /\ dead[k] # 0 => req[r].began <= dead[k]
  /\ \A o \in Revoker : revoker[o].pc = "commit" =>
       revoker[o].key \in Key /\ revoker[o].at \in 1..clock

LEMMA RevokeStep ==
  ASSUME GateInv, RevokeInv, NEW r \in Request,
         \/ \E k \in Key, i \in Ip : Resolve(r, k, i)
         \/ Throttle(r) \/ Touch(r) \/ Refuse(r) \/ HitKey(r) \/ HitIp(r)
         \/ ReadMessage(r) \/ CommitVote(r) \/ RecordScore(r) \/ Fail(r)
  PROVE  RevokeInv'
<1>1. TypeOK /\ ReqOK(r)
  BY DEF GateInv
<1>2. UNCHANGED <<clock, revoker, revokedAt, dead>>
  BY DEF Resolve, Throttle, Touch, Refuse, HitKey, HitIp, Incr, SetExpiry, ReadMessage, CommitVote,
     RecordScore, Fail, keys
<1>3. lastUsed' = lastUsed \/ Touch(r)
  BY DEF Resolve, Throttle, Refuse, HitKey, HitIp, Incr, SetExpiry, ReadMessage, CommitVote,
     RecordScore, Fail, keys
<1>4. \A q \in Request : q # r => req'[q] = req[q]
  BY <1>1, ResolveMoves, GotoOnly, AnsweredOnly, KeyHit, ReadMoves
     DEF Throttle, Touch, Refuse, CommitVote, RecordScore, Fail
<1>5. ASSUME NEW k \in Key, req'[r].pc \in {"throttle", "touch"}, req'[r].key = k, dead[k] # 0
      PROVE  req'[r].began <= dead[k]
  <2>1. CASE \E l \in Key, i \in Ip : Resolve(r, l, i)
    BY <1>1, <1>5, <2>1, ResolveMoves DEF RevokeInv, Unrevoked
  <2>2. CASE Throttle(r)
    BY <1>1, <1>5, <2>2, GotoOnly DEF Throttle, At, RevokeInv
  <2>3. CASE HitKey(r) \/ HitIp(r)
    BY <1>5, <2>3, KeyHit DEF AfterKeyHit
  <2>4. CASE Touch(r) \/ CommitVote(r) \/ RecordScore(r)
    BY <1>1, <1>5, <2>4, GotoOnly DEF Touch, CommitVote, RecordScore
  <2>5. CASE Refuse(r) \/ Fail(r)
    BY <1>1, <1>5, <2>5, AnsweredOnly DEF Refuse, Fail
  <2>6. CASE ReadMessage(r)
    BY <1>1, <1>5, <2>6, ReadMoves
  <2> QED
    BY <2>1, <2>2, <2>3, <2>4, <2>5, <2>6
<1>6. ASSUME Touch(r), NEW k \in Key
      PROVE  lastUsed'[k] <= clock /\ (dead[k] # 0 => lastUsed'[k] <= dead[k])
  <2>1. lastUsed'[k] = IF k = req[r].key THEN req[r].began ELSE lastUsed[k]
    BY <1>1, <1>6 DEF Touch, TouchTime, TypeOK
  <2>2. req[r].began \in 1..clock
    BY <1>1, <1>6 DEF Touch, At, ReqOK, InGate
  <2>3. k = req[r].key /\ dead[k] # 0 => req[r].began <= dead[k]
    BY <1>6 DEF Touch, At, RevokeInv
  <2> QED
    BY <2>1, <2>2, <2>3 DEF RevokeInv
<1>7. \A k \in Key : /\ lastUsed'[k] <= clock'
                     /\ dead'[k] # 0 => revokedAt'[k] # 0 /\ lastUsed'[k] <= dead'[k]
  BY <1>2, <1>3, <1>6 DEF RevokeInv
<1>8. \A q \in Request, k \in Key :
        req'[q].pc \in {"throttle", "touch"} /\ req'[q].key = k /\ dead'[k] # 0 => req'[q].began <= dead'[k]
  BY <1>2, <1>4, <1>5 DEF RevokeInv
<1> QED
  BY <1>2, <1>7, <1>8 DEF RevokeInv

LEMMA RevokeInvStep ==
  ASSUME GateInv, RevokeInv, [Next]_vars
  PROVE  RevokeInv'
<1>1. TypeOK /\ clock \in Nat /\ clock >= 1
  BY GateAssumption DEF GateInv, TypeOK, Window
<1>2. ASSUME NEW o \in Revoker, NEW k \in Key, ReadKey(o, k) PROVE RevokeInv'
  BY <1>1, <1>2 DEF ReadKey, keys, TypeOK, RevokeInv
<1>3. ASSUME NEW o \in Revoker, Revoke(o) PROVE RevokeInv'
  <2> DEFINE k == revoker[o].key
  <2>1. k \in Key /\ revoker[o].at \in 1..clock
    BY <1>3 DEF Revoke, RevokeInv
  <2>2. /\ UNCHANGED <<clock, req, lastUsed>>
        /\ \A l \in Key : revokedAt'[l] = IF l = k THEN revoker[o].at ELSE revokedAt[l]
        /\ \A l \in Key : dead'[l] = IF l = k /\ dead[k] = 0 THEN clock ELSE dead[l]
    BY <1>1, <1>3, <2>1 DEF Revoke, TypeOK
  <2>3. \A p \in Revoker : revoker'[p].pc = "commit" => revoker'[p] = revoker[p]
    BY <1>1, <1>3 DEF Revoke, TypeOK
  <2>4. \A r \in Request : req[r].pc \in {"throttle", "touch"} => req[r].began \in 1..clock
    BY DEF GateInv, ReqOK, InGate
  <2>5. \A l \in Key : /\ lastUsed'[l] <= clock'
                       /\ dead'[l] # 0 => revokedAt'[l] # 0 /\ lastUsed'[l] <= dead'[l]
    BY <1>1, <2>1, <2>2 DEF RevokeInv
  <2>6. \A r \in Request, l \in Key :
          req'[r].pc \in {"throttle", "touch"} /\ req'[r].key = l /\ dead'[l] # 0 => req'[r].began <= dead'[l]
    BY <1>1, <2>2, <2>4 DEF RevokeInv
  <2> QED
    BY <2>2, <2>3, <2>5, <2>6 DEF RevokeInv
<1>4. CASE Tick
  <2>1. UNCHANGED <<req, revoker, lastUsed, dead, revokedAt>> /\ clock' = clock + 1
    BY <1>4 DEF Tick, keys
  <2> QED
    BY <1>1, <2>1 DEF RevokeInv, TypeOK, Time
<1>5. CASE \/ \E i \in Ident, w \in Window : ExpireCounter(i, w)
           \/ \E k \in Key : ExpireThrottle(k)
           \/ UNCHANGED vars
  BY <1>5 DEF ExpireCounter, ExpireThrottle, vars, redis, keys, RevokeInv
<1> QED
  BY <1>2, <1>3, <1>4, <1>5, RevokeStep DEF Next

LEMMA InitUse == Init => UseInv /\ RevokeInv
BY GateAssumption DEF Init, UseInv, RevokeInv, Nobody, At, Ident, Window

\* What owners read from last_used_at is true: a key in use is shown as used, and no
\* use is shown that is later than the key's revocation, for any number of requests
\* and owners at once.
THEOREM UseShown == Spec => []LastUsedIsTrue
<1>1. Spec => [](UseInv /\ RevokeInv)
  <2>1. GateInv /\ (UseInv /\ RevokeInv) /\ [Next]_vars => (UseInv /\ RevokeInv)'
    BY UseInvStep, RevokeInvStep
  <2> QED
    BY InitUse, <2>1, GateInvariant, PTL DEF Spec
<1>2. UseInv /\ RevokeInv => LastUsedIsTrue
  BY DEF UseInv, RevokeInv, LastUsedIsTrue, UsedKeyIsShown, NeverUsedAfterRevocation, Shown
<1> QED
  BY <1>1, <1>2, PTL

-----------------------------------------------------------------------------
(* The thumb in the transcript and the score in the traces.                  *)

\* While no votes overlap there is at most one between reading the message and its
\* score, and that one knows what the transcript holds.
VoteInv ==
  "votes" \notin disturbed =>
    /\ \A q, r \in Request : Voting(q) /\ Voting(r) => q = r
    /\ \A r \in Request : /\ At(r, "vote") => req[r].read = feedback
                          /\ At(r, "score") => req[r].vote = feedback
    /\ scored = feedback \/ \E r \in Request : At(r, "score")

\* Steps of a request that is not, and does not become, a vote.
LEMMA NoVoteStep ==
  ASSUME VoteInv, disturbed \subseteq disturbed', UNCHANGED votes, NEW r \in Request,
         ~Voting(r), req'[r].pc \notin {"vote", "score"},
         \A q \in Request : q # r => req'[q] = req[q]
  PROVE  VoteInv'
BY DEF VoteInv, Voting, At, votes

LEMMA VoteInvStep ==
  ASSUME GateInv, VoteInv, [Next]_vars
  PROVE  VoteInv'
<1>1. TypeOK
  BY DEF GateInv
<1>2. ASSUME NEW r \in Request, \E k \in Key, i \in Ip : Resolve(r, k, i) PROVE VoteInv'
  <2>1. req'[r].pc \in {"401", "throttle"} /\ \A q \in Request : q # r => req'[q] = req[q]
    BY <1>1, <1>2, ResolveMoves
  <2>2. disturbed' = disturbed /\ UNCHANGED votes /\ ~Voting(r)
    BY <1>2 DEF Resolve, past, Voting, At
  <2> QED
    BY <2>1, <2>2, NoVoteStep
<1>3. ASSUME NEW r \in Request, Throttle(r) \/ Touch(r) PROVE VoteInv'
  <2>1. req'[r].pc \in {"touch", "known"} /\ \A q \in Request : q # r => req'[q] = req[q]
    BY <1>1, <1>3, GotoOnly DEF Throttle, Touch
  <2>2. disturbed' = disturbed /\ UNCHANGED votes /\ ~Voting(r)
    BY <1>3 DEF Throttle, Touch, past, Voting, At
  <2> QED
    BY <2>1, <2>2, NoVoteStep
<1>4. ASSUME NEW r \in Request, Refuse(r) PROVE VoteInv'
  <2>1. req'[r].pc \in {"401", "403"} /\ \A q \in Request : q # r => req'[q] = req[q]
    BY <1>1, <1>4, AnsweredOnly DEF Refuse
  <2>2. disturbed' = disturbed /\ UNCHANGED votes /\ ~Voting(r)
    BY <1>4 DEF Refuse, past, Voting, At
  <2> QED
    BY <2>1, <2>2, NoVoteStep
<1>5. ASSUME NEW r \in Request, HitKey(r) \/ HitIp(r) PROVE VoteInv'
  <2>1. req[r].pc \in {"known", "keyExpire", "ip", "ipExpire"}
        /\ \A q \in Request : q # r => req'[q] = req[q]
    BY <1>5, KeyHit
  <2>2. req'[r].pc \notin {"vote", "score"}
    <3>1. {"keyExpire", "ip", "ipExpire", "served"} \subseteq PC
      BY DEF PC
    <3>2. ReqOK(r)
      BY DEF GateInv
    <3>3. ASSUME NEW i, NEW win \in 1..clock, NEW expire \in {"keyExpire", "ipExpire"},
                 NEW allowed \in {"ip", "served"}, Incr(r, i, win, expire, allowed)
          PROVE  req'[r].pc \in {expire, "429", allowed}
      <4>1. win \in Time
        BY <1>1, GateAssumption DEF TypeOK, Window, Time
      <4> QED
        BY <1>1, <3>1, <3>3, <4>1, IncrMoves
    <3>4. ASSUME NEW i, NEW win, NEW allowed \in {"ip", "served"}, SetExpiry(r, i, win, allowed)
          PROVE  req'[r].pc \in {"429", allowed}
      BY <1>1, <3>4, GotoOnly DEF SetExpiry, Verdict
    <3>5. ASSUME At(r, "known"), NEW win \in req[r].began..clock PROVE win \in 1..clock
      BY <1>1, <3>2, <3>5 DEF At, ReqOK, InGate, TypeOK, Window
    <3>6. ASSUME At(r, "ip"), NEW win \in req[r].keyWin..clock PROVE win \in 1..clock
      BY <1>1, <3>2, <3>6 DEF At, ReqOK, AfterKeyHit, TypeOK, Window
    <3> QED
      BY <1>5, <3>3, <3>4, <3>5, <3>6 DEF HitKey, HitIp
  <2>3. disturbed' = disturbed /\ UNCHANGED votes
    BY <1>5 DEF HitKey, HitIp, Incr, SetExpiry, past
  <2>4. ~Voting(r)
    BY <2>1 DEF Voting, At
  <2> QED
    BY <2>1, <2>2, <2>3, <2>4, NoVoteStep
<1>6. ASSUME NEW r \in Request, ReadMessage(r) PROVE VoteInv'
  <2>1. /\ req'[r].pc = "vote" /\ req'[r].read = feedback
        /\ \A q \in Request : q # r => req'[q] = req[q]
    BY <1>1, <1>6, ReadMoves
  <2>2. /\ UNCHANGED <<feedback, scored>> /\ At(r, "served")
        /\ "votes" \notin disturbed' =>
             "votes" \notin disturbed /\ \A q \in Request : ~Voting(q)
    BY <1>6 DEF ReadMessage, votes
  <2> QED
    BY <2>1, <2>2 DEF VoteInv, Voting, At
<1>7. ASSUME NEW r \in Request, CommitVote(r) PROVE VoteInv'
  <2>1. /\ req'[r].pc = "score" /\ req'[r].vote = req[r].vote
        /\ \A q \in Request : q # r => req'[q] = req[q]
    BY <1>1, <1>7, GotoOnly DEF CommitVote
  <2>2. /\ At(r, "vote") /\ disturbed' = disturbed
        /\ feedback' = IF req[r].read = req[r].vote THEN feedback ELSE req[r].vote
    BY <1>7 DEF CommitVote, past
  <2> QED
    BY <2>1, <2>2 DEF VoteInv, Voting, At
<1>8. ASSUME NEW r \in Request, RecordScore(r) PROVE VoteInv'
  <2>1. /\ req'[r].pc = "done" /\ \A q \in Request : q # r => req'[q] = req[q]
    BY <1>1, <1>8, GotoOnly DEF RecordScore
  <2>2. At(r, "score") /\ disturbed' = disturbed /\ scored' = req[r].vote /\ feedback' = feedback
    BY <1>8 DEF RecordScore, past
  <2> QED
    BY <2>1, <2>2 DEF VoteInv, Voting, At
<1>9. ASSUME NEW r \in Request, Fail(r) PROVE VoteInv'
  <2>1. req'[r].pc = "500" /\ \A q \in Request : q # r => req'[q] = req[q]
    BY <1>1, <1>9, AnsweredOnly DEF Fail
  <2>2. /\ UNCHANGED <<feedback, scored>> /\ disturbed \subseteq disturbed'
        /\ At(r, "score") => "votes" \in disturbed'
    BY <1>9 DEF Fail, votes, At
  <2> QED
    BY <2>1, <2>2 DEF VoteInv, Voting, At
<1>10. CASE \/ \E o \in Revoker : (\E k \in Key : ReadKey(o, k)) \/ Revoke(o)
            \/ Tick
            \/ \E i \in Ident, w \in Window : ExpireCounter(i, w)
            \/ \E k \in Key : ExpireThrottle(k)
            \/ UNCHANGED vars
  BY <1>10 DEF ReadKey, Revoke, Tick, ExpireCounter, ExpireThrottle, vars, votes, past, VoteInv,
     Voting, At
<1> QED
  BY <1>2, <1>3, <1>4, <1>5, <1>6, <1>7, <1>8, <1>9, <1>10 DEF Next

LEMMA InitVote == Init => VoteInv
BY DEF Init, VoteInv, Nobody, Voting, At

\* The score in the traces is the thumb in the transcript once votes are settled,
\* unless two overlapped or one failed between the two.
THEOREM ScoreFollows == Spec => []ScoreFollowsFeedback
<1>1. Spec => []VoteInv
  <2>1. GateInv /\ VoteInv /\ [Next]_vars => VoteInv'
    BY VoteInvStep
  <2> QED
    BY InitVote, <2>1, GateInvariant, PTL DEF Spec
<1>2. VoteInv => ScoreFollowsFeedback
  BY DEF VoteInv, ScoreFollowsFeedback
<1> QED
  BY <1>1, <1>2, PTL

-----------------------------------------------------------------------------
(* WidgetClient.                                                            *)

USE WidgetAssumption

-----------------------------------------------------------------------------
(* The inductive invariant.                                                 *)

Typed ==
  /\ asked \in 0..MaxTurns /\ conv \in 0..asked /\ stored.conv \in 0..asked
  /\ streaming \in BOOLEAN /\ messages \in Seq(Message) /\ stored.messages \in Seq(Message)
  /\ rated \subseteq 1..asked

\* A response that is being read is the only one, the answer to the last question, and
\* patches that question's message.
Current(s) ==
  /\ s \in Stream /\ streams = {s} /\ streaming
  /\ s.turn = asked /\ s.conv \in 1..asked
  /\ messages # <<>> /\ Last.turn = asked
  /\ s.conv \in rated => s.conv \in late

Apart(ms) == \A i \in 1..Len(ms) : ms[i].text \subseteq {ms[i].turn}

ClientInv ==
  /\ Typed /\ (\A s \in streams : Current(s))
  /\ Apart(messages) /\ Apart(stored.messages)
  /\ StorageFollows /\ RatedComesBackOnlyLate /\ ComposerComesBack

LEMMA ClientInitOK == ClientInit => ClientInv
<1>1. <<>> \in Seq(Message) /\ Len(<<>>) = 0
  BY EmptySeq
<1> SUFFICES ASSUME ClientInit PROVE ClientInv
  OBVIOUS
<1>2. stored.conv = 0 /\ stored.messages = <<>>
  BY DEF ClientInit
<1>3. Typed
  <2>1. asked = 0 /\ conv = 0 /\ streaming = FALSE /\ rated = {} /\ messages = <<>>
    BY DEF ClientInit
  <2>2. 0 \in 0..MaxTurns /\ 0 \in 0..0
    OBVIOUS
  <2>3. asked \in 0..MaxTurns /\ conv \in 0..asked /\ stored.conv \in 0..asked
    BY <1>2, <2>1, <2>2
  <2>4. messages \in Seq(Message) /\ stored.messages \in Seq(Message)
    BY <1>1, <1>2, <2>1
  <2> QED
    BY <2>1, <2>3, <2>4 DEF Typed
<1>4. Apart(messages) /\ Apart(stored.messages)
  BY <1>1, <1>2 DEF ClientInit, Apart
<1> QED
  BY <1>3, <1>4 DEF ClientInit, ClientInv, StorageFollows, RatedComesBackOnlyLate, ComposerComesBack

-----------------------------------------------------------------------------
(* Asking and the stream.                                                   *)

LEMMA SendOK == ClientInv /\ Send => ClientInv'
<1> SUFFICES ASSUME ClientInv, Send PROVE ClientInv'
  OBVIOUS
<1> DEFINE m == [turn |-> asked', text |-> {}, settled |-> FALSE]
           c == IF conv = 0 THEN asked' ELSE conv
           s == [turn |-> asked', conv |-> c, torn |-> FALSE, over |-> FALSE]
<1>1. asked \in Nat /\ asked' = asked + 1 /\ asked' \in 1..MaxTurns /\ conv \in 0..asked
  BY DEF Send, ClientInv, Typed
<1>2. c \in 1..asked' /\ c \in 1..MaxTurns
  BY <1>1
<1>3. m \in Message /\ s \in Stream
  <2> HIDE DEF c
  <2> QED
    BY <1>1, <1>2 DEF Message, Stream, Turn
<1>4. streams = {} /\ streams' = {s}
  BY DEF Send, MaySend, ClientInv, Current
<1>5. /\ messages' \in Seq(Message) /\ messages' # <<>> /\ Len(messages') = Len(messages) + 1
      /\ \A i \in 1..Len(messages) : messages'[i] = messages[i]
      /\ messages'[Len(messages')] = m /\ Len(messages) \in Nat
  BY <1>3, AppendProperties, LenProperties DEF Send, ClientInv, Typed
<1>6. Typed'
  BY <1>1, <1>5 DEF Send, ClientInv, Typed
<1>7. ASSUME NEW x \in streams' PROVE Current(x)'
  <2>1. x = s
    BY <1>4, <1>7
  <2>2. c \in rated => c \in late
    BY <1>1 DEF ClientInv, Typed, RatedComesBackOnlyLate
  <2>3. streaming' /\ UNCHANGED <<rated, late>>
    BY DEF Send
  <2>4. x \in Stream /\ streams' = {x} /\ x.turn = asked' /\ x.conv = c
    BY <1>3, <1>4, <2>1
  <2>5. m.turn = asked'
    OBVIOUS
  <2> HIDE DEF c, s, m
  <2>6. Last'.turn = asked' /\ messages' # <<>>
    BY <1>5, <2>5 DEF Last
  <2>7. x.conv \in 1..asked' /\ (x.conv \in rated' => x.conv \in late')
    BY <1>2, <2>2, <2>3, <2>4
  <2> QED
    BY <2>3, <2>4, <2>6, <2>7 DEF Current
<1>8. (\A x \in streams : Current(x))'
  BY <1>7
<1>9. Apart(messages)'
  <2>1. ASSUME NEW i \in 1..Len(messages') PROVE messages'[i].text \subseteq {messages'[i].turn}
    <3>1. CASE i \in 1..Len(messages)
      BY <1>5, <3>1 DEF ClientInv, Apart
    <3>2. CASE i = Len(messages')
      BY <1>5, <3>2
    <3> QED
      BY <1>5, <3>1, <3>2
  <2> QED
    BY <2>1 DEF Apart
<1>10. ComposerComesBack'
  BY <1>4, <1>1 DEF ComposerComesBack
<1>11. (StorageFollows /\ RatedComesBackOnlyLate)' /\ Apart(stored.messages)'
  BY DEF Send, MessagesChanged, Changed, ClientInv, StorageFollows, RatedComesBackOnlyLate, Apart
<1> QED
  BY <1>6, <1>8, <1>9, <1>10, <1>11 DEF ClientInv

\* The stream events patch the last message, with its own turn's text.
LEMMA PatchOK ==
  ASSUME ClientInv, messages # <<>>, NEW m \in Message, m.turn = Last.turn,
         m.text \subseteq {m.turn}, PatchLast(m)
  PROVE  /\ messages' \in Seq(Message) /\ messages' # <<>> /\ Last'.turn = Last.turn
         /\ Apart(messages)'
<1>1. Len(messages) \in 1..Len(messages) /\ messages \in Seq(Message)
  BY EmptySeq, LenProperties DEF ClientInv, Typed
<1>2. /\ messages' \in Seq(Message) /\ Len(messages') = Len(messages)
      /\ \A j \in 1..Len(messages) : messages'[j] = IF j = Len(messages) THEN m ELSE messages[j]
  BY <1>1, ExceptSeq DEF PatchLast
<1>3. Last' = m /\ messages' # <<>>
  BY <1>1, <1>2, EmptySeq DEF Last
<1> QED
  BY <1>2, <1>3 DEF ClientInv, Apart

\* What a patch by the current response makes of the last message.
LEMMA PatchedMessage ==
  ASSUME ClientInv, NEW s \in streams
  PROVE  /\ messages # <<>> /\ Last \in Message /\ Last.text \subseteq {Last.turn}
         /\ Last.turn = s.turn
<1>1. messages # <<>> /\ Last.turn = s.turn
  BY DEF ClientInv, Current
<1>2. Len(messages) \in 1..Len(messages) /\ messages \in Seq(Message)
  BY <1>1, EmptySeq, LenProperties DEF ClientInv, Typed
<1> QED
  BY <1>1, <1>2, ElementOfSeq DEF Last, ClientInv, Apart

LEMMA OnTokenOK == ASSUME ClientInv, NEW s \in streams, OnToken(s) PROVE ClientInv'
<1> DEFINE m == [Last EXCEPT !.text = @ \cup {s.turn}]
<1>1. m \in Message /\ m.turn = Last.turn /\ m.text \subseteq {m.turn} /\ messages # <<>>
  BY PatchedMessage DEF Message
<1>2. messages' \in Seq(Message) /\ messages' # <<>> /\ Last'.turn = Last.turn /\ Apart(messages)'
  BY <1>1, PatchOK DEF OnToken
<1>3. Typed' /\ (\A x \in streams : Current(x))'
  BY <1>2 DEF OnToken, page, ClientInv, Typed, Current
<1> QED
  BY <1>2, <1>3 DEF OnToken, page, MessagesChanged, Changed, ClientInv, Apart, StorageFollows,
                    RatedComesBackOnlyLate, ComposerComesBack

LEMMA OnDoneOK == ASSUME ClientInv, NEW s \in streams, OnDone(s) PROVE ClientInv'
<1> DEFINE m == [Last EXCEPT !.settled = TRUE]
<1>1. m \in Message /\ m.turn = Last.turn /\ m.text \subseteq {m.turn} /\ messages # <<>>
  BY PatchedMessage DEF Message
<1>2. messages' \in Seq(Message) /\ Apart(messages)'
  BY <1>1, PatchOK DEF OnDone
<1>3. streams' = {} /\ conv' \in 1..asked /\ (conv' \in rated => conv' \in late)
  BY DEF OnDone, ClientInv, Current
<1>4. Typed'
  <2>1. UNCHANGED <<asked, stored, rated>> /\ streaming' = FALSE
    BY DEF OnDone, page
  <2>2. asked \in 0..MaxTurns /\ conv' \in 0..asked
    BY <1>3 DEF ClientInv, Typed
  <2> QED
    BY <1>2, <2>1, <2>2 DEF ClientInv, Typed
<1>5. Apart(stored.messages)' /\ (StorageFollows /\ RatedComesBackOnlyLate /\ ComposerComesBack)'
  BY <1>3 DEF OnDone, page, MessagesChanged, Changed, ClientInv, Apart, StorageFollows,
              RatedComesBackOnlyLate, ComposerComesBack
<1> QED
  BY <1>2, <1>3, <1>4, <1>5 DEF ClientInv

LEMMA OnErrorOK == ASSUME ClientInv, NEW s \in streams, OnError(s) PROVE ClientInv'
<1> DEFINE m == [Last EXCEPT !.text = IF @ = {} THEN {s.turn} ELSE @]
<1>1. m \in Message /\ m.turn = Last.turn /\ m.text \subseteq {m.turn} /\ messages # <<>>
  BY PatchedMessage DEF Message
<1>2. messages' \in Seq(Message) /\ Apart(messages)'
  BY <1>1, PatchOK DEF OnError
<1>3. streams' = {}
  BY DEF OnError, ClientInv, Current
<1> QED
  BY <1>2, <1>3 DEF OnError, page, MessagesChanged, Changed, ClientInv, Typed, Apart, StorageFollows,
                    RatedComesBackOnlyLate, ComposerComesBack

\* The parser holds events back, or loses them: the response is still the current one.
LEMMA ParseOK == ASSUME ClientInv, NEW s \in streams, Tear(s) \/ Drop(s) PROVE ClientInv'
<1>1. PICK torn \in BOOLEAN, last \in BOOLEAN : Received(s, torn, last)
  BY DEF Tear, Drop
<1> DEFINE r == [s EXCEPT !.torn = torn, !.over = last]
<1>2. r \in Stream /\ r.turn = s.turn /\ r.conv = s.conv /\ streams' = {r}
  BY <1>1 DEF Received, ClientInv, Current, Stream
<1>3. UNCHANGED <<asked, conv, messages, streaming, effects, stored, rated, late, cut>>
  BY DEF Tear, Drop, page
<1>4. (\A x \in streams : Current(x))'
  BY <1>2, <1>3 DEF ClientInv, Current, Last
<1>5. ComposerComesBack'
  BY <1>2, <1>3 DEF ClientInv, Current, ComposerComesBack
<1> QED
  BY <1>3, <1>4, <1>5 DEF ClientInv, Typed, Apart, StorageFollows, RatedComesBackOnlyLate

LEMMA BreakOffOK == ASSUME ClientInv, NEW s \in streams, BreakOff(s) PROVE ClientInv'
<1>1. streams' = {} /\ asked \in cut'
  BY DEF BreakOff, ClientInv, Current
<1> QED
  BY <1>1 DEF BreakOff, page, ClientInv, Typed, Apart, StorageFollows, RatedComesBackOnlyLate,
              ComposerComesBack

-----------------------------------------------------------------------------
(* The rest of the app.                                                     *)

\* Clicks and the timer: they change at most the conversation, to none, and the prompt.
LEMMA PromptOK ==
  ASSUME ClientInv, conv' = conv \/ (conv' = 0 /\ "save" \in effects'),
         effects \subseteq effects',
         UNCHANGED <<asked, messages, streaming, streams, stored, rated, late, cut>>
  PROVE  ClientInv'
<1>1. conv' \in 0..asked /\ 0 \notin rated
  BY DEF ClientInv, Typed
<1>2. (\A x \in streams : Current(x))'
  BY DEF ClientInv, Current, Last
<1> QED
  BY <1>1, <1>2 DEF ClientInv, Typed, Apart, StorageFollows, RatedComesBackOnlyLate,
                    ComposerComesBack

LEMMA ClicksOK ==
  ASSUME ClientInv, Vote \/ Ask \/ Dismiss \/ Close \/ Launcher \/ IdleTimeout
  PROVE  ClientInv'
BY PromptOK DEF Vote, Ask, Dismiss, Close, Launcher, IdleTimeout, FinishCsat, MessagesChanged,
                Changed, page

LEMMA RateOK == ClientInv /\ Rate => ClientInv'
<1> SUFFICES ASSUME ClientInv, Rate PROVE ClientInv'
  OBVIOUS
<1>1. conv \in 1..asked /\ rated' = rated \cup {conv} /\ conv' = 0 /\ "save" \in effects'
  BY DEF Rate, FinishCsat, Changed, ClientInv, Typed
<1>2. late \subseteq late' /\ \A s \in streams : s.conv = conv => s.conv \in late'
  BY DEF Rate
<1>3. UNCHANGED <<asked, messages, streaming, streams, stored, cut>>
  BY DEF Rate, page
<1>4. (\A x \in streams : Current(x))'
  BY <1>1, <1>2, <1>3 DEF ClientInv, Current, Last
<1>5. Typed' /\ 0 \notin rated'
  BY <1>1, <1>3 DEF ClientInv, Typed
<1>6. (StorageFollows /\ RatedComesBackOnlyLate /\ ComposerComesBack)'
  BY <1>1, <1>3, <1>5 DEF ClientInv, StorageFollows, RatedComesBackOnlyLate, ComposerComesBack
<1>7. Apart(messages)' /\ Apart(stored.messages)'
  BY <1>3 DEF ClientInv, Apart
<1> QED
  BY <1>4, <1>5, <1>6, <1>7 DEF ClientInv

LEMMA EffectsOK == ClientInv /\ RunEffects => ClientInv'
<1> SUFFICES ASSUME ClientInv, RunEffects PROVE ClientInv'
  OBVIOUS
<1>1. stored' = [conv |-> conv, messages |-> messages]
  BY DEF RunEffects, ClientInv, StorageFollows
<1>2. UNCHANGED <<asked, conv, messages, streaming, streams, rated, late, cut>>
  BY DEF RunEffects, page
<1>3. (\A x \in streams : Current(x))'
  BY <1>2 DEF ClientInv, Current, Last
<1> QED
  BY <1>1, <1>2, <1>3 DEF ClientInv, Typed, Apart, StorageFollows, RatedComesBackOnlyLate,
                          ComposerComesBack

\* A reload resumes what was stored: a conversation that is not the current one is late.
LEMMA ReloadOK == ClientInv /\ Reload => ClientInv'
<1> SUFFICES ASSUME ClientInv, Reload PROVE ClientInv'
  OBVIOUS
<1>1. conv' \in rated => conv' \in late'
  BY DEF Reload, ClientInv, Typed, RatedComesBackOnlyLate
<1> QED
  BY <1>1 DEF Reload, ClientInv, Typed, Apart, StorageFollows, RatedComesBackOnlyLate,
              ComposerComesBack

LEMMA StepOK == ClientInv /\ [ClientNext]_clientVars => ClientInv'
<1> SUFFICES ASSUME ClientInv, [ClientNext]_clientVars PROVE ClientInv'
  OBVIOUS
<1>1. CASE UNCHANGED clientVars
  BY <1>1, PromptOK DEF clientVars
<1>2. CASE \E s \in streams :
             OnToken(s) \/ OnDone(s) \/ OnError(s) \/ Tear(s) \/ Drop(s) \/ BreakOff(s)
  BY <1>2, OnTokenOK, OnDoneOK, OnErrorOK, ParseOK, BreakOffOK
<1> QED
  BY <1>1, <1>2, SendOK, ClicksOK, RateOK, EffectsOK, ReloadOK DEF ClientNext

-----------------------------------------------------------------------------
(* Types: the flags, and that no more messages are shown or stored than asked for.   *)

Flags ==
  /\ open \in BOOLEAN /\ loaded \in BOOLEAN /\ csatOpen \in BOOLEAN /\ timer \in BOOLEAN
  /\ effects \subseteq {"save", "idle"} /\ late \subseteq Turn /\ cut \subseteq Turn

Counted == Len(messages) <= asked /\ Len(stored.messages) <= asked

LEMMA FlagsInit == ClientInit => Flags /\ Counted
<1> SUFFICES ASSUME ClientInit PROVE Flags /\ Counted
  OBVIOUS
<1>1. messages = <<>> /\ stored.messages = <<>> /\ asked = 0 /\ Len(<<>>) = 0
  BY EmptySeq DEF ClientInit
<1>2. Counted
  BY <1>1 DEF Counted
<1>3. Flags
  BY DEF ClientInit, Flags
<1> QED
  BY <1>2, <1>3

LEMMA FlagsStep == ClientInv /\ Flags /\ [ClientNext]_clientVars => Flags'
<1> SUFFICES ASSUME ClientInv, Flags, [ClientNext]_clientVars PROVE Flags'
  OBVIOUS
<1>1. /\ conv \in Nat /\ stored.conv \in Nat /\ (conv # 0 => conv \in Turn)
      /\ (stored.conv # 0 => stored.conv \in Turn)
  BY DEF ClientInv, Typed, Turn
<1>2. \A s \in streams : s.turn \in Turn /\ s.conv \in Turn
  BY DEF ClientInv, Current, Stream
<1>3. CASE UNCHANGED clientVars
  BY <1>3 DEF clientVars, Flags
<1>4. CASE Send
  BY <1>4 DEF Send, MessagesChanged, Changed, Flags
<1>5. CASE Rate
  <2>1. late' \subseteq Turn
    BY <1>2, <1>5 DEF Rate, Flags
  <2> QED
    BY <1>5, <2>1 DEF Rate, FinishCsat, Changed, page, Flags
<1>6. CASE Vote \/ Ask \/ Dismiss \/ Close \/ Launcher \/ IdleTimeout
  BY <1>6 DEF Vote, Ask, Dismiss, Close, Launcher, IdleTimeout, FinishCsat, MessagesChanged,
              Changed, page, Flags
<1>7. CASE RunEffects
  <2>1. timer' \in BOOLEAN
    BY <1>7 DEF RunEffects, Flags, ShouldAskCsat
  <2> QED
    BY <1>7, <2>1 DEF RunEffects, page, Flags
<1>8. CASE Reload
  <2>1. late' \subseteq Turn
    BY <1>1, <1>8 DEF Reload, Flags
  <2> QED
    BY <1>8, <2>1 DEF Reload, Flags
<1>9. ASSUME NEW s \in streams,
             OnToken(s) \/ OnDone(s) \/ OnError(s) \/ Tear(s) \/ Drop(s) \/ BreakOff(s)
      PROVE  Flags'
  BY <1>2, <1>9 DEF OnToken, OnDone, OnError, Tear, Drop, BreakOff, MessagesChanged, Changed,
                    page, Flags
<1> QED
  BY <1>3, <1>4, <1>5, <1>6, <1>7, <1>8, <1>9 DEF ClientNext

\* A patch leaves the number of messages alone.
LEMMA PatchedLen ==
  ASSUME ClientInv, NEW m, PatchLast(m)
  PROVE  Len(messages') = Len(messages)
<1>1. messages \in Seq(Message) /\ messages' = [messages EXCEPT ![Len(messages)] = m]
  BY DEF ClientInv, Typed, PatchLast
<1>2. DOMAIN messages' = 1..Len(messages) /\ Len(messages) \in Nat
  BY <1>1, LenProperties
<1> QED
  BY <1>2, <1>1

LEMMA CountedStep == ClientInv /\ Counted /\ [ClientNext]_clientVars => Counted'
<1> SUFFICES ASSUME ClientInv, Counted, [ClientNext]_clientVars PROVE Counted'
  OBVIOUS
<1>1. asked \in Nat /\ Len(messages) \in Nat /\ Len(stored.messages) \in Nat
  BY LenProperties DEF ClientInv, Typed
<1>2. CASE UNCHANGED clientVars
  BY <1>2 DEF clientVars, Counted
<1>3. CASE Send
  <2>1. Len(messages') = Len(messages) + 1 /\ asked' = asked + 1 /\ stored' = stored
    BY <1>3, AppendProperties, SendOK DEF Send, ClientInv, Typed
  <2> QED
    BY <1>1, <2>1 DEF Counted
<1>4. CASE Vote \/ Rate \/ Ask \/ Dismiss \/ Close \/ Launcher \/ IdleTimeout
  BY <1>4 DEF Vote, Rate, Ask, Dismiss, Close, Launcher, IdleTimeout, page, Counted
<1>5. CASE RunEffects
  BY <1>5 DEF RunEffects, page, Counted
<1>6. CASE Reload
  BY <1>6 DEF Reload, Counted
<1>7. ASSUME NEW s \in streams,
             OnToken(s) \/ OnDone(s) \/ OnError(s) \/ Tear(s) \/ Drop(s) \/ BreakOff(s)
      PROVE  Counted'
  <2>1. Len(messages') = Len(messages)
    BY <1>7, PatchedLen DEF OnToken, OnDone, OnError, Tear, Drop, BreakOff
  <2>2. UNCHANGED <<asked, stored>>
    BY <1>7 DEF OnToken, OnDone, OnError, Tear, Drop, BreakOff, page
  <2> QED
    BY <2>1, <2>2 DEF Counted
<1> QED
  BY <1>2, <1>3, <1>4, <1>5, <1>6, <1>7 DEF ClientNext

-----------------------------------------------------------------------------
(* The theorems.                                                            *)

\* The inductive invariant: which response may still patch which message, and what the
\* storage resumes.
THEOREM ClientInvariant == ClientSpec => []ClientInv
<1> QED
  BY ClientInitOK, StepOK, PTL DEF ClientSpec

\* Every variable keeps its type; never are more messages shown or stored than questions
\* were asked.
THEOREM TypeCorrect == ClientSpec => []ClientTypeOK
<1>1. ClientInv /\ Flags /\ Counted => ClientTypeOK
  <2> SUFFICES ASSUME ClientInv, Flags, Counted PROVE ClientTypeOK
    OBVIOUS
  <2>1. /\ asked \in 0..MaxTurns /\ conv \in Conv /\ stored.conv \in Conv /\ rated \subseteq Turn
    BY DEF ClientInv, Typed, Conv, Turn
  <2>2. \A i \in 1..Len(messages) : messages[i] \in Message
    BY ElementOfSeq DEF ClientInv, Typed
  <2>3. streams \subseteq Stream
    BY DEF ClientInv, Current
  <2>4. Len(stored.messages) <= MaxTurns
    BY <2>1, LenProperties DEF ClientInv, Typed, Counted
  <2> QED
    BY <2>1, <2>2, <2>3, <2>4 DEF ClientInv, Typed, Flags, Counted, ClientTypeOK
<1> QED
  BY <1>1, FlagsInit, FlagsStep, CountedStep, ClientInvariant, PTL DEF ClientSpec

\* However questions, errors, reloads and pieces of responses follow each other, the text
\* of an answer comes from the response to its own question.
THEOREM AnswersApart == ClientSpec => []AnswersStayApart
<1>1. ClientInv => AnswersStayApart
  BY DEF ClientInv, Apart, AnswersStayApart
<1> QED
  BY <1>1, ClientInvariant, PTL

\* What the effects have stored is what is shown, so that a reload resumes it.
THEOREM StorageFollowed == ClientSpec => []StorageFollows
<1>1. ClientInv => StorageFollows
  BY DEF ClientInv
<1> QED
  BY <1>1, ClientInvariant, PTL

\* A rated conversation is the current one again only by an answer or a reload that
\* had overtaken it.
THEOREM RatedOnlyLate == ClientSpec => []RatedComesBackOnlyLate
<1>1. ClientInv => RatedComesBackOnlyLate
  BY DEF ClientInv
<1> QED
  BY <1>1, ClientInvariant, PTL

\* The composer is disabled only while the last question is being answered, or if its
\* last event never arrived.
THEOREM ComposerBack == ClientSpec => []ComposerComesBack
<1>1. ClientInv => ComposerComesBack
  BY DEF ClientInv
<1> QED
  BY <1>1, ClientInvariant, PTL

=============================================================================
