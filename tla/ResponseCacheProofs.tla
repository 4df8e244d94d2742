------------------------- MODULE ResponseCacheProofs -------------------------
(***************************************************************************)
(* Proofs about ResponseCache, for any number of documents, runs and turns *)
(* and any order of their steps: a hit on settled documents is what        *)
(* retrieval would find now.                                               *)
(***************************************************************************)
EXTENDS ResponseCache, FiniteSetTheorems, TLAPS

-----------------------------------------------------------------------------
(* The version.                                                             *)

\* The least bound of a set of numbers is its maximum.
LEMMA BoundedMax ==
  ASSUME NEW b \in Nat, NEW S, S \subseteq 0..b, S # {}
  PROVE  Max(S) \in S /\ \A n \in S : n <= Max(S)
<1> DEFINE R == StrictSubsetOrdering(0..b)
           Bounds == {T \in SUBSET (0..b) : \E u \in 0..b : T = 0..u /\ S \subseteq T}
<1>1. 0..b \in Bounds
  OBVIOUS
<1>2. IsWellFoundedOn(R, SUBSET (0..b))
  <2>1. IsFiniteSet(0..b)
    BY FS_Interval
  <2>2. FiniteSubsetsOf(0..b) = SUBSET (0..b)
    BY <2>1, FS_FiniteSubsetsOfFinite
  <2> QED
    BY <2>2, FS_StrictSubsetOrderingWellFounded
<1>3. \E T \in Bounds : \A U \in Bounds : <<U, T>> \notin R
  <2>1. Bounds \subseteq SUBSET (0..b) /\ Bounds # {}
    BY <1>1
  <2> HIDE DEF R, Bounds
  <2> QED
    BY <1>2, <2>1, WFMin
<1>4. PICK u \in 0..b : S \subseteq 0..u /\ \A U \in Bounds : <<U, 0..u>> \notin R
  BY <1>3
<1>5. u \in S
  <2>1. ASSUME u \notin S PROVE FALSE
    <3>1. S \subseteq 0..(u - 1)
      BY <1>4, <2>1
    <3>2. u # 0
      <4>1. PICK n \in S : n \in 0..(u - 1)
        BY <3>1
      <4> QED
        BY <4>1
    <3>3. 0..(u - 1) \in Bounds
      BY <3>1, <3>2
    <3>4. <<0..(u - 1), 0..u>> \in R
      BY <3>2 DEF StrictSubsetOrdering
    <3> QED
      BY <1>4, <3>3, <3>4
  <2> QED
    BY <2>1
<1>6. \E x \in S : \A y \in S : x >= y
  BY <1>4, <1>5
<1>7. Max(S) \in S /\ \A y \in S : Max(S) >= y
  BY <1>6 DEF Max
<1> QED
  BY <1>7

-----------------------------------------------------------------------------
(* The inductive invariant.                                                 *)

Existing == {d \in Doc : state[d] # "absent"}
Replacing(j) == job[j].pc = "replacing"
Running(j) == job[j].pc \in {"processing", "replacing"}

\* Runs, and the clock that stamps them.
RunInv ==
  /\ clock = Cardinality({j \in Job : job[j].stamp # 0})
  /\ \A d \in Doc : updated[d] <= clock
  /\ \A j \in Job :
       /\ job[j].stamp <= clock
       /\ job[j].pc \in {"none", "queued", "loaded", "processing"} => job[j].stamp = 0
       /\ job[j].pc # "none" => job[j].doc \in Existing
       /\ Busy(j) /\ ~raced =>
            /\ Running(j) => state[job[j].doc] # "ready"
            /\ \A k \in Job : Busy(k) /\ job[k].doc = job[j].doc => k = j

\* When d is ready, its stamp will exceed m; a run that has yet to begin replacing
\* takes a later stamp.
Dirty(d, m) ==
  /\ state[d] = "ready" => updated[d] > m
  /\ \A j \in Job : Replacing(j) /\ job[j].doc = d => job[j].stamp > m

\* The version will not come back, as long as the property asks for it.
Gone(v) ==
  \/ raced \/ \E d \in Doc : state[d] = "deleted"
  \/ Cardinality(Existing) > v[1]
  \/ \E d \in Existing : Dirty(d, v[2])

\* Nothing has moved since the version was computed.
Still(v) == (\A d \in Doc : state[d] \in {"absent", "ready"}) /\ Now = v

\* What a step of the knowledge base may do to a version: gone stays gone, and still
\* becomes gone, unless nothing moves.
Moves(v) ==
  /\ Gone(v) => Gone(v)'
  /\ Still(v) => Gone(v)' \/ (Still(v)' /\ Retrievable' = Retrievable)

\* What a turn carries is what the version promises, or the version will not come back.
TurnInv(t) ==
  /\ turn[t].pc = "idle" => turn[t].found = {}
  /\ \A v \in Versions :
       turn[t].version = v /\ turn[t].pc \in {"missed", "dense", "retrieved"} =>
         /\ v[2] <= clock
         /\ Gone(v) \/ (Still(v) /\ turn[t].found = IF turn[t].pc = "missed" THEN {} ELSE Retrievable)

EntryInv(v) ==
  cache[v] # {} => v[2] <= clock /\ (Gone(v) \/ (Still(v) /\ cache[v] \subseteq {Retrievable}))

CacheInv ==
  TypeOK /\ RunInv /\ (\A t \in Turn : TurnInv(t)) /\ (\A v \in Versions : EntryInv(v))

Ready == {d \in Doc : state[d] = "ready"}

LEMMA Times == Cardinality(Job) \in Nat /\ Cardinality(Doc) \in Nat /\ \A s \in Time : s \in Nat
BY CacheAssumption, FS_CardinalityType DEF Time

LEMMA Counting ==
  /\ Cardinality(Existing) \in 0..Cardinality(Doc) /\ Cardinality(Ready) \in 0..Cardinality(Doc)
  /\ Cardinality(Ready) <= Cardinality(Existing)
  /\ Cardinality(Ready) = Cardinality(Existing) => Ready = Existing
<1>1. IsFiniteSet(Existing) /\ Cardinality(Existing) <= Cardinality(Doc)
  BY CacheAssumption, FS_Subset DEF Existing
<1>2. Ready \subseteq Existing
  BY DEF Ready, Existing
<1>3. IsFiniteSet(Ready) /\ Cardinality(Ready) <= Cardinality(Existing)
      /\ (Cardinality(Ready) = Cardinality(Existing) => Ready = Existing)
  BY <1>1, <1>2, FS_Subset
<1> QED
  BY <1>1, <1>3, Times, FS_CardinalityType

\* The version counts the ready documents and bounds their stamps.
LEMMA NowIs ==
  ASSUME TypeOK, \A d \in Doc : updated[d] <= clock
  PROVE  /\ Now \in Versions /\ Now[1] = Cardinality(Ready) /\ Now[2] <= clock
         /\ \A d \in Ready : updated[d] <= Now[2]
<1>1. PICK m : m = IF Ready = {} THEN 0 ELSE Max({updated[d] : d \in Ready})
  OBVIOUS
<1>2. Now = <<Cardinality(Ready), m>>
  BY <1>1 DEF Now, Version, Ready
<1>3. clock \in Time /\ \A d \in Ready : updated[d] \in Time /\ updated[d] <= clock
  BY DEF TypeOK, Ready
<1>4. m \in Time /\ m <= clock /\ \A d \in Ready : updated[d] <= m
  <2>1. CASE Ready = {}
    BY <1>1, <1>3, <2>1, Times DEF Time
  <2>2. CASE Ready # {}
    <3> DEFINE S == {updated[d] : d \in Ready}
    <3>1. S \subseteq 0..Cardinality(Job) /\ S # {}
      BY <1>3, <2>2 DEF Time
    <3>2. Max(S) \in S /\ \A n \in S : n <= Max(S)
      BY <3>1, Times, BoundedMax
    <3>3. m = Max(S)
      BY <1>1, <2>2
    <3> HIDE DEF S
    <3>4. m \in S /\ \A n \in S : n <= m
      BY <3>2, <3>3
    <3> QED
      BY <1>3, <3>4 DEF S
  <2> QED
    BY <2>1, <2>2
<1> QED
  BY <1>2, <1>4, Counting DEF Versions

\* A version that has just been computed.
LEMMA Fresh ==
  ASSUME TypeOK, RunInv
  PROVE  Now \in Versions /\ Now[2] <= clock /\ (Gone(Now) \/ Still(Now))
<1>1. /\ Now \in Versions /\ Now[1] = Cardinality(Ready) /\ Now[2] <= clock
  BY NowIs DEF RunInv
<1>2. CASE Ready = Existing
  <2>1. \A d \in Doc : state[d] \in {"absent", "ready"}
    BY <1>2 DEF Ready, Existing
  <2> QED
    BY <1>1, <2>1 DEF Still
<1>3. CASE Ready # Existing
  BY <1>1, <1>3, Counting DEF Gone
<1> QED
  BY <1>1, <1>2, <1>3

-----------------------------------------------------------------------------
(* The knowledge base moves: what was gone stays gone, and what was still is gone. *)

\* What a step must do for that.
LEMMA GoneStays ==
  ASSUME TypeOK, TypeOK', NEW v \in Versions, Gone(v), raced => raced',
         \A d \in Doc : state[d] = "deleted" => state'[d] = "deleted",
         \A d \in Existing : d \in Existing' /\ (Dirty(d, v[2]) => Dirty(d, v[2])')
  PROVE  Gone(v)'
<1>1. CASE raced \/ \E d \in Doc : state[d] = "deleted"
  BY <1>1 DEF Gone
<1>2. CASE Cardinality(Existing) > v[1]
  <2>1. IsFiniteSet(Existing') /\ Existing \subseteq Existing'
    BY CacheAssumption, FS_Subset DEF Existing
  <2>2. Cardinality(Existing) <= Cardinality(Existing') /\ Cardinality(Existing') \in Nat
        /\ Cardinality(Existing) \in Nat
    BY <2>1, FS_Subset, FS_CardinalityType
  <2>3. v[1] \in Nat
    BY Times DEF Versions
  <2>4. Cardinality(Existing') > v[1]
    BY <1>2, <2>2, <2>3
  <2> QED
    BY <2>4 DEF Gone
<1>3. CASE \E d \in Existing : Dirty(d, v[2])
  BY <1>3 DEF Gone
<1> QED
  BY <1>1, <1>2, <1>3 DEF Gone

\* Without overlapping runs nothing replaces the chunks of a document that is ready.
LEMMA Quiescent ==
  ASSUME RunInv, ~raced, NEW d \in Doc, state[d] = "ready"
  PROVE  \A j \in Job : ~(Running(j) /\ job[j].doc = d)
BY DEF RunInv, Running, Busy

\* The set of runs that have a stamp counts the stamps.
LEMMA SameStamps ==
  ASSUME RunInv, clock' = clock, \A j \in Job : job'[j].stamp = job[j].stamp
  PROVE  clock' = Cardinality({j \in Job : job'[j].stamp # 0})
<1>1. {j \in Job : job'[j].stamp # 0} = {j \in Job : job[j].stamp # 0}
  OBVIOUS
<1> QED
  BY <1>1 DEF RunInv

\* Steps that leave the documents alone and start no replacement.
LEMMA StateKept ==
  ASSUME TypeOK, TypeOK', UNCHANGED <<state, updated, content>>, raced => raced',
         \A j \in Job : Replacing(j)' => /\ Replacing(j) /\ job'[j].doc = job[j].doc
                                        /\ job'[j].stamp = job[j].stamp
  PROVE  \A v \in Versions : Moves(v)
<1> SUFFICES ASSUME NEW v \in Versions PROVE Moves(v)
  OBVIOUS
<1>1. ASSUME Gone(v) PROVE Gone(v)'
  <2>1. \A d \in Existing : d \in Existing' /\ (Dirty(d, v[2]) => Dirty(d, v[2])')
    BY DEF Existing, Dirty
  <2> QED
    BY <1>1, <2>1, GoneStays
<1>2. Now' = Now /\ Retrievable' = Retrievable
  BY DEF Now, Retrievable
<1>3. Still(v) => Still(v)'
  BY <1>2 DEF Still
<1> QED
  BY <1>1, <1>2, <1>3 DEF Moves

\* A run goes on to its next phase, before it takes its stamp.
LEMMA Advances ==
  ASSUME TypeOK, RunInv, NEW j \in Job, NEW p \in {"loaded", "processing"},
         job[j].pc \in {"queued", "loaded"}, job' = [job EXCEPT ![j].pc = p],
         UNCHANGED <<updated, clock>>, Existing' = Existing
  PROVE  /\ job' \in [Job -> JobState] /\ job'[j].pc = p
         /\ \A k \in Job : job'[k].stamp = job[k].stamp /\ job'[k].doc = job[k].doc
         /\ \A k \in Job : k # j => job'[k] = job[k]
         /\ \A k \in Job : Replacing(k)' <=> Replacing(k)
         /\ clock' = Cardinality({k \in Job : job'[k].stamp # 0})
         /\ \A d \in Doc : updated'[d] <= clock'
         /\ \A k \in Job :
              /\ job'[k].stamp <= clock'
              /\ job'[k].pc \in {"none", "queued", "loaded", "processing"} => job'[k].stamp = 0
              /\ job'[k].pc # "none" => job'[k].doc \in Existing'
<1>1. job \in [Job -> JobState] /\ job[j] \in JobState
  BY DEF TypeOK
<1>2. job'[j] = [job[j] EXCEPT !.pc = p] /\ \A k \in Job : k # j => job'[k] = job[k]
  BY <1>1
<1>3. /\ job'[j] \in JobState /\ job'[j].pc = p /\ job'[j].stamp = job[j].stamp
      /\ job'[j].doc = job[j].doc
  BY <1>1, <1>2 DEF JobState
<1>4. job' \in [Job -> JobState]
  BY <1>1, <1>3
<1>5. \A k \in Job : job'[k].stamp = job[k].stamp /\ job'[k].doc = job[k].doc
  BY <1>2, <1>3
<1>6. \A k \in Job : Replacing(k)' <=> Replacing(k)
  BY <1>2, <1>3 DEF Replacing
<1>7. clock' = Cardinality({k \in Job : job'[k].stamp # 0})
  BY <1>5, SameStamps
<1>8. job[j].stamp = 0 /\ job[j].doc \in Existing
  BY DEF RunInv
<1>9. ASSUME NEW k \in Job
      PROVE  /\ job'[k].stamp <= clock'
             /\ job'[k].pc \in {"none", "queued", "loaded", "processing"} => job'[k].stamp = 0
             /\ job'[k].pc # "none" => job'[k].doc \in Existing'
  <2>1. CASE k = j
    <3>1. job[j].stamp <= clock
      BY DEF RunInv
    <3> QED
      BY <1>3, <1>8, <2>1, <3>1
  <2>2. CASE k # j
    BY <1>2, <2>2 DEF RunInv
  <2> QED
    BY <2>1, <2>2
<1> QED
  BY <1>2, <1>3, <1>4, <1>5, <1>6, <1>7, <1>9 DEF RunInv

LEMMA IndexOK ==
  ASSUME TypeOK, RunInv, NEW j \in Job, NEW d \in Doc, Index(j, d)
  PROVE  /\ TypeOK' /\ RunInv' /\ clock <= clock'
         /\ \A v \in Versions : v[2] <= clock => Moves(v)
<1>1. /\ job[j].pc = "none" /\ state[d] # "deleted"
      /\ state' = [state EXCEPT ![d] = "indexing"] \/ (state[d] = "ready" /\ state' = state)
      /\ UNCHANGED <<updated, content, clock, raced, cache, turn>>
      /\ job' = [job EXCEPT ![j].pc = "queued", ![j].doc = d]
  BY DEF Index
<1>2. /\ job'[j].pc = "queued" /\ job'[j].doc = d /\ job'[j].stamp = job[j].stamp
      /\ job'[j] \in JobState /\ \A k \in Job : k # j => job'[k] = job[k]
  <2>1. job \in [Job -> JobState]
    BY DEF TypeOK
  <2>2. job'[j] = [job[j] EXCEPT !.pc = "queued", !.doc = d] /\ \A k \in Job : k # j => job'[k] = job[k]
    BY <1>1, <2>1
  <2>3. job[j] \in JobState
    BY <2>1
  <2> QED
    BY <2>2, <2>3 DEF JobState
<1>3. /\ state'[d] = "indexing" \/ (state[d] = "ready" /\ state' = state)
      /\ \A e \in Doc : e # d => state'[e] = state[e]
      /\ state'[d] \in {"indexing", "ready"}
      /\ \A e \in Doc : state'[e] = "ready" => state[e] = "ready"
  BY <1>1 DEF TypeOK
<1>4. TypeOK'
  <2>1. job' \in [Job -> JobState]
    BY <1>1, <1>2 DEF TypeOK
  <2>2. state' \in [Doc -> DocState]
    BY <1>1 DEF TypeOK, DocState
  <2> QED
    BY <1>1, <2>1, <2>2 DEF TypeOK
<1>5. clock \in Nat /\ clock' = clock
  BY <1>1, Times DEF TypeOK
<1>6. Existing' = Existing \cup {d}
  BY <1>3 DEF Existing
<1>7. \A k \in Job : /\ Replacing(k)' <=> Replacing(k)
                     /\ Running(k)' <=> Running(k)
                     /\ Busy(k)' <=> Busy(k) /\ k # j
  BY <1>1, <1>2 DEF Replacing, Running, Busy
<1>12. \A e \in Doc : updated'[e] <= clock'
  BY <1>1 DEF RunInv
<1>8. RunInv'
  <2>1. \A k \in Job : job'[k].stamp = job[k].stamp
    BY <1>2
  <2>2. clock' = Cardinality({k \in Job : job'[k].stamp # 0})
    BY <1>5, <2>1, SameStamps
  <2>3. ASSUME NEW k \in Job
        PROVE  /\ job'[k].stamp <= clock'
               /\ job'[k].pc \in {"none", "queued", "loaded", "processing"} => job'[k].stamp = 0
               /\ job'[k].pc # "none" => job'[k].doc \in Existing'
    <3>1. CASE k = j
      <4>1. job[j].stamp = 0
        BY <1>1 DEF RunInv
      <4>2. job'[k].stamp = 0 /\ job'[k].pc = "queued" /\ job'[k].doc = d
        BY <1>2, <3>1, <4>1
      <4> QED
        BY <1>5, <1>6, <4>2
    <3>2. CASE k # j
      <4>1. /\ job[k].stamp <= clock
            /\ job[k].pc \in {"none", "queued", "loaded", "processing"} => job[k].stamp = 0
            /\ job[k].pc # "none" => job[k].doc \in Existing
        BY DEF RunInv
      <4> QED
        BY <1>2, <1>5, <1>6, <3>2, <4>1
    <3> QED
      BY <3>1, <3>2
  <2>4. ASSUME NEW k \in Job, Busy(k)', ~raced'
        PROVE  /\ Running(k)' => state'[job'[k].doc] # "ready"
               /\ \A l \in Job : Busy(l)' /\ job'[l].doc = job'[k].doc => l = k
    <3>1. k # j /\ job'[k] = job[k] /\ Busy(k) /\ job[k].doc \in Doc /\ ~raced
      BY <1>1, <1>2, <1>7, <2>4 DEF Busy, RunInv, Existing
    <3>2. /\ Running(k) => state[job[k].doc] # "ready"
          /\ \A l \in Job : Busy(l) /\ job[l].doc = job[k].doc => l = k
      BY <3>1 DEF RunInv
    <3>3. \A l \in Job : Busy(l)' => Busy(l) /\ job'[l] = job[l]
      BY <1>2, <1>7
    <3> QED
      BY <1>3, <1>7, <3>1, <3>2, <3>3
  <2> QED
    BY <1>12, <2>2, <2>3, <2>4 DEF RunInv
<1>9. ASSUME NEW v \in Versions, v[2] <= clock, Gone(v) PROVE Gone(v)'
  <2>1. ASSUME NEW e \in Existing, Dirty(e, v[2]) PROVE Dirty(e, v[2])'
    BY <1>1, <1>2, <1>3, <1>7, <2>1 DEF Dirty, Existing, Replacing
  <2> QED
    BY <1>1, <1>3, <1>4, <1>6, <1>9, <2>1, GoneStays
<1>10. ASSUME NEW v \in Versions, v[2] <= clock, Still(v), ~raced, state'[d] = "indexing"
       PROVE  Gone(v)'
  <2>1. v[1] = Cardinality(Existing)
    <3>1. Ready = Existing
      BY <1>10 DEF Still, Ready, Existing
    <3> QED
      BY <1>10, <3>1, NowIs DEF Still, RunInv
  <2>2. CASE state[d] = "absent"
    <3>1. IsFiniteSet(Existing) /\ d \notin Existing
      BY <2>2, CacheAssumption, FS_Subset DEF Existing
    <3>2. Cardinality(Existing') = Cardinality(Existing) + 1 /\ Cardinality(Existing) \in Nat
      BY <1>6, <3>1, FS_AddElement, FS_CardinalityType
    <3> QED
      BY <2>1, <3>2 DEF Gone
  <2>3. CASE state[d] # "absent"
    <3>1. state[d] = "ready"
      BY <1>10, <2>3 DEF Still
    <3>2. \A k \in Job : ~(Replacing(k) /\ job[k].doc = d)
      BY <1>10, <3>1, Quiescent DEF Replacing, Running
    <3>3. Dirty(d, v[2])'
      BY <1>2, <1>7, <1>10, <3>2 DEF Dirty, Replacing
    <3> QED
      BY <1>6, <3>3 DEF Gone
  <2> QED
    BY <2>2, <2>3
<1>11. ASSUME NEW v \in Versions, raced PROVE Gone(v)'
  BY <1>1, <1>11 DEF Gone
<1>13. ASSUME NEW v \in Versions, state' = state PROVE Moves(v)
  <2>1. \A k \in Job : Replacing(k)' => Replacing(k) /\ job'[k].doc = job[k].doc
                                        /\ job'[k].stamp = job[k].stamp
    BY <1>1, <1>2 DEF Replacing
  <2> QED
    BY <1>1, <1>4, <1>13, <2>1, StateKept
<1> QED
  BY <1>3, <1>4, <1>5, <1>8, <1>9, <1>10, <1>11, <1>13 DEF Moves

\* A run loads its document: overlapping runs are noted, documents stay as they are.
LEMMA LoadOK ==
  ASSUME TypeOK, RunInv, NEW j \in Job, Load(j)
  PROVE  /\ TypeOK' /\ RunInv' /\ clock <= clock'
         /\ \A v \in Versions : v[2] <= clock => Moves(v)
<1>1. PICK d \in Existing : d = job[j].doc
  BY DEF Load, RunInv
<1>2. /\ job[j].pc = "queued" /\ UNCHANGED <<state, updated, content, clock, cache, turn>>
      /\ clock \in Nat /\ job' = [job EXCEPT ![j].pc = "loaded"]
      /\ raced' = (raced \/ \E k \in Job : Busy(k) /\ job[k].doc = d)
  BY <1>1, Times DEF Load, TypeOK
<1>3. Existing' = Existing
  BY <1>2 DEF Existing
<1>4. /\ job' \in [Job -> JobState] /\ job'[j].pc = "loaded"
      /\ \A k \in Job : job'[k].stamp = job[k].stamp /\ job'[k].doc = job[k].doc
      /\ \A k \in Job : k # j => job'[k] = job[k]
      /\ \A k \in Job : Replacing(k)' <=> Replacing(k)
      /\ clock' = Cardinality({k \in Job : job'[k].stamp # 0})
      /\ \A e \in Doc : updated'[e] <= clock'
      /\ \A k \in Job :
           /\ job'[k].stamp <= clock'
           /\ job'[k].pc \in {"none", "queued", "loaded", "processing"} => job'[k].stamp = 0
           /\ job'[k].pc # "none" => job'[k].doc \in Existing'
  BY <1>2, <1>3, Advances
<1>5. TypeOK'
  BY <1>2, <1>4 DEF TypeOK
<1>6. \A k \in Job : /\ k # j => (Busy(k)' <=> Busy(k))
                     /\ Running(k)' => Running(k) /\ k # j
  BY <1>2, <1>4 DEF Busy, Running
<1>7. RunInv'
  <2>1. ASSUME NEW k \in Job, Busy(k)', ~raced'
        PROVE  /\ Running(k)' => state'[job'[k].doc] # "ready"
               /\ \A l \in Job : Busy(l)' /\ job'[l].doc = job'[k].doc => l = k
    <3>1. ~raced /\ \A l \in Job : Busy(l) => job[l].doc # d
      BY <1>2, <2>1
    <3>2. CASE k = j
      BY <1>1, <1>4, <1>6, <3>1, <3>2
    <3>3. CASE k # j
      <4>1. Busy(k) /\ job[k].doc # d
        BY <1>6, <2>1, <3>1, <3>3
      <4>2. /\ Running(k) => state[job[k].doc] # "ready"
            /\ \A l \in Job : Busy(l) /\ job[l].doc = job[k].doc => l = k
        BY <3>1, <4>1 DEF RunInv
      <4>3. \A l \in Job : Busy(l)' /\ job'[l].doc = job'[k].doc => l = k
        BY <1>1, <1>4, <1>6, <4>1, <4>2
      <4> QED
        BY <1>2, <1>4, <1>6, <4>2, <4>3
    <3> QED
      BY <3>2, <3>3
  <2> QED
    BY <1>4, <2>1 DEF RunInv
<1>8. \A v \in Versions : Moves(v)
  BY <1>2, <1>4, <1>5, StateKept
<1> QED
  BY <1>2, <1>5, <1>7, <1>8

\* A run commits "processing": from here on its document is not ready, unless two
\* runs overlapped.
LEMMA ProcessOK ==
  ASSUME TypeOK, RunInv, NEW j \in Job, Process(j)
  PROVE  /\ TypeOK' /\ RunInv' /\ clock <= clock'
         /\ \A v \in Versions : v[2] <= clock => Moves(v)
<1>1. PICK d \in Existing : d = job[j].doc
  BY DEF Process, RunInv
<1>2. /\ job[j].pc = "loaded" /\ UNCHANGED <<updated, content, clock, raced, cache, turn>>
      /\ clock \in Nat /\ job' = [job EXCEPT ![j].pc = "processing"] /\ d \in Doc
      /\ state[d] # "deleted"
      /\ state' = [state EXCEPT ![d] = "indexing"] \/ (raced /\ state' = state)
  BY <1>1, Times DEF Process, TypeOK, Existing
<1>3. /\ state'[d] = "indexing" \/ (raced /\ state' = state)
      /\ \A e \in Doc : e # d => state'[e] = state[e]
      /\ state' \in [Doc -> DocState]
      /\ \A e \in Doc : state'[e] = "ready" => state[e] = "ready"
  BY <1>2 DEF TypeOK, DocState
<1>4. Existing' = Existing
  BY <1>1, <1>3 DEF Existing
<1>5. /\ job' \in [Job -> JobState] /\ job'[j].pc = "processing"
      /\ \A k \in Job : job'[k].stamp = job[k].stamp /\ job'[k].doc = job[k].doc
      /\ \A k \in Job : k # j => job'[k] = job[k]
      /\ \A k \in Job : Replacing(k)' <=> Replacing(k)
      /\ clock' = Cardinality({k \in Job : job'[k].stamp # 0})
      /\ \A e \in Doc : updated'[e] <= clock'
      /\ \A k \in Job :
           /\ job'[k].stamp <= clock'
           /\ job'[k].pc \in {"none", "queued", "loaded", "processing"} => job'[k].stamp = 0
           /\ job'[k].pc # "none" => job'[k].doc \in Existing'
  BY <1>2, <1>4, Advances
<1>6. TypeOK'
  BY <1>2, <1>3, <1>5 DEF TypeOK
<1>7. \A k \in Job : (Busy(k)' <=> Busy(k)) /\ (k # j => (Running(k)' <=> Running(k)))
  BY <1>2, <1>5 DEF Busy, Running
<1>8. RunInv'
  <2>1. ASSUME NEW k \in Job, Busy(k)', ~raced'
        PROVE  /\ Running(k)' => state'[job'[k].doc] # "ready"
               /\ \A l \in Job : Busy(l)' /\ job'[l].doc = job'[k].doc => l = k
    <3>1. Busy(k) /\ ~raced /\ state'[d] = "indexing" /\ job[k].doc \in Doc
      BY <1>2, <1>3, <1>7, <2>1 DEF RunInv, Busy, Existing
    <3>2. /\ Running(k) => state[job[k].doc] # "ready"
          /\ \A l \in Job : Busy(l) /\ job[l].doc = job[k].doc => l = k
      BY <3>1 DEF RunInv
    <3>3. \A l \in Job : Busy(l)' /\ job'[l].doc = job'[k].doc => l = k
      BY <1>5, <1>7, <3>2
    <3>4. Running(k)' => state'[job'[k].doc] # "ready"
      <4>1. CASE k = j
        BY <1>1, <1>5, <3>1, <4>1
      <4>2. CASE k # j
        BY <1>3, <1>5, <1>7, <3>1, <3>2, <4>2
      <4> QED
        BY <4>1, <4>2
    <3> QED
      BY <3>3, <3>4
  <2> QED
    BY <1>5, <2>1 DEF RunInv
<1>9. ASSUME NEW v \in Versions, Gone(v) PROVE Gone(v)'
  <2>1. ASSUME NEW e \in Existing, Dirty(e, v[2]) PROVE Dirty(e, v[2])'
    BY <1>2, <1>3, <1>5, <2>1 DEF Dirty, Existing
  <2>2. \A e \in Doc : state[e] = "deleted" => state'[e] = "deleted"
    BY <1>2, <1>3
  <2> QED
    BY <1>2, <1>4, <1>6, <1>9, <2>1, <2>2, GoneStays
<1>10. ASSUME NEW v \in Versions, Still(v), ~raced PROVE Gone(v)'
  <2>1. state[d] = "ready" /\ state'[d] = "indexing"
    BY <1>1, <1>3, <1>10 DEF Still, Existing
  <2>2. \A k \in Job : ~(Replacing(k) /\ job[k].doc = d)
    BY <1>2, <1>10, <2>1, Quiescent DEF Replacing, Running
  <2>3. Dirty(d, v[2])'
    BY <1>5, <2>1, <2>2 DEF Dirty
  <2> QED
    BY <1>1, <1>4, <2>3 DEF Gone
<1>11. ASSUME NEW v \in Versions, raced PROVE Gone(v)'
  BY <1>2, <1>11 DEF Gone
<1> QED
  BY <1>2, <1>6, <1>8, <1>9, <1>10, <1>11 DEF Moves

LEMMA ReplaceOK ==
  ASSUME TypeOK, RunInv, NEW j \in Job, Replace(j)
  PROVE  /\ TypeOK' /\ RunInv' /\ clock <= clock'
         /\ \A v \in Versions : v[2] <= clock => Moves(v)
<1>1. PICK d \in Existing : d = job[j].doc
  BY DEF Replace, RunInv
<1>2. /\ job[j].pc = "processing" /\ job[j].stamp = 0 /\ clock' = clock + 1 /\ clock \in Nat /\ d \in Doc
      /\ UNCHANGED <<state, updated, content, raced, cache, turn>>
  BY <1>1, Times DEF Replace, RunInv, TypeOK, Existing
<1>4. Existing' = Existing
  BY <1>2 DEF Existing
<1>5. clock + 1 = Cardinality({k \in Job : job[k].stamp # 0} \cup {j}) /\ clock + 1 \in Time
  <2> DEFINE Stamped == {k \in Job : job[k].stamp # 0}
  <2>1. IsFiniteSet(Stamped) /\ j \notin Stamped /\ clock = Cardinality(Stamped)
    BY <1>2, CacheAssumption, FS_Subset DEF RunInv
  <2>2. Cardinality(Stamped \cup {j}) = clock + 1
    BY <2>1, FS_AddElement
  <2>3. Cardinality(Stamped \cup {j}) <= Cardinality(Job)
    BY CacheAssumption, FS_Subset
  <2> QED
    BY <1>2, <2>2, <2>3, Times DEF Time
<1>6. /\ job'[j].pc = "replacing" /\ job'[j].doc = d /\ job'[j].stamp = clock + 1
      /\ job' \in [Job -> JobState] /\ \A k \in Job : k # j => job'[k] = job[k]
  <2>1. job \in [Job -> JobState] /\ content[d] \subseteq Job
    BY <1>2 DEF TypeOK
  <2>2. job'[j] = [job[j] EXCEPT !.pc = "replacing", !.stamp = clock + 1, !.doomed = content[d]]
        /\ \A k \in Job : k # j => job'[k] = job[k]
    BY <1>1, <2>1 DEF Replace
  <2>3. job[j] \in JobState
    BY <2>1
  <2>4. job'[j] \in JobState /\ job'[j].pc = "replacing" /\ job'[j].doc = d /\ job'[j].stamp = clock + 1
    BY <1>1, <1>5, <2>1, <2>2, <2>3 DEF JobState
  <2> QED
    BY <2>1, <2>2, <2>4 DEF Replace
<1>8. TypeOK'
  BY <1>2, <1>5, <1>6 DEF TypeOK
<1>9. \A k \in Job : /\ k # j => (Replacing(k)' <=> Replacing(k))
                     /\ (Running(k)' <=> Running(k)) /\ (Busy(k)' <=> Busy(k))
                     /\ job'[k].doc = job[k].doc
  BY <1>1, <1>2, <1>6 DEF Replacing, Running, Busy
<1>10. RunInv'
  <2>1. {k \in Job : job'[k].stamp # 0} = {k \in Job : job[k].stamp # 0} \cup {j}
    BY <1>2, <1>6
  <2>2. clock' = Cardinality({k \in Job : job'[k].stamp # 0})
    BY <1>2, <1>5, <2>1
  <2>3. \A e \in Doc : updated'[e] <= clock'
    <3>1. \A e \in Doc : updated[e] \in Nat /\ updated[e] <= clock
      BY Times DEF RunInv, TypeOK
    <3> QED
      BY <1>2, <3>1
  <2>4. ASSUME NEW k \in Job
        PROVE  /\ job'[k].stamp <= clock'
               /\ job'[k].pc \in {"none", "queued", "loaded", "processing"} => job'[k].stamp = 0
               /\ job'[k].pc # "none" => job'[k].doc \in Existing'
    <3>1. CASE k = j
      BY <1>1, <1>2, <1>4, <1>6, <3>1
    <3>2. CASE k # j
      <4>1. /\ job[k].stamp <= clock /\ job[k].stamp \in Nat
            /\ job[k].pc \in {"none", "queued", "loaded", "processing"} => job[k].stamp = 0
            /\ job[k].pc # "none" => job[k].doc \in Existing
        BY Times DEF RunInv, TypeOK, JobState
      <4> QED
        BY <1>2, <1>4, <1>6, <3>2, <4>1
    <3> QED
      BY <3>1, <3>2
  <2>5. ASSUME NEW k \in Job, Busy(k)', ~raced'
        PROVE  /\ Running(k)' => state'[job'[k].doc] # "ready"
               /\ \A l \in Job : Busy(l)' /\ job'[l].doc = job'[k].doc => l = k
    <3>1. Busy(k) /\ ~raced
      BY <1>2, <1>9, <2>5
    <3>2. /\ Running(k) => state[job[k].doc] # "ready"
          /\ \A l \in Job : Busy(l) /\ job[l].doc = job[k].doc => l = k
      BY <3>1 DEF RunInv
    <3> QED
      BY <1>2, <1>9, <3>2
  <2> QED
    BY <2>2, <2>3, <2>4, <2>5 DEF RunInv
<1>11. ASSUME NEW v \in Versions, v[2] <= clock PROVE v[2] \in Nat /\ v[2] < clock + 1
  BY <1>2, <1>11, Times DEF Versions
<1>12. ASSUME NEW v \in Versions, v[2] <= clock, Gone(v) PROVE Gone(v)'
  <2>1. ASSUME NEW e \in Existing, Dirty(e, v[2]) PROVE Dirty(e, v[2])'
    <3>1. state'[e] = "ready" => updated'[e] > v[2]
      BY <1>2, <2>1 DEF Dirty, Existing
    <3>2. ASSUME NEW k \in Job, Replacing(k)', job'[k].doc = e PROVE job'[k].stamp > v[2]
      BY <1>2, <1>6, <1>9, <1>11, <1>12, <2>1, <3>2 DEF Dirty
    <3> QED
      BY <3>1, <3>2 DEF Dirty
  <2> QED
    BY <1>2, <1>4, <1>8, <1>12, <2>1, GoneStays
<1>13. ASSUME NEW v \in Versions, Still(v), ~raced PROVE FALSE
  <2>1. state[d] = "ready"
    BY <1>1, <1>13 DEF Still, Existing
  <2> QED
    BY <1>1, <1>2, <1>13, <2>1, Quiescent DEF Running
<1>14. ASSUME NEW v \in Versions, raced PROVE Gone(v)'
  BY <1>2, <1>14 DEF Gone
<1> QED
  BY <1>2, <1>8, <1>10, <1>12, <1>13, <1>14 DEF Moves

\* A run ends without chunks, or by publishing them: it no longer replaces any.
LEMMA RunOver ==
  ASSUME TypeOK, NEW j \in Job, job' = [job EXCEPT ![j].pc = "over", ![j].doomed = {}]
  PROVE  /\ job' \in [Job -> JobState] /\ job'[j].pc = "over"
         /\ \A k \in Job : job'[k].stamp = job[k].stamp /\ job'[k].doc = job[k].doc
         /\ \A k \in Job : k # j => job'[k] = job[k]
         /\ \A k \in Job : /\ Replacing(k)' <=> Replacing(k) /\ k # j
                           /\ Running(k)' <=> Running(k) /\ k # j
                           /\ Busy(k)' <=> Busy(k) /\ k # j
<1>1. job \in [Job -> JobState] /\ job[j] \in JobState
  BY DEF TypeOK
<1>2. job'[j] = [job[j] EXCEPT !.pc = "over", !.doomed = {}]
      /\ \A k \in Job : k # j => job'[k] = job[k]
  BY <1>1
<1>3. job'[j] \in JobState /\ job'[j].pc = "over" /\ job'[j].stamp = job[j].stamp
      /\ job'[j].doc = job[j].doc
  BY <1>1, <1>2 DEF JobState
<1>4. job' \in [Job -> JobState]
  BY <1>1, <1>3
<1> QED
  BY <1>2, <1>3, <1>4 DEF Replacing, Running, Busy

LEMMA FailRunOK ==
  ASSUME TypeOK, RunInv, NEW j \in Job, FailRun(j)
  PROVE  /\ TypeOK' /\ RunInv' /\ clock <= clock'
         /\ \A v \in Versions : v[2] <= clock => Moves(v)
<1>1. PICK d \in Existing : d = job[j].doc
  BY DEF FailRun, RunInv, Busy
<1>2. /\ clock' = clock /\ clock \in Nat /\ d \in Doc
      /\ UNCHANGED <<updated, content, clock, raced, cache, turn>>
      /\ \/ state[d] # "deleted" /\ state' = [state EXCEPT ![d] = "failed"]
         \/ state' = state
  BY <1>1, Times DEF FailRun, TypeOK, Existing
<1>3. /\ state' = state \/ (state'[d] = "failed" /\ state[d] # "deleted")
      /\ (\A e \in Doc : e # d => state'[e] = state[e]) /\ state' \in [Doc -> DocState]
      /\ \A e \in Doc : state'[e] = "ready" => state[e] = "ready"
  BY <1>2 DEF TypeOK, DocState
<1>4. Existing' = Existing
  BY <1>1, <1>3 DEF Existing
<1>5. /\ job' \in [Job -> JobState] /\ job'[j].pc = "over"
      /\ \A k \in Job : job'[k].stamp = job[k].stamp /\ job'[k].doc = job[k].doc
      /\ \A k \in Job : k # j => job'[k] = job[k]
      /\ \A k \in Job : /\ Replacing(k)' <=> Replacing(k) /\ k # j
                        /\ Running(k)' <=> Running(k) /\ k # j
                        /\ Busy(k)' <=> Busy(k) /\ k # j
  BY RunOver DEF FailRun
<1>6. TypeOK'
  BY <1>2, <1>3, <1>5 DEF TypeOK
<1>7. RunInv'
  <2>1. clock' = Cardinality({k \in Job : job'[k].stamp # 0})
    BY <1>2, <1>5, SameStamps
  <2>2. \A e \in Doc : updated'[e] <= clock'
    BY <1>2 DEF RunInv
  <2>3. ASSUME NEW k \in Job
        PROVE  /\ job'[k].stamp <= clock'
               /\ job'[k].pc \in {"none", "queued", "loaded", "processing"} => job'[k].stamp = 0
               /\ job'[k].pc # "none" => job'[k].doc \in Existing'
    <3>1. /\ job[k].stamp <= clock
          /\ job[k].pc \in {"none", "queued", "loaded", "processing"} => job[k].stamp = 0
          /\ job[k].pc # "none" => job[k].doc \in Existing
      BY DEF RunInv
    <3>2. CASE k = j
      BY <1>1, <1>2, <1>4, <1>5, <3>1, <3>2
    <3>3. CASE k # j
      BY <1>2, <1>4, <1>5, <3>1, <3>3
    <3> QED
      BY <3>2, <3>3
  <2>4. ASSUME NEW k \in Job, Busy(k)', ~raced'
        PROVE  /\ Running(k)' => state'[job'[k].doc] # "ready"
               /\ \A l \in Job : Busy(l)' /\ job'[l].doc = job'[k].doc => l = k
    <3>1. Busy(k) /\ ~raced /\ job[k].doc \in Doc /\ job'[k].doc = job[k].doc
      BY <1>2, <1>5, <2>4 DEF Busy, RunInv, Existing
    <3>2. /\ Running(k) => state[job[k].doc] # "ready"
          /\ \A l \in Job : Busy(l) /\ job[l].doc = job[k].doc => l = k
      BY <3>1 DEF RunInv
    <3> QED
      BY <1>3, <1>5, <3>1, <3>2
  <2> QED
    BY <2>1, <2>2, <2>3, <2>4 DEF RunInv
<1>8. ASSUME NEW v \in Versions, v[2] <= clock, Gone(v) PROVE Gone(v)'
  <2>1. ASSUME NEW e \in Existing, Dirty(e, v[2]) PROVE Dirty(e, v[2])'
    BY <1>2, <1>3, <1>5, <2>1 DEF Dirty, Existing
  <2>2. \A e \in Doc : state[e] = "deleted" => state'[e] = "deleted"
    BY <1>3
  <2> QED
    BY <1>2, <1>4, <1>6, <1>8, <2>1, <2>2, GoneStays
<1>9. ASSUME NEW v \in Versions, Still(v), ~raced, state'[d] = "failed" PROVE Gone(v)'
  <2>1. state[d] = "ready"
    BY <1>1, <1>9 DEF Still, Existing
  <2>2. \A k \in Job : ~(Replacing(k) /\ job[k].doc = d)
    BY <1>2, <1>9, <2>1, Quiescent DEF Replacing, Running
  <2>3. Dirty(d, v[2])'
    BY <1>5, <1>9, <2>2 DEF Dirty
  <2> QED
    BY <1>1, <1>4, <2>3 DEF Gone
<1>10. ASSUME NEW v \in Versions, raced PROVE Gone(v)'
  BY <1>2, <1>10 DEF Gone
<1>11. ASSUME NEW v \in Versions, state' = state PROVE Moves(v)
  BY <1>2, <1>5, <1>6, <1>11, StateKept
<1> QED
  BY <1>2, <1>3, <1>6, <1>7, <1>8, <1>9, <1>10, <1>11 DEF Moves

LEMMA PublishOK ==
  ASSUME TypeOK, RunInv, NEW j \in Job, Publish(j)
  PROVE  /\ TypeOK' /\ RunInv' /\ clock <= clock'
         /\ \A v \in Versions : v[2] <= clock => Moves(v)
<1>1. PICK d \in Existing : d = job[j].doc
  BY DEF Publish, RunInv
<1>2. /\ Replacing(j) /\ clock' = clock /\ clock \in Nat /\ d \in Doc /\ state[d] # "deleted"
      /\ UNCHANGED <<clock, raced, cache, turn>>
      /\ state' = [state EXCEPT ![d] = "ready"] /\ updated' = [updated EXCEPT ![d] = job[j].stamp]
  BY <1>1, Times DEF Publish, Stamp, TypeOK, Existing, Replacing
<1>3. /\ state'[d] = "ready"
      /\ (\A e \in Doc : e # d => state'[e] = state[e]) /\ state' \in [Doc -> DocState]
  BY <1>2 DEF TypeOK, DocState
<1>4. Existing' = Existing
  BY <1>1, <1>3 DEF Existing
<1>5. /\ job' \in [Job -> JobState] /\ job'[j].pc = "over"
      /\ \A k \in Job : job'[k].stamp = job[k].stamp /\ job'[k].doc = job[k].doc
      /\ \A k \in Job : k # j => job'[k] = job[k]
      /\ \A k \in Job : /\ Replacing(k)' <=> Replacing(k) /\ k # j
                        /\ Running(k)' <=> Running(k) /\ k # j
                        /\ Busy(k)' <=> Busy(k) /\ k # j
  BY RunOver DEF Publish
<1>6. /\ updated' \in [Doc -> Time] /\ updated'[d] = job[j].stamp
      /\ \A e \in Doc : e # d => updated'[e] = updated[e]
  <2>1. job[j].stamp \in Time
    BY DEF TypeOK, JobState
  <2> QED
    BY <1>2, <2>1 DEF TypeOK
<1>7. content' \in [Doc -> SUBSET Job]
  BY <1>1, <1>2 DEF Publish, TypeOK
<1>8. TypeOK'
  BY <1>2, <1>3, <1>5, <1>6, <1>7 DEF TypeOK
<1>9. RunInv'
  <2>1. clock' = Cardinality({k \in Job : job'[k].stamp # 0})
    BY <1>2, <1>5, SameStamps
  <2>2. \A e \in Doc : updated'[e] <= clock'
    BY <1>2, <1>6 DEF RunInv
  <2>3. ASSUME NEW k \in Job
        PROVE  /\ job'[k].stamp <= clock'
               /\ job'[k].pc \in {"none", "queued", "loaded", "processing"} => job'[k].stamp = 0
               /\ job'[k].pc # "none" => job'[k].doc \in Existing'
    <3>1. /\ job[k].stamp <= clock
          /\ job[k].pc \in {"none", "queued", "loaded", "processing"} => job[k].stamp = 0
          /\ job[k].pc # "none" => job[k].doc \in Existing
      BY DEF RunInv
    <3>2. CASE k = j
      BY <1>1, <1>2, <1>4, <1>5, <3>1, <3>2
    <3>3. CASE k # j
      BY <1>2, <1>4, <1>5, <3>1, <3>3
    <3> QED
      BY <3>2, <3>3
  <2>4. ASSUME NEW k \in Job, Busy(k)', ~raced'
        PROVE  /\ Running(k)' => state'[job'[k].doc] # "ready"
               /\ \A l \in Job : Busy(l)' /\ job'[l].doc = job'[k].doc => l = k
    <3>1. Busy(k) /\ k # j /\ ~raced /\ job[k].doc \in Doc /\ job'[k].doc = job[k].doc
      BY <1>2, <1>5, <2>4 DEF Busy, RunInv, Existing
    <3>2. /\ Running(k) => state[job[k].doc] # "ready"
          /\ \A l \in Job : Busy(l) /\ job[l].doc = job[k].doc => l = k
      BY <3>1 DEF RunInv
    <3>3. job[k].doc # d
      BY <1>1, <1>2, <3>1, <3>2 DEF Replacing, Busy
    <3> QED
      BY <1>3, <1>5, <3>1, <3>2, <3>3
  <2> QED
    BY <2>1, <2>2, <2>3, <2>4 DEF RunInv
<1>10. ASSUME NEW v \in Versions, v[2] <= clock, Gone(v) PROVE Gone(v)'
  <2>1. ASSUME NEW e \in Existing, Dirty(e, v[2]) PROVE Dirty(e, v[2])'
    BY <1>1, <1>2, <1>3, <1>5, <1>6, <2>1 DEF Dirty, Existing
  <2>2. \A e \in Doc : state[e] = "deleted" => state'[e] = "deleted"
    BY <1>2, <1>3
  <2> QED
    BY <1>2, <1>4, <1>8, <1>10, <2>1, <2>2, GoneStays
<1>11. ASSUME NEW v \in Versions, Still(v), ~raced PROVE FALSE
  <2>1. state[d] = "ready"
    BY <1>1, <1>11 DEF Still, Existing
  <2> QED
    BY <1>1, <1>2, <1>11, <2>1, Quiescent DEF Replacing, Running
<1>12. ASSUME NEW v \in Versions, raced PROVE Gone(v)'
  BY <1>2, <1>12 DEF Gone
<1> QED
  BY <1>2, <1>8, <1>9, <1>10, <1>11, <1>12 DEF Moves

LEMMA DeleteOK ==
  ASSUME TypeOK, RunInv, NEW d \in Doc, Delete(d)
  PROVE  /\ TypeOK' /\ RunInv' /\ clock <= clock'
         /\ \A v \in Versions : Gone(v)'
<1>1. /\ state[d] \in {"indexing", "ready", "failed"} /\ state' = [state EXCEPT ![d] = "deleted"]
      /\ UNCHANGED <<updated, job, clock, raced, cache, turn>> /\ content' = [content EXCEPT ![d] = {}]
      /\ clock \in Nat
  BY Times DEF Delete, TypeOK
<1>2. state'[d] = "deleted" /\ (\A e \in Doc : e # d => state'[e] = state[e]) /\ state' \in [Doc -> DocState]
  BY <1>1 DEF TypeOK, DocState
<1>3. Existing' = Existing
  BY <1>1, <1>2 DEF Existing
<1>4. TypeOK'
  <2>1. content' \in [Doc -> SUBSET Job]
    BY <1>1 DEF TypeOK
  <2> QED
    BY <1>1, <1>2, <2>1 DEF TypeOK
<1>5. \A j \in Job : (Busy(j)' <=> Busy(j)) /\ (Running(j)' <=> Running(j))
  BY <1>1 DEF Busy, Running
<1>6. ASSUME NEW j \in Job, Running(j), ~raced PROVE state'[job[j].doc] # "ready"
  BY <1>2, <1>6 DEF RunInv, Existing, Running, Busy
<1>7. RunInv'
  BY <1>1, <1>3, <1>5, <1>6 DEF RunInv
<1> QED
  BY <1>1, <1>2, <1>4, <1>7 DEF Gone

-----------------------------------------------------------------------------
(* Turns and the cache.                                                     *)

\* When the knowledge base moves, turns and answers keep what was true of them.
LEMMA Moved ==
  ASSUME CacheInv, UNCHANGED <<cache, turn>>, TypeOK', RunInv', clock <= clock',
         \A v \in Versions : v[2] <= clock => Moves(v)
  PROVE  CacheInv'
<1>1. \A v \in Versions : v[2] <= clock => v[2] <= clock'
  BY Times DEF CacheInv, TypeOK, Versions
<1>2. ASSUME NEW t \in Turn PROVE TurnInv(t)'
  <2>1. TurnInv(t)
    BY DEF CacheInv
  <2> QED
    BY <1>1, <2>1 DEF TurnInv, Moves
<1>3. ASSUME NEW v \in Versions PROVE EntryInv(v)'
  <2>1. EntryInv(v)
    BY DEF CacheInv
  <2> QED
    BY <1>1, <2>1 DEF EntryInv, Moves
<1> QED
  BY <1>2, <1>3 DEF CacheInv

\* When it stands still, so do all versions.
LEMMA Stood ==
  ASSUME UNCHANGED kb
  PROVE  /\ RunInv' <=> RunInv
         /\ Retrievable' = Retrievable
         /\ \A v \in Versions : (Gone(v)' <=> Gone(v)) /\ (Still(v)' <=> Still(v))
BY DEF kb, RunInv, Existing, Busy, Running, Replacing, Gone, Dirty, Still, Now, Retrievable

\* The other turns.
LEMMA OthersStay ==
  ASSUME CacheInv, UNCHANGED kb, NEW t \in Turn, \A s \in Turn : s # t => turn'[s] = turn[s]
  PROVE  \A s \in Turn : s # t => TurnInv(s)'
<1> SUFFICES ASSUME NEW s \in Turn, s # t PROVE TurnInv(s)'
  OBVIOUS
<1>1. TurnInv(s) /\ turn'[s] = turn[s] /\ clock' = clock
  BY DEF CacheInv, kb
<1> QED
  BY <1>1, Stood DEF TurnInv

LEMMA LookupOK == ASSUME CacheInv, NEW t \in Turn, Lookup(t) PROVE CacheInv'
<1>1. turn[t].pc = "idle" /\ UNCHANGED <<kb, cache>> /\ TypeOK /\ RunInv
  BY DEF Lookup, CacheInv
<1>2. PICK w : w = Now
  OBVIOUS
<1>3. w \in Versions /\ w[2] <= clock /\ (Gone(w) \/ Still(w))
  BY <1>1, <1>2, Fresh
<1>4. turn \in [Turn -> TurnState] /\ turn[t] \in TurnState
  BY <1>1 DEF TypeOK
<1>5. turn'[t] = [turn[t] EXCEPT !.pc = "missed", !.version = w] /\ \A s \in Turn : s # t => turn'[s] = turn[s]
  BY <1>2, <1>4 DEF Lookup
<1>6. /\ turn'[t] \in TurnState /\ turn'[t].pc = "missed" /\ turn'[t].version = w
      /\ turn'[t].found = turn[t].found
  BY <1>3, <1>4, <1>5 DEF TurnState, Versions
<1>7. turn' \in [Turn -> TurnState]
  BY <1>4, <1>5, <1>6 DEF Lookup
<1>8. turn[t].found = {}
  BY <1>1 DEF CacheInv, TurnInv
<1>9. TurnInv(t)'
  BY <1>1, <1>3, <1>6, <1>8, Stood DEF TurnInv, kb
<1>10. \A v \in Versions : EntryInv(v)'
  BY <1>1, Stood DEF CacheInv, EntryInv, kb
<1> QED
  BY <1>1, <1>5, <1>7, <1>9, <1>10, Stood, OthersStay DEF CacheInv, TypeOK, kb

LEMMA SearchOK == ASSUME CacheInv, NEW t \in Turn, Search(t) PROVE CacheInv'
<1>1. turn[t].pc \in {"missed", "dense"} /\ UNCHANGED <<kb, cache>> /\ TypeOK /\ RunInv
  BY DEF Search, CacheInv
<1>2. turn \in [Turn -> TurnState] /\ turn[t] \in TurnState
  BY <1>1 DEF TypeOK
<1>3. Retrievable \subseteq Job
  BY <1>1 DEF TypeOK, Retrievable
<1>4. PICK pc, found : /\ pc = IF turn[t].pc = "missed" THEN "dense" ELSE "retrieved"
                       /\ found = turn[t].found \cup Retrievable
  OBVIOUS
<1>5. turn'[t] = [turn[t] EXCEPT !.pc = pc, !.found = found] /\ \A s \in Turn : s # t => turn'[s] = turn[s]
  BY <1>2, <1>4 DEF Search
<1>6. /\ turn'[t] \in TurnState /\ turn'[t].pc = pc /\ turn'[t].version = turn[t].version
      /\ turn'[t].found = found
  <2>1. pc \in {"dense", "retrieved"} /\ found \in SUBSET Job
    BY <1>2, <1>3, <1>4 DEF TurnState
  <2> QED
    BY <1>2, <1>5, <2>1 DEF TurnState
<1>7. turn' \in [Turn -> TurnState]
  BY <1>2, <1>5, <1>6 DEF Search
<1>8. TurnInv(t)'
  <2>1. ASSUME NEW v \in Versions, turn[t].version = v
        PROVE  v[2] <= clock /\ (Gone(v) \/ (Still(v) /\ found = Retrievable))
    BY <1>1, <1>4, <2>1 DEF CacheInv, TurnInv
  <2> QED
    BY <1>1, <1>4, <1>6, <2>1, Stood DEF TurnInv, kb
<1>9. \A v \in Versions : EntryInv(v)'
  BY <1>1, Stood DEF CacheInv, EntryInv, kb
<1> QED
  BY <1>1, <1>5, <1>7, <1>8, <1>9, Stood, OthersStay DEF CacheInv, TypeOK, kb

LEMMA StoreOK == ASSUME CacheInv, NEW t \in Turn, Store(t) PROVE CacheInv'
<1>1. turn[t].pc = "retrieved" /\ UNCHANGED kb /\ TypeOK /\ RunInv
  BY DEF Store, CacheInv
<1>2. turn \in [Turn -> TurnState] /\ turn[t] \in TurnState
  BY <1>1 DEF TypeOK
<1>3. PICK w \in Versions : w = turn[t].version
  BY <1>2 DEF TurnState, Versions
<1>4. PICK found \in SUBSET Job : found = turn[t].found
  BY <1>2 DEF TurnState
<1>5. w[2] <= clock /\ (Gone(w) \/ (Still(w) /\ found = Retrievable))
  BY <1>1, <1>3, <1>4 DEF CacheInv, TurnInv
<1>6. turn'[t] = [turn[t] EXCEPT !.pc = "done", !.found = {}] /\ \A s \in Turn : s # t => turn'[s] = turn[s]
  BY <1>2 DEF Store
<1>7. turn'[t] \in TurnState /\ turn'[t].pc = "done"
  BY <1>2, <1>6 DEF TurnState
<1>8. turn' \in [Turn -> TurnState]
  BY <1>2, <1>6, <1>7 DEF Store
<1>9. cache' = [cache EXCEPT ![w] = {found}] /\ cache \in [Versions -> SUBSET SUBSET Job]
  BY <1>1, <1>3, <1>4 DEF Store, Key, TypeOK
<1>10. cache' \in [Versions -> SUBSET SUBSET Job]
  BY <1>9
<1>11. TurnInv(t)'
  BY <1>7 DEF TurnInv
<1>12. ASSUME NEW v \in Versions PROVE EntryInv(v)'
  <2>1. CASE v = w
    BY <1>1, <1>5, <1>9, <2>1, Stood DEF EntryInv, kb
  <2>2. CASE v # w
    <3>1. EntryInv(v) /\ cache'[v] = cache[v]
      BY <1>9, <2>2 DEF CacheInv
    <3> QED
      BY <1>1, <3>1, Stood DEF EntryInv, kb
  <2> QED
    BY <2>1, <2>2
<1> QED
  BY <1>1, <1>6, <1>8, <1>10, <1>11, <1>12, Stood, OthersStay DEF CacheInv, TypeOK, kb

LEMMA ExpireOK == ASSUME CacheInv, NEW w \in Versions, Expire(w) PROVE CacheInv'
<1>1. cache' = [cache EXCEPT ![w] = {}] /\ UNCHANGED <<kb, turn>> /\ TypeOK /\ RunInv
  BY DEF Expire, CacheInv
<1>2. cache' \in [Versions -> SUBSET SUBSET Job] /\ \A v \in Versions : cache'[v] # {} => cache'[v] = cache[v]
  BY <1>1 DEF TypeOK
<1>3. ASSUME NEW v \in Versions PROVE EntryInv(v)'
  <2>1. EntryInv(v)
    BY DEF CacheInv
  <2> QED
    BY <1>1, <1>2, <2>1, Stood DEF EntryInv, kb
<1>4. ASSUME NEW t \in Turn PROVE TurnInv(t)'
  <2>1. TurnInv(t)
    BY DEF CacheInv
  <2> QED
    BY <1>1, <2>1, Stood DEF TurnInv, kb
<1> QED
  BY <1>1, <1>2, <1>3, <1>4, Stood DEF CacheInv, TypeOK, kb

LEMMA InitOK == Init => CacheInv
<1> SUFFICES ASSUME Init PROVE CacheInv
  OBVIOUS
<1>1. 0 \in Time /\ <<0, 0>> \in Versions
  BY Times DEF Time, Versions
<1>2. TypeOK
  <2>1. job \in [Job -> JobState]
    BY <1>1 DEF Init, JobState
  <2>2. turn \in [Turn -> TurnState]
    BY <1>1 DEF Init, TurnState, Versions
  <2>3. state \in [Doc -> DocState] /\ updated \in [Doc -> Time] /\ content \in [Doc -> SUBSET Job]
        /\ clock \in Time
    BY <1>1 DEF Init, DocState
  <2>4. raced \in BOOLEAN /\ cache \in [Versions -> SUBSET SUBSET Job]
    BY DEF Init
  <2> QED
    BY <2>1, <2>2, <2>3, <2>4 DEF TypeOK
<1>3. RunInv
  <2>1. {j \in Job : job[j].stamp # 0} = {}
    BY DEF Init
  <2>2. clock = Cardinality({j \in Job : job[j].stamp # 0})
    BY <2>1, FS_EmptySet DEF Init
  <2> QED
    BY <2>2 DEF Init, RunInv, Busy, Running
<1> QED
  BY <1>2, <1>3 DEF Init, CacheInv, TurnInv, EntryInv

-----------------------------------------------------------------------------
(* The theorems.                                                            *)

\* The inductive invariant: what a turn carries and what is stored under a version is
\* what retrieval would find, as long as nothing has moved since that version was
\* computed; and a version that something has moved away from does not come back.
THEOREM CacheInvariant == Spec => []CacheInv
<1>1. ASSUME CacheInv, [Next]_vars PROVE CacheInv'
  <2>1. TypeOK /\ RunInv
    BY <1>1 DEF CacheInv
  <2>8. ASSUME NEW j \in Job, Load(j) PROVE CacheInv'
    BY <1>1, <2>1, <2>8, LoadOK, Moved DEF Load
  <2>9. ASSUME NEW j \in Job, Process(j) PROVE CacheInv'
    BY <1>1, <2>1, <2>9, ProcessOK, Moved DEF Process
  <2>2. ASSUME NEW j \in Job, Replace(j) PROVE CacheInv'
    BY <1>1, <2>1, <2>2, ReplaceOK, Moved DEF Replace
  <2>3. ASSUME NEW j \in Job, Publish(j) PROVE CacheInv'
    BY <1>1, <2>1, <2>3, PublishOK, Moved DEF Publish
  <2>4. ASSUME NEW j \in Job, FailRun(j) PROVE CacheInv'
    BY <1>1, <2>1, <2>4, FailRunOK, Moved DEF FailRun
  <2>5. ASSUME NEW j \in Job, NEW d \in Doc, Index(j, d) PROVE CacheInv'
    BY <1>1, <2>1, <2>5, IndexOK, Moved DEF Index
  <2>6. ASSUME NEW d \in Doc, Delete(d) PROVE CacheInv'
    BY <1>1, <2>1, <2>6, DeleteOK, Moved DEF Delete, Moves
  <2>7. CASE UNCHANGED vars
    <3>1. UNCHANGED <<kb, cache, turn>>
      BY <2>7 DEF vars
    <3>2. TypeOK' /\ RunInv'
      BY <2>1, <3>1, Stood DEF TypeOK, kb
    <3>3. ASSUME NEW t \in Turn PROVE TurnInv(t)'
      BY <1>1, <3>1, Stood DEF CacheInv, TurnInv, kb
    <3>4. ASSUME NEW v \in Versions PROVE EntryInv(v)'
      BY <1>1, <3>1, Stood DEF CacheInv, EntryInv, kb
    <3> QED
      BY <3>2, <3>3, <3>4 DEF CacheInv
  <2> QED
    BY <1>1, <2>2, <2>3, <2>4, <2>5, <2>6, <2>7, <2>8, <2>9, LookupOK, SearchOK, StoreOK, ExpireOK DEF Next
<1> QED
  BY <1>1, InitOK, PTL DEF Spec

\* For any number of documents, runs and turns: once every document there ever was is
\* ready and no two runs of one overlapped, a hit is what retrieval would find now.
THEOREM HitsCurrent == Spec => []SettledHitIsCurrent
<1>1. ASSUME CacheInv PROVE SettledHitIsCurrent
  <2> SUFFICES ASSUME ~raced, \A d \in Doc : state[d] \in {"absent", "ready"}
               PROVE  cache[Now] \subseteq {Retrievable}
    BY DEF SettledHitIsCurrent
  <2>1. PICK w : w = Now
    OBVIOUS
  <2>2. /\ w \in Versions /\ w[1] = Cardinality(Ready) /\ w[2] <= clock
        /\ \A d \in Ready : updated[d] <= w[2]
    BY <1>1, <2>1, NowIs DEF CacheInv, RunInv
  <2>3. Ready = Existing
    BY DEF Ready, Existing
  <2>4. w[1] \in Nat /\ w[2] \in Nat /\ \A d \in Doc : updated[d] \in Nat
    BY <1>1, <2>2, Times DEF Versions, CacheInv, TypeOK
  <2>5. ~(\E d \in Existing : Dirty(d, w[2]))
    <3>1. ASSUME NEW d \in Existing, Dirty(d, w[2]) PROVE FALSE
      <4>1. d \in Doc /\ state[d] = "ready" /\ d \in Ready
        BY <2>3, <3>1 DEF Ready, Existing
      <4>2. updated[d] > w[2] /\ updated[d] <= w[2]
        BY <2>2, <3>1, <4>1 DEF Dirty
      <4> QED
        BY <2>4, <4>1, <4>2
    <3> QED
      BY <3>1
  <2>6. ~Gone(w)
    BY <2>2, <2>3, <2>4, <2>5 DEF Gone
  <2>7. EntryInv(w)
    BY <1>1, <2>2 DEF CacheInv
  <2> QED
    BY <2>1, <2>6, <2>7 DEF EntryInv
<1> QED
  BY <1>1, CacheInvariant, PTL

=============================================================================
