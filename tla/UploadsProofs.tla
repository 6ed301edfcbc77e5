---------------------------- MODULE UploadsProofs ----------------------------
(***************************************************************************)
(* Proofs about the session store and the upload handlers, for any number  *)
(* of sessions, any cap, any sizes.  The first part is about the store     *)
(* alone (UploadSessionStore): its safety, and that it implements          *)
(* RecencyCache.  The second is about the handlers (Uploads): every step   *)
(* of theirs is a step of the store or leaves it alone, so all of the      *)
(* first part holds of the store under them, and its invariant is what     *)
(* theirs builds on.                                                       *)
(***************************************************************************)
EXTENDS Uploads, SequenceTheorems, FunctionTheorems, FiniteSetTheorems, TLAPS

-----------------------------------------------------------------------------
(* What the two Map operations do to an insertion order.                    *)

NoRepeat(n, s) == \A j, k \in 1..n : s[j] = s[k] => j = k

\* t is s with its i-th element moved to the end.
MovedToEnd(n, i, s, t) ==
    \A j \in 1..n : t[j] = IF j < i THEN s[j]
                           ELSE IF j < n THEN s[j + 1] ELSE s[i]

\* t, of length m, is s without its first c elements and with x behind them.
AdmittedAfter(n, c, s, m, t, x) ==
    /\ m = n - c + 1
    /\ m \in Nat \ {0}
    /\ t[m] = x
    /\ \A j \in 1..(m - 1) : t[j] = s[j + c]

\* ... where an element is dropped only from an s that is full.
Admits(s, t, x) ==
    \E c \in {0, 1} : /\ AdmittedAfter(Len(s), c, s, Len(t), t, x)
                      /\ Len(t) <= MaxSessions
                      /\ c = 1 => Len(s) = MaxSessions

SameKeys(n, s, t) == {s[j] : j \in 1..n} = {t[j] : j \in 1..n}

\* delete + set of the i-th key: the later keys move up, that key comes last.
LEMMA TouchSeq ==
    ASSUME NEW S, NEW s \in Seq(S), NEW i \in 1..Len(s)
    PROVE  LET t == Append(DeleteAt(s, i), s[i]) IN
           /\ t \in Seq(S)
           /\ Len(t) = Len(s)
           /\ MovedToEnd(Len(s), i, s, t)
<1> DEFINE d == DeleteAt(s, i)
           n == Len(s)
<1>1. n \in Nat /\ i \in 1..n /\ \A j \in 1..n : s[j] \in S
  OBVIOUS
<1>2. d = [j \in 1..(n - 1) |-> IF j < i THEN s[j] ELSE s[j + 1]]
  BY DEF DeleteAt
<1>3. d \in Seq(S) /\ Len(d) = n - 1
  <2>1. \A j \in 1..(n - 1) : d[j] \in S
    BY <1>1, <1>2
  <2>2. d \in [1..(n - 1) -> S] /\ n - 1 \in Nat
    BY <1>1, <1>2, <2>1
  <2> QED
    BY <2>2
<1> HIDE DEF d, n
<1>4. /\ Append(d, s[i]) \in Seq(S)
      /\ Len(Append(d, s[i])) = n
      /\ Append(d, s[i])[n] = s[i]
      /\ \A j \in 1..(n - 1) : Append(d, s[i])[j] = d[j]
  BY <1>1, <1>3, AppendProperties
<1> QED
  BY <1>1, <1>2, <1>4 DEF d, n, MovedToEnd

\* Moving one key of a repetition-free order to its end repeats and loses none.
LEMMA TouchOrder ==
    ASSUME NEW n \in Nat, NEW i \in 1..n, NEW s, NEW t,
           NoRepeat(n, s), MovedToEnd(n, i, s, t)
    PROVE  NoRepeat(n, t) /\ SameKeys(n, s, t)
<1> DEFINE was(m) == IF m < i THEN m ELSE IF m < n THEN m + 1 ELSE i
           now(m) == IF m < i THEN m ELSE IF m = i THEN n ELSE m - 1
<1>1. \A m \in 1..n : was(m) \in 1..n /\ t[m] = s[was(m)]
  BY DEF MovedToEnd
<1>2. \A m \in 1..n : now(m) \in 1..n /\ t[now(m)] = s[m]
  BY DEF MovedToEnd
<1>3. \A j, k \in 1..n : was(j) = was(k) => j = k
  OBVIOUS
<1> HIDE DEF was, now
<1>4. NoRepeat(n, t)
  BY <1>1, <1>3 DEF NoRepeat
<1>5. SameKeys(n, s, t)
  <2>1. \A j \in 1..n : t[j] \in {s[k] : k \in 1..n}
    BY <1>1
  <2>2. \A j \in 1..n : s[j] \in {t[k] : k \in 1..n}
    BY <1>2
  <2> QED
    BY <2>1, <2>2, Zenon DEF SameKeys
<1> QED
  BY <1>4, <1>5

\* Adding a key to a Map within its cap, then evicting, drops at most the
\* oldest one.
LEMMA AdmitSeq ==
    ASSUME NEW S, NEW s \in Seq(S), Len(s) <= MaxSessions, NEW x \in S
    PROVE  LET t == EvictIfNeeded(Append(s, x)) IN
           t \in Seq(S) /\ Admits(s, t, x)
<1> USE MaxSessionsAssumption
<1> DEFINE n == Len(s)
           a == Append(s, x)
           t == EvictIfNeeded(a)
<1>1. n \in Nat /\ n <= MaxSessions
  OBVIOUS
<1>2. /\ a \in Seq(S)
      /\ Len(a) = n + 1
      /\ a[n + 1] = x
      /\ \A j \in 1..n : a[j] = s[j]
  BY AppendProperties
<1> HIDE DEF a, n
<1>3. CASE n < MaxSessions
  <2>1. t = a
    BY <1>1, <1>2, <1>3 DEF EvictIfNeeded
  <2>2. AdmittedAfter(n, 0, s, Len(t), t, x)
    BY <1>1, <1>2, <2>1 DEF AdmittedAfter
  <2> QED
    BY <1>1, <1>2, <1>3, <2>1, <2>2 DEF a, n, Admits
<1>4. CASE n = MaxSessions
  <2>1. t = SubSeq(a, 2, n + 1)
    BY <1>1, <1>2, <1>4 DEF EvictIfNeeded
  <2>2. /\ t \in Seq(S)
        /\ Len(t) = n
        /\ \A j \in 1..n : t[j] = a[j + 1]
    BY <1>1, <1>2, <1>4, <2>1
  <2>3. AdmittedAfter(n, 1, s, Len(t), t, x)
    BY <1>1, <1>2, <1>4, <2>2 DEF AdmittedAfter
  <2> QED
    BY <1>1, <1>4, <2>2, <2>3 DEF a, n, Admits
<1> QED
  BY <1>1, <1>3, <1>4

-----------------------------------------------------------------------------
(* The inductive invariant: a session's history of newer uses is exactly    *)
(* what stands behind it in the Map, so the first key of a full Map has     *)
(* seen MaxSessions - 1 other sessions used, and the one that evicts it.    *)

NewerIsBehind ==
    \A i, j \in 1..Len(order) : order[j] \in newer[order[i]] <=> i < j

NewerIsLive ==
    \A i \in 1..Len(order) : newer[order[i]] \subseteq Live

Fresh == \A id \in SessionIds \ created : recorded[id] = <<>>

IInv ==
    /\ TypeOK
    /\ Bounded
    /\ Live \subseteq created
    /\ IsFiniteSet(created)
    /\ NewerIsBehind
    /\ NewerIsLive
    /\ EvictedOnlyWhenStale
    /\ Fresh
    /\ LiveSessionIsComplete

\* A new store satisfies the inductive invariant: nothing is live, nothing lost.
LEMMA InitIInv == Init => IInv
<1> SUFFICES ASSUME Init PROVE IInv
  OBVIOUS
<1>1. order = <<>> /\ Len(order) = 0 /\ DOMAIN order = {}
  BY DEF Init
<1>2. TypeOK
  BY <1>1 DEF Init, TypeOK
<1>3. Live = {} /\ created = {}
  BY <1>1 DEF Init, Live
<1>4. Bounded /\ NewerIsBehind /\ NewerIsLive
  BY <1>1, MaxSessionsAssumption DEF Bounded, NewerIsBehind, NewerIsLive
<1>5. Fresh
  BY DEF Init, Fresh
<1> QED
  BY <1>2, <1>3, <1>4, <1>5, FS_EmptySet
     DEF IInv, EvictedOnlyWhenStale, LiveSessionIsComplete

\* The facts about order that the steps below use, element by element.
LEMMA OrderFacts ==
    ASSUME IInv
    PROVE  /\ Len(order) \in Nat
           /\ Len(order) <= MaxSessions
           /\ DOMAIN order = 1..Len(order)
           /\ \A j \in 1..Len(order) : order[j] \in SessionIds
           /\ NoRepeat(Len(order), order)
           /\ Live = {order[j] : j \in 1..Len(order)}
           /\ \A j \in 1..Len(order) : order[j] \in created
<1>1. order \in Seq(SessionIds)
  BY DEF IInv, TypeOK
<1>2. /\ Len(order) \in Nat
      /\ DOMAIN order = 1..Len(order)
      /\ \A j \in 1..Len(order) : order[j] \in SessionIds
  BY <1>1
<1>3. Live = {order[j] : j \in 1..Len(order)}
  BY <1>2 DEF Live
<1> QED
  BY <1>2, <1>3 DEF IInv, Bounded, NoRepeat

\* As many sessions are live as the order is long.
LEMMA LiveCardinality ==
    ASSUME IInv
    PROVE  IsFiniteSet(Live) /\ Cardinality(Live) = Len(order)
<1> DEFINE n == Len(order)
           f == [j \in 1..n |-> order[j]]
<1>1. n \in Nat
  BY OrderFacts
<1>2. f \in Bijection(1..n, Live)
  <2>1. f \in [1..n -> Live]
    BY OrderFacts
  <2>2. \A a, b \in 1..n : f[a] = f[b] => a = b
    BY OrderFacts DEF NoRepeat
  <2>3. \A x \in Live : \E a \in 1..n : f[a] = x
    BY OrderFacts
  <2> QED
    BY <2>1, <2>2, <2>3, Fun_IsBij
<1>3. ExistsBijection(1..n, Live)
  BY <1>2 DEF ExistsBijection
<1>4. IsFiniteSet(1..n)
  BY <1>1, FS_Interval
<1> QED
  BY <1>1, <1>3, <1>4, FS_CountingElements, FS_Bijection

\* A session that is gone stays stale: its set of newer sessions only grows.
LEMMA StaleStaysStale ==
    ASSUME IInv, NEW id \in SessionIds, newer' = Used(id, created),
           NEW x \in created, x # id, IsFiniteSet(created'),
           created \subseteq created', id \in created',
           Cardinality(newer[x]) >= MaxSessions
    PROVE  Cardinality(newer'[x]) >= MaxSessions
<1>1. x \in SessionIds /\ newer[x] \subseteq created
  BY DEF IInv, TypeOK
<1>2. newer'[x] = newer[x] \cup {id}
  BY <1>1 DEF Used
<1>3. IsFiniteSet(newer'[x])
  BY <1>1, <1>2, FS_Subset
<1>4. Cardinality(newer[x]) <= Cardinality(newer'[x])
  BY <1>2, <1>3, FS_Subset
<1>5. /\ IsFiniteSet(newer[x])
      /\ Cardinality(newer[x]) \in Nat
      /\ Cardinality(newer'[x]) \in Nat
  BY <1>2, <1>3, FS_Subset, FS_CardinalityType
<1> QED
  BY <1>4, <1>5, MaxSessionsAssumption

\* A step that touches a live session, and nothing that decides recency but it.
LEMMA TouchStep ==
    ASSUME IInv, NEW id \in SessionIds, id \in Live, Touch(id),
           newer' = Used(id, created), created' = created
    PROVE  /\ order' \in Seq(SessionIds)
           /\ newer' \in [SessionIds -> SUBSET created']
           /\ Bounded'
           /\ Live' = Live
           /\ NewerIsBehind'
           /\ NewerIsLive'
           /\ EvictedOnlyWhenStale'
<1> DEFINE n == Len(order)
           t == order'
<1>1. /\ n \in Nat
      /\ n <= MaxSessions
      /\ DOMAIN order = 1..n
      /\ \A j \in 1..n : order[j] \in SessionIds
      /\ NoRepeat(n, order)
      /\ Live = {order[j] : j \in 1..n}
      /\ \A j \in 1..n : order[j] \in created
  BY OrderFacts
<1>2. order \in Seq(SessionIds) /\ created \subseteq SessionIds
  BY DEF IInv, TypeOK
<1>3. PICK i \in 1..n : order[i] = id /\ order' = Append(DeleteAt(order, i), id)
  BY <1>1 DEF Touch
<1>4. t \in Seq(SessionIds) /\ Len(t) = n /\ MovedToEnd(n, i, order, t)
  BY <1>2, <1>3, TouchSeq
<1>5. DOMAIN t = 1..n
  BY <1>1, <1>4
<1> HIDE DEF n, t
<1>6. NoRepeat(n, t) /\ SameKeys(n, order, t)
  BY <1>1, <1>4, TouchOrder
<1>7. Live' = {t[j] : j \in 1..n}
  <2>1. Live' = {t[j] : j \in DOMAIN t}
    BY DEF Live, t
  <2> QED
    BY <1>5, <2>1
<1>8. Live' = Live
  BY <1>1, <1>6, <1>7 DEF SameKeys
<1>9. newer' = [x \in SessionIds |-> IF x = id THEN {}
                                   ELSE IF x \in created THEN newer[x] \cup {id}
                                   ELSE newer[x]]
  BY DEF Used
<1>10. newer' \in [SessionIds -> SUBSET created']
  <2>1. newer \in [SessionIds -> SUBSET created] /\ id \in created
    BY <1>1 DEF IInv, TypeOK
  <2> QED
    BY <1>9, <2>1
<1>11. Bounded'
  <2>1. Bounded' <=> /\ Len(t) <= MaxSessions
                     /\ \A j, k \in DOMAIN t : t[j] = t[k] => j = k
    BY DEF Bounded, t
  <2> QED
    BY <1>1, <1>4, <1>5, <1>6, <2>1 DEF NoRepeat
<1>12. NewerIsBehind'
  <2> SUFFICES ASSUME NEW j \in 1..n, NEW k \in 1..n
               PROVE  t[k] \in newer'[t[j]] <=> j < k
    BY <1>4 DEF NewerIsBehind, t
  <2> DEFINE was(m) == IF m < i THEN m ELSE IF m < n THEN m + 1 ELSE i
  <2>1. \A m \in 1..n : /\ was(m) \in 1..n
                        /\ t[m] = order[was(m)]
                        /\ m < n => was(m) # i
    BY <1>1, <1>3, <1>4 DEF MovedToEnd
  <2>2. \A a, b \in 1..n : a < n /\ b < n => (was(a) < was(b) <=> a < b)
    BY <1>1, <1>3
  <2>3. t[n] = id
    BY <1>1, <1>3, <1>4 DEF MovedToEnd
  <2> HIDE DEF was
  <2>4. \A m \in 1..n : m < n => t[m] # id /\ t[m] \in created
    BY <1>1, <1>3, <2>1 DEF NoRepeat
  <2>5. \A a, b \in 1..n : order[b] \in newer[order[a]] <=> a < b
    BY DEF IInv, NewerIsBehind, n
  <2>6. CASE j = n
    <3>1. newer'[t[j]] = {}
      BY <1>9, <2>3, <2>6
    <3> QED
      BY <1>1, <2>6, <3>1
  <2>7. CASE j < n
    <3>1. newer'[t[j]] = newer[order[was(j)]] \cup {id}
      BY <1>2, <1>9, <2>1, <2>4, <2>7
    <3>2. CASE k = n
      BY <2>3, <2>7, <3>1, <3>2
    <3>3. CASE k < n
      <4>1. t[k] # id /\ t[k] = order[was(k)]
        BY <2>1, <2>4, <3>3
      <4>2. t[k] \in newer'[t[j]] <=> was(j) < was(k)
        BY <2>1, <2>5, <3>1, <4>1
      <4> QED
        BY <2>2, <2>7, <3>3, <4>2
    <3> QED
      BY <1>1, <3>2, <3>3
  <2> QED
    BY <1>1, <2>6, <2>7
<1>13. NewerIsLive'
  <2> SUFFICES ASSUME NEW j \in 1..n
               PROVE  newer'[t[j]] \subseteq Live
    BY <1>4, <1>8 DEF NewerIsLive, t
  <2>1. PICK m \in 1..n : t[j] = order[m]
    BY <1>6 DEF SameKeys
  <2>2. newer[order[m]] \subseteq Live
    BY DEF IInv, NewerIsLive, n
  <2> QED
    BY <1>1, <1>9, <2>1, <2>2
<1>14. EvictedOnlyWhenStale'
  <2> SUFFICES ASSUME NEW x \in created \ Live
               PROVE  Cardinality(newer'[x]) >= MaxSessions
    BY <1>8 DEF EvictedOnlyWhenStale
  <2>1. Cardinality(newer[x]) >= MaxSessions /\ IsFiniteSet(created')
    BY DEF IInv, EvictedOnlyWhenStale
  <2> QED
    BY <1>1, <2>1, StaleStaysStale
<1> QED
  BY <1>4, <1>8, <1>10, <1>11, <1>12, <1>13, <1>14 DEF t

\* create() keeps the invariant: the new session is the newest, and the one that
\* EvictIfNeeded drops, if any, has MaxSessions newer ones.
LEMMA CreateStep ==
    ASSUME IInv, NEW id \in SessionIds, Create(id)
    PROVE  IInv'
<1> DEFINE n == Len(order)
           t == order'
           m == Len(t)
<1>1. /\ n \in Nat
      /\ n <= MaxSessions
      /\ DOMAIN order = 1..n
      /\ \A j \in 1..n : order[j] \in SessionIds
      /\ NoRepeat(n, order)
      /\ Live = {order[j] : j \in 1..n}
      /\ \A j \in 1..n : order[j] \in created
  BY OrderFacts
<1>2. /\ order \in Seq(SessionIds)
      /\ created \subseteq SessionIds
      /\ id \notin created
      /\ Live \subseteq created
      /\ newer \in [SessionIds -> SUBSET created]
      /\ IsFiniteSet(created)
  BY DEF IInv, TypeOK, Create
<1>3. /\ order' = EvictIfNeeded(Append(order, id))
      /\ snapshots' = [k \in SessionIds |->
                         IF k \in Keys(order') /\ k # id
                         THEN snapshots[k] ELSE <<>>]
      /\ created' = created \cup {id}
      /\ recorded' = recorded
      /\ newer' = Used(id, created)
  BY DEF Create
<1>4. t \in Seq(SessionIds) /\ DOMAIN t = 1..m
  BY <1>1, <1>2, <1>3, AdmitSeq
<1>5. PICK c \in {0, 1} : /\ AdmittedAfter(n, c, order, m, t, id)
                          /\ m <= MaxSessions
                          /\ c = 1 => n = MaxSessions
  <2>1. Admits(order, order', id)
    BY <1>1, <1>2, <1>3, AdmitSeq
  <2> QED
    BY <2>1 DEF Admits
<1>6. Live' = {t[j] : j \in 1..m} /\ Live' = Keys(order')
  <2>1. Live' = {t[j] : j \in DOMAIN t} /\ Live' = Keys(order')
    BY DEF Live, Keys
  <2> QED
    BY <1>4, <2>1, Zenon
<1> HIDE DEF n, t, m
<1>7. /\ m = n - c + 1
      /\ m \in Nat \ {0}
      /\ t[m] = id
      /\ \A j \in 1..(m - 1) : /\ j + c \in 1..n
                                /\ t[j] = order[j + c]
                                /\ t[j] # id
                                /\ t[j] \in created
  BY <1>1, <1>2, <1>5 DEF AdmittedAfter
<1>8. newer' = [x \in SessionIds |-> IF x = id THEN {}
                                   ELSE IF x \in created THEN newer[x] \cup {id}
                                   ELSE newer[x]]
  BY <1>3 DEF Used
<1>9. IsFiniteSet(created')
  BY <1>2, <1>3, FS_AddElement
<1>10. Live' \subseteq Live \cup {id} /\ id \in Live'
  BY <1>1, <1>6, <1>7
<1>11. TypeOK'
  <2>1. newer' \in [SessionIds -> SUBSET created']
    BY <1>2, <1>3, <1>8
  <2>2. snapshots' \in [SessionIds -> Seq(Snapshots)]
    BY <1>3 DEF IInv, TypeOK
  <2> QED
    BY <1>2, <1>3, <1>4, <2>1, <2>2 DEF IInv, TypeOK, t
<1>12. Bounded'
  <2>1. NoRepeat(m, t)
    BY <1>1, <1>7 DEF NoRepeat
  <2>2. Bounded' <=> /\ m <= MaxSessions
                     /\ \A j, k \in DOMAIN t : t[j] = t[k] => j = k
    BY DEF Bounded, t, m
  <2> QED
    BY <1>4, <1>5, <2>1, <2>2 DEF NoRepeat
<1>13. Live' \subseteq created'
  BY <1>2, <1>3, <1>10
<1>14. NewerIsBehind'
  <2> SUFFICES ASSUME NEW j \in 1..m, NEW k \in 1..m
               PROVE  t[k] \in newer'[t[j]] <=> j < k
    BY DEF NewerIsBehind, t, m
  <2>1. \A a, b \in 1..n : order[b] \in newer[order[a]] <=> a < b
    BY DEF IInv, NewerIsBehind, n
  <2>2. CASE j = m
    <3>1. newer'[t[j]] = {}
      BY <1>7, <1>8, <2>2
    <3> QED
      BY <1>7, <2>2, <3>1
  <2>3. CASE j < m
    <3>1. newer'[t[j]] = newer[order[j + c]] \cup {id}
      BY <1>2, <1>7, <1>8, <2>3
    <3>2. CASE k = m
      BY <1>7, <2>3, <3>1, <3>2
    <3>3. CASE k < m
      <4>1. t[k] # id /\ t[k] = order[k + c] /\ j + c \in 1..n /\ k + c \in 1..n
        BY <1>7, <2>3, <3>3
      <4>2. t[k] \in newer'[t[j]] <=> j + c < k + c
        BY <2>1, <3>1, <4>1
      <4> QED
        BY <4>2
    <3> QED
      BY <1>7, <3>2, <3>3
  <2> QED
    BY <1>7, <2>2, <2>3
<1>15. NewerIsLive'
  <2> SUFFICES ASSUME NEW j \in 1..m, NEW y \in newer'[t[j]]
               PROVE  y \in Live'
    BY DEF NewerIsLive, t, m
  <2>1. CASE j = m
    BY <1>7, <1>8, <2>1
  <2>2. CASE j < m
    <3>1. newer'[t[j]] = newer[order[j + c]] \cup {id} /\ j + c \in 1..n
      BY <1>2, <1>7, <1>8, <2>2
    <3>2. CASE y = id
      BY <1>10, <3>2
    <3>3. CASE y \in newer[order[j + c]]
      <4>1. y \in Live
        BY <3>1, <3>3 DEF IInv, NewerIsLive, n
      <4>2. PICK k \in 1..n : y = order[k]
        BY <1>1, <4>1
      <4>3. j + c < k
        BY <3>1, <3>3, <4>2 DEF IInv, NewerIsBehind, n
      <4>4. k - c \in 1..(m - 1) /\ (k - c) + c = k
        BY <1>1, <1>7, <4>3
      <4>5. t[k - c] = y
        BY <1>7, <4>2, <4>4
      <4> QED
        BY <1>6, <1>7, <4>4, <4>5
    <3> QED
      BY <3>1, <3>2, <3>3
  <2> QED
    BY <1>7, <2>1, <2>2
<1>16. EvictedOnlyWhenStale'
  <2> SUFFICES ASSUME NEW x \in created' \ Live'
               PROVE  Cardinality(newer'[x]) >= MaxSessions
    BY DEF EvictedOnlyWhenStale
  <2>1. x \in created /\ x # id
    BY <1>3, <1>10
  <2>2. CASE x \notin Live
    <3>1. Cardinality(newer[x]) >= MaxSessions
      BY <2>1, <2>2 DEF IInv, EvictedOnlyWhenStale
    <3> QED
      BY <1>3, <1>9, <2>1, <3>1, StaleStaysStale
  <2>3. CASE x \in Live
    <3>1. PICK k \in 1..n : x = order[k]
      BY <1>1, <2>3
    <3>2. k = 1 /\ c = 1
      <4>1. ASSUME k > c PROVE FALSE
        <5>1. k - c \in 1..(m - 1) /\ (k - c) + c = k
          BY <1>1, <1>7, <4>1
        <5>2. t[k - c] = x
          BY <1>7, <3>1, <5>1
        <5> QED
          BY <1>6, <1>7, <5>1, <5>2
      <4> QED
        BY <1>1, <4>1
    <3>3. n = MaxSessions
      BY <1>5, <3>2
    <3>4. newer[x] = Live \ {x}
      <4>1. \A y \in newer[x] : y \in Live
        BY <3>1 DEF IInv, NewerIsLive, n
      <4>2. \A j \in 1..n : order[j] \in newer[x] <=> k < j
        BY <3>1 DEF IInv, NewerIsBehind, n
      <4>3. \A j \in 1..n : order[j] # x => k < j
        BY <1>1, <3>1, <3>2
      <4>4. x \notin newer[x]
        BY <3>1, <4>2
      <4>5. \A y \in Live \ {x} : y \in newer[x]
        BY <1>1, <4>2, <4>3
      <4> QED
        BY <4>1, <4>4, <4>5
    <3>5. newer'[x] = (Live \ {x}) \cup {id}
      BY <1>2, <1>8, <2>1, <3>4
    <3>6. IsFiniteSet(Live) /\ Cardinality(Live) = n
      BY LiveCardinality DEF n
    <3>7. IsFiniteSet(Live \ {x}) /\ Cardinality(Live \ {x}) = n - 1
      BY <2>3, <3>6, FS_RemoveElement
    <3>8. Cardinality((Live \ {x}) \cup {id}) = (n - 1) + 1
      BY <1>2, <3>7, FS_AddElement
    <3> QED
      BY <1>1, <3>3, <3>5, <3>8
  <2> QED
    BY <2>2, <2>3
<1>17. Fresh'
  BY <1>3 DEF IInv, Fresh
<1>18. LiveSessionIsComplete'
  <2> SUFFICES ASSUME NEW x \in Live'
               PROVE  snapshots'[x] = recorded[x]
    BY <1>3 DEF LiveSessionIsComplete
  <2>1. x \in SessionIds
    BY <1>2, <1>10
  <2>2. CASE x = id
    BY <1>2, <1>3, <2>1, <2>2 DEF IInv, Fresh
  <2>3. CASE x # id
    BY <1>3, <1>6, <1>10, <2>1, <2>3 DEF IInv, LiveSessionIsComplete
  <2> QED
    BY <2>2, <2>3
<1> QED
  BY <1>9, <1>11, <1>12, <1>13, <1>14, <1>15, <1>16, <1>17, <1>18 DEF IInv

\* append() keeps the invariant: a live session gets its snapshot and moves to
\* the end, a session that is gone stays gone.
LEMMA AppendStep ==
    ASSUME IInv, NEW id \in SessionIds, NEW s \in Snapshots,
           AppendSnapshot(id, s)
    PROVE  IInv'
<1>1. /\ id \in created
      /\ created' = created
      /\ recorded' = [recorded EXCEPT ![id] = Append(@, s)]
      /\ recorded \in [SessionIds -> Seq(Snapshots)]
      /\ snapshots \in [SessionIds -> Seq(Snapshots)]
      /\ created \subseteq SessionIds
  BY DEF AppendSnapshot, IInv, TypeOK
<1>2. recorded' \in [SessionIds -> Seq(Snapshots)]
  BY <1>1
<1>3. Fresh'
  BY <1>1 DEF IInv, Fresh
<1>4. CASE id \in Live
  <2>1. /\ Touch(id)
        /\ newer' = Used(id, created)
        /\ snapshots' = [snapshots EXCEPT ![id] = Append(@, s)]
    BY <1>4 DEF AppendSnapshot
  <2>2. /\ order' \in Seq(SessionIds)
        /\ newer' \in [SessionIds -> SUBSET created']
        /\ Bounded'
        /\ Live' = Live
        /\ NewerIsBehind'
        /\ NewerIsLive'
        /\ EvictedOnlyWhenStale'
    BY <1>1, <1>4, <2>1, TouchStep
  <2>3. snapshots' \in [SessionIds -> Seq(Snapshots)]
    BY <1>1, <2>1
  <2>4. TypeOK'
    BY <1>1, <1>2, <2>2, <2>3 DEF TypeOK
  <2>5. LiveSessionIsComplete'
    BY <1>1, <2>1, <2>2 DEF IInv, LiveSessionIsComplete
  <2> QED
    BY <1>1, <1>3, <2>2, <2>4, <2>5 DEF IInv
<1>5. CASE id \notin Live
  <2>1. UNCHANGED <<order, snapshots, newer, created>>
    BY <1>1, <1>5 DEF AppendSnapshot
  <2>2. TypeOK'
    BY <1>1, <1>2, <2>1 DEF IInv, TypeOK
  <2>3. Live' = Live
    BY <2>1 DEF Live
  <2>4. LiveSessionIsComplete'
    BY <1>1, <1>5, <2>1, <2>3 DEF IInv, LiveSessionIsComplete, Live, TypeOK
  <2> QED
    BY <1>3, <2>1, <2>2, <2>3, <2>4
       DEF IInv, Bounded, NewerIsBehind, NewerIsLive, EvictedOnlyWhenStale
<1> QED
  BY <1>4, <1>5

\* get() keeps the invariant: a poll refreshes a session and changes no list.
LEMMA GetStep ==
    ASSUME IInv, NEW id \in SessionIds, GetHit(id)
    PROVE  IInv'
<1>1. /\ id \in Live
      /\ Touch(id)
      /\ newer' = Used(id, created)
      /\ UNCHANGED <<snapshots, created, recorded>>
  BY DEF GetHit
<1>2. /\ order' \in Seq(SessionIds)
      /\ newer' \in [SessionIds -> SUBSET created']
      /\ Bounded'
      /\ Live' = Live
      /\ NewerIsBehind'
      /\ NewerIsLive'
      /\ EvictedOnlyWhenStale'
  BY <1>1, TouchStep
<1>3. TypeOK'
  BY <1>1, <1>2 DEF IInv, TypeOK
<1>4. Fresh' /\ LiveSessionIsComplete'
  BY <1>1, <1>2 DEF IInv, Fresh, LiveSessionIsComplete
<1> QED
  BY <1>1, <1>2, <1>3, <1>4 DEF IInv

-----------------------------------------------------------------------------

\* Every method of the store keeps the inductive invariant.
LEMMA NextIInv == IInv /\ [Next]_vars => IInv'
<1> SUFFICES ASSUME IInv, [Next]_vars PROVE IInv'
  OBVIOUS
<1>1. ASSUME NEW id \in SessionIds, Create(id) PROVE IInv'
  BY <1>1, CreateStep
<1>2. ASSUME NEW id \in SessionIds, NEW s \in Snapshots, AppendSnapshot(id, s)
      PROVE  IInv'
  BY <1>2, AppendStep
<1>3. ASSUME NEW id \in SessionIds, GetHit(id) PROVE IInv'
  BY <1>3, GetStep
<1>4. ASSUME UNCHANGED vars PROVE IInv'
  BY <1>4 DEF vars, IInv, TypeOK, Bounded, Live, NewerIsBehind, NewerIsLive,
              EvictedOnlyWhenStale, Fresh, LiveSessionIsComplete
<1>5. ASSUME NEW id \in SessionIds, GetMiss(id) PROVE IInv'
  BY <1>4, <1>5 DEF GetMiss
<1> QED
  BY <1>1, <1>2, <1>3, <1>4, <1>5 DEF Next

\* The inductive invariant holds of every state the store's methods reach.
LEMMA Invariance == Spec => []IInv
  BY InitIInv, NextIInv, PTL DEF Spec

\* The store's state is well formed.
THEOREM TypeCorrect == Spec => []TypeOK
<1>1. IInv => TypeOK
  BY DEF IInv
<1> QED
  BY <1>1, Invariance, PTL

\* After every method the Map holds at most MAX_SESSIONS sessions, none twice,
\* whatever the interleaving of uploads and polls.
THEOREM CapHolds == Spec => []Bounded
<1>1. IInv => Bounded
  BY DEF IInv
<1> QED
  BY <1>1, Invariance, PTL

\* No session is lost before MAX_SESSIONS others have been used after it.
THEOREM EvictionIsFair == Spec => []EvictedOnlyWhenStale
<1>1. IInv => EvictedOnlyWhenStale
  BY DEF IInv
<1> QED
  BY <1>1, Invariance, PTL

\* A session that can be polled shows everything recorded for it.
THEOREM PollsAreComplete == Spec => []LiveSessionIsComplete
<1>1. IInv => LiveSessionIsComplete
  BY DEF IInv
<1> QED
  BY <1>1, Invariance, PTL

-----------------------------------------------------------------------------
(* The store implements RecencyCache.  Its order of last use is the order of *)
(* the Map's keys, and a session outside the Map has no list.                *)

GoneIsEmpty == \A id \in SessionIds \ Live : snapshots[id] = <<>>

\* One was used before the other: it stands before it in the Map.
LEMMA OlderIsBefore ==
    ASSUME IInv
    PROVE  \A p : p \in OlderThan <=>
               \E i, j \in 1..Len(order) : i < j /\ p = <<order[i], order[j]>>
  BY OrderFacts DEF OlderThan

\* The same of the next state, whose order need not be shown well formed here.
LEMMA OlderIsBeforeThen ==
    ASSUME DOMAIN order' = 1..Len(order'),
           Live' = {order'[j] : j \in 1..Len(order')}
    PROVE  \A p : p \in OlderThan' <=>
               \E i, j \in 1..Len(order') :
                   i < j /\ p = <<order'[i], order'[j]>>
  BY DEF OlderThan

\* Delete and reinsert make the session the one used last, and nothing else.
LEMMA TouchRefines ==
    ASSUME IInv, NEW id \in SessionIds, id \in Live, Touch(id)
    PROVE  Live' = Live /\ OlderThan' = Promise!UsedLast(Live, id)
<1> DEFINE n == Len(order)
           t == order'
<1>1. /\ n \in Nat
      /\ DOMAIN order = 1..n
      /\ \A j \in 1..n : order[j] \in SessionIds
      /\ NoRepeat(n, order)
      /\ Live = {order[j] : j \in 1..n}
  BY OrderFacts
<1>2. order \in Seq(SessionIds)
  BY DEF IInv, TypeOK
<1>3. PICK i \in 1..n : order[i] = id /\ order' = Append(DeleteAt(order, i), id)
  BY <1>1 DEF Touch
<1>4. t \in Seq(SessionIds) /\ Len(t) = n /\ MovedToEnd(n, i, order, t)
  BY <1>2, <1>3, TouchSeq
<1>5. DOMAIN t = 1..n
  BY <1>1, <1>4
<1>6. NoRepeat(n, t) /\ SameKeys(n, order, t)
  BY <1>1, <1>4, TouchOrder
<1>7. Live' = {t[j] : j \in 1..n}
  BY <1>5, Zenon DEF Live
<1>8. Live' = Live
  BY <1>1, <1>6, <1>7 DEF SameKeys
<1>9. \A p : p \in OlderThan <=>
         \E a, b \in 1..n : a < b /\ p = <<order[a], order[b]>>
  BY OlderIsBefore
<1>10. \A p : p \in OlderThan' <=>
         \E a, b \in 1..n : a < b /\ p = <<t[a], t[b]>>
  BY <1>4, <1>5, <1>7, OlderIsBeforeThen
<1> DEFINE was(m) == IF m < i THEN m ELSE IF m < n THEN m + 1 ELSE i
           now(m) == IF m < i THEN m ELSE IF m = i THEN n ELSE m - 1
<1>11. \A m \in 1..n : /\ was(m) \in 1..n
                       /\ t[m] = order[was(m)]
                       /\ m < n => was(m) # i
  BY <1>1, <1>3, <1>4 DEF MovedToEnd
<1>12. \A m \in 1..n : /\ now(m) \in 1..n
                       /\ t[now(m)] = order[m]
                       /\ m # i => now(m) < n
  BY <1>1, <1>3, <1>4 DEF MovedToEnd
<1>13. \A a, b \in 1..n : a < b /\ b < n => was(a) < was(b)
  BY <1>1, <1>3
<1>14. \A a, b \in 1..n : a < b /\ a # i /\ b # i => now(a) < now(b)
  BY <1>1, <1>3
<1>15. t[n] = id
  BY <1>1, <1>3, <1>4 DEF MovedToEnd
<1> HIDE DEF n, t, was, now
<1>16. \A a \in 1..n : a # i => order[a] # id
  BY <1>1, <1>3 DEF NoRepeat
<1>17. ASSUME NEW p \in OlderThan' PROVE p \in Promise!UsedLast(Live, id)
  <2>1. PICK a, b \in 1..n : a < b /\ p = <<t[a], t[b]>>
    BY <1>10, <1>17
  <2>2. CASE b = n
    <3>1. t[a] \in Live /\ t[a] # id
      BY <1>1, <1>11, <1>16, <2>1, <2>2
    <3> QED
      BY <1>15, <2>1, <2>2, <3>1 DEF Promise!UsedLast
  <2>3. CASE b # n
    <3>1. a < n /\ b < n
      BY <1>1, <2>1, <2>3
    <3>2. p = <<order[was(a)], order[was(b)]>> /\ was(a) < was(b)
      BY <1>11, <1>13, <2>1, <3>1
    <3>3. p \in OlderThan /\ order[was(a)] # id /\ order[was(b)] # id
      BY <1>9, <1>11, <1>16, <3>1, <3>2
    <3> QED
      BY <1>1, <1>11, <3>2, <3>3 DEF Promise!UsedLast
  <2> QED
    BY <2>2, <2>3
<1>18. ASSUME NEW p \in Promise!UsedLast(Live, id) PROVE p \in OlderThan'
  <2>1. CASE p \in OlderThan /\ p[1] # id /\ p[2] # id
    <3>1. PICK a, b \in 1..n : a < b /\ p = <<order[a], order[b]>>
      BY <1>9, <2>1
    <3>2. a # i /\ b # i
      BY <1>3, <2>1, <3>1
    <3>3. p = <<t[now(a)], t[now(b)]>> /\ now(a) < now(b)
      BY <1>12, <1>14, <3>1, <3>2
    <3> QED
      BY <1>10, <1>12, <3>3
  <2>2. ASSUME NEW x \in Live \ {id}, p = <<x, id>> PROVE p \in OlderThan'
    <3>1. PICK a \in 1..n : x = order[a] /\ a # i
      BY <1>1, <1>3
    <3>2. p = <<t[now(a)], t[n]>> /\ now(a) < n
      BY <1>12, <1>15, <2>2, <3>1
    <3>3. n \in 1..n /\ now(a) \in 1..n
      BY <1>1, <1>12
    <3> QED
      BY <1>10, <2>2, <3>2, <3>3
  <2> QED
    BY <1>18, <2>1, <2>2 DEF Promise!UsedLast
<1> QED
  BY <1>8, <1>17, <1>18

\* The cache counts as the store does.
LEMMA SameCount == \A S : Promise!Cardinality(S) = Cardinality(S)
  BY DEF Promise!Cardinality, Cardinality

\* A new session is the one used last; what it evicts, if anything, was the one
\* unused for longest.
LEMMA CreateRefines ==
    ASSUME IInv, GoneIsEmpty, NEW id \in SessionIds, Create(id)
    PROVE  \/ Promise!AdmitWithRoom(id)
           \/ \E victim \in SessionIds : Promise!AdmitByEvicting(id, victim)
<1> DEFINE n == Len(order)
           t == order'
           m == Len(t)
<1>1. /\ n \in Nat
      /\ n <= MaxSessions
      /\ DOMAIN order = 1..n
      /\ \A j \in 1..n : order[j] \in SessionIds
      /\ NoRepeat(n, order)
      /\ Live = {order[j] : j \in 1..n}
      /\ \A j \in 1..n : order[j] \in created
  BY OrderFacts
<1>2. /\ order \in Seq(SessionIds)
      /\ id \notin created
      /\ snapshots \in [SessionIds -> Seq(Snapshots)]
  BY DEF IInv, TypeOK, Create
<1>3. /\ order' = EvictIfNeeded(Append(order, id))
      /\ snapshots' = [k \in SessionIds |->
                         IF k \in Keys(order') /\ k # id
                         THEN snapshots[k] ELSE <<>>]
  BY DEF Create
<1>4. t \in Seq(SessionIds) /\ DOMAIN t = 1..m
  BY <1>1, <1>2, <1>3, AdmitSeq
<1>5. PICK c \in {0, 1} : /\ AdmittedAfter(n, c, order, m, t, id)
                          /\ m <= MaxSessions
                          /\ c = 1 => n = MaxSessions
  <2>1. Admits(order, order', id)
    BY <1>1, <1>2, <1>3, AdmitSeq
  <2> QED
    BY <2>1 DEF Admits
<1>6. Live' = {t[j] : j \in 1..m} /\ Live' = Keys(order')
  <2>1. Live' = {t[j] : j \in DOMAIN t} /\ Live' = Keys(order')
    BY DEF Live, Keys
  <2> QED
    BY <1>4, <2>1, Zenon
<1>7. \A p : p \in OlderThan <=>
         \E a, b \in 1..n : a < b /\ p = <<order[a], order[b]>>
  BY OlderIsBefore
<1>8. \A p : p \in OlderThan' <=>
         \E a, b \in 1..m : a < b /\ p = <<t[a], t[b]>>
  BY <1>4, <1>6, OlderIsBeforeThen
<1>9. IsFiniteSet(Live) /\ Cardinality(Live) = n
  BY LiveCardinality
<1> HIDE DEF n, t, m
<1>10. /\ m = n - c + 1
       /\ m \in Nat \ {0}
       /\ t[m] = id
       /\ \A j \in 1..(m - 1) : j + c \in 1..n /\ t[j] = order[j + c]
  BY <1>1, <1>5 DEF AdmittedAfter
<1>11. id \notin Live /\ \A j \in 1..n : order[j] # id
  BY <1>1, <1>2
\* Who is left, and that the order among them is what it was.
<1>12. \A x : x \in Live' <=> x = id \/ \E a \in (1 + c)..n : x = order[a]
  <2>1. ASSUME NEW a \in (1 + c)..n PROVE order[a] \in Live'
    <3>1. a - c \in 1..(m - 1) /\ (a - c) + c = a
      BY <1>1, <1>10
    <3>2. t[a - c] = order[a] /\ a - c \in 1..m
      BY <1>10, <3>1
    <3> QED
      BY <1>6, <3>2
  <2>2. id \in Live'
    BY <1>6, <1>10
  <2>3. ASSUME NEW x \in Live', x # id
        PROVE  \E a \in (1 + c)..n : x = order[a]
    <3>1. PICK j \in 1..m : x = t[j]
      BY <1>6, <2>3
    <3>2. j \in 1..(m - 1)
      BY <1>10, <2>3, <3>1
    <3>3. j + c \in (1 + c)..n /\ x = order[j + c]
      BY <1>1, <1>10, <3>1, <3>2
    <3> QED
      BY <3>3
  <2> QED
    BY <2>1, <2>2, <2>3
<1>13. \A p : p \in OlderThan' <=>
          \/ \E a, b \in (1 + c)..n : a < b /\ p = <<order[a], order[b]>>
          \/ \E a \in (1 + c)..n : p = <<order[a], id>>
  <2>1. ASSUME NEW a \in (1 + c)..n, NEW b \in (1 + c)..n, a < b
        PROVE  <<order[a], order[b]>> \in OlderThan'
    <3>1. /\ a - c \in 1..(m - 1) /\ (a - c) + c = a
          /\ b - c \in 1..(m - 1) /\ (b - c) + c = b
          /\ a - c < b - c
      BY <1>1, <1>10, <2>1
    <3>2. t[a - c] = order[a] /\ t[b - c] = order[b]
      BY <1>10, <3>1
    <3>3. a - c \in 1..m /\ b - c \in 1..m
      BY <1>10, <3>1
    <3> QED
      BY <1>8, <3>1, <3>2, <3>3
  <2>2. ASSUME NEW a \in (1 + c)..n PROVE <<order[a], id>> \in OlderThan'
    <3>1. a - c \in 1..(m - 1) /\ (a - c) + c = a
      BY <1>1, <1>10
    <3>2. t[a - c] = order[a] /\ a - c \in 1..m /\ m \in 1..m /\ a - c < m
      BY <1>10, <3>1
    <3> QED
      BY <1>8, <1>10, <3>2
  <2>3. ASSUME NEW j \in 1..m, NEW k \in 1..m, j < k
        PROVE  \/ \E a, b \in (1 + c)..n :
                      a < b /\ <<t[j], t[k]>> = <<order[a], order[b]>>
               \/ \E a \in (1 + c)..n : <<t[j], t[k]>> = <<order[a], id>>
    <3>1. j \in 1..(m - 1) /\ j + c \in (1 + c)..n /\ t[j] = order[j + c]
      BY <1>1, <1>10, <2>3
    <3>2. CASE k = m
      BY <1>10, <3>1, <3>2
    <3>3. CASE k # m
      <4>1. k + c \in (1 + c)..n /\ t[k] = order[k + c] /\ j + c < k + c
        BY <1>1, <1>10, <2>3, <3>1, <3>3
      <4> QED
        BY <3>1, <4>1
    <3> QED
      BY <3>2, <3>3
  <2> QED
    BY <1>8, <2>1, <2>2, <2>3
<1>14. OlderThan' = Promise!UsedLast(Live', id)
  <2>1. ASSUME NEW p \in OlderThan' PROVE p \in Promise!UsedLast(Live', id)
    <3>1. CASE \E a, b \in (1 + c)..n : a < b /\ p = <<order[a], order[b]>>
      <4>1. PICK a, b \in (1 + c)..n : a < b /\ p = <<order[a], order[b]>>
        BY <3>1
      <4>2. a \in 1..n /\ b \in 1..n
        BY <1>1
      <4>3. p \in OlderThan /\ order[a] # id /\ order[b] # id
        BY <1>7, <1>11, <4>1, <4>2
      <4>4. order[a] \in Live' /\ order[b] \in Live'
        BY <1>12
      <4> QED
        BY <4>1, <4>3, <4>4 DEF Promise!UsedLast
    <3>2. CASE \E a \in (1 + c)..n : p = <<order[a], id>>
      <4>1. PICK a \in (1 + c)..n : p = <<order[a], id>>
        BY <3>2
      <4>2. order[a] # id /\ order[a] \in Live'
        BY <1>1, <1>11, <1>12
      <4> QED
        BY <4>1, <4>2 DEF Promise!UsedLast
    <3> QED
      BY <1>13, <2>1, <3>1, <3>2
  <2>2. ASSUME NEW p \in Promise!UsedLast(Live', id) PROVE p \in OlderThan'
    <3>1. CASE /\ p \in OlderThan
               /\ p[1] \in Live' /\ p[2] \in Live' /\ p[1] # id /\ p[2] # id
      <4>1. PICK a, b \in 1..n : a < b /\ p = <<order[a], order[b]>>
        BY <1>7, <3>1
      <4>2. PICK d, e \in (1 + c)..n : order[a] = order[d] /\ order[b] = order[e]
        BY <1>12, <3>1, <4>1
      <4>3. d = a /\ e = b
        BY <1>1, <4>2 DEF NoRepeat
      <4> QED
        BY <1>13, <4>1, <4>2, <4>3
    <3>2. ASSUME NEW x \in Live' \ {id}, p = <<x, id>> PROVE p \in OlderThan'
      BY <1>12, <1>13, <3>2
    <3> QED
      BY <2>2, <3>1, <3>2 DEF Promise!UsedLast
  <2> QED
    BY <2>1, <2>2
\* The two cases.
<1>15. CASE c = 0
  <2>1. Live' = Live \cup {id}
    BY <1>1, <1>12, <1>15
  <2>2. snapshots' = snapshots
    <3>1. \A k \in SessionIds : snapshots'[k] = snapshots[k]
      BY <1>3, <1>6, <1>11, <2>1 DEF GoneIsEmpty
    <3> QED
      BY <1>2, <1>3, <3>1
  <2>3. Cardinality(Live) < MaxSessions
    BY <1>1, <1>5, <1>9, <1>10, <1>15, MaxSessionsAssumption
  <2> QED
    BY <1>11, <1>14, <2>1, <2>2, <2>3, SameCount
    DEF Promise!AdmitWithRoom
<1>16. CASE c = 1
  <2>1. n = MaxSessions /\ 1 \in 1..n
    BY <1>1, <1>5, <1>16, MaxSessionsAssumption
  <2> DEFINE victim == order[1]
  <2>2. victim \in Live /\ victim \in SessionIds /\ victim # id
    BY <1>1, <1>11, <2>1
  <2>3. \A a \in 1..n : order[a] # victim <=> a \in 2..n
    BY <1>1, <2>1 DEF NoRepeat
  <2>4. \A y \in Live \ {victim} : <<victim, y>> \in OlderThan
    <3> SUFFICES ASSUME NEW y \in Live \ {victim}
                 PROVE  <<victim, y>> \in OlderThan
      OBVIOUS
    <3>1. PICK a \in 1..n : y = order[a] /\ 1 < a
      BY <1>1, <2>3
    <3> QED
      BY <1>7, <2>1, <3>1
  <2>5. Live' = (Live \ {victim}) \cup {id}
    <3>1. \A x : x \in Live' <=> x = id \/ \E a \in 2..n : x = order[a]
      BY <1>12, <1>16
    <3>2. \A x : x \in Live \ {victim} <=> \E a \in 2..n : x = order[a]
      BY <1>1, <2>3
    <3> HIDE DEF victim
    <3> QED
      BY <3>1, <3>2
  <2> HIDE DEF victim
  <2>6. snapshots' = [snapshots EXCEPT ![victim] = <<>>]
    <3>1. \A k \in SessionIds : snapshots'[k] =
             IF k = victim THEN <<>> ELSE snapshots[k]
      BY <1>3, <1>6, <1>11, <2>2, <2>5 DEF GoneIsEmpty
    <3> QED
      BY <1>2, <1>3, <3>1
  <2> QED
    BY <1>9, <1>11, <1>14, <2>1, <2>2, <2>4, <2>5, <2>6,
       SameCount
    DEF Promise!AdmitByEvicting
<1> QED
  BY <1>15, <1>16

\* Every method of the store keeps what is gone empty, and is an operation of the
\* cache or leaves it alone.
LEMMA StepRefines ==
    ASSUME IInv, GoneIsEmpty, [Next]_vars
    PROVE  GoneIsEmpty' /\ [Promise!Next]_(Promise!vars)
<1>1. ASSUME UNCHANGED <<order, snapshots>>
      PROVE  GoneIsEmpty' /\ UNCHANGED Promise!vars
  BY <1>1 DEF GoneIsEmpty, Live, OlderThan, Promise!vars
<1>2. ASSUME NEW id \in SessionIds, Create(id)
      PROVE  GoneIsEmpty' /\ Promise!Next
  <2>1. GoneIsEmpty'
    <3>1. /\ Live' = Keys(order')
          /\ snapshots' = [k \in SessionIds |->
                             IF k \in Keys(order') /\ k # id
                             THEN snapshots[k] ELSE <<>>]
      BY <1>2 DEF Create, Live, Keys
    <3> QED
      BY <3>1 DEF GoneIsEmpty
  <2> QED
    BY <1>2, <2>1, CreateRefines DEF Promise!Next
<1>3. ASSUME NEW id \in SessionIds, NEW s \in Snapshots,
             AppendSnapshot(id, s)
      PROVE  GoneIsEmpty' /\ [Promise!Next]_(Promise!vars)
  <2>1. CASE id \in Live
    <3>1. Touch(id) /\ snapshots' = [snapshots EXCEPT ![id] = Append(@, s)]
      BY <1>3, <2>1 DEF AppendSnapshot
    <3>2. Live' = Live /\ OlderThan' = Promise!UsedLast(Live, id)
      BY <2>1, <3>1, TouchRefines
    <3>3. GoneIsEmpty'
      BY <2>1, <3>1, <3>2 DEF GoneIsEmpty, IInv, TypeOK
    <3>4. Promise!Extend(id, s)
      BY <2>1, <3>1, <3>2 DEF Promise!Extend
    <3> QED
      BY <3>3, <3>4 DEF Promise!Next
  <2>2. CASE id \notin Live
    BY <1>1, <1>3, <2>2 DEF AppendSnapshot
  <2> QED
    BY <2>1, <2>2
<1>4. ASSUME NEW id \in SessionIds, GetHit(id)
      PROVE  GoneIsEmpty' /\ Promise!Next
  <2>1. id \in Live /\ Touch(id) /\ snapshots' = snapshots
    BY <1>4 DEF GetHit
  <2>2. Live' = Live /\ OlderThan' = Promise!UsedLast(Live, id)
    BY <2>1, TouchRefines
  <2>3. GoneIsEmpty'
    BY <2>1, <2>2 DEF GoneIsEmpty
  <2>4. Promise!Read(id)
    BY <2>1, <2>2 DEF Promise!Read
  <2> QED
    BY <2>3, <2>4 DEF Promise!Next
<1> QED
  BY <1>1, <1>2, <1>3, <1>4 DEF Next, GetMiss, vars

\* The Map, with its deletes and reinserts, is the cache it promises to be: it
\* admits sessions empty, extends them while they are there, and evicts only the
\* one unused for longest, and only when full.
THEOREM StoreIsACache == Spec => ImplementsRecencyCache
<1>1. Init => GoneIsEmpty /\ Promise!Init
  BY DEF Init, GoneIsEmpty, Live, OlderThan, Promise!Init
<1>2. IInv /\ GoneIsEmpty /\ [Next]_vars =>
          GoneIsEmpty' /\ [Promise!Next]_(Promise!vars)
  BY StepRefines
<1> QED
  BY <1>1, <1>2, Invariance, PTL
  DEF Spec, ImplementsRecencyCache, Promise!Spec

-----------------------------------------------------------------------------
(* Where each request is, apart from the store.                            *)

FlowTypeOK ==
    /\ phase \in [Requests -> {"new", "uploading", "landed", "done", "failed"}]
    /\ kind \in [Requests -> Kinds]
    /\ size \in [Requests -> 0..MaxSize]
    /\ lastLoaded \in [Requests -> 0..MaxSize]
    /\ stored \subseteq Requests

FlowOf(r) ==
    /\ lastLoaded[r] <= size[r]
    /\ phase[r] = "new" => lastLoaded[r] = 0
    /\ phase[r] \in {"landed", "done"} => r \in stored

FlowInv == FlowTypeOK /\ \A r \in Requests : FlowOf(r)

\* No request has begun.
LEMMA FlowInit == UploadsInit => FlowInv
  BY MaxSizeAssumption DEF UploadsInit, FlowInv, FlowTypeOK, FlowOf, Requests,
     Kinds

\* Each piece of a handler moves its own request alone.
LEMMA FlowStep == FlowInv /\ [UploadsNext]_allVars => FlowInv'
<1> SUFFICES ASSUME FlowInv, [UploadsNext]_allVars PROVE FlowInv'
  OBVIOUS
<1> USE MaxSizeAssumption DEF FlowInv, FlowTypeOK, FlowOf, Requests, Kinds
<1>1. ASSUME NEW r \in Requests, NEW route \in Kinds,
             NEW length \in 0..MaxSize, Start(r, route, length)
      PROVE  FlowInv'
  BY <1>1 DEF Start
<1>2. ASSUME NEW r \in Requests, OnProgress(r) PROVE FlowInv'
  BY <1>2 DEF OnProgress
<1>3. ASSUME NEW r \in Requests, ObjectLands(r) PROVE FlowInv'
  BY <1>3 DEF ObjectLands
<1>4. ASSUME NEW r \in Requests, UploadRejects(r) PROVE FlowInv'
  BY <1>4 DEF UploadRejects
<1>5. ASSUME NEW r \in Requests, Respond(r) PROVE FlowInv'
  BY <1>5 DEF Respond
<1>6. ASSUME NEW r \in Requests, PollHit(r) \/ PollMiss(r) PROVE FlowInv'
  BY <1>6 DEF PollHit, PollMiss, uploadVars
<1>7. CASE UNCHANGED allVars
  BY <1>7 DEF allVars, uploadVars
<1> QED
  BY <1>1, <1>2, <1>3, <1>4, <1>5, <1>6, <1>7 DEF UploadsNext

-----------------------------------------------------------------------------
(* The handlers drive the store through its methods only.                  *)

\* What a handler records is a snapshot of the store's kind.
LEMMA RecordsSnapshots ==
    ASSUME FlowInv, NEW r \in Requests
    PROVE  /\ [loaded |-> FinalCount(r), final |-> TRUE] \in Snapshots
           /\ lastLoaded[r] < size[r] =>
                [loaded |-> lastLoaded[r] + 1, final |-> FALSE] \in Snapshots
  BY MaxSizeAssumption
     DEF FlowInv, FlowTypeOK, FlowOf, FinalCount, Snapshot

\* A step of a handler is one of the store, or leaves the store alone.
LEMMA StepIsStoreStep == FlowInv /\ [UploadsNext]_allVars => [Next]_vars
<1> SUFFICES ASSUME FlowInv, [UploadsNext]_allVars PROVE [Next]_vars
  OBVIOUS
<1> USE DEF Requests, Next
<1>1. ASSUME NEW r \in Requests, NEW route \in Kinds,
             NEW length \in 0..MaxSize, Start(r, route, length)
      PROVE  Next
  BY <1>1 DEF Start
<1>2. ASSUME NEW r \in Requests, OnProgress(r) PROVE Next
  BY <1>2, RecordsSnapshots DEF OnProgress
<1>3. ASSUME NEW r \in Requests, ObjectLands(r) \/ UploadRejects(r)
      PROVE  UNCHANGED vars
  BY <1>3 DEF ObjectLands, UploadRejects
<1>4. ASSUME NEW r \in Requests, Respond(r) PROVE Next
  BY <1>4, RecordsSnapshots DEF Respond
<1>5. ASSUME NEW r \in Requests, PollHit(r) \/ PollMiss(r) PROVE Next
  BY <1>5 DEF PollHit, PollMiss
<1>6. CASE UNCHANGED allVars
  BY <1>6 DEF allVars
<1> QED
  BY <1>1, <1>2, <1>3, <1>4, <1>5, <1>6 DEF UploadsNext

\* However the pieces of the handlers interleave, the store sees a behaviour of
\* its own specification (uploads.service.ts and uploads.controller.ts reach the
\* Map through create, append and get alone).
THEOREM HandlersDriveTheStore == UploadsSpec => Spec
<1>1. UploadsInit => Init
  BY DEF UploadsInit
<1>2. UploadsSpec => []FlowInv
  BY FlowInit, FlowStep, PTL DEF UploadsSpec
<1> QED
  BY <1>1, <1>2, StepIsStoreStep, PTL DEF UploadsSpec, Spec

\* So the store keeps its cap under concurrent uploads and polls, evicts only
\* what has not been used lately, and a session still present is complete.
THEOREM StoreUnderUploads ==
    UploadsSpec => [](Bounded /\ EvictedOnlyWhenStale /\ LiveSessionIsComplete)
  BY HandlersDriveTheStore, CapHolds, EvictionIsFair, PollsAreComplete, PTL

\* And under them it is still the cache it promises to be.
THEOREM CacheUnderUploads == UploadsSpec => ImplementsRecencyCache
  BY HandlersDriveTheStore, StoreIsACache, PTL

-----------------------------------------------------------------------------
(* What is recorded of a request, in terms of where it is.                 *)

NotFinal(list) == \A i \in 1..Len(list) : ~list[i].final

\* list ends with the one final snapshot it has.
EndsFinal(list) ==
    /\ Len(list) > 0
    /\ list[Len(list)].final
    /\ \A i \in 1..(Len(list) - 1) : ~list[i].final

Rises(list) ==
    \A i, j \in 1..Len(list) : i < j => list[i].loaded <= list[j].loaded

AtMost(list, n) == \A i \in 1..Len(list) : list[i].loaded <= n

RecordOf(r) ==
    /\ phase[r] # "done" =>
         NotFinal(recorded[r]) /\ AtMost(recorded[r], lastLoaded[r])
    /\ phase[r] = "done" => EndsFinal(recorded[r])
    /\ Rises(recorded[r])

\* An answered poll was answered with a list that ends with its final snapshot.
AnswerOf(r) == polled[r].status = 200 => EndsFinal(polled[r].body)

UploadsInv ==
    /\ IInv
    /\ FlowInv
    /\ polled \in [Requests -> Answer \cup {NotAsked}]
    /\ \A r \in Requests : r \in created <=> phase[r] # "new"
    /\ \A r \in Requests : RecordOf(r) /\ AnswerOf(r)

\* append() adds the snapshot to what is recorded of its session, and nothing to
\* what is recorded of another.
LEMMA AppendRecords ==
    ASSUME TypeOK, NEW r \in Requests, NEW s \in Snapshots,
           AppendSnapshot(r, s)
    PROVE  /\ \A q \in Requests : q # r => recorded'[q] = recorded[q]
           /\ recorded'[r] = Append(recorded[r], s)
           /\ created' = created
  BY DEF TypeOK, AppendSnapshot, Requests

\* A snapshot that is not final and not less than the others keeps a list of
\* such, and any that is not less and final ends it.
LEMMA AppendToList ==
    ASSUME NEW list \in Seq(Snapshots), NEW s \in Snapshots, NEW n \in Nat,
           NotFinal(list), AtMost(list, n), Rises(list), s.loaded >= n
    PROVE  LET longer == Append(list, s) IN
           /\ Rises(longer)
           /\ s.final => EndsFinal(longer)
           /\ ~s.final => NotFinal(longer) /\ AtMost(longer, s.loaded)
<1> DEFINE longer == Append(list, s)
<1>1. /\ Len(list) \in Nat
      /\ Len(longer) = Len(list) + 1
      /\ longer[Len(list) + 1] = s
      /\ \A i \in 1..Len(list) : longer[i] = list[i] /\ list[i] \in Snapshots
  BY AppendProperties, ElementOfSeq
<1>2. \A x \in Snapshots : x.loaded \in Nat
  BY MaxSizeAssumption DEF Snapshot
<1> HIDE DEF longer
<1>3. Rises(longer)
  BY <1>1, <1>2 DEF Rises, AtMost
<1>4. s.final => EndsFinal(longer)
  BY <1>1 DEF EndsFinal, NotFinal
<1>5. ~s.final => NotFinal(longer) /\ AtMost(longer, s.loaded)
  BY <1>1, <1>2 DEF NotFinal, AtMost
<1> QED
  BY <1>3, <1>4, <1>5 DEF longer

\* No request has begun, nothing is recorded, nobody has polled.
LEMMA UploadsInitInv == UploadsInit => UploadsInv
<1> SUFFICES ASSUME UploadsInit PROVE UploadsInv
  OBVIOUS
<1>1. IInv /\ FlowInv
  BY InitIInv, FlowInit DEF UploadsInit
<1>2. \A r \in Requests : RecordOf(r)
  BY DEF UploadsInit, Init, Requests, RecordOf, NotFinal, AtMost, Rises
<1>3. /\ polled \in [Requests -> Answer \cup {NotAsked}]
      /\ \A r \in Requests : AnswerOf(r)
  BY DEF UploadsInit, Requests, AnswerOf, NotAsked
<1>4. \A r \in Requests : r \in created <=> phase[r] # "new"
  BY DEF UploadsInit, Init, Requests
<1> QED
  BY <1>1, <1>2, <1>3, <1>4 DEF UploadsInv

\* A request of which neither the record nor the phase changes keeps its part of
\* the invariant.
LEMMA RecordKept ==
    ASSUME NEW q \in Requests, RecordOf(q),
           recorded'[q] = recorded[q], phase'[q] = phase[q],
           lastLoaded'[q] = lastLoaded[q]
    PROVE  RecordOf(q)'
  BY DEF RecordOf, NotFinal, AtMost, EndsFinal, Rises

LEMMA AnswerKept ==
    ASSUME NEW q \in Requests, AnswerOf(q), polled'[q] = polled[q]
    PROVE  AnswerOf(q)'
  BY DEF AnswerOf, EndsFinal

\* onProgress records a snapshot that is not final and not less than the last.
LEMMA OnProgressRecords ==
    ASSUME UploadsInv, NEW r \in Requests, OnProgress(r)
    PROVE  \A q \in Requests : RecordOf(q)'
<1> DEFINE s == [loaded |-> lastLoaded[r] + 1, final |-> FALSE]
<1>1. TypeOK /\ FlowTypeOK
  BY DEF UploadsInv, IInv, FlowInv
<1>2. s \in Snapshots
  BY RecordsSnapshots DEF UploadsInv, OnProgress
<1>3. /\ \A q \in Requests : q # r => recorded'[q] = recorded[q]
      /\ recorded'[r] = Append(recorded[r], s)
  BY <1>1, <1>2, AppendRecords DEF OnProgress
<1>4. /\ phase' = phase /\ phase[r] = "uploading"
      /\ lastLoaded' = [lastLoaded EXCEPT ![r] = @ + 1]
      /\ lastLoaded[r] \in Nat
      /\ lastLoaded'[r] = lastLoaded[r] + 1
  BY <1>1, MaxSizeAssumption DEF OnProgress, FlowTypeOK
<1>5. RecordOf(r)'
  <2>1. /\ recorded[r] \in Seq(Snapshots)
        /\ NotFinal(recorded[r]) /\ AtMost(recorded[r], lastLoaded[r])
        /\ Rises(recorded[r])
    BY <1>1, <1>4 DEF UploadsInv, RecordOf, TypeOK, Requests
  <2>2. /\ Rises(Append(recorded[r], s))
        /\ NotFinal(Append(recorded[r], s))
        /\ AtMost(Append(recorded[r], s), lastLoaded[r] + 1)
    BY <1>2, <1>4, <2>1, AppendToList
  <2>3. Rises(recorded'[r]) /\ NotFinal(recorded'[r])
        /\ AtMost(recorded'[r], lastLoaded'[r])
    BY <1>3, <1>4, <2>2
  <2> QED
    BY <1>4, <2>3 DEF RecordOf, Rises, NotFinal, AtMost
<1>6. ASSUME NEW q \in Requests, q # r PROVE RecordOf(q)'
  BY <1>1, <1>3, <1>4, <1>6, RecordKept DEF UploadsInv, FlowTypeOK
<1> QED
  BY <1>5, <1>6

\* The continuation records the final snapshot, which is not less either: the
\* file's size is what the library sent at most, and a stream's last report is.
LEMMA RespondRecords ==
    ASSUME UploadsInv, NEW r \in Requests, Respond(r)
    PROVE  \A q \in Requests : RecordOf(q)'
<1> DEFINE s == [loaded |-> FinalCount(r), final |-> TRUE]
<1>1. TypeOK /\ FlowTypeOK
  BY DEF UploadsInv, IInv, FlowInv
<1>2. s \in Snapshots
  BY RecordsSnapshots DEF UploadsInv
<1>3. /\ \A q \in Requests : q # r => recorded'[q] = recorded[q]
      /\ recorded'[r] = Append(recorded[r], s)
  BY <1>1, <1>2, AppendRecords DEF Respond
<1>4. /\ phase' = [phase EXCEPT ![r] = "done"] /\ phase[r] = "landed"
      /\ lastLoaded' = lastLoaded
      /\ lastLoaded[r] \in Nat
      /\ FinalCount(r) \in Nat /\ FinalCount(r) >= lastLoaded[r]
  BY <1>1, MaxSizeAssumption
     DEF Respond, FlowTypeOK, FinalCount, UploadsInv, FlowInv, FlowOf
<1>5. RecordOf(r)'
  <2>1. /\ recorded[r] \in Seq(Snapshots)
        /\ NotFinal(recorded[r]) /\ AtMost(recorded[r], lastLoaded[r])
        /\ Rises(recorded[r])
    BY <1>1, <1>4 DEF UploadsInv, RecordOf, TypeOK, Requests
  <2>2. Rises(Append(recorded[r], s)) /\ EndsFinal(Append(recorded[r], s))
    BY <1>2, <1>4, <2>1, AppendToList
  <2>3. Rises(recorded'[r]) /\ EndsFinal(recorded'[r]) /\ phase'[r] = "done"
    BY <1>1, <1>3, <1>4, <2>2 DEF FlowTypeOK
  <2> QED
    BY <2>3 DEF RecordOf, Rises, EndsFinal
<1>6. ASSUME NEW q \in Requests, q # r PROVE RecordOf(q)'
  BY <1>1, <1>3, <1>4, <1>6, RecordKept DEF UploadsInv, FlowTypeOK
<1> QED
  BY <1>5, <1>6

\* Every step of the handlers keeps the invariant.
LEMMA UploadsStep == UploadsInv /\ [UploadsNext]_allVars => UploadsInv'
<1> SUFFICES ASSUME UploadsInv, [UploadsNext]_allVars PROVE UploadsInv'
  OBVIOUS
<1>1. IInv' /\ FlowInv'
  BY StepIsStoreStep, NextIInv, FlowStep DEF UploadsInv
<1>2. TypeOK /\ FlowTypeOK
  BY DEF UploadsInv, IInv, FlowInv
<1> DEFINE Others == /\ polled' \in [Requests -> Answer \cup {NotAsked}]
                     /\ \A q \in Requests : RecordOf(q)'
                     /\ \A q \in Requests : AnswerOf(q)'
                     /\ \A q \in Requests : q \in created' <=> phase'[q] # "new"
<1>3. ASSUME NEW r \in Requests, NEW route \in Kinds,
             NEW length \in 0..MaxSize, Start(r, route, length)
      PROVE  Others
  <2>1. /\ recorded' = recorded /\ lastLoaded' = lastLoaded
        /\ polled' = polled /\ created' = created \cup {r}
        /\ phase[r] = "new" /\ phase' = [phase EXCEPT ![r] = "uploading"]
    BY <1>3 DEF Start, Create
  <2>2. \A q \in Requests : RecordOf(q)'
    BY <1>2, <2>1
       DEF UploadsInv, FlowTypeOK, RecordOf, NotFinal, AtMost, Rises, EndsFinal
  <2>3. \A q \in Requests : AnswerOf(q)'
    BY <2>1, AnswerKept DEF UploadsInv
  <2> QED
    BY <1>2, <2>1, <2>2, <2>3 DEF UploadsInv, FlowTypeOK
<1>4. ASSUME NEW r \in Requests, OnProgress(r) PROVE Others
  <2>1. /\ polled' = polled /\ created' = created /\ phase' = phase
    BY <1>4 DEF OnProgress, AppendSnapshot
  <2> QED
    BY <1>4, <2>1, OnProgressRecords, AnswerKept DEF UploadsInv
<1>5. ASSUME NEW r \in Requests, ObjectLands(r) \/ UploadRejects(r)
      PROVE  Others
  <2>1. /\ recorded' = recorded /\ lastLoaded' = lastLoaded
        /\ polled' = polled /\ created' = created
        /\ phase[r] = "uploading"
        /\ \E p \in {"landed", "failed"} : phase' = [phase EXCEPT ![r] = p]
    BY <1>5 DEF ObjectLands, UploadRejects, vars
  <2>2. \A q \in Requests : RecordOf(q)'
    BY <1>2, <2>1
       DEF UploadsInv, FlowTypeOK, RecordOf, NotFinal, AtMost, Rises, EndsFinal
  <2>3. \A q \in Requests : AnswerOf(q)'
    BY <2>1, AnswerKept DEF UploadsInv
  <2> QED
    BY <1>2, <2>1, <2>2, <2>3 DEF UploadsInv, FlowTypeOK
<1>6. ASSUME NEW r \in Requests, Respond(r) PROVE Others
  <2>1. /\ polled' = polled /\ created' = created
        /\ phase[r] = "landed" /\ phase' = [phase EXCEPT ![r] = "done"]
    BY <1>6 DEF Respond, AppendSnapshot
  <2> QED
    BY <1>2, <1>6, <2>1, RespondRecords, AnswerKept DEF UploadsInv, FlowTypeOK
<1>7. ASSUME NEW r \in Requests, PollHit(r) \/ PollMiss(r) PROVE Others
  <2>1. /\ recorded' = recorded /\ lastLoaded' = lastLoaded
        /\ phase' = phase /\ created' = created /\ phase[r] = "done"
    BY <1>7 DEF PollHit, PollMiss, GetHit, GetMiss, vars, uploadVars,
                ClientKnowsId
  <2>2. \A q \in Requests : RecordOf(q)'
    BY <2>1, RecordKept DEF UploadsInv
  <2>3. polled \in [Requests -> Answer \cup {NotAsked}]
    BY DEF UploadsInv
  <2>4. CASE PollMiss(r)
    <3>1. polled' = [polled EXCEPT ![r] = NotFound] /\ NotFound \in Answer
      BY <2>4 DEF PollMiss, NotFound, Answer
    <3> QED
      BY <2>1, <2>2, <2>3, <3>1 DEF UploadsInv, AnswerOf, EndsFinal, NotFound
  <2>5. CASE PollHit(r)
    <3>1. /\ polled' = [polled EXCEPT ![r] = Found(snapshots[r])]
          /\ snapshots[r] = recorded[r]
      BY <2>5 DEF PollHit, GetHit, UploadsInv, IInv, LiveSessionIsComplete
    <3>2. EndsFinal(recorded[r]) /\ recorded[r] \in Seq(Snapshots)
      BY <1>2, <2>1 DEF UploadsInv, RecordOf, TypeOK, Requests
    <3>3. Found(recorded[r]) \in Answer /\ Found(recorded[r]).body = recorded[r]
      BY <3>2 DEF Found, Answer
    <3>4. ASSUME NEW q \in Requests PROVE AnswerOf(q)'
      BY <2>3, <3>1, <3>2, <3>3 DEF UploadsInv, AnswerOf, EndsFinal
    <3>5. polled' \in [Requests -> Answer \cup {NotAsked}]
      BY <2>3, <3>1, <3>3
    <3> QED
      BY <2>1, <2>2, <3>4, <3>5 DEF UploadsInv
  <2> QED
    BY <1>7, <2>4, <2>5
<1>8. ASSUME UNCHANGED allVars PROVE Others
  <2>1. /\ recorded' = recorded /\ lastLoaded' = lastLoaded
        /\ phase' = phase /\ created' = created /\ polled' = polled
    BY <1>8 DEF allVars, vars, uploadVars
  <2> QED
    BY <2>1, RecordKept, AnswerKept DEF UploadsInv
<1> HIDE DEF Others
<1>9. Others
  BY <1>3, <1>4, <1>5, <1>6, <1>7, <1>8 DEF UploadsNext
<1> QED
  BY <1>1, <1>9 DEF UploadsInv, Others

LEMMA UploadsInvariance == UploadsSpec => []UploadsInv
  BY UploadsInitInv, UploadsStep, PTL DEF UploadsSpec

-----------------------------------------------------------------------------
(* The theorems.                                                           *)

\* The handlers' state keeps its types, for any requests and any sizes.
THEOREM UploadsTypeCorrect == UploadsSpec => []UploadsTypeOK
<1>1. ASSUME UploadsInv PROVE UploadsTypeOK
  <2>1. TypeOK /\ FlowTypeOK
    BY <1>1 DEF UploadsInv, IInv, FlowInv
  <2>2. polled \in [Requests -> Answer \cup {NotAsked}]
    BY <1>1 DEF UploadsInv
  <2> QED
    BY <2>1, <2>2 DEF UploadsTypeOK, FlowTypeOK
<1> QED
  BY <1>1, UploadsInvariance, PTL

\* However many uploads, callbacks and polls interleave, a final snapshot is
\* recorded last and of a stored object, and a poll with the id that a response
\* carried never shows an unfinished upload.
THEOREM FinalIsStored == UploadsSpec => []FinalMeansStored
<1>1. ASSUME UploadsInv PROVE FinalMeansStored
  <2>1. ASSUME NEW r \in Requests
        PROVE  /\ \A i \in DOMAIN recorded[r] :
                    recorded[r][i].final => r \in stored /\ i = Len(recorded[r])
               /\ polled[r].status = 200 =>
                    /\ polled[r].body # <<>>
                    /\ polled[r].body[Len(polled[r].body)].final
    <3>1. recorded[r] \in Seq(Snapshots) /\ Len(recorded[r]) \in Nat
          /\ DOMAIN recorded[r] = 1..Len(recorded[r])
      BY <1>1 DEF UploadsInv, IInv, TypeOK, Requests
    <3>2. phase[r] = "done" => r \in stored
      BY <1>1 DEF UploadsInv, FlowInv, FlowOf
    <3>3. \A i \in 1..Len(recorded[r]) : recorded[r][i].final =>
             phase[r] = "done" /\ i = Len(recorded[r])
      BY <1>1, <3>1 DEF UploadsInv, RecordOf, NotFinal, EndsFinal
    <3>4. ASSUME polled[r].status = 200
          PROVE  /\ polled[r].body # <<>>
                 /\ polled[r].body[Len(polled[r].body)].final
      BY <1>1, <3>4 DEF UploadsInv, AnswerOf, EndsFinal
    <3> QED
      BY <3>1, <3>2, <3>3, <3>4
  <2> QED
    BY <2>1 DEF FinalMeansStored
<1> QED
  BY <1>1, UploadsInvariance, PTL

\* The bytes of a session that is still there only ever go up, for both routes
\* and wherever the final count comes from.
THEOREM ProgressRises == UploadsSpec => []ProgressNeverGoesBack
<1>1. ASSUME UploadsInv PROVE ProgressNeverGoesBack
  <2>1. \A r \in Live : r \in Requests /\ snapshots[r] = recorded[r]
    BY <1>1 DEF UploadsInv, IInv, TypeOK, LiveSessionIsComplete, Requests
  <2>2. \A r \in Requests : recorded[r] \in Seq(Snapshots)
    BY <1>1 DEF UploadsInv, IInv, TypeOK, Requests
  <2> QED
    BY <1>1, <2>1, <2>2
       DEF UploadsInv, RecordOf, Rises, ProgressNeverGoesBack
<1> QED
  BY <1>1, UploadsInvariance, PTL

=============================================================================
