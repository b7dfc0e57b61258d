-------------------------- MODULE Admission_proofs --------------------------
(***************************************************************************)
(* Proofs about two admission controllers. For every set of calls,         *)
(* sessions and kinds and every choice of limits, the tool scheduler's     *)
(* counters are exact, it implements the abstract permit pool and so       *)
(* exceeds none of its four in-flight limits, and nobody waits in vain or  *)
(* is passed. And for every set of keys and clients and every number of    *)
(* generations, the runtimes that exist stay within their limit, one per   *)
(* key, and a leased one stays.                                            *)
(***************************************************************************)
EXTENDS ToolScheduler, RuntimeResidency, FiniteSetTheorems, SequenceTheorems, TLAPS

\* How a count changes when one call joins or leaves a set.
LEMMA CountAdd ==
  ASSUME NEW R, IsFiniteSet(R), NEW t, t \notin R, NEW G
  PROVE  Cardinality((R \cup {t}) \cap G) =
           IF t \in G THEN Cardinality(R \cap G) + 1 ELSE Cardinality(R \cap G)
<1>1. IsFiniteSet(R \cap G)
  BY FS_Subset
<1>2. CASE t \in G
  <2>1. (R \cup {t}) \cap G = (R \cap G) \cup {t}
    BY <1>2
  <2> QED BY <1>1, <1>2, <2>1, FS_AddElement
<1>3. CASE t \notin G
  <2>1. (R \cup {t}) \cap G = R \cap G
    BY <1>3
  <2> QED BY <1>3, <2>1
<1> QED BY <1>2, <1>3

LEMMA CountRemove ==
  ASSUME NEW R, IsFiniteSet(R), NEW t \in R, NEW G
  PROVE  Cardinality((R \ {t}) \cap G) =
           IF t \in G THEN Cardinality(R \cap G) - 1 ELSE Cardinality(R \cap G)
<1>1. IsFiniteSet(R \cap G)
  BY FS_Subset
<1>2. CASE t \in G
  <2>1. (R \ {t}) \cap G = (R \cap G) \ {t}
    OBVIOUS
  <2> QED BY <1>1, <1>2, <2>1, FS_RemoveElement
<1>3. CASE t \notin G
  <2>1. (R \ {t}) \cap G = R \cap G
    BY <1>3
  <2> QED BY <1>3, <2>1
<1> QED BY <1>2, <1>3

\* A count is a natural number, zero only for the empty set.
LEMMA CountType ==
  ASSUME NEW R \in SUBSET Tasks, NEW G
  PROVE  /\ IsFiniteSet(R)
         /\ IsFiniteSet(R \cap G)
         /\ Cardinality(R \cap G) \in Nat
         /\ Cardinality(R \cap G) = 0 <=> R \cap G = {}
<1>1. IsFiniteSet(R)
  BY FS_Subset, TasksAssumption
<1>2. IsFiniteSet(R \cap G)
  BY <1>1, FS_Subset
<1> QED BY <1>1, <1>2, FS_CardinalityType, FS_EmptySet

\* A count of a set with a known member is positive.
LEMMA CountPositive ==
  ASSUME NEW R \in SUBSET Tasks, NEW G, NEW t \in R \cap G
  PROVE  Cardinality(R \cap G) \in Nat \ {0}
<1>1. R \cap G # {}
  OBVIOUS
<1> QED BY <1>1, CountType

\* Removing a position from a sequence without repetition.
LEMMA RemoveAtQueue ==
  ASSUME NEW S, NEW s \in Seq(S), NEW i \in 1 .. Len(s)
  PROVE  /\ RemoveAt(s, i) \in Seq(S)
         /\ Len(RemoveAt(s, i)) = Len(s) - 1
         /\ \A j \in 1 .. Len(s) - 1 :
              RemoveAt(s, i)[j] = IF j < i THEN s[j] ELSE s[j + 1]
<1> DEFINE before == SubSeq(s, 1, i - 1)
           after  == SubSeq(s, i + 1, Len(s))
<1>1. s \in [1 .. Len(s) -> S] /\ Len(s) \in Nat
  BY LenProperties
<1>2. /\ before \in Seq(S) /\ Len(before) = i - 1
      /\ \A j \in 1 .. i - 1 : before[j] = s[j]
  BY <1>1, SubSeqProperties
<1>3. /\ after \in Seq(S) /\ Len(after) = Len(s) - i
      /\ \A j \in 1 .. Len(s) - i : after[j] = s[i + j]
  <2>1. \A j \in i + 1 .. Len(s) : s[j] \in S
    BY <1>1
  <2>2. /\ after \in Seq(S)
        /\ Len(after) = IF i + 1 <= Len(s) THEN Len(s) - (i + 1) + 1 ELSE 0
        /\ \A j \in 1 .. Len(s) - (i + 1) + 1 : after[j] = s[(i + 1) + j - 1]
    BY <1>1, <2>1, SubSeqProperties
  <2> HIDE DEF after
  <2>3. Len(after) = Len(s) - i
    <3>1. i \in Int /\ Len(s) \in Int /\ i <= Len(s)
      BY <1>1
    <3>2. CASE i + 1 <= Len(s)
      BY <2>2, <3>1, <3>2
    <3>3. CASE ~(i + 1 <= Len(s))
      BY <2>2, <3>1, <3>3
    <3> QED BY <3>2, <3>3
  <2>4. \A j \in 1 .. Len(s) - i : j \in 1 .. Len(s) - (i + 1) + 1 /\ (i + 1) + j - 1 = i + j
    BY <1>1
  <2> QED BY <2>2, <2>3, <2>4
<1> HIDE DEF before, after
<1>4. RemoveAt(s, i) = before \o after
  BY DEF RemoveAt, before, after
<1>5. /\ before \o after \in Seq(S)
      /\ Len(before \o after) = Len(before) + Len(after)
      /\ \A j \in 1 .. Len(before) + Len(after) : (before \o after)[j] =
           IF j <= Len(before) THEN before[j] ELSE after[j - Len(before)]
  BY <1>2, <1>3, ConcatProperties
<1>6. ASSUME NEW j \in 1 .. Len(s) - 1
      PROVE  (before \o after)[j] = IF j < i THEN s[j] ELSE s[j + 1]
  <2>1. j \in 1 .. Len(before) + Len(after)
    BY <1>1, <1>2, <1>3
  <2>2. CASE j < i
    BY <1>1, <1>2, <1>5, <2>1, <2>2
  <2>3. CASE j >= i
    <3>1. j - (i - 1) \in 1 .. Len(s) - i
      BY <1>1, <2>3
    <3>2. after[j - (i - 1)] = s[i + (j - (i - 1))]
      BY <1>3, <3>1
    <3>3. i + (j - (i - 1)) = j + 1 /\ ~(j <= i - 1) /\ ~(j < i)
      BY <1>1, <2>3
    <3>4. (before \o after)[j] = after[j - (i - 1)]
      BY <1>2, <1>5, <2>1, <3>3
    <3> QED BY <3>2, <3>3, <3>4
  <2>4. j < i \/ j >= i
    BY <1>1
  <2> QED BY <2>2, <2>3, <2>4
<1> QED BY <1>1, <1>2, <1>3, <1>4, <1>5, <1>6

-----------------------------------------------------------------------------
(* The session map *)

TypedMap(map) == map \in [Sessions -> SessionState]

LEMMA NoSessionType == NoSession \in SessionState
  BY DEF NoSession, SessionState

\* Opening an entry changes nothing but its order.
LEMMA WithEntryType ==
  ASSUME NEW map, TypedMap(map), NEW s \in Sessions, nextSessionOrder \in Nat \ {0}
  PROVE  /\ TypedMap(WithEntry(map, s))
         /\ WithEntry(map, s)[s].order # 0
         /\ \A u \in Sessions :
              /\ WithEntry(map, s)[u].inFlight = map[u].inFlight
              /\ WithEntry(map, s)[u].queued = map[u].queued
              /\ WithEntry(map, s)[u].kindInFlight = map[u].kindInFlight
              /\ u # s => WithEntry(map, s)[u] = map[u]
  BY DEF TypedMap, WithEntry, SessionState

\* The map after acquire or release has written the two counters of entry s.
WithCounters(map, s, k, n, m) ==
  [map EXCEPT ![s].inFlight = n, ![s].kindInFlight[k] = m]

\* Writing these counters keeps the map typed and changes nothing else.
LEMMA CountersWritten ==
  ASSUME NEW map, TypedMap(map), NEW s \in Sessions, NEW k \in Kinds,
         NEW n \in Nat, NEW m \in Nat
  PROVE  /\ TypedMap(WithCounters(map, s, k, n, m))
         /\ WithCounters(map, s, k, n, m)[s].inFlight = n
         /\ WithCounters(map, s, k, n, m)[s].queued = map[s].queued
         /\ WithCounters(map, s, k, n, m)[s].order = map[s].order
         /\ \A l \in Kinds : WithCounters(map, s, k, n, m)[s].kindInFlight[l] =
              IF l = k THEN m ELSE map[s].kindInFlight[l]
         /\ \A u \in Sessions \ {s} : WithCounters(map, s, k, n, m)[u] = map[u]
<1> DEFINE new == WithCounters(map, s, k, n, m)
           kinds == [map[s].kindInFlight EXCEPT ![k] = m]
           entry == [order |-> map[s].order, inFlight |-> n,
                     queued |-> map[s].queued, kindInFlight |-> kinds]
           first == [map EXCEPT ![s].inFlight = n]
<1>1. map \in [Sessions -> SessionState]
  BY DEF TypedMap
<1>2. /\ map[s] = [order |-> map[s].order, inFlight |-> map[s].inFlight,
                   queued |-> map[s].queued, kindInFlight |-> map[s].kindInFlight]
      /\ map[s].order \in Nat /\ map[s].queued \in Nat
      /\ map[s].kindInFlight \in [Kinds -> Nat]
  BY <1>1 DEF SessionState
<1>3. /\ kinds \in [Kinds -> Nat]
      /\ \A l \in Kinds : kinds[l] = IF l = k THEN m ELSE map[s].kindInFlight[l]
  BY <1>2
<1>4. /\ DOMAIN first = Sessions
      /\ first[s] = [map[s] EXCEPT !.inFlight = n]
      /\ \A u \in Sessions \ {s} : first[u] = map[u]
  BY <1>1
<1>5. new = [first EXCEPT ![s].kindInFlight[k] = m]
  BY DEF WithCounters
<1> HIDE DEF first, new
<1>6. /\ new = [u \in Sessions |-> new[u]]
      /\ new[s] = [first[s] EXCEPT !.kindInFlight[k] = m]
      /\ \A u \in Sessions \ {s} : new[u] = map[u]
  BY <1>4, <1>5
<1>7. new[s] = entry
  <2> DEFINE once == [order |-> map[s].order, inFlight |-> n,
                      queued |-> map[s].queued, kindInFlight |-> map[s].kindInFlight]
  <2>1. first[s] = once
    BY <1>2, <1>4
  <2>2. [once EXCEPT !.kindInFlight[k] = m] = [once EXCEPT !.kindInFlight = kinds]
    OBVIOUS
  <2>3. [once EXCEPT !.kindInFlight = kinds] = entry
    OBVIOUS
  <2> HIDE DEF once, kinds, entry
  <2> QED BY <1>6, <2>1, <2>2, <2>3
<1> HIDE DEF kinds
<1>8. entry \in SessionState
  BY <1>2, <1>3 DEF SessionState
<1>9. /\ entry.inFlight = n /\ entry.queued = map[s].queued
      /\ entry.order = map[s].order /\ entry.kindInFlight = kinds
  OBVIOUS
<1> HIDE DEF entry
<1>10. TypedMap(new)
  BY <1>1, <1>6, <1>7, <1>8 DEF TypedMap
<1>11. /\ TypedMap(new)
       /\ new[s].inFlight = n /\ new[s].queued = map[s].queued /\ new[s].order = map[s].order
       /\ \A l \in Kinds : new[s].kindInFlight[l] = IF l = k THEN m ELSE map[s].kindInFlight[l]
       /\ \A u \in Sessions \ {s} : new[u] = map[u]
  BY <1>3, <1>6, <1>7, <1>9, <1>10
<1> QED BY <1>11 DEF new

LEMMA WithoutIdleType ==
  ASSUME NEW map, TypedMap(map), NEW s \in Sessions
  PROVE  TypedMap(WithoutIdle(map, s))
  BY NoSessionType DEF TypedMap, WithoutIdle

\* Dropping an idle entry keeps the map exact.
LEMMA WithoutIdleExact ==
  ASSUME NEW map, TypedMap(map), NEW s \in Sessions,
         NEW R \in SUBSET Tasks, NEW Q \in SUBSET Tasks,
         \A u \in Sessions \ {s} : map[u].order # 0 <=> (R \cup Q) \cap InSession(u) # {},
         map[s].order # 0,
         \A u \in Sessions :
           /\ map[u].inFlight = Cardinality(R \cap InSession(u))
           /\ map[u].queued = Cardinality(Q \cap InSession(u))
           /\ \A k \in Kinds :
                map[u].kindInFlight[k] = Cardinality(R \cap InSession(u) \cap OfKind(k))
  PROVE  SessionExact(WithoutIdle(map, s), R, Q)
<1>1. /\ Cardinality(R \cap InSession(s)) = 0 <=> R \cap InSession(s) = {}
      /\ Cardinality(Q \cap InSession(s)) = 0 <=> Q \cap InSession(s) = {}
  <2>1. Cardinality(R \cap InSession(s)) = 0 <=> R \cap InSession(s) = {}
    BY CountType
  <2>2. Cardinality(Q \cap InSession(s)) = 0 <=> Q \cap InSession(s) = {}
    BY CountType
  <2> QED BY <2>1, <2>2
<1>2. CASE map[s].inFlight = 0 /\ map[s].queued = 0
  <2>1. R \cap InSession(s) = {} /\ Q \cap InSession(s) = {}
    BY <1>1, <1>2
  <2>2. \A k \in Kinds : Cardinality(R \cap InSession(s) \cap OfKind(k)) = 0
    BY <2>1, FS_EmptySet
  <2>3. WithoutIdle(map, s) = [map EXCEPT ![s] = NoSession]
    BY <1>2 DEF WithoutIdle
  <2>4. /\ WithoutIdle(map, s)[s] = NoSession
        /\ \A u \in Sessions \ {s} : WithoutIdle(map, s)[u] = map[u]
    BY <2>3 DEF TypedMap
  <2>5. /\ NoSession.order = 0 /\ NoSession.inFlight = 0 /\ NoSession.queued = 0
        /\ \A k \in Kinds : NoSession.kindInFlight[k] = 0
    BY DEF NoSession
  <2>6. Cardinality(R \cap InSession(s)) = 0 /\ Cardinality(Q \cap InSession(s)) = 0
    BY <1>1, <2>1
  <2>7. (R \cup Q) \cap InSession(s) = {}
    BY <2>1
  <2> DEFINE new == WithoutIdle(map, s)
  <2> HIDE DEF new
  <2>8. /\ new[s] = NoSession
        /\ \A u \in Sessions \ {s} : new[u] = map[u]
    BY <2>4 DEF new
  <2>9. ASSUME NEW u \in Sessions
        PROVE  /\ new[u].inFlight = Cardinality(R \cap InSession(u))
               /\ new[u].queued = Cardinality(Q \cap InSession(u))
               /\ \A k \in Kinds :
                    new[u].kindInFlight[k] = Cardinality(R \cap InSession(u) \cap OfKind(k))
               /\ new[u].order # 0 <=> (R \cup Q) \cap InSession(u) # {}
    <3>1. CASE u = s
      BY <3>1, <2>2, <2>5, <2>6, <2>7, <2>8
    <3>2. CASE u # s
      BY <3>2, <2>8
    <3> QED BY <3>1, <3>2
  <2> QED BY <2>9 DEF SessionExact, new
<1>3. CASE ~(map[s].inFlight = 0 /\ map[s].queued = 0)
  <2>1. WithoutIdle(map, s) = map
    BY <1>3 DEF WithoutIdle
  <2>2. (R \cup Q) \cap InSession(s) # {}
    BY <1>1, <1>3
  <2> QED BY <2>1, <2>2 DEF SessionExact
<1> QED BY <1>2, <1>3

\* removeQueuedAccounting: one pending call less.
LEMMA DequeuedExact ==
  ASSUME NEW R \in SUBSET Tasks, NEW Q \in SUBSET Tasks, NEW t \in Q,
         TypedMap(sessions), SessionExact(sessions, R, Q)
  PROVE  /\ TypedMap(Dequeued(SessionOf[t]))
         /\ SessionExact(Dequeued(SessionOf[t]), R, Q \ {t})
<1> DEFINE s == SessionOf[t]
           map == [sessions EXCEPT ![s].queued = Less1(@)]
<1>1. s \in Sessions /\ t \in Tasks /\ t \in InSession(s)
  BY TasksAssumption DEF InSession
<1>2. sessions[s].queued > 0 /\ sessions[s].order # 0
  <2>1. Q \cap InSession(s) # {} /\ (R \cup Q) \cap InSession(s) # {}
    BY <1>1
  <2>2. /\ Cardinality(Q \cap InSession(s)) \in Nat
        /\ Cardinality(Q \cap InSession(s)) # 0
    <3>1. \A G : /\ Cardinality(Q \cap G) \in Nat
                 /\ Cardinality(Q \cap G) = 0 <=> Q \cap G = {}
      BY CountType
    <3> QED BY <2>1, <3>1
  <2>3. /\ sessions[s].queued = Cardinality(Q \cap InSession(s))
        /\ sessions[s].order # 0 <=> (R \cup Q) \cap InSession(s) # {}
    BY <1>1 DEF SessionExact
  <2> QED BY <2>1, <2>2, <2>3
<1>3. Less1(sessions[s].queued) = sessions[s].queued - 1
  BY <1>2 DEF Less1
<1>4. sessions[s].queued - 1 \in Nat
  BY <1>1, <1>2 DEF TypedMap, SessionState
<1>5. /\ TypedMap(map)
      /\ map[s].queued = sessions[s].queued - 1
      /\ map[s].order = sessions[s].order
      /\ map[s].inFlight = sessions[s].inFlight
      /\ map[s].kindInFlight = sessions[s].kindInFlight
      /\ \A u \in Sessions \ {s} : map[u] = sessions[u]
  BY <1>1, <1>3, <1>4 DEF TypedMap, SessionState
<1> HIDE DEF map
<1>6. \A u \in Sessions : Cardinality((Q \ {t}) \cap InSession(u)) =
        IF u = s THEN Cardinality(Q \cap InSession(u)) - 1
        ELSE Cardinality(Q \cap InSession(u))
  <2>1. ASSUME NEW u \in Sessions
        PROVE  t \in InSession(u) <=> u = s
    BY <1>1 DEF InSession
  <2>2. IsFiniteSet(Q)
    BY CountType
  <2>3. \A G : Cardinality((Q \ {t}) \cap G) =
           IF t \in G THEN Cardinality(Q \cap G) - 1 ELSE Cardinality(Q \cap G)
    BY <2>2, CountRemove
  <2> QED BY <2>1, <2>3
<1>7. \A u \in Sessions \ {s} : (R \cup (Q \ {t})) \cap InSession(u) = (R \cup Q) \cap InSession(u)
  BY <1>1 DEF InSession
<1>8. \A u \in Sessions \ {s} :
        map[u].order # 0 <=> (R \cup (Q \ {t})) \cap InSession(u) # {}
  BY <1>5, <1>7 DEF SessionExact
<1>9. ASSUME NEW u \in Sessions
      PROVE  /\ map[u].inFlight = Cardinality(R \cap InSession(u))
             /\ map[u].queued = Cardinality((Q \ {t}) \cap InSession(u))
             /\ \A k \in Kinds :
                  map[u].kindInFlight[k] = Cardinality(R \cap InSession(u) \cap OfKind(k))
  <2>1. /\ sessions[u].inFlight = Cardinality(R \cap InSession(u))
        /\ sessions[u].queued = Cardinality(Q \cap InSession(u))
        /\ \A k \in Kinds :
             sessions[u].kindInFlight[k] = Cardinality(R \cap InSession(u) \cap OfKind(k))
    BY DEF SessionExact
  <2>2. CASE u = s
    BY <2>1, <2>2, <1>5, <1>6
  <2>3. CASE u # s
    BY <2>1, <2>3, <1>5, <1>6
  <2> QED BY <2>2, <2>3
<1>10. SessionExact(WithoutIdle(map, s), R, Q \ {t})
  BY <1>1, <1>2, <1>5, <1>8, <1>9, WithoutIdleExact
<1>11. Dequeued(s) = WithoutIdle(map, s)
  BY DEF Dequeued, map
<1> QED BY <1>1, <1>5, <1>10, <1>11, WithoutIdleType

\* acquire: one running call more.
LEMMA AcquireExact ==
  ASSUME NEW R \in SUBSET Tasks, NEW Q \in SUBSET Tasks, NEW t \in Tasks,
         t \notin R, NEW map, TypedMap(map), SessionExact(map, R, Q),
         nextSessionOrder \in Nat \ {0}
  PROVE  LET s == SessionOf[t]
             k == KindOf[t]
             new == [WithEntry(map, s) EXCEPT ![s].inFlight = @ + 1,
                                              ![s].kindInFlight[k] = @ + 1]
         IN  TypedMap(new) /\ SessionExact(new, R \cup {t}, Q)
<1> DEFINE s == SessionOf[t]
           k == KindOf[t]
           old == WithEntry(map, s)
           new == [old EXCEPT ![s].inFlight = @ + 1, ![s].kindInFlight[k] = @ + 1]
<1>1. /\ s \in Sessions /\ k \in Kinds
      /\ \A u \in Sessions : t \in InSession(u) <=> u = s
      /\ \A l \in Kinds : t \in OfKind(l) <=> l = k
  BY TasksAssumption DEF InSession, OfKind
<1>2. /\ TypedMap(old)
      /\ old[s].order # 0
      /\ \A u \in Sessions :
           /\ old[u].inFlight = map[u].inFlight
           /\ old[u].queued = map[u].queued
           /\ old[u].kindInFlight = map[u].kindInFlight
           /\ u # s => old[u] = map[u]
  BY <1>1, WithEntryType
<1> HIDE DEF old
<1>3. /\ TypedMap(new)
      /\ new[s].inFlight = old[s].inFlight + 1
      /\ new[s].queued = old[s].queued
      /\ new[s].order = old[s].order
      /\ \A l \in Kinds : new[s].kindInFlight[l] =
           IF l = k THEN old[s].kindInFlight[l] + 1 ELSE old[s].kindInFlight[l]
      /\ \A u \in Sessions \ {s} : new[u] = old[u]
  <2>1. old[s].inFlight + 1 \in Nat /\ old[s].kindInFlight[k] + 1 \in Nat
    BY <1>1, <1>2 DEF TypedMap, SessionState
  <2>2. new = WithCounters(old, s, k, old[s].inFlight + 1, old[s].kindInFlight[k] + 1)
    BY DEF WithCounters
  <2> DEFINE n == old[s].inFlight + 1
             m == old[s].kindInFlight[k] + 1
  <2>3. n \in Nat /\ m \in Nat
    BY <2>1
  <2> HIDE DEF n, m, new, s, k
  <2>4. /\ TypedMap(WithCounters(old, s, k, n, m))
        /\ WithCounters(old, s, k, n, m)[s].inFlight = n
        /\ WithCounters(old, s, k, n, m)[s].queued = old[s].queued
        /\ WithCounters(old, s, k, n, m)[s].order = old[s].order
        /\ \A l \in Kinds : WithCounters(old, s, k, n, m)[s].kindInFlight[l] =
             IF l = k THEN m ELSE old[s].kindInFlight[l]
        /\ \A u \in Sessions \ {s} : WithCounters(old, s, k, n, m)[u] = old[u]
    BY <1>1, <1>2, <2>3, CountersWritten
  <2>5. new = WithCounters(old, s, k, n, m)
    BY <2>2 DEF n, m
  <2>6. n = old[s].inFlight + 1 /\ (\A l \in Kinds : l = k => m = old[s].kindInFlight[l] + 1)
    BY DEF n, m
  <2> QED BY <2>4, <2>5, <2>6
<1> HIDE DEF new
<1>4. \A u \in Sessions :
        /\ Cardinality((R \cup {t}) \cap InSession(u)) =
             IF u = s THEN Cardinality(R \cap InSession(u)) + 1
             ELSE Cardinality(R \cap InSession(u))
        /\ \A l \in Kinds : Cardinality((R \cup {t}) \cap InSession(u) \cap OfKind(l)) =
             IF u = s /\ l = k THEN Cardinality(R \cap InSession(u) \cap OfKind(l)) + 1
             ELSE Cardinality(R \cap InSession(u) \cap OfKind(l))
  <2> TAKE u \in Sessions
  <2>1. IsFiniteSet(R)
    BY CountType
  <2>2. ASSUME NEW l \in Kinds
        PROVE  /\ (R \cup {t}) \cap InSession(u) \cap OfKind(l)
                    = (R \cup {t}) \cap (InSession(u) \cap OfKind(l))
               /\ R \cap InSession(u) \cap OfKind(l) = R \cap (InSession(u) \cap OfKind(l))
               /\ t \in InSession(u) \cap OfKind(l) <=> u = s /\ l = k
    BY <1>1
  <2>3. \A G : Cardinality((R \cup {t}) \cap G) =
           IF t \in G THEN Cardinality(R \cap G) + 1 ELSE Cardinality(R \cap G)
    BY <2>1, CountAdd
  <2> QED BY <1>1, <2>2, <2>3
<1>5. /\ (R \cup {t} \cup Q) \cap InSession(s) # {}
      /\ \A u \in Sessions \ {s} :
           (R \cup {t} \cup Q) \cap InSession(u) = (R \cup Q) \cap InSession(u)
  BY <1>1
<1>6. ASSUME NEW u \in Sessions
      PROVE  /\ new[u].inFlight = Cardinality((R \cup {t}) \cap InSession(u))
             /\ new[u].queued = Cardinality(Q \cap InSession(u))
             /\ \A l \in Kinds : new[u].kindInFlight[l] =
                  Cardinality((R \cup {t}) \cap InSession(u) \cap OfKind(l))
             /\ new[u].order # 0 <=> (R \cup {t} \cup Q) \cap InSession(u) # {}
  <2>1. /\ map[u].inFlight = Cardinality(R \cap InSession(u))
        /\ map[u].queued = Cardinality(Q \cap InSession(u))
        /\ \A l \in Kinds :
             map[u].kindInFlight[l] = Cardinality(R \cap InSession(u) \cap OfKind(l))
        /\ map[u].order # 0 <=> (R \cup Q) \cap InSession(u) # {}
    BY DEF SessionExact
  <2>2. CASE u = s
    <3>1. /\ new[s].inFlight = Cardinality((R \cup {t}) \cap InSession(s))
          /\ new[s].queued = Cardinality(Q \cap InSession(s))
      BY <2>1, <2>2, <1>1, <1>2, <1>3, <1>4
    <3>2. ASSUME NEW l \in Kinds
          PROVE  new[s].kindInFlight[l] =
                   Cardinality((R \cup {t}) \cap InSession(s) \cap OfKind(l))
      <4>1. map[s].kindInFlight[l] = Cardinality(R \cap InSession(s) \cap OfKind(l))
        BY <2>1, <2>2
      <4>2. old[s].kindInFlight[l] = map[s].kindInFlight[l]
        BY <1>1, <1>2
      <4>3. Cardinality((R \cup {t}) \cap InSession(s) \cap OfKind(l)) =
              IF l = k THEN Cardinality(R \cap InSession(s) \cap OfKind(l)) + 1
              ELSE Cardinality(R \cap InSession(s) \cap OfKind(l))
        BY <1>1, <1>4
      <4> QED BY <4>1, <4>2, <4>3, <1>3
    <3>3. new[s].order # 0
      BY <1>2, <1>3
    <3> QED BY <2>2, <3>1, <3>2, <3>3, <1>5
  <2>3. CASE u # s
    <3>1. new[u] = map[u]
      BY <2>3, <1>2, <1>3
    <3> QED BY <2>1, <2>3, <3>1, <1>4, <1>5
  <2> QED BY <2>2, <2>3
<1>7. SessionExact(new, R \cup {t}, Q)
  BY <1>6 DEF SessionExact
<1> QED BY <1>3, <1>7 DEF new, old

\* release: one running call less.
LEMMA ReleaseExact ==
  ASSUME NEW R \in SUBSET Tasks, NEW Q \in SUBSET Tasks, NEW t \in R,
         TypedMap(sessions), SessionExact(sessions, R, Q)
  PROVE  LET s == SessionOf[t]
             k == KindOf[t]
             new == WithoutIdle([sessions EXCEPT ![s].inFlight = Less1(@),
                                                 ![s].kindInFlight[k] = Less1(@)], s)
         IN  /\ sessions[s].order # 0
             /\ TypedMap(new) /\ SessionExact(new, R \ {t}, Q)
<1> DEFINE s == SessionOf[t]
           k == KindOf[t]
           map == [sessions EXCEPT ![s].inFlight = Less1(@), ![s].kindInFlight[k] = Less1(@)]
<1>1. /\ s \in Sessions /\ k \in Kinds /\ t \in Tasks
      /\ \A u \in Sessions : t \in InSession(u) <=> u = s
      /\ \A l \in Kinds : t \in OfKind(l) <=> l = k
  BY TasksAssumption DEF InSession, OfKind
<1>2. /\ sessions[s].order # 0
      /\ sessions[s].inFlight \in Nat \ {0}
      /\ sessions[s].kindInFlight[k] \in Nat \ {0}
  <2>1. t \in R \cap InSession(s) \cap OfKind(k)
    BY <1>1
  <2>2. /\ Cardinality(R \cap InSession(s)) \in Nat \ {0}
        /\ Cardinality(R \cap InSession(s) \cap OfKind(k)) \in Nat \ {0}
    <3> HIDE DEF s, k, map
    <3>1. R \cap InSession(s) \cap OfKind(k) = R \cap (InSession(s) \cap OfKind(k))
      OBVIOUS
    <3>2. t \in R \cap InSession(s) /\ t \in R \cap (InSession(s) \cap OfKind(k))
      BY <2>1
    <3>3. Cardinality(R \cap InSession(s)) \in Nat \ {0}
      BY <3>2, CountPositive
    <3>4. Cardinality(R \cap (InSession(s) \cap OfKind(k))) \in Nat \ {0}
      BY <3>2, CountPositive
    <3> QED BY <3>1, <3>3, <3>4
  <2>3. (R \cup Q) \cap InSession(s) # {}
    BY <2>1
  <2> QED BY <1>1, <2>2, <2>3 DEF SessionExact
<1>3. \A n \in Nat \ {0} : Less1(n) = n - 1 /\ n - 1 \in Nat
  BY DEF Less1
<1>4. /\ TypedMap(map)
      /\ map[s].inFlight = sessions[s].inFlight - 1
      /\ map[s].queued = sessions[s].queued
      /\ map[s].order = sessions[s].order
      /\ \A l \in Kinds : map[s].kindInFlight[l] =
           IF l = k THEN sessions[s].kindInFlight[l] - 1 ELSE sessions[s].kindInFlight[l]
      /\ \A u \in Sessions \ {s} : map[u] = sessions[u]
  <2>1. map = WithCounters(sessions, s, k, sessions[s].inFlight - 1,
                                           sessions[s].kindInFlight[k] - 1)
    BY <1>2, <1>3 DEF WithCounters
  <2>2. sessions[s].inFlight - 1 \in Nat /\ sessions[s].kindInFlight[k] - 1 \in Nat
    BY <1>2
  <2> DEFINE n == sessions[s].inFlight - 1
             m == sessions[s].kindInFlight[k] - 1
  <2>3. n \in Nat /\ m \in Nat
    BY <2>2
  <2> HIDE DEF n, m, map, s, k
  <2>4. /\ TypedMap(WithCounters(sessions, s, k, n, m))
        /\ WithCounters(sessions, s, k, n, m)[s].inFlight = n
        /\ WithCounters(sessions, s, k, n, m)[s].queued = sessions[s].queued
        /\ WithCounters(sessions, s, k, n, m)[s].order = sessions[s].order
        /\ \A l \in Kinds : WithCounters(sessions, s, k, n, m)[s].kindInFlight[l] =
             IF l = k THEN m ELSE sessions[s].kindInFlight[l]
        /\ \A u \in Sessions \ {s} : WithCounters(sessions, s, k, n, m)[u] = sessions[u]
    BY <1>1, <1>2, <2>3, CountersWritten
  <2>5. map = WithCounters(sessions, s, k, n, m)
    BY <2>1 DEF n, m
  <2>6. /\ n = sessions[s].inFlight - 1
        /\ \A l \in Kinds : l = k => m = sessions[s].kindInFlight[l] - 1
    BY DEF n, m
  <2> QED BY <2>4, <2>5, <2>6
<1> HIDE DEF map
<1>5. \A u \in Sessions :
        /\ Cardinality((R \ {t}) \cap InSession(u)) =
             IF u = s THEN Cardinality(R \cap InSession(u)) - 1
             ELSE Cardinality(R \cap InSession(u))
        /\ \A l \in Kinds : Cardinality((R \ {t}) \cap InSession(u) \cap OfKind(l)) =
             IF u = s /\ l = k THEN Cardinality(R \cap InSession(u) \cap OfKind(l)) - 1
             ELSE Cardinality(R \cap InSession(u) \cap OfKind(l))
  <2> TAKE u \in Sessions
  <2>1. IsFiniteSet(R)
    BY CountType
  <2>2. ASSUME NEW l \in Kinds
        PROVE  /\ (R \ {t}) \cap InSession(u) \cap OfKind(l)
                    = (R \ {t}) \cap (InSession(u) \cap OfKind(l))
               /\ R \cap InSession(u) \cap OfKind(l) = R \cap (InSession(u) \cap OfKind(l))
               /\ t \in InSession(u) \cap OfKind(l) <=> u = s /\ l = k
    BY <1>1
  <2>3. \A G : Cardinality((R \ {t}) \cap G) =
           IF t \in G THEN Cardinality(R \cap G) - 1 ELSE Cardinality(R \cap G)
    BY <2>1, CountRemove
  <2> QED BY <1>1, <2>2, <2>3
<1>6. \A u \in Sessions \ {s} :
        map[u].order # 0 <=> ((R \ {t}) \cup Q) \cap InSession(u) # {}
  <2>1. \A u \in Sessions \ {s} :
          ((R \ {t}) \cup Q) \cap InSession(u) = (R \cup Q) \cap InSession(u)
    BY <1>1
  <2> QED BY <1>4, <2>1 DEF SessionExact
<1>7. ASSUME NEW u \in Sessions
      PROVE  /\ map[u].inFlight = Cardinality((R \ {t}) \cap InSession(u))
             /\ map[u].queued = Cardinality(Q \cap InSession(u))
             /\ \A l \in Kinds : map[u].kindInFlight[l] =
                  Cardinality((R \ {t}) \cap InSession(u) \cap OfKind(l))
  <2>1. /\ sessions[u].inFlight = Cardinality(R \cap InSession(u))
        /\ sessions[u].queued = Cardinality(Q \cap InSession(u))
        /\ \A l \in Kinds :
             sessions[u].kindInFlight[l] = Cardinality(R \cap InSession(u) \cap OfKind(l))
    BY DEF SessionExact
  <2>2. CASE u = s
    <3>1. /\ map[s].inFlight = Cardinality((R \ {t}) \cap InSession(s))
          /\ map[s].queued = Cardinality(Q \cap InSession(s))
      BY <2>1, <2>2, <1>1, <1>4, <1>5
    <3>2. ASSUME NEW l \in Kinds
          PROVE  map[s].kindInFlight[l] =
                   Cardinality((R \ {t}) \cap InSession(s) \cap OfKind(l))
      <4>1. sessions[s].kindInFlight[l] = Cardinality(R \cap InSession(s) \cap OfKind(l))
        BY <2>1, <2>2
      <4>2. Cardinality((R \ {t}) \cap InSession(s) \cap OfKind(l)) =
              IF l = k THEN Cardinality(R \cap InSession(s) \cap OfKind(l)) - 1
              ELSE Cardinality(R \cap InSession(s) \cap OfKind(l))
        BY <1>1, <1>5
      <4> QED BY <4>1, <4>2, <1>4
    <3> QED BY <2>2, <3>1, <3>2
  <2>3. CASE u # s
    <3>1. map[u] = sessions[u]
      BY <2>3, <1>4
    <3> QED BY <2>1, <2>3, <3>1, <1>5
  <2> QED BY <2>2, <2>3
<1>8. SessionExact(WithoutIdle(map, s), R \ {t}, Q)
  BY <1>1, <1>2, <1>4, <1>6, <1>7, WithoutIdleExact
<1>9. TypedMap(WithoutIdle(map, s))
  BY <1>1, <1>4, WithoutIdleType
<1> QED BY <1>2, <1>8, <1>9 DEF map

\* schedule opens an entry and queues the call.
LEMMA EnqueueExact ==
  ASSUME NEW R \in SUBSET Tasks, NEW Q \in SUBSET Tasks, NEW t \in Tasks, t \notin Q,
         TypedMap(sessions), SessionExact(sessions, R, Q),
         nextSessionOrder \in Nat \ {0}
  PROVE  LET s == SessionOf[t]
             new == [WithEntry(sessions, s) EXCEPT ![s].queued = @ + 1]
         IN  TypedMap(new) /\ SessionExact(new, R, Q \cup {t})
<1> DEFINE s == SessionOf[t]
           old == WithEntry(sessions, s)
           new == [old EXCEPT ![s].queued = @ + 1]
<1>1. s \in Sessions /\ \A u \in Sessions : t \in InSession(u) <=> u = s
  BY TasksAssumption DEF InSession
<1>2. /\ TypedMap(old)
      /\ old[s].order # 0
      /\ \A u \in Sessions :
           /\ old[u].inFlight = sessions[u].inFlight
           /\ old[u].queued = sessions[u].queued
           /\ old[u].kindInFlight = sessions[u].kindInFlight
           /\ u # s => old[u] = sessions[u]
  BY <1>1, WithEntryType
<1> HIDE DEF old
<1>3. /\ TypedMap(new)
      /\ new[s].inFlight = old[s].inFlight
      /\ new[s].queued = old[s].queued + 1
      /\ new[s].order = old[s].order
      /\ new[s].kindInFlight = old[s].kindInFlight
      /\ \A u \in Sessions \ {s} : new[u] = old[u]
  <2>1. old[s] \in SessionState /\ old[s].queued + 1 \in Nat
    BY <1>1, <1>2 DEF TypedMap, SessionState
  <2> QED BY <1>1, <1>2, <2>1 DEF TypedMap, SessionState
<1> HIDE DEF new
<1>4. \A u \in Sessions : Cardinality((Q \cup {t}) \cap InSession(u)) =
        IF u = s THEN Cardinality(Q \cap InSession(u)) + 1
        ELSE Cardinality(Q \cap InSession(u))
  <2>1. IsFiniteSet(Q)
    BY CountType
  <2>2. \A G : Cardinality((Q \cup {t}) \cap G) =
           IF t \in G THEN Cardinality(Q \cap G) + 1 ELSE Cardinality(Q \cap G)
    BY <2>1, CountAdd
  <2> QED BY <1>1, <2>2
<1>5. /\ (R \cup (Q \cup {t})) \cap InSession(s) # {}
      /\ \A u \in Sessions \ {s} :
           (R \cup (Q \cup {t})) \cap InSession(u) = (R \cup Q) \cap InSession(u)
  BY <1>1
<1>6. ASSUME NEW u \in Sessions
      PROVE  /\ new[u].inFlight = Cardinality(R \cap InSession(u))
             /\ new[u].queued = Cardinality((Q \cup {t}) \cap InSession(u))
             /\ \A l \in Kinds : new[u].kindInFlight[l] =
                  Cardinality(R \cap InSession(u) \cap OfKind(l))
             /\ new[u].order # 0 <=> (R \cup (Q \cup {t})) \cap InSession(u) # {}
  <2>1. /\ sessions[u].inFlight = Cardinality(R \cap InSession(u))
        /\ sessions[u].queued = Cardinality(Q \cap InSession(u))
        /\ \A l \in Kinds :
             sessions[u].kindInFlight[l] = Cardinality(R \cap InSession(u) \cap OfKind(l))
        /\ sessions[u].order # 0 <=> (R \cup Q) \cap InSession(u) # {}
    BY DEF SessionExact
  <2>2. CASE u = s
    <3>1. /\ new[s].inFlight = sessions[s].inFlight
          /\ new[s].queued = sessions[s].queued + 1
          /\ new[s].kindInFlight = sessions[s].kindInFlight
          /\ new[s].order # 0
      BY <1>1, <1>2, <1>3
    <3>2. Cardinality((Q \cup {t}) \cap InSession(s)) = Cardinality(Q \cap InSession(s)) + 1
      BY <1>1, <1>4
    <3> QED BY <2>1, <2>2, <3>1, <3>2, <1>5
  <2>3. CASE u # s
    <3>1. new[u] = sessions[u]
      BY <2>3, <1>2, <1>3
    <3> QED BY <2>1, <2>3, <3>1, <1>4, <1>5
  <2> QED BY <2>2, <2>3
<1>7. SessionExact(new, R, Q \cup {t})
  BY <1>6 DEF SessionExact
<1> QED BY <1>3, <1>7 DEF new, old

\* A refused call leaves no entry behind.
LEMMA RejectExact ==
  ASSUME NEW R \in SUBSET Tasks, NEW Q \in SUBSET Tasks, NEW s \in Sessions,
         TypedMap(sessions), SessionExact(sessions, R, Q),
         nextSessionOrder \in Nat \ {0}
  PROVE  /\ TypedMap(WithoutIdle(WithEntry(sessions, s), s))
         /\ SessionExact(WithoutIdle(WithEntry(sessions, s), s), R, Q)
<1> DEFINE map == WithEntry(sessions, s)
<1>1. /\ TypedMap(map)
      /\ map[s].order # 0
      /\ \A u \in Sessions :
           /\ map[u].inFlight = sessions[u].inFlight
           /\ map[u].queued = sessions[u].queued
           /\ map[u].kindInFlight = sessions[u].kindInFlight
           /\ u # s => map[u] = sessions[u]
  BY WithEntryType
<1> HIDE DEF map
<1>2. \A u \in Sessions \ {s} : map[u].order # 0 <=> (R \cup Q) \cap InSession(u) # {}
  BY <1>1 DEF SessionExact
<1>3. \A u \in Sessions :
        /\ map[u].inFlight = Cardinality(R \cap InSession(u))
        /\ map[u].queued = Cardinality(Q \cap InSession(u))
        /\ \A k \in Kinds :
             map[u].kindInFlight[k] = Cardinality(R \cap InSession(u) \cap OfKind(k))
  BY <1>1 DEF SessionExact
<1>4. SessionExact(WithoutIdle(map, s), R, Q)
  BY <1>1, <1>2, <1>3, WithoutIdleExact
<1> QED BY <1>1, <1>4, WithoutIdleType DEF map

-----------------------------------------------------------------------------
(* The process counters and the queue *)

LEMMA ProcessTake ==
  ASSUME NEW R \in SUBSET Tasks, NEW t \in Tasks, t \notin R,
         globalInFlight \in Nat, globalKindInFlight \in [Kinds -> Nat],
         ProcessExact(globalInFlight, globalKindInFlight, R)
  PROVE  LET new == [globalKindInFlight EXCEPT ![KindOf[t]] = @ + 1]
         IN  /\ globalInFlight + 1 \in Nat
             /\ new \in [Kinds -> Nat]
             /\ ProcessExact(globalInFlight + 1, new, R \cup {t})
<1> DEFINE new == [globalKindInFlight EXCEPT ![KindOf[t]] = @ + 1]
<1>1. KindOf[t] \in Kinds /\ \A l \in Kinds : t \in OfKind(l) <=> l = KindOf[t]
  BY TasksAssumption DEF OfKind
<1>2. IsFiniteSet(R)
  BY CountType
<1>3. Cardinality(R \cup {t}) = Cardinality(R) + 1
  BY <1>2, FS_AddElement
<1>4. \A l \in Kinds : Cardinality((R \cup {t}) \cap OfKind(l)) =
        IF l = KindOf[t] THEN Cardinality(R \cap OfKind(l)) + 1
        ELSE Cardinality(R \cap OfKind(l))
  <2>1. \A G : Cardinality((R \cup {t}) \cap G) =
           IF t \in G THEN Cardinality(R \cap G) + 1 ELSE Cardinality(R \cap G)
    BY <1>2, CountAdd
  <2> QED BY <1>1, <2>1
<1>5. /\ new \in [Kinds -> Nat]
      /\ \A l \in Kinds : new[l] =
           IF l = KindOf[t] THEN globalKindInFlight[l] + 1 ELSE globalKindInFlight[l]
  BY <1>1
<1> HIDE DEF new
<1>6. \A l \in Kinds : globalKindInFlight[l] = Cardinality(R \cap OfKind(l))
  BY DEF ProcessExact
<1>7. \A l \in Kinds : new[l] = Cardinality((R \cup {t}) \cap OfKind(l))
  BY <1>4, <1>5, <1>6
<1>8. ProcessExact(globalInFlight + 1, new, R \cup {t})
  BY <1>3, <1>7 DEF ProcessExact
<1> QED BY <1>5, <1>8 DEF new

LEMMA ProcessGiveBack ==
  ASSUME NEW R \in SUBSET Tasks, NEW t \in R,
         globalInFlight \in Nat, globalKindInFlight \in [Kinds -> Nat],
         ProcessExact(globalInFlight, globalKindInFlight, R)
  PROVE  LET new == [globalKindInFlight EXCEPT ![KindOf[t]] = Less1(@)]
         IN  /\ Less1(globalInFlight) \in Nat
             /\ new \in [Kinds -> Nat]
             /\ ProcessExact(Less1(globalInFlight), new, R \ {t})
<1> DEFINE k == KindOf[t]
           new == [globalKindInFlight EXCEPT ![k] = Less1(@)]
<1>1. k \in Kinds /\ \A l \in Kinds : t \in OfKind(l) <=> l = k
  BY TasksAssumption DEF OfKind
<1>2. IsFiniteSet(R)
  BY CountType
<1>3. \A G : Cardinality((R \ {t}) \cap G) =
         IF t \in G THEN Cardinality(R \cap G) - 1 ELSE Cardinality(R \cap G)
  BY <1>2, CountRemove
<1>4. /\ Cardinality(R \ {t}) = Cardinality(R) - 1
      /\ Cardinality(R) \in Nat /\ Cardinality(R) # 0
  BY <1>2, FS_RemoveElement, FS_CardinalityType, FS_EmptySet
<1>5. \A G : t \in G => Cardinality(R \cap G) \in Nat /\ Cardinality(R \cap G) # 0
  BY CountType
<1>6. \A l \in Kinds : globalKindInFlight[l] = Cardinality(R \cap OfKind(l))
  BY DEF ProcessExact
<1>7. \A n \in Nat : n # 0 => Less1(n) = n - 1 /\ n - 1 \in Nat
  BY DEF Less1
<1>8. Less1(globalInFlight) = Cardinality(R \ {t}) /\ Less1(globalInFlight) \in Nat
  BY <1>4, <1>7 DEF ProcessExact
<1>9. Less1(globalKindInFlight[k]) = globalKindInFlight[k] - 1
      /\ globalKindInFlight[k] - 1 \in Nat
  BY <1>1, <1>5, <1>6, <1>7
<1>10. /\ new \in [Kinds -> Nat]
       /\ \A l \in Kinds : new[l] =
            IF l = k THEN globalKindInFlight[l] - 1 ELSE globalKindInFlight[l]
  BY <1>1, <1>9
<1> HIDE DEF new
<1>11. \A l \in Kinds : new[l] = Cardinality((R \ {t}) \cap OfKind(l))
  BY <1>1, <1>3, <1>6, <1>10
<1> QED BY <1>8, <1>10, <1>11 DEF ProcessExact, new

\* Which calls run and which wait after one call changes phase.
LEMMA PhaseSets ==
  ASSUME phase \in [Tasks -> Phases], NEW t \in Tasks, NEW outcome \in Phases,
         Settle(t, outcome)
  PROVE  /\ phase' \in [Tasks -> Phases]
         /\ Running' = IF outcome = "running" THEN Running \cup {t} ELSE Running \ {t}
         /\ Queued' = IF outcome = "queued" THEN Queued \cup {t} ELSE Queued \ {t}
         /\ t \notin Running /\ outcome # "running" => Running' = Running
         /\ t \notin Queued /\ outcome # "queued" => Queued' = Queued
  BY DEF Settle, Running, Queued

\* The queue after a call leaves it.
LEMMA QueueRemove ==
  ASSUME queue \in Seq(Tasks), phase \in [Tasks -> Phases], QueueExact,
         NEW i \in DOMAIN queue, NEW outcome \in Phases, outcome # "queued",
         Settle(queue[i], outcome), queue' = RemoveAt(queue, i)
  PROVE  queue' \in Seq(Tasks) /\ QueueExact'
<1>1. /\ queue \in [1 .. Len(queue) -> Tasks] /\ Len(queue) \in Nat
      /\ DOMAIN queue = 1 .. Len(queue)
  BY LenProperties
<1>2. /\ queue' \in Seq(Tasks)
      /\ Len(queue') = Len(queue) - 1
      /\ \A j \in 1 .. Len(queue) - 1 :
           queue'[j] = IF j < i THEN queue[j] ELSE queue[j + 1]
  BY <1>1, RemoveAtQueue
<1>3. DOMAIN queue' = 1 .. Len(queue) - 1
  BY <1>2, LenProperties
<1>4. \A j \in 1 .. Len(queue) - 1 :
        LET k == IF j < i THEN j ELSE j + 1
        IN  k \in DOMAIN queue /\ k # i /\ queue'[j] = queue[k]
  BY <1>1, <1>2
<1>5. /\ phase' \in [Tasks -> Phases]
      /\ phase'[queue[i]] # "queued"
      /\ \A t \in Tasks : t # queue[i] => phase'[t] = phase[t]
  BY <1>1 DEF Settle
<1>6. \A j \in DOMAIN queue' : phase'[queue'[j]] = "queued"
  <2> TAKE j \in DOMAIN queue'
  <2>1. PICK k \in DOMAIN queue : k # i /\ queue'[j] = queue[k]
    BY <1>3, <1>4
  <2>2. queue[k] # queue[i] /\ phase[queue[k]] = "queued"
    BY <2>1 DEF QueueExact
  <2> QED BY <1>1, <1>5, <2>1, <2>2
<1>7. \A t \in Queued' : \E j \in DOMAIN queue' : queue'[j] = t
  <2> TAKE t \in Queued'
  <2>1. t \in Tasks /\ phase'[t] = "queued"
    BY DEF Queued
  <2>2. t # queue[i] /\ t \in Queued
    BY <1>5, <2>1 DEF Queued
  <2>3. PICK k \in DOMAIN queue : queue[k] = t
    BY <2>2 DEF QueueExact
  <2>4. k # i /\ k \in Int /\ i \in Int
    BY <1>1, <2>2, <2>3
  <2>5. CASE k < i
    <3>1. k \in 1 .. Len(queue) - 1
      BY <1>1, <2>5
    <3>2. queue'[k] = t
      BY <1>2, <2>3, <2>5, <3>1
    <3> QED BY <1>3, <3>1, <3>2
  <2>6. CASE k > i
    <3>1. k - 1 \in 1 .. Len(queue) - 1 /\ ~(k - 1 < i) /\ (k - 1) + 1 = k
      BY <1>1, <2>6
    <3>2. queue'[k - 1] = t
      BY <1>2, <2>3, <3>1
    <3> QED BY <1>3, <3>1, <3>2
  <2> QED BY <2>4, <2>5, <2>6
<1>8. \A j, k \in DOMAIN queue' : queue'[j] = queue'[k] => j = k
  <2> SUFFICES ASSUME NEW j \in DOMAIN queue', NEW k \in DOMAIN queue',
                      queue'[j] = queue'[k]
               PROVE  j = k
    OBVIOUS
  <2> DEFINE p == IF j < i THEN j ELSE j + 1
             q == IF k < i THEN k ELSE k + 1
  <2>1. p \in DOMAIN queue /\ q \in DOMAIN queue /\ queue[p] = queue[q]
    BY <1>3, <1>4
  <2>2. p = q
    BY <2>1 DEF QueueExact
  <2>3. i \in Int /\ j \in Int /\ k \in Int
    BY <1>1, <1>3
  <2>4. CASE j < i /\ k < i
    BY <2>2, <2>4
  <2>5. CASE j < i /\ ~(k < i)
    BY <2>2, <2>3, <2>5
  <2>6. CASE ~(j < i) /\ k < i
    BY <2>2, <2>3, <2>6
  <2>7. CASE ~(j < i) /\ ~(k < i)
    BY <2>2, <2>3, <2>7
  <2> QED BY <2>4, <2>5, <2>6, <2>7
<1> QED BY <1>2, <1>6, <1>7, <1>8 DEF QueueExact

\* The queue when a call that is not in it changes phase.
LEMMA QueueSame ==
  ASSUME queue \in Seq(Tasks), phase \in [Tasks -> Phases], QueueExact,
         NEW t \in Tasks, phase[t] # "queued",
         NEW outcome \in Phases, outcome # "queued",
         Settle(t, outcome), queue' = queue
  PROVE  QueueExact'
<1>1. /\ queue \in [1 .. Len(queue) -> Tasks]
      /\ DOMAIN queue = 1 .. Len(queue)
  BY LenProperties
<1>2. \A i \in DOMAIN queue : phase'[queue[i]] = "queued"
  BY <1>1 DEF Settle, QueueExact
<1>3. Queued' = Queued
  BY DEF Settle, Queued
<1> QED BY <1>2, <1>3 DEF QueueExact

\* The queue when a new call joins it.
LEMMA QueueAppend ==
  ASSUME queue \in Seq(Tasks), phase \in [Tasks -> Phases], QueueExact,
         NEW t \in Tasks, phase[t] # "queued",
         Settle(t, "queued"), queue' = Append(queue, t)
  PROVE  queue' \in Seq(Tasks) /\ QueueExact'
<1> DEFINE n == Len(queue)
<1>1. /\ queue \in [1 .. n -> Tasks] /\ n \in Nat /\ DOMAIN queue = 1 .. n
  BY LenProperties
<1>2. /\ queue' \in Seq(Tasks) /\ DOMAIN queue' = 1 .. n + 1
      /\ queue'[n + 1] = t /\ \A i \in 1 .. n : queue'[i] = queue[i]
  BY <1>1
<1>3. phase' \in [Tasks -> Phases] /\ phase'[t] = "queued"
      /\ \A u \in Tasks : u # t => phase'[u] = phase[u]
  BY DEF Settle, Phases
<1> HIDE DEF n
<1>4. \A i \in 1 .. n : queue[i] \in Tasks /\ queue[i] # t
  BY <1>1 DEF QueueExact
<1>5. \A i \in DOMAIN queue' : i \in 1 .. n \/ i = n + 1
  BY <1>1, <1>2
<1>6. \A i \in DOMAIN queue' : phase'[queue'[i]] = "queued"
  BY <1>1, <1>2, <1>3, <1>4, <1>5 DEF QueueExact
<1>7. \A u \in Queued' : \E i \in DOMAIN queue' : queue'[i] = u
  <2> TAKE u \in Queued'
  <2>1. u \in Tasks /\ phase'[u] = "queued"
    BY DEF Queued
  <2>2. CASE u = t
    BY <1>1, <1>2, <2>2
  <2>3. CASE u # t
    <3>1. u \in Queued
      BY <1>3, <2>1, <2>3 DEF Queued
    <3>2. PICK i \in 1 .. n : queue[i] = u
      BY <1>1, <3>1 DEF QueueExact
    <3>3. i \in DOMAIN queue'
      BY <1>1, <1>2
    <3> QED BY <1>2, <3>2, <3>3
  <2> QED BY <2>2, <2>3
<1>8. \A i, j \in DOMAIN queue' : queue'[i] = queue'[j] => i = j
  BY <1>1, <1>2, <1>4, <1>5 DEF QueueExact
<1> QED BY <1>2, <1>6, <1>7, <1>8 DEF QueueExact

-----------------------------------------------------------------------------
(* The inductive invariant *)

IInv == TypeOK /\ AccountingExact

LEMMA InitIInv == Init => IInv
<1> SUFFICES ASSUME Init PROVE IInv
  OBVIOUS
<1>1. TypeOK
  <2>1. sessions \in [Sessions -> SessionState]
    BY NoSessionType DEF Init
  <2>2. queue \in Seq(Tasks) /\ agenda \subseteq Tasks /\ phase \in [Tasks -> Phases]
    BY DEF Init, Phases
  <2>3. globalKindInFlight \in [Kinds -> Nat] /\ globalInFlight \in Nat
    BY DEF Init
  <2>4. /\ nextSessionOrder \in Nat \ {0} /\ lastAdmittedOrder \in Nat
    BY DEF Init
  <2>5. closed \in BOOLEAN /\ loop \in {"idle", "drain", "cancel"}
    BY Zenon DEF Init
  <2> QED BY <2>1, <2>2, <2>3, <2>4, <2>5 DEF TypeOK
<1>2. Running = {} /\ Queued = {}
  BY DEF Init, Running, Queued
<1>3. \A G : {} \cap G = {} /\ G \cap {} = {}
  OBVIOUS
<1>4. \A s \in Sessions : sessions[s] = NoSession
  BY DEF Init
<1>5. /\ NoSession.order = 0 /\ NoSession.inFlight = 0 /\ NoSession.queued = 0
      /\ \A k \in Kinds : NoSession.kindInFlight[k] = 0
  BY DEF NoSession
<1>6. SessionExact(sessions, {}, {})
  BY <1>4, <1>5, FS_EmptySet DEF SessionExact
<1>7. ProcessExact(globalInFlight, globalKindInFlight, {})
  BY FS_EmptySet DEF Init, ProcessExact
<1>8. QueueExact
  BY <1>2 DEF Init, QueueExact
<1> QED BY <1>1, <1>2, <1>6, <1>7, <1>8 DEF IInv, AccountingExact

\* The facts every step starts from.
LEMMA Facts ==
  ASSUME IInv
  PROVE  /\ Running \in SUBSET Tasks /\ Queued \in SUBSET Tasks
         /\ TypedMap(sessions) /\ SessionExact(sessions, Running, Queued)
         /\ ProcessExact(globalInFlight, globalKindInFlight, Running)
         /\ globalInFlight \in Nat /\ globalKindInFlight \in [Kinds -> Nat]
         /\ nextSessionOrder \in Nat \ {0} /\ lastAdmittedOrder \in Nat
         /\ phase \in [Tasks -> Phases]
         /\ queue \in Seq(Tasks) /\ queue \in [1 .. Len(queue) -> Tasks]
         /\ DOMAIN queue = 1 .. Len(queue)
         /\ QueueExact
  BY LenProperties DEF IInv, TypeOK, AccountingExact, TypedMap, Running, Queued

\* acquire, on a map that is exact for the calls that wait once t has left.
LEMMA AcquireStep ==
  ASSUME IInv, NEW t \in Tasks, t \notin Running, NEW Q \in SUBSET Tasks,
         NEW map, TypedMap(map), SessionExact(map, Running, Q), Acquire(map, t)
  PROVE  /\ sessions' \in [Sessions -> SessionState]
         /\ globalInFlight' \in Nat /\ globalKindInFlight' \in [Kinds -> Nat]
         /\ nextSessionOrder' \in Nat \ {0}
         /\ SessionExact(sessions', Running \cup {t}, Q)
         /\ ProcessExact(globalInFlight', globalKindInFlight', Running \cup {t})
<1>1. TypedMap(sessions') /\ SessionExact(sessions', Running \cup {t}, Q)
  BY Facts, AcquireExact DEF Acquire
<1>2. /\ globalInFlight' \in Nat /\ globalKindInFlight' \in [Kinds -> Nat]
      /\ ProcessExact(globalInFlight', globalKindInFlight', Running \cup {t})
  BY Facts, ProcessTake DEF Acquire
<1>3. nextSessionOrder' \in Nat \ {0}
  BY Facts DEF Acquire, OrdersUsed
<1> QED BY <1>1, <1>2, <1>3 DEF TypedMap

LEMMA StartNowStep ==
  ASSUME IInv, NEW t \in Tasks, StartNow(t)
  PROVE  IInv'
<1>1. phase[t] = "new" /\ t \notin Running /\ t \notin Queued
  BY DEF StartNow, Running, Queued
<1>2. /\ phase' \in [Tasks -> Phases]
      /\ Running' = Running \cup {t} /\ Queued' = Queued
  <2>1. "running" \in Phases
    BY DEF Phases
  <2> QED BY <1>1, <2>1, Facts, PhaseSets DEF StartNow
<1>3. /\ sessions' \in [Sessions -> SessionState]
      /\ globalInFlight' \in Nat /\ globalKindInFlight' \in [Kinds -> Nat]
      /\ nextSessionOrder' \in Nat \ {0}
      /\ SessionExact(sessions', Running', Queued')
      /\ ProcessExact(globalInFlight', globalKindInFlight', Running')
  BY <1>1, <1>2, Facts, AcquireStep DEF StartNow
<1>4. QueueExact'
  <2>1. "running" \in Phases
    BY DEF Phases
  <2> QED BY <1>1, <2>1, Facts, QueueSame DEF StartNow
<1>5. lastAdmittedOrder' \in Nat
  <2>1. SessionOf[t] \in Sessions
    BY TasksAssumption
  <2>2. TypedMap(WithEntry(sessions, SessionOf[t]))
    BY <2>1, Facts, WithEntryType
  <2> QED BY <2>1, <2>2 DEF StartNow, TypedMap, SessionState
<1> QED BY <1>2, <1>3, <1>4, <1>5 DEF IInv, TypeOK, AccountingExact, StartNow

LEMMA DrainAdmitStep ==
  ASSUME IInv, DrainAdmit
  PROVE  IInv'
<1>1. PICK i \in Eligible :
        /\ queue' = RemoveAt(queue, i)
        /\ lastAdmittedOrder' = OrderAt(i)
        /\ Acquire(Dequeued(SessionOf[queue[i]]), queue[i])
        /\ Settle(queue[i], "running")
  BY DEF DrainAdmit
<1> DEFINE t == queue[i]
<1>2. /\ i \in DOMAIN queue /\ t \in Tasks /\ phase[t] = "queued"
      /\ t \in Queued /\ t \notin Running
  BY Facts DEF Eligible, QueueExact, Running, Queued
<1>3. "running" \in Phases
  BY DEF Phases
<1>4. /\ phase' \in [Tasks -> Phases]
      /\ Running' = Running \cup {t} /\ Queued' = Queued \ {t}
  BY <1>1, <1>2, <1>3, Facts, PhaseSets
<1>5. /\ TypedMap(Dequeued(SessionOf[t]))
      /\ SessionExact(Dequeued(SessionOf[t]), Running, Queued \ {t})
  BY <1>2, Facts, DequeuedExact
<1>6. /\ sessions' \in [Sessions -> SessionState]
      /\ globalInFlight' \in Nat /\ globalKindInFlight' \in [Kinds -> Nat]
      /\ nextSessionOrder' \in Nat \ {0}
      /\ SessionExact(sessions', Running', Queued')
      /\ ProcessExact(globalInFlight', globalKindInFlight', Running')
  <2>1. Queued \ {t} \in SUBSET Tasks
    BY Facts
  <2> QED BY <1>1, <1>2, <1>4, <1>5, <2>1, AcquireStep
<1>7. queue' \in Seq(Tasks) /\ QueueExact'
  BY <1>1, <1>2, <1>3, Facts, QueueRemove
<1>8. lastAdmittedOrder' \in Nat
  BY <1>1, <1>2, Facts, TasksAssumption DEF OrderAt, TypedMap, SessionState
<1> QED BY <1>4, <1>6, <1>7, <1>8 DEF IInv, TypeOK, AccountingExact, DrainAdmit

LEMMA FinishStep ==
  ASSUME IInv, NEW t \in Tasks, Finish(t)
  PROVE  IInv'
<1>1. phase[t] = "running" /\ t \in Running /\ t \notin Queued
  BY DEF Finish, Running, Queued
<1>2. "finished" \in Phases
  BY DEF Phases
<1>3. /\ phase' \in [Tasks -> Phases]
      /\ Running' = Running \ {t} /\ Queued' = Queued
  BY <1>1, <1>2, Facts, PhaseSets DEF Finish
<1>4. TypedMap(sessions') /\ SessionExact(sessions', Running', Queued')
  <2> DEFINE s == SessionOf[t]
             new == WithoutIdle([sessions EXCEPT ![s].inFlight = Less1(@),
                                                 ![s].kindInFlight[KindOf[t]] = Less1(@)], s)
  <2>1. /\ sessions[s].order # 0
        /\ TypedMap(new) /\ SessionExact(new, Running \ {t}, Queued)
    BY <1>1, Facts, ReleaseExact
  <2>2. sessions' = new
    BY <2>1 DEF Finish, Release
  <2> HIDE DEF new
  <2> QED BY <1>3, <2>1, <2>2
<1>5. /\ globalInFlight' \in Nat /\ globalKindInFlight' \in [Kinds -> Nat]
      /\ ProcessExact(globalInFlight', globalKindInFlight', Running')
  BY <1>1, <1>3, Facts, ProcessGiveBack DEF Finish, Release
<1>6. QueueExact'
  BY <1>1, <1>2, Facts, QueueSame DEF Finish
<1> QED
  BY <1>3, <1>4, <1>5, <1>6
  DEF IInv, TypeOK, AccountingExact, Finish, Release, TypedMap

LEMMA RemovePendingStep ==
  ASSUME IInv, NEW t \in Tasks, NEW outcome \in Phases,
         outcome \notin {"queued", "running"}, RemovePending(t, outcome),
         UNCHANGED closed, agenda' \subseteq Tasks
  PROVE  IInv'
<1>1. PICK i \in DOMAIN queue : queue[i] = t /\ queue' = RemoveAt(queue, i)
  BY DEF RemovePending
<1>2. phase[t] = "queued" /\ t \in Queued /\ t \notin Running
  BY <1>1, Facts DEF QueueExact, Queued, Running
<1>3. /\ phase' \in [Tasks -> Phases]
      /\ Running' = Running /\ Queued' = Queued \ {t}
  BY <1>2, Facts, PhaseSets DEF RemovePending
<1>4. TypedMap(sessions') /\ SessionExact(sessions', Running', Queued')
  <2>1. /\ TypedMap(Dequeued(SessionOf[t]))
        /\ SessionExact(Dequeued(SessionOf[t]), Running, Queued \ {t})
    BY <1>2, Facts, DequeuedExact
  <2>2. sessions' = Dequeued(SessionOf[t])
    BY DEF RemovePending
  <2> QED BY <1>3, <2>1, <2>2
<1>5. queue' \in Seq(Tasks) /\ QueueExact'
  BY <1>1, Facts, QueueRemove DEF RemovePending
<1> QED
  BY <1>3, <1>4, <1>5
  DEF IInv, TypeOK, AccountingExact, RemovePending, TypedMap

LEMMA RefuseStep ==
  ASSUME IInv, NEW t \in Tasks, Refuse(t) \/ RejectFull(t)
  PROVE  IInv'
<1>1. PICK outcome \in {"rejected", "aborted"} : Settle(t, outcome)
  BY DEF Refuse, RejectFull
<1>2. phase[t] = "new" /\ t \notin Running /\ t \notin Queued /\ outcome \in Phases
  BY DEF Refuse, RejectFull, Running, Queued, Phases
<1>3. /\ phase' \in [Tasks -> Phases]
      /\ Running' = Running /\ Queued' = Queued
  BY <1>1, <1>2, Facts, PhaseSets
<1>4. QueueExact'
  BY <1>1, <1>2, Facts, QueueSame DEF Refuse, RejectFull
<1>5. /\ TypedMap(sessions') /\ SessionExact(sessions', Running', Queued')
      /\ nextSessionOrder' \in Nat \ {0}
  <2>1. CASE Refuse(t)
    BY <2>1, <1>3, Facts DEF Refuse, counters
  <2>2. CASE RejectFull(t)
    <3>1. SessionOf[t] \in Sessions
      BY TasksAssumption
    <3>2. TypedMap(sessions') /\ SessionExact(sessions', Running', Queued')
      BY <2>2, <1>3, <3>1, Facts, RejectExact DEF RejectFull
    <3> QED BY <2>2, <3>2, Facts DEF RejectFull, OrdersUsed
  <2> QED BY <2>1, <2>2
<1> QED
  BY <1>3, <1>4, <1>5
  DEF IInv, TypeOK, AccountingExact, Refuse, RejectFull, TypedMap, counters

LEMMA EnqueueStep ==
  ASSUME IInv, NEW t \in Tasks, Enqueue(t)
  PROVE  IInv'
<1>1. phase[t] = "new" /\ t \notin Running /\ t \notin Queued /\ "queued" \in Phases
  BY DEF Enqueue, Running, Queued, Phases
<1>2. /\ phase' \in [Tasks -> Phases]
      /\ Running' = Running /\ Queued' = Queued \cup {t}
  BY <1>1, Facts, PhaseSets DEF Enqueue
<1>3. TypedMap(sessions') /\ SessionExact(sessions', Running', Queued')
  BY <1>1, <1>2, Facts, EnqueueExact DEF Enqueue
<1>4. queue' \in Seq(Tasks) /\ QueueExact'
  BY <1>1, Facts, QueueAppend DEF Enqueue
<1>5. nextSessionOrder' \in Nat \ {0}
  BY Facts DEF Enqueue, OrdersUsed
<1> QED
  BY <1>2, <1>3, <1>4, <1>5
  DEF IInv, TypeOK, AccountingExact, Enqueue, TypedMap

\* The steps that only move the control state.
LEMMA ControlStep ==
  ASSUME IInv, UNCHANGED <<queue, counters, lastAdmittedOrder, phase>>,
         closed' \in BOOLEAN, loop' \in {"idle", "drain", "cancel"},
         agenda' \subseteq Tasks
  PROVE  IInv'
<1>1. Running' = Running /\ Queued' = Queued
  BY DEF Running, Queued
<1>2. TypeOK'
  BY DEF IInv, TypeOK, counters
<1>3. QueueExact'
  BY <1>1 DEF IInv, AccountingExact, QueueExact
<1>4. /\ SessionExact(sessions', Running', Queued')
      /\ ProcessExact(globalInFlight', globalKindInFlight', Running')
  BY <1>1 DEF IInv, AccountingExact, counters
<1> QED BY <1>2, <1>3, <1>4 DEF IInv, AccountingExact

LEMMA NextIInv ==
  ASSUME IInv, [Next]_vars
  PROVE  IInv'
<1>1. closed \in BOOLEAN /\ loop \in {"idle", "drain", "cancel"} /\ agenda \subseteq Tasks
  BY DEF IInv, TypeOK
<1>2. ToSet(queue) \subseteq Tasks
  BY Facts DEF ToSet
<1>3. {"aborted", "timedOut"} \subseteq Phases
  BY DEF Phases
<1>4. CASE UNCHANGED vars
  BY <1>1, <1>4, ControlStep DEF vars
<1>5. ASSUME NEW t \in Tasks, Schedule(t)
      PROVE  IInv'
  BY <1>5, RefuseStep, StartNowStep, EnqueueStep DEF Schedule
<1>6. ASSUME NEW t \in Tasks, Finish(t)
      PROVE  IInv'
  BY <1>6, FinishStep
<1>7. ASSUME NEW t \in Tasks, Abort(t)
      PROVE  IInv'
  BY <1>1, <1>3, <1>7, RemovePendingStep DEF Abort
<1>8. ASSUME NEW t \in Tasks, Timeout(t)
      PROVE  IInv'
  BY <1>1, <1>3, <1>8, RemovePendingStep DEF Timeout
<1>9. ASSUME NEW o \in Owners, CancelOwner(o)
      PROVE  IInv'
  BY <1>1, <1>2, <1>9, ControlStep DEF CancelOwner
<1>10. CASE Close
  BY <1>1, <1>2, <1>10, ControlStep DEF Close
<1>11. CASE DrainAdmit
  BY <1>11, DrainAdmitStep
<1>12. CASE DrainStop
  BY <1>1, <1>12, ControlStep DEF DrainStop
<1>13. CASE CancelNext
  <2>1. PICK i \in DOMAIN queue : /\ RemovePending(queue[i], "aborted")
                                  /\ agenda' = agenda \ {queue[i]}
    BY <1>13 DEF CancelNext
  <2>2. queue[i] \in Tasks
    BY Facts
  <2> QED BY <1>1, <1>3, <1>13, <2>1, <2>2, RemovePendingStep DEF CancelNext
<1>14. CASE CancelStop
  BY <1>1, <1>14, ControlStep DEF CancelStop
<1> QED
  BY <1>4, <1>5, <1>6, <1>7, <1>8, <1>9, <1>10, <1>11, <1>12, <1>13, <1>14
  DEF Next, Loop

(***************************************************************************)
(* The counters of the scheduler are exact in every reachable state.       *)
(***************************************************************************)
THEOREM SchedulerAccounting == Spec => [](TypeOK /\ AccountingExact)
<1>1. Init => IInv
  BY InitIInv
<1>2. IInv /\ [Next]_vars => IInv'
  BY NextIInv
<1>3. IInv => TypeOK /\ AccountingExact
  BY DEF IInv
<1> QED BY <1>1, <1>2, <1>3, PTL DEF Spec

-----------------------------------------------------------------------------
(* No pending call is forgotten, and none is passed in its session *)

\* The drain is the only handler or loop that can be looking at a queue in which a call
\* could start: every other ends, or begins its drain, before anything else happens.
Drained == IInv /\ (loop # "drain" /\ ~closed => Eligible = {})

\* What a refused call leaves: the entries of the sessions with pending calls.
LEMMA RejectFullDrained ==
  ASSUME IInv, NEW t \in Tasks, RejectFull(t), Eligible = {}
  PROVE  Eligible' = {}
<1> DEFINE s == SessionOf[t]
<1>1. /\ sessions \in [Sessions -> SessionState] /\ queue \in Seq(Tasks)
      /\ s \in Sessions /\ \A u \in Tasks : SessionOf[u] \in Sessions /\ KindOf[u] \in Kinds
  BY TasksAssumption DEF IInv, TypeOK
<1>2. sessions' = WithoutIdle(WithEntry(sessions, s), s) /\ queue' = queue
      /\ UNCHANGED <<globalInFlight, globalKindInFlight>>
  BY DEF RejectFull
<1>3. \A u \in Sessions \ {s} : sessions'[u] = sessions[u]
  BY <1>1, <1>2 DEF WithoutIdle, WithEntry
<1>4. ASSUME NEW i \in DOMAIN queue, SessionOf[queue[i]] = s
      PROVE  /\ sessions'[s].inFlight = sessions[s].inFlight
             /\ sessions'[s].kindInFlight = sessions[s].kindInFlight
  <2>1. queue[i] \in Queued \cap InSession(s)
    BY <1>1, <1>4 DEF IInv, AccountingExact, QueueExact, Queued, InSession
  <2>2. sessions[s].order # 0
    BY <1>1, <2>1 DEF IInv, AccountingExact, SessionExact
  <2>3. sessions[s].queued # 0
    <3>1. Queued \in SUBSET Tasks
      BY DEF Queued
    <3>2. Cardinality(Queued \cap InSession(s)) # 0
      <4>1. Cardinality(Queued \cap InSession(s)) = 0 <=> Queued \cap InSession(s) = {}
        BY <3>1, CountType
      <4> QED  BY <2>1, <4>1
    <3> QED BY <1>1, <3>2 DEF IInv, AccountingExact, SessionExact
  <2> QED BY <1>1, <1>2, <2>2, <2>3 DEF WithoutIdle, WithEntry
<1>5. \A i \in DOMAIN queue : queue[i] \in Tasks /\ (CanStart(queue[i])' <=> CanStart(queue[i]))
  BY <1>1, <1>2, <1>3, <1>4 DEF CanStart
<1> QED BY <1>2, <1>5 DEF Eligible, IsHead

LEMMA DrainedStep ==
  ASSUME Drained, [Next]_vars
  PROVE  Drained'
<1>1. IInv /\ IInv'
  BY NextIInv DEF Drained
<1>2. CASE UNCHANGED vars
  BY <1>1, <1>2 DEF Drained, vars, counters, Eligible, IsHead, CanStart
<1>3. ASSUME NEW t \in Tasks, Refuse(t)
      PROVE  Drained'
  BY <1>1, <1>3 DEF Drained, Refuse, counters, Eligible, IsHead, CanStart
<1>4. ASSUME NEW t \in Tasks, StartNow(t)
      PROVE  Drained'
  <2>1. DOMAIN queue' = {}
    BY <1>4 DEF StartNow
  <2> QED BY <1>1, <2>1 DEF Drained, Eligible
<1>5. ASSUME NEW t \in Tasks, RejectFull(t)
      PROVE  Drained'
  <2>1. loop = "idle" /\ ~closed /\ loop' = loop
    BY <1>5 DEF RejectFull
  <2> QED BY <1>1, <1>5, <2>1, RejectFullDrained DEF Drained
<1>6. CASE \E t \in Tasks : Enqueue(t) \/ Finish(t) \/ Abort(t) \/ Timeout(t)
  BY <1>1, <1>6 DEF Drained, Enqueue, Finish, Abort, Timeout, RemovePending
<1>7. CASE DrainAdmit \/ CancelNext
  BY <1>1, <1>7 DEF Drained, DrainAdmit, CancelNext, RemovePending
<1>8. CASE DrainStop \/ CancelStop \/ \E o \in Owners : CancelOwner(o)
  BY <1>1, <1>8
  DEF Drained, DrainStop, CancelStop, CancelOwner, counters, Eligible, IsHead, CanStart
<1>9. CASE Close
  BY <1>1, <1>9 DEF Drained, Close
<1> QED
  BY <1>2, <1>3, <1>4, <1>5, <1>6, <1>7, <1>8, <1>9 DEF Next, Loop, Schedule

(***************************************************************************)
(* Whatever frees a permit or uncovers a session's next call, no pending   *)
(* call that could start is left waiting when the handler is over.         *)
(***************************************************************************)
THEOREM NoCallIsForgotten == Spec => []NothingWaitsInVain
<1>1. Init => Drained
  BY InitIInv DEF Init, Drained, Eligible
<1>2. Drained => NothingWaitsInVain
  BY DEF Drained, NothingWaitsInVain
<1> QED BY <1>1, <1>2, DrainedStep, PTL DEF Spec

(***************************************************************************)
(* Within a session calls start in the order in which they came, whether   *)
(* schedule starts them at once or a drain admits them.                    *)
(***************************************************************************)
THEOREM CallsStartInOrder == Spec => ArrivalOrder
<1> DEFINE InOrder ==
      \A t \in Tasks : phase[t] # "running" /\ phase'[t] = "running" =>
        \A i \in DOMAIN queue : SessionOf[queue[i]] = SessionOf[t] =>
          \E j \in 1 .. i : queue[j] = t
<1>1. ASSUME IInv, Next
      PROVE  InOrder
  <2> SUFFICES ASSUME NEW t \in Tasks, phase[t] # "running", phase'[t] = "running",
                      NEW i \in DOMAIN queue, SessionOf[queue[i]] = SessionOf[t]
               PROVE  \E j \in 1 .. i : queue[j] = t
    OBVIOUS
  <2>1. queue \in Seq(Tasks) /\ phase \in [Tasks -> Phases]
    BY <1>1 DEF IInv, TypeOK
  <2>2. CASE \E u \in Tasks : StartNow(u)
    BY <2>1, <2>2 DEF StartNow
  <2>3. CASE DrainAdmit
    <3>1. PICK k \in Eligible : phase' = [phase EXCEPT ![queue[k]] = "running"]
      BY <2>3 DEF DrainAdmit, Settle
    <3>2. queue[k] = t /\ k \in 1 .. Len(queue) /\ i \in 1 .. Len(queue) /\ IsHead(k)
      BY <2>1, <3>1 DEF Eligible
    <3>3. k \in 1 .. i
      BY <3>2 DEF IsHead
    <3> QED BY <3>2, <3>3
  <2>4. CASE \E u \in Tasks : Refuse(u) \/ RejectFull(u) \/ Enqueue(u) \/ Finish(u)
                              \/ Abort(u) \/ Timeout(u)
    BY <2>1, <2>4
    DEF Refuse, RejectFull, Enqueue, Finish, Abort, Timeout, RemovePending, Settle
  <2>5. CASE CancelNext
    BY <2>1, <2>5 DEF CancelNext, RemovePending, Settle
  <2>6. CASE phase' = phase
    BY <2>6
  <2> QED
    BY <1>1, <2>2, <2>3, <2>4, <2>5, <2>6
    DEF Next, Loop, Schedule, DrainStop, CancelStop, CancelOwner, Close
<1>2. IInv /\ [Next]_vars => IInv' /\ [InOrder]_vars
  BY <1>1, NextIInv
<1> QED BY <1>2, InitIInv, PTL DEF Spec, ArrivalOrder

-----------------------------------------------------------------------------
(* The scheduler implements the permit pool *)

\* The pool's cardinality is the scheduler's.
LEMMA PoolSets ==
  ASSUME NEW S
  PROVE  /\ Pool!IsFiniteSet(S) <=> IsFiniteSet(S)
         /\ Pool!Cardinality(S) = Cardinality(S)
<1>1. Pool!IsFiniteSet(S) <=> IsFiniteSet(S)
  BY DEF Pool!IsFiniteSet, IsFiniteSet
<1>2. Pool!Cardinality(S) = Cardinality(S)
  BY DEF Pool!Cardinality, Cardinality
<1> QED BY <1>1, <1>2

\* Holders, waiting calls and outsiders of the pool, in terms of phases.
LEMMA PoolPhaseOf ==
  ASSUME phase \in [Tasks -> Phases]
  PROVE  /\ Pool!Holders = Running
         /\ \A t \in Tasks :
              /\ phase[t] = "new" => PoolPhase[t] = "outside"
              /\ phase[t] = "queued" => PoolPhase[t] = "waiting"
              /\ phase[t] = "running" => PoolPhase[t] = "holding"
<1>1. \A t \in Tasks :
        /\ phase[t] = "new" => PoolPhase[t] = "outside"
        /\ phase[t] = "queued" => PoolPhase[t] = "waiting"
        /\ phase[t] = "running" => PoolPhase[t] = "holding"
        /\ PoolPhase[t] = "holding" => phase[t] = "running"
  BY DEF PoolPhase, Phases
<1>2. Pool!Holders = Running
  BY <1>1 DEF Pool!Holders, Running
<1> QED BY <1>1, <1>2

LEMMA PoolPhaseStep ==
  ASSUME phase \in [Tasks -> Phases], NEW t \in Tasks, NEW outcome \in Phases,
         Settle(t, outcome)
  PROVE  PoolPhase' =
           [PoolPhase EXCEPT ![t] =
              IF outcome = "new" THEN "outside"
              ELSE IF outcome = "queued" THEN "waiting"
              ELSE IF outcome = "running" THEN "holding" ELSE "gone"]
<1>1. \A u \in Tasks : phase'[u] = IF u = t THEN outcome ELSE phase[u]
  BY DEF Settle
<1>2. \A u \in Tasks : u # t => PoolPhase'[u] = PoolPhase[u]
  BY <1>1 DEF PoolPhase
<1>3. PoolPhase'[t] = IF outcome = "new" THEN "outside"
                      ELSE IF outcome = "queued" THEN "waiting"
                      ELSE IF outcome = "running" THEN "holding" ELSE "gone"
  BY <1>1 DEF PoolPhase
<1>4. PoolPhase = [u \in Tasks |-> PoolPhase[u]]
      /\ PoolPhase' = [u \in Tasks |-> PoolPhase'[u]]
  BY DEF PoolPhase
<1> HIDE DEF PoolPhase
<1> QED BY <1>2, <1>3, <1>4

\* canStart looks at the four counters; they stand for the four kinds of quota.
LEMMA CanStartHasRoom ==
  ASSUME IInv, NEW t \in Tasks, CanStart(t)
  PROVE  Pool!HasRoom(t)
<1>0. Pool!Holders = Running
  BY Facts, PoolPhaseOf
<1> SUFFICES ASSUME NEW q \in Quotas, t \in q[1]
             PROVE  Cardinality(Running \cap q[1]) < q[2]
  BY <1>0, PoolSets DEF Pool!HasRoom
<1> DEFINE s == SessionOf[t]
           k == KindOf[t]
<1>1. /\ s \in Sessions /\ k \in Kinds
      /\ \A u \in Sessions : t \in InSession(u) <=> u = s
      /\ \A l \in Kinds : t \in OfKind(l) <=> l = k
  BY TasksAssumption DEF InSession, OfKind
<1>2. /\ globalInFlight = Cardinality(Running)
      /\ globalKindInFlight[k] = Cardinality(Running \cap OfKind(k))
      /\ sessions[s].inFlight = Cardinality(Running \cap InSession(s))
      /\ sessions[s].kindInFlight[k] = Cardinality(Running \cap InSession(s) \cap OfKind(k))
  BY <1>1, Facts DEF SessionExact, ProcessExact
<1>3. CASE q = <<Tasks, GlobalMaxInFlight>>
  <2>1. Running \cap q[1] = Running /\ q[2] = GlobalMaxInFlight
    BY <1>3 DEF Running
  <2> QED BY <1>2, <2>1 DEF CanStart
<1>4. ASSUME NEW l \in Kinds, q = <<OfKind(l), GlobalKindLimit[l]>>
      PROVE  Cardinality(Running \cap q[1]) < q[2]
  <2>1. l = k
    BY <1>1, <1>4
  <2> QED BY <1>2, <1>4, <2>1 DEF CanStart
<1>5. ASSUME NEW u \in Sessions, q = <<InSession(u), SessionMaxInFlight>>
      PROVE  Cardinality(Running \cap q[1]) < q[2]
  <2>1. u = s
    BY <1>1, <1>5
  <2> QED BY <1>2, <1>5, <2>1 DEF CanStart
<1>6. ASSUME NEW u \in Sessions, NEW l \in Kinds,
             q = <<InSession(u) \cap OfKind(l), SessionKindLimit[l]>>
      PROVE  Cardinality(Running \cap q[1]) < q[2]
  <2>1. u = s /\ l = k
    BY <1>1, <1>6
  <2>2. Running \cap q[1] = Running \cap InSession(s) \cap OfKind(k)
    BY <1>6, <2>1
  <2> QED BY <1>2, <1>6, <2>1, <2>2 DEF CanStart
<1>7. \/ q = <<Tasks, GlobalMaxInFlight>>
      \/ \E l \in Kinds : q = <<OfKind(l), GlobalKindLimit[l]>>
      \/ \E u \in Sessions : q = <<InSession(u), SessionMaxInFlight>>
      \/ \E u \in Sessions, l \in Kinds :
           q = <<InSession(u) \cap OfKind(l), SessionKindLimit[l]>>
  BY DEF Quotas
<1> QED BY <1>3, <1>4, <1>5, <1>6, <1>7

LEMMA PoolStep ==
  ASSUME IInv, [Next]_vars
  PROVE  [Pool!Next]_PoolPhase
<1>1. {"new", "queued", "running", "finished", "aborted", "timedOut", "rejected"} = Phases
  BY DEF Phases
<1>2. ASSUME UNCHANGED phase
      PROVE  UNCHANGED PoolPhase
  BY <1>2 DEF PoolPhase
<1>3. ASSUME NEW t \in Tasks, Refuse(t) \/ RejectFull(t)
      PROVE  Pool!Drop(t)
  <2>1. PoolPhase[t] = "outside"
    BY <1>3, Facts, PoolPhaseOf DEF Refuse, RejectFull
  <2>2. PICK outcome \in {"rejected", "aborted"} : Settle(t, outcome)
    BY <1>3 DEF Refuse, RejectFull
  <2>3. PoolPhase' = [PoolPhase EXCEPT ![t] = "gone"]
    BY <1>1, <2>2, Facts, PoolPhaseStep
  <2> QED BY <2>1, <2>3 DEF Pool!Drop
<1>4. ASSUME NEW t \in Tasks, StartNow(t)
      PROVE  Pool!Grant(t)
  <2>1. PoolPhase[t] = "outside"
    BY <1>4, Facts, PoolPhaseOf DEF StartNow
  <2>2. PoolPhase' = [PoolPhase EXCEPT ![t] = "holding"]
    BY <1>1, <1>4, Facts, PoolPhaseStep DEF StartNow
  <2> QED BY <1>4, <2>1, <2>2, CanStartHasRoom DEF Pool!Grant, StartNow
<1>5. ASSUME NEW t \in Tasks, Enqueue(t)
      PROVE  Pool!Wait(t)
  <2>1. PoolPhase[t] = "outside"
    BY <1>5, Facts, PoolPhaseOf DEF Enqueue
  <2>2. PoolPhase' = [PoolPhase EXCEPT ![t] = "waiting"]
    BY <1>1, <1>5, Facts, PoolPhaseStep DEF Enqueue
  <2> QED BY <2>1, <2>2 DEF Pool!Wait
<1>6. ASSUME NEW t \in Tasks, Finish(t)
      PROVE  Pool!Return(t)
  <2>1. PoolPhase[t] = "holding"
    BY <1>6, Facts, PoolPhaseOf DEF Finish
  <2>2. PoolPhase' = [PoolPhase EXCEPT ![t] = "gone"]
    BY <1>1, <1>6, Facts, PoolPhaseStep DEF Finish
  <2> QED BY <2>1, <2>2 DEF Pool!Return
<1>7. ASSUME NEW t, NEW outcome \in {"aborted", "timedOut"}, RemovePending(t, outcome)
      PROVE  t \in Tasks /\ Pool!Drop(t)
  <2>1. PICK i \in DOMAIN queue : queue[i] = t
    BY <1>7 DEF RemovePending
  <2>2. t \in Tasks /\ phase[t] = "queued"
    BY <2>1, Facts DEF QueueExact
  <2>3. PoolPhase[t] = "waiting"
    BY <2>2, Facts, PoolPhaseOf
  <2>4. PoolPhase' = [PoolPhase EXCEPT ![t] = "gone"]
    BY <1>1, <1>7, <2>2, Facts, PoolPhaseStep DEF RemovePending
  <2> QED BY <2>2, <2>3, <2>4 DEF Pool!Drop
<1>8. ASSUME DrainAdmit
      PROVE  \E t \in Tasks : Pool!Grant(t)
  <2>1. PICK i \in Eligible : Settle(queue[i], "running")
    BY <1>8 DEF DrainAdmit
  <2>2. queue[i] \in Tasks /\ phase[queue[i]] = "queued" /\ CanStart(queue[i])
    BY Facts DEF Eligible, QueueExact
  <2>3. PoolPhase[queue[i]] = "waiting"
    BY <2>2, Facts, PoolPhaseOf
  <2>4. PoolPhase' = [PoolPhase EXCEPT ![queue[i]] = "holding"]
    BY <1>1, <2>1, <2>2, Facts, PoolPhaseStep
  <2> QED BY <2>2, <2>3, <2>4, CanStartHasRoom DEF Pool!Grant
<1>9. ASSUME (\E o \in Owners : CancelOwner(o)) \/ Close \/ DrainStop \/ CancelStop
      PROVE  UNCHANGED phase
  BY <1>9 DEF CancelOwner, Close, DrainStop, CancelStop
<1>10. ASSUME CancelNext
       PROVE  \E t \in Tasks : Pool!Drop(t)
  BY <1>7, <1>10 DEF CancelNext
<1>11. ASSUME UNCHANGED vars
       PROVE  UNCHANGED phase
  BY <1>11 DEF vars
<1> QED
  BY <1>2, <1>3, <1>4, <1>5, <1>6, <1>7, <1>8, <1>9, <1>10, <1>11
  DEF Next, Loop, Schedule, Abort, Timeout, Pool!Next

(***************************************************************************)
(* The scheduler implements the abstract permit pool ...                   *)
(***************************************************************************)
THEOREM SchedulerImplementsPool == Spec => ImplementsPermitPool
<1>1. Init => IInv /\ Pool!Init
  <2>1. Init => Pool!Init
    BY DEF Init, Pool!Init, PoolPhase
  <2> QED BY <2>1, InitIInv
<1>2. IInv /\ [Next]_vars => IInv' /\ [Pool!Next]_PoolPhase
  BY NextIInv, PoolStep
<1> QED BY <1>1, <1>2, PTL DEF Spec, ImplementsPermitPool, Pool!Spec

\* How many calls hold a permit of one quota is a number, counted alike in both modules.
LEMMA QuotaIs ==
  ASSUME NEW q \in Quotas
  PROVE  /\ q[2] \in Nat
         /\ IsFiniteSet(Pool!Holders \cap q[1])
         /\ Pool!Cardinality(Pool!Holders \cap q[1]) = Cardinality(Pool!Holders \cap q[1])
         /\ Cardinality(Pool!Holders \cap q[1]) \in Nat
<1>1. q[2] \in Nat
  BY LimitsAssumption DEF Quotas, InSession, OfKind
<1>2. PICK S : S = Pool!Holders \cap q[1]
  OBVIOUS
<1>3. S \in SUBSET Tasks
  BY <1>2 DEF Pool!Holders
<1>4. IsFiniteSet(S)
  BY <1>3, TasksAssumption, FS_Subset
<1>5. Cardinality(S) \in Nat /\ Pool!Cardinality(S) = Cardinality(S)
  BY <1>4, FS_CardinalityType, PoolSets
<1> QED BY <1>1, <1>2, <1>4, <1>5

\* What a pool keeps: it looks for room before each grant.
PoolInv == Pool!TypeOK /\ Pool!WithinQuotas

LEMMA PoolInit == Pool!Init => PoolInv
<1> SUFFICES ASSUME Pool!Init
             PROVE  PoolInv
  OBVIOUS
<1>1. Pool!TypeOK /\ Pool!Holders = {}
  BY DEF Pool!Init, Pool!TypeOK, Pool!PhaseOfTask, Pool!Holders
<1>2. ASSUME NEW q \in Quotas
      PROVE  Pool!Cardinality(Pool!Holders \cap q[1]) <= q[2]
  <2>1. Pool!Holders \cap q[1] = {}
    BY <1>1
  <2> QED BY <2>1, QuotaIs, FS_EmptySet
<1> QED BY <1>1, <1>2 DEF PoolInv, Pool!WithinQuotas

LEMMA PoolNext == PoolInv /\ [Pool!Next]_PoolPhase => PoolInv'
<1> SUFFICES ASSUME PoolInv, [Pool!Next]_PoolPhase
             PROVE  PoolInv'
  OBVIOUS
<1>0. \A q \in Quotas : Pool!Cardinality(Pool!Holders \cap q[1]) <= q[2]
  BY DEF PoolInv, Pool!WithinQuotas
<1>1. CASE UNCHANGED PoolPhase
  BY <1>1 DEF PoolInv, Pool!TypeOK, Pool!WithinQuotas, Pool!Holders
<1>2. ASSUME NEW t \in Tasks, Pool!Grant(t)
      PROVE  PoolInv'
  <2>1. Pool!TypeOK'
    BY <1>2 DEF Pool!Grant, PoolInv, Pool!TypeOK, Pool!PhaseOfTask
  <2>2. Pool!Holders' = Pool!Holders \cup {t} /\ t \notin Pool!Holders
    BY <1>2 DEF Pool!Grant, PoolInv, Pool!TypeOK, Pool!Holders
  <2>3. ASSUME NEW q \in Quotas
        PROVE  Pool!Cardinality(Pool!Holders' \cap q[1]) <= q[2]
    <3>1. PICK S, T : S = Pool!Holders \cap q[1] /\ T = Pool!Holders' \cap q[1]
      OBVIOUS
    <3>2. IsFiniteSet(S) /\ Cardinality(S) \in Nat /\ Cardinality(S) <= q[2] /\ q[2] \in Nat
      BY <1>0, <3>1, QuotaIs
    <3>3. CASE t \in q[1]
      <4>1. T = S \cup {t} /\ t \notin S
        BY <2>2, <3>1, <3>3
      <4>2. Cardinality(T) = Cardinality(S) + 1
        BY <4>1, <3>2, FS_AddElement
      <4>3. Cardinality(S) < q[2]
        <5>1. Pool!Cardinality(S) < q[2]
          BY <1>2, <3>1, <3>3 DEF Pool!Grant, Pool!HasRoom
        <5> QED BY <5>1, PoolSets
      <4>4. Pool!Cardinality(T) <= q[2]
        BY <4>2, <4>3, <3>2, PoolSets
      <4> QED BY <4>4, <3>1
    <3>4. CASE t \notin q[1]
      <4>1. T = S
        BY <2>2, <3>1, <3>4
      <4> QED BY <4>1, <3>1, <1>0
    <3> QED BY <3>3, <3>4
  <2> QED BY <2>1, <2>3 DEF PoolInv, Pool!WithinQuotas
<1>3. ASSUME NEW t \in Tasks, Pool!Wait(t) \/ Pool!Drop(t) \/ Pool!Return(t)
      PROVE  PoolInv'
  <2>1. Pool!TypeOK'
    BY <1>3 DEF Pool!Wait, Pool!Drop, Pool!Return, PoolInv, Pool!TypeOK, Pool!PhaseOfTask
  <2>2. Pool!Holders' \subseteq Pool!Holders
    BY <1>3 DEF Pool!Wait, Pool!Drop, Pool!Return, PoolInv, Pool!TypeOK, Pool!Holders
  <2>3. ASSUME NEW q \in Quotas
        PROVE  Pool!Cardinality(Pool!Holders' \cap q[1]) <= q[2]
    <3>1. PICK S, T : S = Pool!Holders \cap q[1] /\ T = Pool!Holders' \cap q[1]
      OBVIOUS
    <3>2. IsFiniteSet(S) /\ Cardinality(S) \in Nat /\ Cardinality(S) <= q[2] /\ q[2] \in Nat
      BY <1>0, <3>1, QuotaIs
    <3>3. T \in SUBSET S
      BY <2>2, <3>1
    <3>4. IsFiniteSet(T) /\ Cardinality(T) <= Cardinality(S)
      BY <3>2, <3>3, FS_Subset
    <3>5. Cardinality(T) \in Nat
      BY <3>4, FS_CardinalityType
    <3>6. Pool!Cardinality(T) <= q[2]
      BY <3>2, <3>4, <3>5, PoolSets
    <3> QED BY <3>6, <3>1
  <2> QED BY <2>1, <2>3 DEF PoolInv, Pool!WithinQuotas
<1> QED BY <1>1, <1>2, <1>3 DEF Pool!Next

(***************************************************************************)
(* ... so that never more calls run than a limit allows: in the process,   *)
(* of one kind, of one session, or of one kind in one session.             *)
(***************************************************************************)
THEOREM SchedulerWithinLimits == Spec => []Pool!WithinQuotas
<1>1. PoolInv => Pool!WithinQuotas
  BY DEF PoolInv
<1>2. Pool!Spec => []Pool!WithinQuotas
  BY <1>1, PoolInit, PoolNext, PTL DEF Pool!Spec
<1> QED BY <1>2, SchedulerImplementsPool, PTL DEF ImplementsPermitPool

-----------------------------------------------------------------------------
(* Resident runtimes *)

\* A resident runtime has a generation, and so has what a client holds.
GenerationsAreReal ==
  /\ \A k \in Resident : residents[k].gen >= 1
  /\ \A c \in Clients : client[c].kind # "none" => client[c].gen >= 1

\* Until shutdown a client's reservation is the one of its key, and no other client's.
ReservationsAreHeld ==
  ~residencyClosed =>
    \A c \in Clients : client[c].kind = "reservation" =>
      /\ reservations[client[c].key] = client[c].gen
      /\ \A d \in Clients : client[d].kind = "reservation" /\ client[d].key = client[c].key => d = c

\* What disposeAll has left is what is resident, and nobody else holds the mutex then.
ClosedForGood ==
  /\ residencyClosed =>
       /\ Reserved = {}
       /\ mutex = Free => Resident = {}
       /\ mutex # Free => mutex.op = "disposeAll"
  /\ mutex # Free /\ mutex.op = "disposeAll" => residencyClosed /\ Resident = mutex.rest

\* A runtime is evicted, swept or removed without leases.
VictimsAreIdle ==
  mutex # Free /\ mutex.op # "disposeAll" => mutex.victim.gen >= 1 /\ mutex.victim.pins = 0

\* While an eviction makes room for it, the key of a reserve stays free, its client empty-handed.
ReserversWait ==
  mutex # Free /\ mutex.op = "reserve" =>
    /\ mutex.for[2] \notin Resident \cup Reserved
    /\ client[mutex.for[1]].kind = "none"

ResidencyInv ==
  /\ ResidencyTypeOK /\ ResidentsAccounted
  /\ GenerationsAreReal /\ ReservationsAreHeld /\ ClosedForGood /\ VictimsAreIdle /\ ReserversWait

LEMMA RuntimeFields ==
  ASSUME ResidencyTypeOK
  PROVE  /\ \A k \in Keys : /\ residents[k] \in Runtimes /\ reservations[k] \in 0 .. MaxGeneration
                            /\ residents[k].gen \in 0 .. MaxGeneration /\ residents[k].pins \in Nat
                            /\ residents[k].pins <= Cardinality(Clients)
                            /\ residents[k].poisoned \in BOOLEAN
                            /\ k \notin Resident => residents[k].gen = 0
         /\ \A c \in Clients : /\ client[c] \in Holdings /\ client[c].key \in Keys
                               /\ client[c].gen \in 0 .. MaxGeneration
                               /\ client[c].kind \in {"none", "reservation", "lease"}
         /\ MaxGeneration \in Nat /\ MaxResident \in Nat /\ Cardinality(Clients) \in Nat
         /\ Resident \subseteq Keys /\ Reserved \subseteq Keys
<1>1. /\ MaxGeneration \in Nat /\ MaxResident \in Nat /\ Cardinality(Clients) \in Nat
  BY ResidencyAssumption, FS_CardinalityType
<1>2. \A k \in Keys : residents[k] \in Runtimes /\ reservations[k] \in 0 .. MaxGeneration
  BY DEF ResidencyTypeOK
<1>3. \A r \in Runtimes : /\ r.gen \in 0 .. MaxGeneration /\ r.pins \in 0 .. Cardinality(Clients)
                          /\ r.poisoned \in BOOLEAN
  BY DEF Runtimes
<1>4. \A c \in Clients : /\ client[c] \in Holdings /\ client[c].key \in Keys
                         /\ client[c].gen \in 0 .. MaxGeneration
                         /\ client[c].kind \in {"none", "reservation", "lease"}
  BY DEF ResidencyTypeOK, Holdings
<1>5. \A k \in Keys : k \notin Resident => residents[k].gen = 0
  BY DEF Resident, None
<1> QED  BY <1>1, <1>2, <1>3, <1>4, <1>5 DEF Resident, Reserved

\* What holds the mutex is a job, and jobs are not Free.
LEMMA JobFields ==
  ASSUME ResidencyTypeOK
  PROVE  /\ mutex # Free =>
              /\ mutex.op \in {"reserve", "remove", "sweep", "disposeAll"} /\ mutex.key \in Keys
              /\ mutex.victim \in Runtimes /\ mutex.for \in Clients \X Keys
              /\ mutex.for[1] \in Clients /\ mutex.for[2] \in Keys
              /\ mutex.rest \subseteq Keys
         /\ \A j \in Jobs : j # Free
<1>1. \A j \in Jobs : /\ j.op \in {"reserve", "remove", "sweep", "disposeAll"} /\ j.key \in Keys
                      /\ j.victim \in Runtimes /\ j.for \in Clients \X Keys /\ j.rest \subseteq Keys
  BY DEF Jobs
<1>2. \A j \in Jobs : j.op # "free"
  BY <1>1
<1>3. \A j \in Jobs : j # Free
  BY <1>2 DEF Free
<1>4. \A p \in Clients \X Keys : p[1] \in Clients /\ p[2] \in Keys
  OBVIOUS
<1> QED  BY <1>1, <1>3, <1>4 DEF ResidencyTypeOK

LEMMA FiniteResidents ==
  ASSUME ResidencyTypeOK
  PROVE  /\ IsFiniteSet(Resident) /\ IsFiniteSet(Reserved)
         /\ Cardinality(Resident) \in Nat /\ Cardinality(Reserved) \in Nat
         /\ \A k \in Keys : IsFiniteSet(Leases(k)) /\ Cardinality(Leases(k)) \in Nat
<1>1. IsFiniteSet(Keys) /\ IsFiniteSet(Clients)
  BY ResidencyAssumption
<1>2. IsFiniteSet(Resident) /\ IsFiniteSet(Reserved)
  BY <1>1, RuntimeFields, FS_Subset
<1>3. \A k \in Keys : Leases(k) \subseteq Clients
  BY DEF Leases
<1>4. \A k \in Keys : IsFiniteSet(Leases(k))
  BY <1>1, <1>3, FS_Subset
<1> QED  BY <1>2, <1>4, FS_CardinalityType

\* Who has a lease of the runtime that is resident under a key.
LEMMA LeaseFields ==
  ASSUME ResidencyTypeOK
  PROVE  \A k \in Keys : \A c :
           c \in Leases(k) <=> /\ c \in Clients /\ client[c].kind = "lease" /\ client[c].key = k
                               /\ client[c].gen = residents[k].gen
<1> SUFFICES ASSUME NEW k \in Keys, NEW c \in Clients
             PROVE  client[c] = [kind |-> "lease", key |-> k, gen |-> residents[k].gen] <=>
                      /\ client[c].kind = "lease" /\ client[c].key = k
                      /\ client[c].gen = residents[k].gen
  BY DEF Leases
<1>1. client[c] \in Holdings
  BY DEF ResidencyTypeOK
<1>2. client[c] = [kind |-> client[c].kind, key |-> client[c].key, gen |-> client[c].gen]
  BY <1>1 DEF Holdings
<1> QED  BY <1>2

\* The leases of a key change only with its runtime's generation or a client's lease of it.
LEMMA SameLeases ==
  ASSUME NEW k \in Keys, residents'[k].gen = residents[k].gen,
         \A c \in Clients : (client'[c] = [kind |-> "lease", key |-> k, gen |-> residents[k].gen])
                             = (client[c] = [kind |-> "lease", key |-> k, gen |-> residents[k].gen])
  PROVE  Leases(k)' = Leases(k)
BY DEF Leases

\* A runtime comes or goes, and the count with it.
LEMMA RuntimeGone ==
  ASSUME ResidencyTypeOK, NEW k \in Resident, residents' = [residents EXCEPT ![k] = None]
  PROVE  /\ Resident' = Resident \ {k} /\ IsFiniteSet(Resident')
         /\ Cardinality(Resident') = Cardinality(Resident) - 1
         /\ residents' \in [Keys -> Runtimes] /\ residents'[k] = None
         /\ \A j \in Keys : j # k => residents'[j] = residents[j]
<1>1. residents \in [Keys -> Runtimes] /\ k \in Keys /\ None \in Runtimes
  BY RuntimeFields DEF ResidencyTypeOK, None, Runtimes
<1>2. residents'[k] = None /\ \A j \in Keys : j # k => residents'[j] = residents[j]
  BY <1>1
<1>3. Resident' = Resident \ {k}
  BY <1>1, <1>2 DEF Resident
<1> QED  BY <1>1, <1>2, <1>3, FiniteResidents, FS_RemoveElement

LEMMA RuntimeComes ==
  ASSUME ResidencyTypeOK, NEW k \in Keys \ Resident, NEW r \in Runtimes, r # None,
         residents' = [residents EXCEPT ![k] = r]
  PROVE  /\ Resident' = Resident \cup {k} /\ IsFiniteSet(Resident')
         /\ Cardinality(Resident') = Cardinality(Resident) + 1
         /\ residents' \in [Keys -> Runtimes] /\ residents'[k] = r
         /\ \A j \in Keys : j # k => residents'[j] = residents[j]
<1>1. residents \in [Keys -> Runtimes]
  BY DEF ResidencyTypeOK
<1>2. residents'[k] = r /\ \A j \in Keys : j # k => residents'[j] = residents[j]
  BY <1>1
<1>3. Resident' = Resident \cup {k}
  BY <1>1, <1>2 DEF Resident
<1> QED  BY <1>1, <1>2, <1>3, FiniteResidents, FS_AddElement

LEMMA ReservationComes ==
  ASSUME ResidencyTypeOK, NEW k \in Keys \ Reserved, NEW g \in 1 .. MaxGeneration,
         reservations' = [reservations EXCEPT ![k] = g]
  PROVE  /\ Reserved' = Reserved \cup {k} /\ IsFiniteSet(Reserved')
         /\ Cardinality(Reserved') = Cardinality(Reserved) + 1
         /\ reservations' \in [Keys -> 0 .. MaxGeneration] /\ reservations'[k] = g
         /\ \A j \in Keys : j # k => reservations'[j] = reservations[j]
<1>1. reservations \in [Keys -> 0 .. MaxGeneration] /\ MaxGeneration \in Nat
  BY RuntimeFields DEF ResidencyTypeOK
<1>2. /\ reservations'[k] = g /\ \A j \in Keys : j # k => reservations'[j] = reservations[j]
      /\ g # 0 /\ reservations' \in [Keys -> 0 .. MaxGeneration]
  BY <1>1
<1>3. Reserved' = Reserved \cup {k}
  BY <1>1, <1>2 DEF Reserved
<1> QED  BY <1>1, <1>2, <1>3, FiniteResidents, FS_AddElement

LEMMA ReservationGone ==
  ASSUME ResidencyTypeOK, NEW k \in Keys, reservations' = [reservations EXCEPT ![k] = 0]
  PROVE  /\ Reserved' = Reserved \ {k} /\ IsFiniteSet(Reserved')
         /\ k \in Reserved => Cardinality(Reserved') = Cardinality(Reserved) - 1
         /\ k \notin Reserved => Cardinality(Reserved') = Cardinality(Reserved)
         /\ reservations' \in [Keys -> 0 .. MaxGeneration] /\ reservations'[k] = 0
         /\ \A j \in Keys : j # k => reservations'[j] = reservations[j]
<1>1. reservations \in [Keys -> 0 .. MaxGeneration] /\ MaxGeneration \in Nat
  BY RuntimeFields DEF ResidencyTypeOK
<1>2. /\ reservations'[k] = 0 /\ \A j \in Keys : j # k => reservations'[j] = reservations[j]
      /\ reservations' \in [Keys -> 0 .. MaxGeneration]
  BY <1>1
<1>3. Reserved' = Reserved \ {k}
  BY <1>1, <1>2 DEF Reserved
<1>4. k \notin Reserved => Reserved' = Reserved
  BY <1>3
<1> QED  BY <1>1, <1>2, <1>3, <1>4, FiniteResidents, FS_RemoveElement

\* The count of what exists, and the last part of ResidentsAccounted, from the others.
LEMMA Accounted ==
  ASSUME ResidencyInv
  PROVE  /\ ResidencyTypeOK /\ Existing \in Nat /\ Existing <= MaxResident /\ Retained \in Nat
         /\ Resident \cap Reserved = {}
         /\ mutex = Free => Existing = Retained
         /\ mutex # Free => Existing = Retained + 1 /\ mutex.key \notin Resident \cup Reserved
<1>1. ResidencyTypeOK /\ Existing <= MaxResident /\ OneRuntimePerKey
  BY DEF ResidencyInv, ResidentsAccounted, WithinCapacity
<1>2. Retained \in Nat
  BY <1>1, FiniteResidents DEF Retained
<1> QED  BY <1>1, <1>2 DEF Existing, OneRuntimePerKey

\* Until shutdown nobody has a lease of a key whose runtime is gone, or is idle.
LEMMA NobodyLeases ==
  ASSUME ResidencyInv, ~residencyClosed, NEW k \in Keys,
         k \in Resident => residents[k].pins = 0
  PROVE  \A c \in Clients : client[c].kind = "lease" => client[c].key # k
<1> SUFFICES ASSUME NEW c \in Clients, client[c].kind = "lease", client[c].key = k PROVE FALSE
  OBVIOUS
<1>1. ResidencyTypeOK /\ LeasedRuntimeStays /\ GenerationsAreReal
  BY DEF ResidencyInv, ResidentsAccounted
<1>2. residents[k].gen = client[c].gen /\ client[c].gen >= 1
  BY <1>1 DEF LeasedRuntimeStays, GenerationsAreReal
<1>3. k \in Resident
  BY <1>1, <1>2, RuntimeFields
<1>4. c \in Leases(k)
  BY <1>1, <1>2, LeaseFields
<1>5. Cardinality(Leases(k)) = 0 /\ IsFiniteSet(Leases(k))
  BY <1>1, <1>3, FiniteResidents DEF LeasedRuntimeStays
<1> QED  BY <1>4, <1>5, FS_EmptySet

\* An idle runtime leaves the map and is disposed of, by an operation other than disposeAll.
LEMMA DisposeBegins ==
  ASSUME ResidencyInv, ~residencyClosed, NEW op \in {"reserve", "remove", "sweep"},
         NEW k \in Resident, residents[k].pins = 0, NEW for \in Clients \X Keys,
         op = "reserve" => for[2] \notin Resident \cup Reserved /\ client[for[1]].kind = "none",
         BeginDispose(op, k, for, {}),
         UNCHANGED <<reservations, generation, residencyClosed, busy, client>>
  PROVE  ResidencyInv'
<1>1. /\ ResidencyTypeOK /\ LeasedRuntimeStays /\ GenerationsAreReal /\ ReservationsAreHeld
  BY DEF ResidencyInv, ResidentsAccounted
<1> DEFINE job == [op |-> op, key |-> k, victim |-> residents[k], for |-> for, rest |-> {}]
<1>2. residents' = [residents EXCEPT ![k] = None] /\ mutex' = job
  BY DEF BeginDispose
<1>3. /\ Resident' = Resident \ {k} /\ Cardinality(Resident') = Cardinality(Resident) - 1
      /\ residents' \in [Keys -> Runtimes] /\ residents'[k] = None
      /\ \A j \in Keys : j # k => residents'[j] = residents[j]
  BY <1>1, <1>2, RuntimeGone
<1>4. k \in Keys /\ residents[k] \in Runtimes /\ for[1] \in Clients /\ for[2] \in Keys
  BY <1>1, RuntimeFields
<1>5. job \in Jobs
  BY <1>4 DEF Jobs
<1>6. /\ mutex' # Free /\ mutex'.op = op /\ mutex'.key = k
      /\ mutex'.victim = residents[k] /\ mutex'.for = for
  <2>1. mutex' # Free
    BY <1>1, <1>2, <1>5, JobFields
  <2> QED  BY <1>2, <2>1
<1> HIDE DEF job
<1>7. ResidencyTypeOK'
  BY <1>1, <1>2, <1>3, <1>5 DEF ResidencyTypeOK
<1>8. Reserved' = Reserved
  BY DEF Reserved
<1>9. /\ Resident \cap Reserved = {} /\ Existing <= MaxResident /\ Existing >= Retained
      /\ Retained \in Nat
  BY Accounted, SMT
<1>10. WithinCapacity'
  <2>1. Existing' = Cardinality(Resident') + Cardinality(Reserved') + 1
    BY <1>6 DEF Existing, Retained
  <2>2. Cardinality(Resident) \in Nat /\ Cardinality(Reserved) \in Nat /\ MaxResident \in Nat
    BY <1>1, FiniteResidents, ResidencyAssumption
  <2> QED  BY <1>3, <1>8, <1>9, <2>1, <2>2 DEF WithinCapacity, Retained, Existing
<1>11. OneRuntimePerKey'
  BY <1>3, <1>6, <1>7, <1>8, <1>9 DEF OneRuntimePerKey
<1>12. LeasedRuntimeStays'
  <2>1. \A c \in Clients : client[c].kind = "lease" => client[c].key # k
    BY <1>4, NobodyLeases
  <2>2. ASSUME NEW j \in Resident' PROVE residents'[j].pins = Cardinality(Leases(j)')
    <3>1. j \in Keys /\ j # k /\ j \in Resident /\ residents'[j] = residents[j]
      BY <1>1, <1>3, RuntimeFields
    <3>2. Leases(j)' = Leases(j)
      BY <3>1, SameLeases
    <3> QED  BY <1>1, <3>1, <3>2 DEF LeasedRuntimeStays
  <2>3. ASSUME NEW c \in Clients, client[c].kind = "lease"
        PROVE  residents'[client[c].key].gen = client[c].gen
    BY <1>1, <1>3, <2>1, <2>3, RuntimeFields DEF LeasedRuntimeStays
  <2> QED  BY <2>2, <2>3 DEF LeasedRuntimeStays
<1>13. GenerationsAreReal' /\ ReservationsAreHeld'
  <2>1. \A j \in Resident' : j \in Resident /\ residents'[j] = residents[j]
    BY <1>1, <1>3, RuntimeFields
  <2> QED  BY <1>1, <2>1 DEF GenerationsAreReal, ReservationsAreHeld
<1>14. NothingAfterDisposeAll' /\ ClosedForGood'
  BY <1>6 DEF NothingAfterDisposeAll, ClosedForGood
<1>15. VictimsAreIdle' /\ ReserversWait'
  BY <1>1, <1>3, <1>6, <1>8 DEF VictimsAreIdle, ReserversWait, GenerationsAreReal
<1> QED  BY <1>7, <1>10, <1>11, <1>12, <1>13, <1>14, <1>15 DEF ResidencyInv, ResidentsAccounted

\* disposeAll goes on with what is left, or ends.
LEMMA DisposingAllKeeps ==
  ASSUME ResidencyInv, residencyClosed', Reserved' = {},
         reservations' \in [Keys -> 0 .. MaxGeneration],
         NEW for \in Clients \X Keys, DisposeAllRound(for, Resident),
         UNCHANGED <<generation, busy, client>>
  PROVE  ResidencyInv'
<1>1. ResidencyTypeOK /\ LeasedRuntimeStays /\ GenerationsAreReal /\ MaxResident \in Nat \ {0}
  BY ResidencyAssumption DEF ResidencyInv, ResidentsAccounted
<1>2. Cardinality(Resident) \in Nat /\ Cardinality(Reserved) \in Nat /\ Cardinality(Reserved') = 0
  BY <1>1, FiniteResidents, FS_EmptySet
<1>3. Cardinality(Resident) + Cardinality(Reserved) <= MaxResident
  <2>1. Existing <= MaxResident /\ Existing >= Retained
    BY Accounted, SMT
  <2> QED  BY <1>1, <1>2, <2>1 DEF Retained, Existing
<1>4. ReservationsAreHeld'
  BY DEF ReservationsAreHeld
<1>5. CASE Resident = {} /\ mutex' = Free /\ residents' = [k \in Keys |-> None]
  <2>1. Resident' = {} /\ residents' \in [Keys -> Runtimes]
    BY <1>5, ResidencyAssumption, RuntimeFields, <1>1 DEF Resident, None, Runtimes
  <2>2. ResidencyTypeOK'
    BY <1>1, <1>5, <2>1 DEF ResidencyTypeOK
  <2>3. WithinCapacity'
    BY <1>1, <1>2, <1>5, <2>1, FS_EmptySet DEF WithinCapacity, Existing, Retained
  <2>4. /\ OneRuntimePerKey' /\ LeasedRuntimeStays' /\ NothingAfterDisposeAll' /\ ClosedForGood'
        /\ VictimsAreIdle' /\ ReserversWait'
    BY <1>5, <2>1, <2>2 DEF OneRuntimePerKey, LeasedRuntimeStays, NothingAfterDisposeAll,
                            ClosedForGood, VictimsAreIdle, ReserversWait
  <2>5. GenerationsAreReal'
    BY <1>1, <2>1 DEF GenerationsAreReal
  <2> QED  BY <1>4, <2>2, <2>3, <2>4, <2>5 DEF ResidencyInv, ResidentsAccounted
<1>6. ASSUME NEW k \in Resident, BeginDispose("disposeAll", k, for, Resident \ {k})
      PROVE  ResidencyInv'
  <2> DEFINE job == [op |-> "disposeAll", key |-> k, victim |-> residents[k], for |-> for,
                     rest |-> Resident \ {k}]
  <2>1. residents' = [residents EXCEPT ![k] = None] /\ mutex' = job
    BY <1>6 DEF BeginDispose
  <2>2. /\ Resident' = Resident \ {k} /\ Cardinality(Resident') = Cardinality(Resident) - 1
        /\ residents' \in [Keys -> Runtimes]
        /\ \A j \in Keys : j # k => residents'[j] = residents[j]
    BY <1>1, <2>1, RuntimeGone
  <2>3. k \in Keys /\ residents[k] \in Runtimes /\ Resident \subseteq Keys
    BY <1>1, RuntimeFields
  <2>4. job \in Jobs
    BY <2>3 DEF Jobs
  <2>5. mutex' # Free /\ mutex'.op = "disposeAll" /\ mutex'.key = k /\ mutex'.rest = Resident'
    <3>1. mutex' # Free
      BY <1>1, <2>1, <2>4, JobFields
    <3> QED  BY <2>1, <2>2, <3>1
  <2> HIDE DEF job
  <2>6. ResidencyTypeOK'
    BY <1>1, <2>1, <2>2, <2>4 DEF ResidencyTypeOK
  <2>7. WithinCapacity'
    <3>1. Existing' = Cardinality(Resident') + Cardinality(Reserved') + 1
      BY <2>5 DEF Existing, Retained
    <3> QED  BY <1>1, <1>2, <1>3, <2>2, <3>1 DEF WithinCapacity
  <2>8. OneRuntimePerKey'
    BY <2>2, <2>5, <2>6 DEF OneRuntimePerKey
  <2>9. ASSUME NEW j \in Resident' PROVE j \in Resident /\ j \in Keys /\ residents'[j] = residents[j]
    BY <2>2, <2>3
  <2>10. LeasedRuntimeStays'
    <3>1. ASSUME NEW j \in Resident' PROVE residents'[j].pins = Cardinality(Leases(j)')
      <4>1. j \in Resident /\ j \in Keys /\ residents'[j] = residents[j]
        BY <2>9
      <4>2. Leases(j)' = Leases(j)
        BY <4>1, SameLeases
      <4> QED  BY <1>1, <4>1, <4>2 DEF LeasedRuntimeStays
    <3> QED  BY <3>1 DEF LeasedRuntimeStays
  <2>11. GenerationsAreReal'
    BY <1>1, <2>9 DEF GenerationsAreReal
  <2>12. /\ NothingAfterDisposeAll' /\ ClosedForGood' /\ VictimsAreIdle' /\ ReserversWait'
    BY <2>5 DEF NothingAfterDisposeAll, ClosedForGood, VictimsAreIdle, ReserversWait
  <2> QED  BY <1>4, <2>6, <2>7, <2>8, <2>10, <2>11, <2>12 DEF ResidencyInv, ResidentsAccounted
<1> QED  BY <1>5, <1>6 DEF DisposeAllRound

\* The mutex is free again and nothing else changed.
LEMMA MutexFreed ==
  ASSUME ResidencyInv, mutex' = Free, mutex = Free \/ mutex.op # "disposeAll",
         UNCHANGED <<residents, reservations, generation, residencyClosed, busy, client>>
  PROVE  ResidencyInv'
<1>1. ResidencyTypeOK /\ LeasedRuntimeStays /\ ClosedForGood
  BY DEF ResidencyInv, ResidentsAccounted
<1>2. Resident' = Resident /\ Reserved' = Reserved
  BY DEF Resident, Reserved
<1>3. WithinCapacity'
  <2>1. Existing' = Retained
    BY <1>1, <1>2, FiniteResidents DEF Existing, Retained
  <2> QED  BY <2>1, Accounted, RuntimeFields, SMT DEF WithinCapacity
<1>4. ResidencyTypeOK' /\ OneRuntimePerKey'
  BY <1>1, <1>2, Accounted DEF ResidencyTypeOK, OneRuntimePerKey
<1>5. \A k \in Keys : Leases(k)' = Leases(k)
  BY SameLeases
<1>6. LeasedRuntimeStays'
  BY <1>1, <1>2, <1>5, RuntimeFields DEF LeasedRuntimeStays
<1>7. NothingAfterDisposeAll' /\ ClosedForGood'
  BY <1>1, <1>2 DEF NothingAfterDisposeAll, ClosedForGood
<1>8. GenerationsAreReal' /\ ReservationsAreHeld' /\ VictimsAreIdle' /\ ReserversWait'
  BY <1>2 DEF ResidencyInv, GenerationsAreReal, ReservationsAreHeld, VictimsAreIdle, ReserversWait
<1> QED  BY <1>3, <1>4, <1>6, <1>7, <1>8 DEF ResidencyInv, ResidentsAccounted

\* A client gets a reservation, and the mutex is free.
LEMMA ReservingKeeps ==
  ASSUME ResidencyInv, ~residencyClosed, NEW c \in Clients, NEW k \in Keys,
         client[c].kind = "none", k \notin Resident \cup Reserved,
         Retained < MaxResident, MakeReservation(c, k), mutex' = Free,
         UNCHANGED <<residents, residencyClosed, busy>>
  PROVE  ResidencyInv'
<1>1. /\ ResidencyTypeOK /\ LeasedRuntimeStays /\ GenerationsAreReal /\ ReservationsAreHeld
  BY DEF ResidencyInv, ResidentsAccounted
<1> DEFINE g == generation + 1
<1>2. /\ generation' = g /\ reservations' = [reservations EXCEPT ![k] = g]
      /\ client' = [client EXCEPT ![c] = [kind |-> "reservation", key |-> k, gen |-> g]]
      /\ g \in 1 .. MaxGeneration
  BY <1>1, RuntimeFields DEF MakeReservation, Give, ResidencyTypeOK
<1> HIDE DEF g
<1>3. /\ Reserved' = Reserved \cup {k} /\ Cardinality(Reserved') = Cardinality(Reserved) + 1
      /\ reservations' \in [Keys -> 0 .. MaxGeneration] /\ reservations'[k] = g
      /\ \A j \in Keys : j # k => reservations'[j] = reservations[j]
  BY <1>1, <1>2, ReservationComes
<1>4. /\ client' \in [Clients -> Holdings]
      /\ client'[c].kind = "reservation" /\ client'[c].key = k /\ client'[c].gen = g
      /\ \A d \in Clients : d # c => client'[d] = client[d]
  <2>1. [kind |-> "reservation", key |-> k, gen |-> g] \in Holdings
    BY <1>2, RuntimeFields, <1>1 DEF Holdings
  <2> QED  BY <1>1, <1>2, <2>1 DEF ResidencyTypeOK
<1>5. Resident' = Resident
  BY DEF Resident
<1>6. ResidencyTypeOK'
  BY <1>1, <1>2, <1>3, <1>4, RuntimeFields DEF ResidencyTypeOK
<1>7. WithinCapacity'
  <2>1. Existing' = Retained + 1
    BY <1>1, <1>3, <1>5, FiniteResidents DEF Existing, Retained
  <2>2. Retained \in Nat /\ MaxResident \in Nat
    BY Accounted, ResidencyAssumption
  <2> QED  BY <2>1, <2>2 DEF WithinCapacity
<1>8. OneRuntimePerKey'
  BY <1>3, <1>5, <1>6, Accounted DEF OneRuntimePerKey
<1>9. LeasedRuntimeStays'
  <2>1. ASSUME NEW j \in Keys PROVE Leases(j)' = Leases(j)
    <3>1. \A d \in Clients : \/ client'[d].kind # "lease" /\ client[d].kind # "lease"
                             \/ client'[d] = client[d]
      BY <1>4
    <3> QED  BY <3>1 DEF Leases
  <2>2. \A d \in Clients : client'[d].kind = "lease" => client'[d] = client[d]
    BY <1>4
  <2> QED  BY <1>1, <1>5, <2>1, <2>2, RuntimeFields DEF LeasedRuntimeStays
<1>10. GenerationsAreReal'
  BY <1>1, <1>2, <1>4, <1>5 DEF GenerationsAreReal
<1>11. ReservationsAreHeld'
  <2>1. \A d \in Clients : client[d].kind = "reservation" => client[d].key # k
    <3> SUFFICES ASSUME NEW d \in Clients, client[d].kind = "reservation", client[d].key = k
                 PROVE  FALSE
      OBVIOUS
    <3>1. reservations[k] = client[d].gen /\ client[d].gen >= 1
      BY <1>1 DEF ReservationsAreHeld, GenerationsAreReal
    <3> QED  BY <3>1 DEF Reserved
  <2> SUFFICES ASSUME NEW d \in Clients, client'[d].kind = "reservation"
               PROVE  /\ reservations'[client'[d].key] = client'[d].gen
                      /\ \A e \in Clients : client'[e].kind = "reservation"
                                             /\ client'[e].key = client'[d].key => e = d
    BY DEF ReservationsAreHeld
  <2>2. CASE d = c
    BY <1>3, <1>4, <2>1, <2>2
  <2>3. CASE d # c
    <3>1. /\ client'[d] = client[d] /\ client[d].kind = "reservation"
          /\ client[d].key # k /\ client[d].key \in Keys
      BY <1>1, <1>4, <2>1, <2>3, RuntimeFields
    <3>2. reservations'[client[d].key] = client[d].gen
      BY <1>1, <1>3, <3>1 DEF ReservationsAreHeld
    <3>3. ASSUME NEW e \in Clients, client'[e].kind = "reservation", client'[e].key = client[d].key
          PROVE  e = d
      <4>1. e # c /\ client'[e] = client[e]
        BY <1>4, <3>1, <3>3
      <4> QED  BY <1>1, <3>1, <3>3, <4>1 DEF ReservationsAreHeld
    <3> QED  BY <3>1, <3>2, <3>3
  <2> QED  BY <2>2, <2>3
<1>12. NothingAfterDisposeAll' /\ ClosedForGood' /\ VictimsAreIdle' /\ ReserversWait'
  BY DEF NothingAfterDisposeAll, ClosedForGood, VictimsAreIdle, ReserversWait
<1> QED  BY <1>6, <1>7, <1>8, <1>9, <1>10, <1>11, <1>12 DEF ResidencyInv, ResidentsAccounted

\* A runtime whose dispose failed comes back, poisoned.
LEMMA RestoringKeeps ==
  ASSUME ResidencyInv, mutex # Free, mutex.op # "disposeAll", mutex' = Free,
         residents' = IF residencyClosed \/ mutex.key \in Resident THEN residents
                      ELSE [residents EXCEPT ![mutex.key] = [mutex.victim EXCEPT !.poisoned = TRUE]],
         UNCHANGED <<reservations, generation, residencyClosed, busy, client>>
  PROVE  ResidencyInv'
<1>1. /\ ResidencyTypeOK /\ LeasedRuntimeStays /\ GenerationsAreReal /\ ReservationsAreHeld
      /\ ClosedForGood /\ VictimsAreIdle
  BY DEF ResidencyInv, ResidentsAccounted
<1> PICK k \in Keys : k = mutex.key
  BY <1>1, JobFields
<1> PICK r : r = [mutex.victim EXCEPT !.poisoned = TRUE]
  OBVIOUS
<1>2. /\ ~residencyClosed /\ k \in Keys /\ k \notin Resident /\ k \notin Reserved
      /\ mutex.victim \in Runtimes /\ mutex.victim.gen >= 1 /\ mutex.victim.pins = 0
      /\ Existing <= MaxResident /\ Existing = Retained + 1 /\ Resident \cap Reserved = {}
  BY <1>1, JobFields, Accounted DEF ClosedForGood, VictimsAreIdle
<1>3. r \in Runtimes /\ r.gen >= 1 /\ r.pins = 0 /\ r # None
  BY <1>2 DEF Runtimes, None
<1>4. residents' = [residents EXCEPT ![k] = r]
  BY <1>2
<1>5. /\ Resident' = Resident \cup {k} /\ Cardinality(Resident') = Cardinality(Resident) + 1
      /\ residents' \in [Keys -> Runtimes] /\ residents'[k] = r
      /\ \A j \in Keys : j # k => residents'[j] = residents[j]
  BY <1>1, <1>2, <1>3, <1>4, RuntimeComes
<1>6. Reserved' = Reserved
  BY DEF Reserved
<1>7. ResidencyTypeOK'
  BY <1>1, <1>5 DEF ResidencyTypeOK
<1>8. WithinCapacity'
  <2>1. Existing' = Retained + 1
    BY <1>1, <1>5, <1>6, FiniteResidents DEF Existing, Retained
  <2> QED  BY <1>2, <2>1 DEF WithinCapacity
<1>9. OneRuntimePerKey'
  BY <1>2, <1>5, <1>6, <1>7 DEF OneRuntimePerKey
<1>10. LeasedRuntimeStays'
  <2>1. \A c \in Clients : client[c].kind = "lease" => client[c].key # k
    BY <1>2, NobodyLeases
  <2>2. residents'[k].pins = Cardinality(Leases(k)')
    <3>1. Leases(k)' = {}
      BY <2>1 DEF Leases
    <3> QED  BY <1>3, <1>5, <3>1, FS_EmptySet
  <2>3. ASSUME NEW j \in Resident PROVE residents'[j].pins = Cardinality(Leases(j)')
    <3>1. j \in Keys /\ j # k /\ residents'[j] = residents[j]
      BY <1>1, <1>2, <1>5, RuntimeFields
    <3>2. Leases(j)' = Leases(j)
      BY <3>1, SameLeases
    <3> QED  BY <1>1, <3>1, <3>2 DEF LeasedRuntimeStays
  <2>4. ASSUME NEW c \in Clients, client[c].kind = "lease"
        PROVE  residents'[client[c].key].gen = client[c].gen
    BY <1>1, <1>2, <1>5, <2>1, <2>4, RuntimeFields DEF LeasedRuntimeStays
  <2> QED  BY <1>5, <2>2, <2>3, <2>4 DEF LeasedRuntimeStays
<1>11. GenerationsAreReal'
  BY <1>1, <1>2, <1>3, <1>5, RuntimeFields DEF GenerationsAreReal
<1>12. ReservationsAreHeld'
  BY <1>1 DEF ReservationsAreHeld
<1>13. NothingAfterDisposeAll' /\ ClosedForGood' /\ VictimsAreIdle' /\ ReserversWait'
  BY <1>2 DEF NothingAfterDisposeAll, ClosedForGood, VictimsAreIdle, ReserversWait
<1> QED  BY <1>7, <1>8, <1>9, <1>10, <1>11, <1>12, <1>13 DEF ResidencyInv, ResidentsAccounted

\* forget: an idle runtime leaves the map.
LEMMA ForgettingKeeps ==
  ASSUME ResidencyInv, NEW k \in Keys, Forget(k)
  PROVE  ResidencyInv'
<1>1. /\ ResidencyTypeOK /\ LeasedRuntimeStays /\ GenerationsAreReal /\ ReservationsAreHeld
      /\ ClosedForGood
  BY DEF ResidencyInv, ResidentsAccounted
<1>2. /\ mutex = Free /\ mutex' = Free /\ k \in Resident /\ residents[k].pins = 0
      /\ residents' = [residents EXCEPT ![k] = None]
      /\ UNCHANGED <<reservations, generation, residencyClosed, busy, mutex, client>>
  BY DEF Forget
<1>3. ~residencyClosed
  BY <1>1, <1>2 DEF ClosedForGood
<1>4. /\ Resident' = Resident \ {k} /\ Cardinality(Resident') = Cardinality(Resident) - 1
      /\ residents' \in [Keys -> Runtimes] /\ residents'[k] = None
      /\ \A j \in Keys : j # k => residents'[j] = residents[j]
  BY <1>1, <1>2, RuntimeGone
<1>5. Reserved' = Reserved
  BY <1>2 DEF Reserved
<1>6. ResidencyTypeOK'
  BY <1>1, <1>2, <1>4 DEF ResidencyTypeOK
<1>7. WithinCapacity'
  <2>1. Existing' = Retained - 1
    BY <1>1, <1>2, <1>4, <1>5, FiniteResidents DEF Existing, Retained
  <2>2. Retained \in Nat /\ MaxResident \in Nat /\ Retained <= MaxResident
    BY <1>2, Accounted, ResidencyAssumption
  <2> QED  BY <2>1, <2>2 DEF WithinCapacity
<1>8. OneRuntimePerKey'
  BY <1>2, <1>4, <1>5, <1>6, Accounted DEF OneRuntimePerKey
<1>9. LeasedRuntimeStays'
  <2>1. \A c \in Clients : client[c].kind = "lease" => client[c].key # k
    BY <1>2, <1>3, NobodyLeases
  <2>2. ASSUME NEW j \in Resident' PROVE residents'[j].pins = Cardinality(Leases(j)')
    <3>1. j \in Keys /\ j # k /\ j \in Resident /\ residents'[j] = residents[j]
      BY <1>1, <1>4, RuntimeFields
    <3>2. Leases(j)' = Leases(j)
      BY <1>2, <3>1, SameLeases
    <3> QED  BY <1>1, <3>1, <3>2 DEF LeasedRuntimeStays
  <2>3. ASSUME NEW c \in Clients, client[c].kind = "lease"
        PROVE  residents'[client[c].key].gen = client[c].gen
    BY <1>1, <1>3, <1>4, <2>1, <2>3, RuntimeFields DEF LeasedRuntimeStays
  <2> QED  BY <1>2, <2>2, <2>3 DEF LeasedRuntimeStays
<1>10. GenerationsAreReal' /\ ReservationsAreHeld'
  <2>1. \A j \in Resident' : j \in Resident /\ residents'[j] = residents[j]
    BY <1>1, <1>4, RuntimeFields
  <2> QED  BY <1>1, <1>2, <2>1 DEF GenerationsAreReal, ReservationsAreHeld
<1>11. NothingAfterDisposeAll' /\ ClosedForGood' /\ VictimsAreIdle' /\ ReserversWait'
  BY <1>2, <1>3 DEF NothingAfterDisposeAll, ClosedForGood, VictimsAreIdle, ReserversWait
<1> QED  BY <1>6, <1>7, <1>8, <1>9, <1>10, <1>11 DEF ResidencyInv, ResidentsAccounted

\* A client gets a lease of a resident runtime.
LEMMA AcquiringKeeps ==
  ASSUME ResidencyInv, NEW c \in Clients, NEW k \in Keys, AcquireLease(c, k)
  PROVE  ResidencyInv'
<1>1. /\ ResidencyTypeOK /\ LeasedRuntimeStays /\ GenerationsAreReal /\ ReservationsAreHeld
      /\ ClosedForGood /\ VictimsAreIdle /\ ReserversWait
  BY DEF ResidencyInv, ResidentsAccounted
<1>2. /\ client[c].kind = "none" /\ ~Awaiting(c) /\ k \in Resident
      /\ residents' = [residents EXCEPT ![k].pins = @ + 1]
      /\ client' = [client EXCEPT ![c] = [kind |-> "lease", key |-> k, gen |-> residents[k].gen]]
      /\ UNCHANGED <<reservations, generation, residencyClosed, busy, mutex>>
  BY DEF AcquireLease, HasNothing, Give
<1>3. /\ client' \in [Clients -> Holdings] /\ client'[c].kind = "lease" /\ client'[c].key = k
      /\ client'[c].gen = residents[k].gen /\ \A d \in Clients : d # c => client'[d] = client[d]
  <2>1. [kind |-> "lease", key |-> k, gen |-> residents[k].gen] \in Holdings
    BY <1>1, RuntimeFields DEF Holdings
  <2> QED  BY <1>1, <1>2, <2>1 DEF ResidencyTypeOK
<1>4. /\ Leases(k)' = Leases(k) \cup {c} /\ c \notin Leases(k)
      /\ residents[k].pins = Cardinality(Leases(k))
      /\ residents'[k].gen = residents[k].gen
  <2>1. residents'[k].gen = residents[k].gen
    BY <1>1, <1>2 DEF ResidencyTypeOK, Runtimes
  <2>2. c \notin Leases(k)
    BY <1>1, <1>2, LeaseFields
  <2>3. client'[c] = [kind |-> "lease", key |-> k, gen |-> residents[k].gen]
    BY <1>1, <1>2 DEF ResidencyTypeOK
  <2>4. Leases(k)' = Leases(k) \cup {c}
    BY <1>3, <2>1, <2>3 DEF Leases
  <2> QED  BY <1>1, <1>2, <2>1, <2>2, <2>4 DEF LeasedRuntimeStays
<1>5. /\ Cardinality(Leases(k)') = residents[k].pins + 1
      /\ residents[k].pins + 1 <= Cardinality(Clients)
  <2>1. Leases(k)' \subseteq Clients /\ IsFiniteSet(Clients) /\ IsFiniteSet(Leases(k))
    BY <1>1, FiniteResidents, ResidencyAssumption DEF Leases
  <2>2. Cardinality(Leases(k)') = residents[k].pins + 1
    BY <1>4, <2>1, FS_AddElement
  <2> QED  BY <2>1, <2>2, FS_Subset
<1>6. /\ residents' \in [Keys -> Runtimes] /\ residents'[k].pins = residents[k].pins + 1
      /\ \A j \in Keys : j # k => residents'[j] = residents[j]
  <2>1. residents[k] \in Runtimes /\ residents[k].pins + 1 \in 0 .. Cardinality(Clients)
    BY <1>1, <1>5, RuntimeFields
  <2>2. [residents[k] EXCEPT !.pins = residents[k].pins + 1] \in Runtimes
    BY <2>1 DEF Runtimes
  <2>3. [residents[k] EXCEPT !.pins = residents[k].pins + 1].pins = residents[k].pins + 1
    BY <2>1 DEF Runtimes
  <2>4. residents \in [Keys -> Runtimes]
    BY <1>1 DEF ResidencyTypeOK
  <2> QED  BY <1>2, <2>2, <2>3, <2>4
<1>7. Resident' = Resident /\ Reserved' = Reserved
  <2>1. residents[k].gen >= 1 /\ residents'[k].gen >= 1
    BY <1>1, <1>2, <1>4 DEF GenerationsAreReal
  <2>2. residents'[k] # None
    BY <2>1 DEF None
  <2> QED  BY <1>2, <1>6, <2>2 DEF Resident, Reserved
<1>8. ResidencyTypeOK'
  BY <1>1, <1>2, <1>3, <1>6 DEF ResidencyTypeOK
<1>9. WithinCapacity' /\ OneRuntimePerKey'
  <2>1. Existing' = Existing
    BY <1>2, <1>7 DEF Existing, Retained
  <2> QED  BY <1>2, <1>7, <1>8, <2>1, Accounted DEF WithinCapacity, OneRuntimePerKey
<1>10. LeasedRuntimeStays'
  <2>1. ASSUME NEW j \in Resident PROVE residents'[j].pins = Cardinality(Leases(j)')
    <3>1. CASE j = k
      BY <1>5, <1>6, <3>1
    <3>2. CASE j # k
      <4>1. j \in Keys /\ residents'[j] = residents[j]
        BY <1>1, <1>6, <3>2, RuntimeFields
      <4>2. \A d \in Clients : \/ client'[d] = client[d]
                               \/ client[d].kind # "lease" /\ client'[d].key # j
        BY <1>2, <1>3, <3>2
      <4>3. Leases(j)' = Leases(j)
        BY <4>1, <4>2 DEF Leases
      <4> QED  BY <1>1, <4>1, <4>3 DEF LeasedRuntimeStays
    <3> QED  BY <3>1, <3>2
  <2>2. ASSUME NEW d \in Clients, client'[d].kind = "lease", ~residencyClosed
        PROVE  residents'[client'[d].key].gen = client'[d].gen
    <3>1. CASE d = c
      BY <1>3, <1>4, <3>1
    <3>2. CASE d # c
      <4>1. /\ client'[d] = client[d] /\ client[d].key \in Keys
            /\ residents[client[d].key].gen = client[d].gen
        BY <1>1, <1>3, <2>2, <3>2, RuntimeFields DEF LeasedRuntimeStays
      <4> QED  BY <1>4, <1>6, <4>1
    <3> QED  BY <3>1, <3>2
  <2> QED  BY <1>2, <1>7, <2>1, <2>2 DEF LeasedRuntimeStays
<1>11. GenerationsAreReal'
  <2>1. \A j \in Resident : residents'[j].gen = residents[j].gen
    BY <1>1, <1>4, <1>6, RuntimeFields
  <2> QED  BY <1>1, <1>2, <1>3, <1>7, <2>1 DEF GenerationsAreReal
<1>12. ReservationsAreHeld'
  <2>1. \A d \in Clients : client'[d].kind = "reservation" => client'[d] = client[d]
    BY <1>3
  <2> QED  BY <1>1, <1>2, <2>1 DEF ReservationsAreHeld
<1>13. ReserversWait'
  <2>1. mutex # Free /\ mutex.op = "reserve" => mutex.for[1] # c /\ mutex.for[1] \in Clients
    BY <1>1, <1>2, JobFields DEF Awaiting
  <2> QED  BY <1>1, <1>2, <1>3, <1>7, <2>1 DEF ReserversWait
<1>14. NothingAfterDisposeAll' /\ ClosedForGood' /\ VictimsAreIdle'
  BY <1>1, <1>2, <1>7 DEF NothingAfterDisposeAll, ClosedForGood, VictimsAreIdle
<1> QED  BY <1>8, <1>9, <1>10, <1>11, <1>12, <1>13, <1>14 DEF ResidencyInv, ResidentsAccounted

\* A client gives up its reservation, or loses it at the commit; whether it is still the
\* key's one, a reservation that is dropped is the client's own.
LEMMA UnreservingKeeps ==
  ASSUME ResidencyInv, NEW c \in Clients, NEW k \in Keys, client[c].kind = "reservation",
         client[c].key = k, client' = [client EXCEPT ![c] = Nothing],
         \/ UNCHANGED reservations /\ reservations[k] # client[c].gen
         \/ reservations' = [reservations EXCEPT ![k] = 0],
         UNCHANGED <<residents, generation, residencyClosed, busy, mutex>>
  PROVE  ResidencyInv'
<1>1. /\ ResidencyTypeOK /\ LeasedRuntimeStays /\ GenerationsAreReal /\ ReservationsAreHeld
      /\ ClosedForGood /\ VictimsAreIdle /\ ReserversWait
  BY DEF ResidencyInv, ResidentsAccounted
<1>2. /\ client' \in [Clients -> Holdings] /\ client'[c].kind = "none"
      /\ \A d \in Clients : d # c => client'[d] = client[d]
  <2>1. Nothing \in Holdings /\ Nothing.kind = "none"
    BY ResidencyAssumption, RuntimeFields, <1>1 DEF Nothing, Holdings
  <2> QED  BY <1>1, <2>1 DEF ResidencyTypeOK
<1>3. /\ reservations' \in [Keys -> 0 .. MaxGeneration] /\ Reserved' \subseteq Reserved
      /\ Cardinality(Reserved') <= Cardinality(Reserved) /\ Cardinality(Reserved') \in Nat
      /\ \A j \in Keys : j # k => reservations'[j] = reservations[j]
  <2>1. CASE UNCHANGED reservations
    <3>1. Reserved' = Reserved
      BY <2>1 DEF Reserved
    <3>2. Cardinality(Reserved) \in Nat
      BY <1>1, FiniteResidents
    <3>3. reservations' \in [Keys -> 0 .. MaxGeneration]
      BY <1>1, <2>1 DEF ResidencyTypeOK
    <3> QED  BY <2>1, <3>1, <3>2, <3>3
  <2>2. CASE reservations' = [reservations EXCEPT ![k] = 0]
    <3>1. Cardinality(Reserved') \in Nat
      BY <1>1, <2>2, ReservationGone, FS_CardinalityType
    <3>2. Cardinality(Reserved) \in Nat
      BY <1>1, FiniteResidents
    <3>3. Cardinality(Reserved') <= Cardinality(Reserved)
      <4>1. \/ Cardinality(Reserved') = Cardinality(Reserved) - 1
            \/ Cardinality(Reserved') = Cardinality(Reserved)
        BY <1>1, <2>2, ReservationGone
      <4> QED  BY <3>1, <3>2, <4>1
    <3>4. /\ Reserved' = Reserved \ {k} /\ reservations' \in [Keys -> 0 .. MaxGeneration]
          /\ \A j \in Keys : j # k => reservations'[j] = reservations[j]
      BY <1>1, <2>2, ReservationGone
    <3> QED  BY <3>1, <3>3, <3>4
  <2> QED  BY <2>1, <2>2
<1>4. Resident' = Resident
  BY DEF Resident
<1>5. ResidencyTypeOK'
  BY <1>1, <1>2, <1>3 DEF ResidencyTypeOK
<1>6. WithinCapacity'
  <2>1. Existing' <= Existing /\ Existing' \in Nat
    BY <1>1, <1>3, <1>4, FiniteResidents DEF Existing, Retained
  <2> QED  BY <2>1, Accounted, ResidencyAssumption DEF WithinCapacity
<1>7. OneRuntimePerKey'
  BY <1>3, <1>4, <1>5, Accounted DEF OneRuntimePerKey
<1>8. LeasedRuntimeStays'
  <2>1. ASSUME NEW j \in Keys PROVE Leases(j)' = Leases(j)
    <3>1. \A d \in Clients : \/ client'[d] = client[d]
                             \/ client[d].kind # "lease" /\ client'[d].kind # "lease"
      BY <1>2
    <3> QED  BY <3>1 DEF Leases
  <2>2. \A d \in Clients : client'[d].kind = "lease" => client'[d] = client[d]
    BY <1>2
  <2> QED  BY <1>1, <1>4, <2>1, <2>2, RuntimeFields DEF LeasedRuntimeStays
<1>9. GenerationsAreReal'
  BY <1>1, <1>2, <1>4 DEF GenerationsAreReal
<1>10. ReservationsAreHeld'
  <2> SUFFICES ASSUME ~residencyClosed, NEW d \in Clients, client'[d].kind = "reservation"
               PROVE  /\ reservations'[client'[d].key] = client'[d].gen
                      /\ \A e \in Clients : client'[e].kind = "reservation"
                                             /\ client'[e].key = client'[d].key => e = d
    BY DEF ReservationsAreHeld
  <2>1. d # c /\ client'[d] = client[d]
    BY <1>2
  <2>2. /\ reservations[client[d].key] = client[d].gen /\ client[d].key # k /\ client[d].key \in Keys
        /\ \A e \in Clients : client[e].kind = "reservation" /\ client[e].key = client[d].key
                               => e = d
    BY <1>1, <2>1, RuntimeFields DEF ReservationsAreHeld
  <2>3. \A e \in Clients : client'[e].kind = "reservation" => client'[e] = client[e]
    BY <1>2
  <2> QED  BY <1>3, <2>1, <2>2, <2>3
<1>11. ReserversWait'
  <2>1. mutex # Free /\ mutex.op = "reserve" => mutex.for[1] # c /\ mutex.for[1] \in Clients
    BY <1>1, JobFields DEF ReserversWait
  <2> QED  BY <1>1, <1>2, <1>3, <1>4, <2>1 DEF ReserversWait
<1>12. NothingAfterDisposeAll' /\ ClosedForGood' /\ VictimsAreIdle'
  BY <1>1, <1>3, <1>4 DEF NothingAfterDisposeAll, ClosedForGood, VictimsAreIdle
<1> QED  BY <1>5, <1>6, <1>7, <1>8, <1>9, <1>10, <1>11, <1>12 DEF ResidencyInv, ResidentsAccounted

\* A reservation becomes a runtime with one lease.
LEMMA CommittingKeeps ==
  ASSUME ResidencyInv, NEW c \in Clients, NEW k \in Keys, NEW g \in 1 .. MaxGeneration,
         client[c].kind = "reservation", client[c].key = k, client[c].gen = g,
         reservations[k] = g, ~residencyClosed,
         reservations' = [reservations EXCEPT ![k] = 0],
         residents' = [residents EXCEPT ![k] = [gen |-> g, pins |-> 1, poisoned |-> FALSE]],
         client' = [client EXCEPT ![c] = [kind |-> "lease", key |-> k, gen |-> g]],
         UNCHANGED <<generation, residencyClosed, busy, mutex>>
  PROVE  ResidencyInv'
<1>1. /\ ResidencyTypeOK /\ LeasedRuntimeStays /\ GenerationsAreReal /\ ReservationsAreHeld
      /\ ClosedForGood /\ VictimsAreIdle /\ ReserversWait
  BY DEF ResidencyInv, ResidentsAccounted
<1>2. g \in Nat /\ g >= 1 /\ g <= MaxGeneration /\ MaxGeneration \in Nat
  BY <1>1, RuntimeFields
<1>3. k \in Reserved /\ k \notin Resident
  BY <1>2, Accounted DEF Reserved
<1>4. /\ client' \in [Clients -> Holdings] /\ client'[c].kind = "lease" /\ client'[c].key = k
      /\ client'[c].gen = g /\ \A d \in Clients : d # c => client'[d] = client[d]
      /\ client'[c] = [kind |-> "lease", key |-> k, gen |-> g]
  <2>1. [kind |-> "lease", key |-> k, gen |-> g] \in Holdings
    BY <1>2 DEF Holdings
  <2> QED  BY <1>1, <2>1 DEF ResidencyTypeOK
<1>5. /\ Reserved' = Reserved \ {k} /\ Cardinality(Reserved') = Cardinality(Reserved) - 1
      /\ reservations' \in [Keys -> 0 .. MaxGeneration]
      /\ \A j \in Keys : j # k => reservations'[j] = reservations[j]
  BY <1>1, <1>3, ReservationGone
<1> DEFINE r == [gen |-> g, pins |-> 1, poisoned |-> FALSE]
<1>6. r \in Runtimes /\ r.gen = g /\ r.pins = 1 /\ r # None
  <2>1. Clients # {} /\ IsFiniteSet(Clients)
    BY ResidencyAssumption
  <2>2. Cardinality(Clients) \in Nat /\ Cardinality(Clients) # 0
    BY <2>1, FS_CardinalityType, FS_EmptySet
  <2>3. 1 \in 0 .. Cardinality(Clients)
    BY <2>2
  <2>4. r # None
    BY <1>2 DEF None
  <2> QED  BY <1>2, <2>3, <2>4 DEF Runtimes
<1> HIDE DEF r
<1>7. /\ Resident' = Resident \cup {k} /\ Cardinality(Resident') = Cardinality(Resident) + 1
      /\ residents' \in [Keys -> Runtimes] /\ residents'[k] = r
      /\ \A j \in Keys : j # k => residents'[j] = residents[j]
  <2>1. residents' = [residents EXCEPT ![k] = r]
    BY DEF r
  <2>2. k \in Keys \ Resident /\ ResidencyTypeOK
    BY <1>1, <1>3
  <2> QED  BY ONLY <1>6, <2>1, <2>2, RuntimeComes
<1>8. ResidencyTypeOK'
  BY <1>1, <1>4, <1>5, <1>7 DEF ResidencyTypeOK
<1>9. WithinCapacity'
  <2>1. Existing' = Existing
    BY <1>1, <1>5, <1>7, FiniteResidents DEF Existing, Retained
  <2> QED  BY <2>1, Accounted DEF WithinCapacity
<1>10. OneRuntimePerKey'
  <2>1. mutex # Free => mutex.key # k
    BY <1>3, Accounted
  <2> QED  BY <1>5, <1>7, <1>8, <2>1, Accounted DEF OneRuntimePerKey
<1>11. LeasedRuntimeStays'
  <2>1. \A d \in Clients : client[d].kind = "lease" => client[d].key # k
    BY <1>3, NobodyLeases
  <2>2. residents'[k].pins = Cardinality(Leases(k)')
    <3>1. residents'[k].gen = g
      BY <1>6, <1>7
    <3>2. Leases(k)' = {c}
      BY <1>4, <2>1, <3>1 DEF Leases
    <3>3. Cardinality({c}) = 1
      BY FS_Singleton
    <3>4. residents'[k].pins = 1
      BY <1>6, <1>7
    <3> QED  BY <3>2, <3>3, <3>4
  <2>3. ASSUME NEW j \in Resident PROVE residents'[j].pins = Cardinality(Leases(j)')
    <3>1. j \in Keys /\ j # k /\ residents'[j] = residents[j]
      BY <1>1, <1>3, <1>7, RuntimeFields
    <3>2. \A d \in Clients : \/ client'[d] = client[d]
                             \/ client[d].kind # "lease" /\ client'[d].key # j
      BY <1>4, <3>1
    <3>3. Leases(j)' = Leases(j)
      BY <3>1, <3>2 DEF Leases
    <3> QED  BY <1>1, <3>1, <3>3 DEF LeasedRuntimeStays
  <2>4. ASSUME NEW d \in Clients, client'[d].kind = "lease"
        PROVE  residents'[client'[d].key].gen = client'[d].gen
    <3>1. CASE d = c
      BY <1>4, <1>6, <1>7, <3>1
    <3>2. CASE d # c
      <4>1. /\ client'[d] = client[d] /\ client[d].key \in Keys
            /\ residents[client[d].key].gen = client[d].gen
        BY <1>1, <1>4, <2>4, <3>2, RuntimeFields DEF LeasedRuntimeStays
      <4>2. client[d].key # k
        BY <2>1, <2>4, <4>1
      <4> QED  BY <1>7, <4>1, <4>2
    <3> QED  BY <3>1, <3>2
  <2> QED  BY <1>7, <2>2, <2>3, <2>4 DEF LeasedRuntimeStays
<1>12. GenerationsAreReal'
  <2>1. \A j \in Resident : residents'[j] = residents[j]
    BY <1>1, <1>3, <1>7, RuntimeFields
  <2> QED  BY <1>1, <1>2, <1>4, <1>6, <1>7, <2>1 DEF GenerationsAreReal
<1>13. ReservationsAreHeld'
  <2> SUFFICES ASSUME NEW d \in Clients, client'[d].kind = "reservation"
               PROVE  /\ reservations'[client'[d].key] = client'[d].gen
                      /\ \A e \in Clients : client'[e].kind = "reservation"
                                             /\ client'[e].key = client'[d].key => e = d
    BY DEF ReservationsAreHeld
  <2>1. d # c /\ client'[d] = client[d]
    BY <1>4
  <2>2. /\ reservations[client[d].key] = client[d].gen /\ client[d].key # k /\ client[d].key \in Keys
        /\ \A e \in Clients : client[e].kind = "reservation" /\ client[e].key = client[d].key
                               => e = d
    BY <1>1, <2>1, RuntimeFields DEF ReservationsAreHeld
  <2>3. \A e \in Clients : client'[e].kind = "reservation" => client'[e] = client[e]
    BY <1>4
  <2> QED  BY <1>5, <2>1, <2>2, <2>3
<1>14. ReserversWait'
  <2>1. mutex # Free /\ mutex.op = "reserve" =>
          mutex.for[1] # c /\ mutex.for[1] \in Clients /\ mutex.for[2] # k
    BY <1>1, <1>3, JobFields DEF ReserversWait
  <2> QED  BY <1>1, <1>4, <1>5, <1>7, <2>1 DEF ReserversWait
<1>15. NothingAfterDisposeAll' /\ ClosedForGood' /\ VictimsAreIdle'
  BY <1>1 DEF NothingAfterDisposeAll, ClosedForGood, VictimsAreIdle
<1> QED  BY <1>8, <1>9, <1>10, <1>11, <1>12, <1>13, <1>14, <1>15 DEF ResidencyInv, ResidentsAccounted

\* A lease is released: the runtime it is of loses a pin, if it is still the one.
LEMMA ReleasingKeeps ==
  ASSUME ResidencyInv, NEW c \in Clients, ReleaseLease(c)
  PROVE  ResidencyInv'
<1> PICK k \in Keys : k = client[c].key
  BY RuntimeFields DEF ResidencyInv, ResidentsAccounted, OneRuntimePerKey
<1>1. /\ ResidencyTypeOK /\ LeasedRuntimeStays /\ GenerationsAreReal /\ ReservationsAreHeld
      /\ ClosedForGood /\ VictimsAreIdle /\ ReserversWait
  BY DEF ResidencyInv, ResidentsAccounted
<1>2. /\ client[c].kind = "lease" /\ client' = [client EXCEPT ![c] = Nothing]
      /\ residents' = IF residents[k].gen # client[c].gen THEN residents
                      ELSE [residents EXCEPT ![k].pins = IF @ = 0 THEN 0 ELSE @ - 1]
      /\ UNCHANGED <<reservations, generation, residencyClosed, busy, mutex>>
  BY DEF ReleaseLease
<1>3. /\ client' \in [Clients -> Holdings] /\ client'[c].kind = "none"
      /\ \A d \in Clients : d # c => client'[d] = client[d]
  <2>1. Nothing \in Holdings /\ Nothing.kind = "none"
    BY ResidencyAssumption, RuntimeFields, <1>1 DEF Nothing, Holdings
  <2> QED  BY <1>1, <1>2, <2>1 DEF ResidencyTypeOK
<1>4. /\ residents' \in [Keys -> Runtimes] /\ \A j \in Keys : residents'[j].gen = residents[j].gen
      /\ \A j \in Keys : j # k => residents'[j] = residents[j]
      /\ residents[k].gen # client[c].gen => residents'[k] = residents[k]
      /\ residents[k].gen = client[c].gen =>
           residents'[k].pins = IF residents[k].pins = 0 THEN 0 ELSE residents[k].pins - 1
  <2>1. residents \in [Keys -> Runtimes] /\ residents[k] \in Runtimes
    BY <1>1 DEF ResidencyTypeOK
  <2>2. CASE residents[k].gen # client[c].gen
    BY <1>2, <2>1, <2>2
  <2>3. CASE residents[k].gen = client[c].gen
    <3> DEFINE p == IF residents[k].pins = 0 THEN 0 ELSE residents[k].pins - 1
    <3>1. p \in 0 .. Cardinality(Clients)
      BY <1>1, RuntimeFields
    <3>2. residents' = [residents EXCEPT ![k] = [residents[k] EXCEPT !.pins = p]]
      BY <1>2, <2>1, <2>3
    <3> HIDE DEF p
    <3>3. [residents[k] EXCEPT !.pins = p] \in Runtimes
      BY <2>1, <3>1 DEF Runtimes
    <3>4. /\ [residents[k] EXCEPT !.pins = p].pins = p
          /\ [residents[k] EXCEPT !.pins = p].gen = residents[k].gen
      BY <2>1 DEF Runtimes
    <3>5. /\ residents' \in [Keys -> Runtimes] /\ residents'[k].pins = p
          /\ residents'[k].gen = residents[k].gen
          /\ \A j \in Keys : j # k => residents'[j] = residents[j]
      BY <2>1, <3>2, <3>3, <3>4
    <3> QED  BY <2>3, <3>5 DEF p
  <2> QED  BY <2>2, <2>3
<1>5. Resident' = Resident /\ Reserved' = Reserved
  <2>1. ASSUME NEW j \in Keys PROVE residents'[j] # None <=> residents[j] # None
    <3>1. residents[j] # None => residents'[j] # None
      <4> SUFFICES ASSUME residents[j] # None PROVE residents'[j] # None
        OBVIOUS
      <4>1. residents[j].gen >= 1
        BY <1>1 DEF GenerationsAreReal, Resident
      <4> QED  BY <1>4, <4>1 DEF None
    <3>2. residents[j] = None => residents'[j] = None
      <4> SUFFICES ASSUME residents[j] = None PROVE residents'[j] = None
        OBVIOUS
      <4>1. j = k => residents[k].gen # client[c].gen
        <5>1. client[c].gen >= 1
          BY <1>1, <1>2 DEF GenerationsAreReal
        <5> QED  BY <5>1 DEF None
      <4> QED  BY <1>4, <4>1
    <3> QED  BY <3>1, <3>2
  <2> QED  BY <1>2, <2>1 DEF Resident, Reserved
<1>6. ResidencyTypeOK'
  BY <1>1, <1>2, <1>3, <1>4 DEF ResidencyTypeOK
<1>7. WithinCapacity' /\ OneRuntimePerKey'
  <2>1. Existing' = Existing
    BY <1>2, <1>5 DEF Existing, Retained
  <2> QED  BY <1>2, <1>5, <1>6, <2>1, Accounted DEF WithinCapacity, OneRuntimePerKey
<1>8. LeasedRuntimeStays'
  <2>1. ASSUME NEW j \in Resident PROVE residents'[j].pins = Cardinality(Leases(j)')
    <3>1. j \in Keys
      BY <1>1, RuntimeFields
    <3>2. Leases(j)' = Leases(j) \ {c}
      <4>1. \A d \in Clients : d # c => client'[d] = client[d]
        BY <1>3
      <4> QED  BY <1>3, <1>4, <3>1, <4>1 DEF Leases
    <3>3. c \in Leases(j) <=> j = k /\ residents[k].gen = client[c].gen
      BY <1>1, <1>2, <3>1, LeaseFields
    <3>4. /\ residents[j].pins = Cardinality(Leases(j)) /\ IsFiniteSet(Leases(j))
          /\ Cardinality(Leases(j)) \in Nat
      BY <1>1, <3>1, FiniteResidents DEF LeasedRuntimeStays
    <3>5. CASE j = k /\ residents[k].gen = client[c].gen
      <4>1. Cardinality(Leases(j)') = residents[j].pins - 1
        BY <3>2, <3>3, <3>4, <3>5, FS_RemoveElement
      <4>2. residents[j].pins # 0
        BY <3>3, <3>4, <3>5, FS_EmptySet
      <4> QED  BY <1>4, <3>5, <4>1, <4>2
    <3>6. CASE ~(j = k /\ residents[k].gen = client[c].gen)
      <4>1. Leases(j)' = Leases(j) /\ residents'[j] = residents[j]
        BY <1>4, <3>1, <3>2, <3>3, <3>6
      <4> QED  BY <3>4, <4>1
    <3> QED  BY <3>5, <3>6
  <2>2. ASSUME NEW d \in Clients, client'[d].kind = "lease", ~residencyClosed
        PROVE  residents'[client'[d].key].gen = client'[d].gen
    <3>1. client'[d] = client[d] /\ client[d].key \in Keys
      BY <1>1, <1>3, <2>2, RuntimeFields
    <3> QED  BY <1>1, <1>4, <2>2, <3>1 DEF LeasedRuntimeStays
  <2> QED  BY <1>2, <1>5, <2>1, <2>2 DEF LeasedRuntimeStays
<1>9. GenerationsAreReal'
  BY <1>1, <1>3, <1>4, <1>5, RuntimeFields DEF GenerationsAreReal
<1>10. ReservationsAreHeld'
  <2>1. \A d \in Clients : client'[d].kind = "reservation" => client'[d] = client[d]
    BY <1>3
  <2> QED  BY <1>1, <1>2, <2>1 DEF ReservationsAreHeld
<1>11. ReserversWait'
  <2>1. mutex # Free /\ mutex.op = "reserve" => mutex.for[1] # c /\ mutex.for[1] \in Clients
    BY <1>1, <1>2, JobFields DEF ReserversWait
  <2> QED  BY <1>1, <1>2, <1>3, <1>5, <2>1 DEF ReserversWait
<1>12. NothingAfterDisposeAll' /\ ClosedForGood' /\ VictimsAreIdle'
  BY <1>1, <1>2, <1>5 DEF NothingAfterDisposeAll, ClosedForGood, VictimsAreIdle
<1> QED  BY <1>6, <1>7, <1>8, <1>9, <1>10, <1>11, <1>12 DEF ResidencyInv, ResidentsAccounted

\* The invariant does not depend on who is busy.
LEMMA NothingMoves ==
  ASSUME ResidencyInv, busy' \subseteq Keys,
         UNCHANGED <<residents, reservations, generation, residencyClosed, mutex, client>>
  PROVE  ResidencyInv'
<1>1. Resident' = Resident /\ Reserved' = Reserved
  BY DEF Resident, Reserved
<1>2. \A k \in Keys : Leases(k)' = Leases(k)
  BY SameLeases
<1>3. Existing' = Existing
  BY <1>1 DEF Existing, Retained
<1>4. ResidencyTypeOK /\ Resident \subseteq Keys
  BY RuntimeFields DEF ResidencyInv, ResidentsAccounted, OneRuntimePerKey
<1>5. ResidencyTypeOK'
  BY <1>4 DEF ResidencyTypeOK
<1>6. ResidentsAccounted'
  BY <1>1, <1>2, <1>3, <1>4, <1>5 DEF ResidencyInv, ResidentsAccounted, WithinCapacity,
     OneRuntimePerKey, LeasedRuntimeStays, NothingAfterDisposeAll
<1>7. /\ GenerationsAreReal' /\ ReservationsAreHeld' /\ ClosedForGood' /\ VictimsAreIdle'
      /\ ReserversWait'
  BY <1>1 DEF ResidencyInv, GenerationsAreReal, ReservationsAreHeld, ClosedForGood, VictimsAreIdle,
     ReserversWait
<1> QED  BY <1>5, <1>6, <1>7 DEF ResidencyInv

\* What a step of reserve leaves behind, alone or after an eviction.
LEMMA RoundKeeps ==
  ASSUME ResidencyInv, ~residencyClosed, mutex = Free \/ mutex.op # "disposeAll",
         NEW c \in Clients, NEW k \in Keys, NEW mayEvict \in BOOLEAN, client[c].kind = "none",
         k \notin Resident \cup Reserved, ReserveRound(c, k, mayEvict),
         UNCHANGED <<residencyClosed, busy>>
  PROVE  ResidencyInv'
<1>1. CASE Retained < MaxResident /\ MakeReservation(c, k) /\ mutex' = Free /\ UNCHANGED residents
  BY <1>1, ReservingKeeps
<1>2. ASSUME NEW v \in Keys, Evictable(v), BeginDispose("reserve", v, <<c, k>>, {}),
             UNCHANGED <<generation, reservations, client>>
      PROVE  ResidencyInv'
  <2>1. v \in Resident /\ residents[v].pins = 0
    BY <1>2 DEF Evictable
  <2>2. <<c, k>> \in Clients \X Keys /\ <<c, k>>[1] = c /\ <<c, k>>[2] = k
    OBVIOUS
  <2> QED  BY <1>2, <2>1, <2>2, DisposeBegins
<1>3. CASE mutex' = Free /\ UNCHANGED <<residents, generation, reservations, client>>
  BY <1>3, MutexFreed
<1> QED  BY <1>1, <1>2, <1>3 DEF ReserveRound

LEMMA SomeRequest == AnyRequest \in Clients \X Keys
<1>1. (CHOOSE c \in Clients : TRUE) \in Clients /\ (CHOOSE k \in Keys : TRUE) \in Keys
  BY ResidencyAssumption
<1> QED  BY <1>1 DEF AnyRequest

LEMMA DisposingOn ==
  ASSUME ResidencyInv, mutex # Free, mutex.op = "disposeAll", DisposeAllRound(mutex.for, mutex.rest),
         UNCHANGED <<reservations, generation, residencyClosed, busy, client>>
  PROVE  ResidencyInv'
<1>1. ResidencyTypeOK /\ ClosedForGood
  BY DEF ResidencyInv, ResidentsAccounted, OneRuntimePerKey
<1>2. residencyClosed /\ Resident = mutex.rest /\ Reserved = {} /\ mutex.for \in Clients \X Keys
  BY <1>1, JobFields DEF ClosedForGood
<1> PICK for \in Clients \X Keys : for = mutex.for
  BY <1>2
<1>3. DisposeAllRound(for, Resident)
  BY <1>2
<1>4. residencyClosed' /\ Reserved' = {} /\ reservations' \in [Keys -> 0 .. MaxGeneration]
  BY <1>1, <1>2 DEF Reserved, ResidencyTypeOK
<1> QED  BY <1>3, <1>4, DisposingAllKeeps

\* commit and cancel, by what becomes of the reservation.
LEMMA CommitKeeps ==
  ASSUME ResidencyInv, NEW c \in Clients, Commit(c)
  PROVE  ResidencyInv'
<1>1. /\ ResidencyTypeOK /\ GenerationsAreReal
  BY DEF ResidencyInv, ResidentsAccounted, OneRuntimePerKey
<1> PICK k \in Keys, g \in 0 .. MaxGeneration : k = client[c].key /\ g = client[c].gen
  BY <1>1, RuntimeFields
<1>2. /\ client[c].kind = "reservation" /\ reservations' = [reservations EXCEPT ![k] = 0]
      /\ UNCHANGED <<generation, residencyClosed, busy, mutex>>
  BY DEF Commit
<1>3. g \in 1 .. MaxGeneration
  BY <1>1, <1>2, RuntimeFields DEF GenerationsAreReal
<1>4. CASE reservations[k] # g \/ residencyClosed
  <2>1. client' = [client EXCEPT ![c] = Nothing] /\ UNCHANGED residents
    BY <1>4 DEF Commit
  <2> QED  BY <1>2, <2>1, UnreservingKeeps
<1>5. CASE reservations[k] = g /\ ~residencyClosed
  <2>1. /\ residents' = [residents EXCEPT ![k] = [gen |-> g, pins |-> 1, poisoned |-> FALSE]]
        /\ client' = [client EXCEPT ![c] = [kind |-> "lease", key |-> k, gen |-> g]]
    BY <1>5 DEF Commit, Give
  <2> QED  BY <1>2, <1>3, <1>5, <2>1, CommittingKeeps
<1> QED  BY <1>4, <1>5

LEMMA CancelKeeps ==
  ASSUME ResidencyInv, NEW c \in Clients, CancelReservation(c)
  PROVE  ResidencyInv'
<1> PICK k \in Keys : k = client[c].key
  BY RuntimeFields DEF ResidencyInv, ResidentsAccounted, OneRuntimePerKey
<1>1. /\ client[c].kind = "reservation" /\ client' = [client EXCEPT ![c] = Nothing]
      /\ UNCHANGED <<residents, generation, residencyClosed, busy, mutex>>
      /\ \/ UNCHANGED reservations /\ reservations[k] # client[c].gen
         \/ reservations' = [reservations EXCEPT ![k] = 0]
  BY DEF CancelReservation
<1> QED  BY <1>1, UnreservingKeeps

\* Runtimes become busy and idle again; or nothing happens.
LEMMA WorkingKeeps ==
  ASSUME ResidencyInv, NEW k \in Keys, Work(k)
  PROVE  ResidencyInv'
<1>1. /\ busy' \subseteq Keys
      /\ UNCHANGED <<residents, reservations, generation, residencyClosed, mutex, client>>
  BY DEF Work, ResidencyInv, ResidentsAccounted, OneRuntimePerKey, ResidencyTypeOK
<1> QED  BY <1>1, NothingMoves

LEMMA DisposedKeeps ==
  ASSUME ResidencyInv, Disposed
  PROVE  ResidencyInv'
<1>1. /\ ResidencyTypeOK /\ ClosedForGood /\ ReserversWait /\ mutex # Free
      /\ UNCHANGED <<residencyClosed, busy>>
  BY DEF ResidencyInv, ResidentsAccounted, Disposed
<1>2. CASE mutex.op = "reserve" /\ ReserveRound(mutex.for[1], mutex.for[2], TRUE)
  <2>1. /\ ~residencyClosed /\ mutex.for[1] \in Clients /\ mutex.for[2] \in Keys
        /\ client[mutex.for[1]].kind = "none" /\ mutex.for[2] \notin Resident \cup Reserved
    BY <1>1, <1>2, JobFields DEF ClosedForGood, ReserversWait
  <2> PICK c \in Clients, k \in Keys : c = mutex.for[1] /\ k = mutex.for[2]
    BY <2>1
  <2>2. mutex.op # "disposeAll"
    BY <1>2
  <2>3. ReserveRound(c, k, TRUE) /\ client[c].kind = "none" /\ k \notin Resident \cup Reserved
    BY <1>2, <2>1
  <2> QED  BY <1>1, <2>1, <2>2, <2>3, RoundKeeps
<1>3. CASE /\ mutex.op = "remove" /\ mutex' = Free
           /\ UNCHANGED <<residents, reservations, generation, client>>
  <2>1. mutex.op # "disposeAll"
    BY <1>3
  <2> QED  BY <1>1, <1>3, <2>1, MutexFreed
<1>4. CASE mutex.op = "sweep" /\ SweepRound /\ UNCHANGED <<reservations, generation, client>>
  <2>1. mutex.op # "disposeAll" /\ ~residencyClosed /\ mutex.for \in Clients \X Keys
    BY <1>1, <1>4, JobFields DEF ClosedForGood
  <2>2. CASE mutex' = Free /\ UNCHANGED residents
    BY <1>1, <1>4, <2>1, <2>2, MutexFreed
  <2> PICK for \in Clients \X Keys : for = mutex.for
    BY <2>1
  <2>3. ASSUME NEW v \in Keys, Evictable(v), BeginDispose("sweep", v, mutex.for, {})
        PROVE  ResidencyInv'
    <3>1. v \in Resident /\ residents[v].pins = 0 /\ BeginDispose("sweep", v, for, {})
      BY <2>3 DEF Evictable
    <3> QED  BY <1>1, <1>4, <2>1, <3>1, DisposeBegins
  <2> QED  BY <1>4, <2>2, <2>3 DEF SweepRound
<1>5. CASE mutex.op = "disposeAll" /\ DisposeAllRound(mutex.for, mutex.rest)
             /\ UNCHANGED <<reservations, generation, client>>
  BY <1>1, <1>5, DisposingOn
<1> QED  BY <1>2, <1>3, <1>4, <1>5 DEF Disposed

\* SessionRuntimeResidency keeps its limit, one runtime per key, every leased runtime and, after
\* disposeAll, none, for any number of keys, clients and runtimes.
THEOREM ResidentsAreAccounted == ResidencySpec => []ResidentsAccounted
<1>1. ResidencyInit => ResidencyInv
  <2> SUFFICES ASSUME ResidencyInit PROVE ResidencyInv
    OBVIOUS
  <2>1. /\ None \in Runtimes /\ Nothing \in Holdings /\ Nothing.kind = "none"
        /\ 0 \in 0 .. MaxGeneration
    <3>1. Cardinality(Clients) \in Nat /\ MaxGeneration \in Nat /\ Keys # {}
      BY ResidencyAssumption, FS_CardinalityType
    <3>2. (CHOOSE k \in Keys : TRUE) \in Keys
      BY <3>1
    <3> QED  BY <3>1, <3>2 DEF None, Runtimes, Nothing, Holdings
  <2>2. ResidencyTypeOK /\ mutex = Free /\ ~residencyClosed
    BY <2>1 DEF ResidencyInit, ResidencyTypeOK
  <2>3. Resident = {} /\ Reserved = {}
    BY DEF ResidencyInit, Resident, Reserved
  <2>4. \A c \in Clients : client[c].kind = "none"
    BY <2>1 DEF ResidencyInit
  <2>5. WithinCapacity
    BY <2>2, <2>3, FS_EmptySet, ResidencyAssumption DEF WithinCapacity, Existing, Retained
  <2> QED  BY <2>2, <2>3, <2>4, <2>5 DEF ResidencyInv, ResidentsAccounted, OneRuntimePerKey,
           LeasedRuntimeStays, NothingAfterDisposeAll, GenerationsAreReal, ReservationsAreHeld,
           ClosedForGood, VictimsAreIdle, ReserversWait
<1>2. ResidencyInv /\ [ResidencyNext]_residencyVars => ResidencyInv'
  <2> SUFFICES ASSUME ResidencyInv, [ResidencyNext]_residencyVars PROVE ResidencyInv'
    OBVIOUS
  <2>1. ResidencyTypeOK /\ ClosedForGood
    BY DEF ResidencyInv, ResidentsAccounted, OneRuntimePerKey
  <2>2. ASSUME NEW c \in Clients, NEW k \in Keys, Reserve(c, k) PROVE ResidencyInv'
    <3>1. /\ mutex = Free /\ ~residencyClosed /\ client[c].kind = "none" /\ (k \in Web) \in BOOLEAN
          /\ k \notin Resident \cup Reserved /\ ReserveRound(c, k, k \in Web)
          /\ UNCHANGED <<residencyClosed, busy>>
      BY <2>2 DEF Reserve, HasNothing
    <3> QED  BY <3>1, RoundKeeps
  <2>3. ASSUME NEW c \in Clients, NEW k \in Keys, AcquireLease(c, k) PROVE ResidencyInv'
    BY <2>3, AcquiringKeeps
  <2>4. ASSUME NEW c \in Clients, Commit(c) PROVE ResidencyInv'
    BY <2>4, CommitKeeps
  <2>5. ASSUME NEW c \in Clients, CancelReservation(c) PROVE ResidencyInv'
    BY <2>5, CancelKeeps
  <2>6. ASSUME NEW c \in Clients, ReleaseLease(c) PROVE ResidencyInv'
    BY <2>6, ReleasingKeeps
  <2>7. ASSUME NEW k \in Keys, RemoveResident(k) PROVE ResidencyInv'
    <3>1. /\ mutex = Free /\ k \in Resident /\ residents[k].pins = 0
          /\ BeginDispose("remove", k, AnyRequest, {})
          /\ UNCHANGED <<reservations, generation, residencyClosed, busy, client>>
      BY <2>7 DEF RemoveResident
    <3>2. ~residencyClosed
      BY <2>1, <3>1 DEF ClosedForGood
    <3> QED  BY <3>1, <3>2, SomeRequest, DisposeBegins
  <2>8. ASSUME NEW k \in Keys, Forget(k) PROVE ResidencyInv'
    BY <2>8, ForgettingKeeps
  <2>9. ASSUME NEW k \in Keys, Work(k) PROVE ResidencyInv'
    BY <2>9, WorkingKeeps
  <2>10. ASSUME SweepIdle PROVE ResidencyInv'
    <3>1. PICK v \in Keys : Evictable(v) /\ BeginDispose("sweep", v, AnyRequest, {})
      BY <2>10 DEF SweepIdle
    <3>2. /\ ~residencyClosed /\ v \in Resident /\ residents[v].pins = 0
          /\ UNCHANGED <<reservations, generation, residencyClosed, busy, client>>
      BY <2>10, <3>1 DEF SweepIdle, Evictable
    <3> QED  BY <3>1, <3>2, SomeRequest, DisposeBegins
  <2>11. ASSUME DisposeAll PROVE ResidencyInv'
    <3>1. /\ residencyClosed' = TRUE /\ reservations' = [k \in Keys |-> 0]
          /\ DisposeAllRound(AnyRequest, Resident) /\ UNCHANGED <<generation, busy, client>>
      BY <2>11 DEF DisposeAll
    <3>2. Reserved' = {} /\ reservations' \in [Keys -> 0 .. MaxGeneration]
      BY <3>1, ResidencyAssumption DEF Reserved
    <3> QED  BY <3>1, <3>2, SomeRequest, DisposingAllKeeps
  <2>12. ASSUME Disposed PROVE ResidencyInv'
    BY <2>12, DisposedKeeps
  <2>13. ASSUME DisposeFails PROVE ResidencyInv'
    <3>1. CASE /\ mutex # Free /\ mutex.op = "disposeAll" /\ DisposeAllRound(mutex.for, mutex.rest)
               /\ UNCHANGED <<reservations, generation, residencyClosed, busy, client>>
      BY <3>1, DisposingOn
    <3>2. CASE /\ mutex # Free /\ mutex.op # "disposeAll" /\ mutex' = Free
               /\ residents' = IF residencyClosed \/ mutex.key \in Resident THEN residents
                               ELSE [residents EXCEPT ![mutex.key] =
                                       [mutex.victim EXCEPT !.poisoned = TRUE]]
               /\ UNCHANGED <<reservations, generation, residencyClosed, busy, client>>
      BY <3>2, RestoringKeeps
    <3> QED  BY <2>13, <3>1, <3>2 DEF DisposeFails
  <2>14. CASE UNCHANGED residencyVars
    <3>1. /\ busy' \subseteq Keys
          /\ UNCHANGED <<residents, reservations, generation, residencyClosed, mutex, client>>
      BY <2>1, <2>14 DEF residencyVars, ResidencyTypeOK
    <3> QED  BY <3>1, NothingMoves
  <2> QED  BY <2>2, <2>3, <2>4, <2>5, <2>6, <2>7, <2>8, <2>9, <2>10, <2>11, <2>12, <2>13, <2>14
           DEF ResidencyNext
<1>3. ResidencyInv => ResidentsAccounted
  BY DEF ResidencyInv
<1> QED  BY <1>1, <1>2, <1>3, PTL DEF ResidencySpec
=============================================================================
