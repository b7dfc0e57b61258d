-------------------------- MODULE ToolCalls_proofs --------------------------
(***************************************************************************)
(* What ToolCalls promises, for any calls, executors, parents and paths: a *)
(* call that is not concurrency-safe runs alone in its executor and none   *)
(* overtakes another at the gate; the lock map holds the last reservation  *)
(* of exactly the paths in use, and the chain of promises is a FIFO queue  *)
(* per path (FifoLocks).                                                   *)
(*                                                                         *)
(* The gate and the locks share no variable, so each has an invariant of   *)
(* its own, kept by the steps of its own module; a step of ToolCalls is    *)
(* one of the gate's and one of the locks', or leaves them alone.          *)
(***************************************************************************)
EXTENDS ToolCalls, FiniteSetTheorems, WellFoundedInduction, TLAPS

-----------------------------------------------------------------------------
(* Numbers in order *)

\* The natural numbers are well ordered.
LEMMA LeastNumber ==
  ASSUME NEW S \in SUBSET Nat, S # {}
  PROVE  \E n \in S : \A m \in S : n <= m
<1>1. OpToRel(<, Nat) = {p \in Nat \X Nat : p[1] < p[2]}
  BY DEF OpToRel
<1>2. PICK n \in S : \A m \in S : <<m, n>> \notin OpToRel(<, Nat)
  BY NatLessThanWellFounded, WFMin, Zenon
<1>3. ASSUME NEW m \in S
      PROVE  n <= m
  <2>1. n \in Nat /\ m \in Nat /\ <<m, n>> \in Nat \X Nat
    OBVIOUS
  <2>2. ~ (<<m, n>> \in {p \in Nat \X Nat : p[1] < p[2]})
    BY <1>1, <1>2
  <2> QED BY <2>1, <2>2
<1> QED BY <1>3

LEMMA SequencesAreFunctions ==
  ASSUME NEW T, NEW q \in Seq(T)
  PROVE  q \in [1 .. Len(q) -> T] /\ Len(q) \in Nat
  OBVIOUS

LEMMA ElementsOf ==
  ASSUME NEW T, NEW f \in Seq(T)
  PROVE  \A i \in 1 .. Len(f) : f[i] \in T
  OBVIOUS

LEMMA SequenceInto ==
  ASSUME NEW T, NEW U, NEW f \in Seq(T), \A i \in 1 .. Len(f) : f[i] \in U
  PROVE  f \in Seq(U)
<1>1. Len(f) \in Nat /\ f = [i \in 1 .. Len(f) |-> f[i]]
  OBVIOUS
<1> QED BY <1>1

LEMMA ConcatIs ==
  ASSUME NEW T, NEW a \in Seq(T), NEW b \in Seq(T)
  PROVE  /\ a \o b \in Seq(T) /\ Len(a \o b) = Len(a) + Len(b)
         /\ \A i \in 1 .. Len(a) + Len(b) :
              (a \o b)[i] = IF i <= Len(a) THEN a[i] ELSE b[i - Len(a)]
  OBVIOUS

LEMMA FrontIs ==
  ASSUME NEW T, NEW q \in Seq(T), NEW h \in Nat \ {0}, Len(q) = h
  PROVE  /\ SubSeq(q, 1, h - 1) \in Seq(T) /\ Len(SubSeq(q, 1, h - 1)) = h - 1
         /\ \A i \in 1 .. h - 1 : SubSeq(q, 1, h - 1)[i] = q[i]
  OBVIOUS

LEMMA LocksCardinality == \A S : Locks!Cardinality(S) = Cardinality(S)
  BY DEF Locks!Cardinality, Cardinality

\* s counts the set S upwards.
Sorted(s, S) ==
  LET n == Cardinality(S)
  IN  /\ s \in [1 .. n -> S] /\ \A i, j \in 1 .. n : i < j => s[i] < s[j]
      
\* Every finite set of numbers has such a sequence, which leaves none of them out.
LEMMA SortedExists ==
  ASSUME NEW S \in SUBSET Nat, IsFiniteSet(S)
  PROVE  \E s : Sorted(s, S)
<1> DEFINE Unsorted == {n \in Nat : \E T \in SUBSET Nat : /\ IsFiniteSet(T) /\ Cardinality(T) = n
                                                        /\ ~ \E s : Sorted(s, T)}
<1>1. SUFFICES ASSUME Unsorted # {} PROVE FALSE
  BY FS_CardinalityType
<1>2. PICK n \in Unsorted : \A m \in Unsorted : n <= m
  BY <1>1, LeastNumber
<1>3. PICK T \in SUBSET Nat : IsFiniteSet(T) /\ Cardinality(T) = n /\ ~ \E s : Sorted(s, T)
  BY <1>2
<1>4. CASE T = {}
  <2>1. Cardinality(T) = 0
    BY <1>4, FS_EmptySet
  <2>2. Sorted(<<>>, T)
    BY <1>4, <2>1 DEF Sorted
  <2> QED BY <2>2, <1>3
<1>5. CASE T # {}
  <2>1. PICK m \in T : \A k \in T : m <= k
    BY <1>5, LeastNumber
  <2> DEFINE U == T \ {m}
  <2>2. IsFiniteSet(U) /\ Cardinality(U) = n - 1 /\ n - 1 \in Nat /\ n \in Nat
    <3>1. IsFiniteSet(U) /\ Cardinality(U) = Cardinality(T) - 1
      BY <1>3, FS_RemoveElement
    <3>2. Cardinality(U) \in Nat
      BY <3>1, FS_CardinalityType
    <3> HIDE DEF U
    <3> QED BY <3>1, <3>2, <1>3
  <2>3. n - 1 \notin Unsorted
    BY <1>2, <2>2
  <2>4. PICK s : Sorted(s, U)
    BY <2>2, <2>3
  <2> DEFINE t == [i \in 1 .. n |-> IF i = 1 THEN m ELSE s[i - 1]]
  <2>5. Sorted(t, T)
    <3>0. s \in [1 .. n - 1 -> U] /\ \A i, j \in 1 .. n - 1 : i < j => s[i] < s[j]
      BY <2>2, <2>4 DEF Sorted
    <3>1. \A i \in 1 .. n : i # 1 => i - 1 \in 1 .. n - 1 /\ s[i - 1] \in U
      BY <2>2, <3>0
    <3>2. t \in [1 .. n -> T]
      BY <3>1
    <3>3. ASSUME NEW i \in 1 .. n, NEW j \in 1 .. n, i < j
          PROVE  t[i] < t[j]
      <4>1. CASE i = 1
        <5>1. j # 1 /\ s[j - 1] \in T /\ s[j - 1] # m
          BY <4>1, <3>1, <3>3
        <5>2. m <= s[j - 1] /\ m \in Nat /\ s[j - 1] \in Nat
          BY <5>1, <2>1
        <5> QED BY <4>1, <5>1, <5>2
      <4>2. CASE i # 1
        <5>1. i - 1 \in 1 .. n - 1 /\ j - 1 \in 1 .. n - 1 /\ i - 1 < j - 1 /\ j # 1
          BY <3>3, <4>2
        <5> QED BY <5>1, <4>2, <3>0
      <4> QED BY <4>1, <4>2
    <3> QED BY <3>2, <3>3, <1>3 DEF Sorted
  <2> QED BY <2>5, <1>3
<1> QED BY <1>4, <1>5

LEMMA AscendingIsSorted ==
  ASSUME NEW S \in SUBSET Nat, IsFiniteSet(S)
  PROVE  Sorted(Ascending(S), S) /\ Locks!Ascending(S) = Ascending(S)
<1>1. PICK s : Sorted(s, S)
  BY SortedExists
<1>2. Locks!Cardinality(S) = Cardinality(S)
  BY LocksCardinality
<1>3. \E t \in [1 .. Cardinality(S) -> S] : \A i, j \in 1 .. Cardinality(S) : i < j => t[i] < t[j]
  BY <1>1 DEF Sorted
<1>4. Sorted(Ascending(S), S)
  BY <1>3 DEF Sorted, Ascending
<1>5. Locks!Ascending(S) = Ascending(S)
  BY <1>2 DEF Locks!Ascending, Ascending
<1> QED BY <1>4, <1>5

LEMMA SortedIsOnto ==
  ASSUME NEW S \in SUBSET Nat, IsFiniteSet(S), NEW s, Sorted(s, S)
  PROVE  /\ s \in Seq(S) /\ Len(s) = Cardinality(S) /\ Cardinality(S) \in Nat
         /\ \A i, j \in 1 .. Len(s) : s[i] = s[j] => i = j
         /\ \A k \in S : \E i \in 1 .. Len(s) : s[i] = k
<1> DEFINE n == Cardinality(S)
<1>1. n \in Nat
  BY FS_CardinalityType
<1>2. s \in [1 .. n -> S] /\ \A i, j \in 1 .. n : i < j => s[i] < s[j]
  BY DEF Sorted
<1> HIDE DEF n
<1>3. s \in Seq(S) /\ Len(s) = n
  BY <1>1, <1>2
<1>4. ASSUME NEW i \in 1 .. n, NEW j \in 1 .. n, s[i] = s[j]
      PROVE  i = j
  <2>1. s[i] \in Nat /\ s[j] \in Nat
    BY <1>2
  <2> QED BY <1>2, <1>4, <2>1, <1>1
<1>5. s \in Injection(1 .. n, S)
  BY <1>2, <1>4 DEF Injection, IsInjective
<1>6. Cardinality(1 .. n) = n
  BY <1>1, FS_Interval
<1>7. s \in Surjection(1 .. n, S)
  BY <1>5, <1>6, FS_Injection DEF n
<1>8. \A k \in S : \E i \in 1 .. n : s[i] = k
  BY <1>7 DEF Surjection
<1> QED BY <1>1, <1>3, <1>4, <1>8 DEF n

LEMMA SortedIsUnique ==
  ASSUME NEW S \in SUBSET Nat, IsFiniteSet(S), NEW s, Sorted(s, S), NEW t, Sorted(t, S)
  PROVE  s = t
<1> DEFINE n == Cardinality(S)
           D == {i \in 1 .. n : s[i] # t[i]}
<1>1. /\ s \in [1 .. n -> S] /\ \A i, j \in 1 .. n : i < j => s[i] < s[j]
      /\ t \in [1 .. n -> S] /\ \A i, j \in 1 .. n : i < j => t[i] < t[j]
  BY DEF Sorted
<1>2. n \in Nat /\ \A k \in S : (\E i \in 1 .. n : s[i] = k) /\ (\E i \in 1 .. n : t[i] = k)
  BY SortedIsOnto
<1> HIDE DEF n
<1> SUFFICES ASSUME s # t PROVE FALSE
  OBVIOUS
<1>3. D # {}
  <2>1. s \in [1 .. n -> S] /\ t \in [1 .. n -> S]
    BY <1>1
  <2>2. (\A i \in 1 .. n : s[i] = t[i]) => s = t
    BY <1>2, <2>1
  <2>3. \E i \in 1 .. n : s[i] # t[i]
    BY <2>2
  <2> QED BY <2>3
<1>4. PICK i \in D : \A j \in D : i <= j
  <2>1. D \in SUBSET Nat
    BY <1>2
  <2> HIDE DEF D
  <2> QED BY <2>1, <1>3, LeastNumber
<1>5. PICK j \in 1 .. n : t[j] = s[i]
  BY <1>1, <1>2
<1>6. PICK k \in 1 .. n : s[k] = t[i]
  BY <1>1, <1>2
<1>7. i \in 1 .. n /\ s[i] # t[i] /\ \A l \in 1 .. n : l < i => s[l] = t[l]
  BY <1>4
<1>8. \A l \in 1 .. n : s[l] \in Nat /\ t[l] \in Nat
  BY <1>1
<1>9. j > i
  BY <1>1, <1>5, <1>7, <1>8
<1>10. k > i
  BY <1>1, <1>6, <1>7, <1>8
<1> QED BY <1>1, <1>5, <1>6, <1>7, <1>8, <1>9, <1>10

LEMMA SortedAppend ==
  ASSUME NEW S \in SUBSET Nat, IsFiniteSet(S), NEW s, Sorted(s, S),
         NEW m \in Nat, \A k \in S : k < m
  PROVE  Sorted(Append(s, m), S \cup {m})
<1> DEFINE n == Cardinality(S)
<1>1. n \in Nat /\ Cardinality(S \cup {m}) = n + 1
  BY FS_CardinalityType, FS_AddElement
<1>2. s \in [1 .. n -> S] /\ \A i, j \in 1 .. n : i < j => s[i] < s[j]
  BY DEF Sorted
<1> HIDE DEF n
<1>3. s \in Seq(S) /\ Len(s) = n
  BY <1>1, <1>2
<1>4. /\ Append(s, m) \in [1 .. n + 1 -> S \cup {m}]
      /\ \A i \in 1 .. n : Append(s, m)[i] = s[i] /\ Append(s, m)[i] < m
      /\ Append(s, m)[n + 1] = m
  <2>1. Append(s, m) \in Seq(S \cup {m}) /\ Len(Append(s, m)) = n + 1
    <3>1. s \in Seq(S \cup {m})
      BY <1>1, <1>2
    <3> QED BY <3>1, <1>3
  <2>2. \A i \in 1 .. n : Append(s, m)[i] = s[i] /\ s[i] \in S
    BY <1>1, <1>2, <1>3
  <2>3. Append(s, m)[n + 1] = m
    BY <1>1, <1>3
  <2>4. Append(s, m) \in [1 .. n + 1 -> S \cup {m}]
    BY <2>1, SequencesAreFunctions
  <2> QED BY <2>2, <2>3, <2>4
<1>5. \A i, j \in 1 .. n + 1 : i < j => Append(s, m)[i] < Append(s, m)[j]
  BY <1>1, <1>2, <1>4
<1> QED BY <1>1, <1>4, <1>5 DEF Sorted

LEMMA SortedTail ==
  ASSUME NEW S \in SUBSET Nat, IsFiniteSet(S), NEW s, Sorted(s, S),
         NEW m \in S, \A k \in S : m <= k
  PROVE  s # <<>> /\ Head(s) = m /\ Sorted(Tail(s), S \ {m})
<1> DEFINE n == Cardinality(S)
<1>1. n \in Nat /\ Cardinality(S \ {m}) = n - 1
  BY FS_CardinalityType, FS_RemoveElement
<1>2. s \in [1 .. n -> S] /\ \A i, j \in 1 .. n : i < j => s[i] < s[j]
  BY DEF Sorted
<1>3. s \in Seq(S) /\ Len(s) = n /\ \E i \in 1 .. n : s[i] = m
  BY SortedIsOnto
<1> HIDE DEF n
<1>4. n >= 1 /\ s # <<>> /\ s[1] = m
  <2>1. PICK i \in 1 .. n : s[i] = m
    BY <1>3
  <2>2. 1 \in 1 .. n /\ s[1] \in S /\ m <= s[1]
    <3>1. 1 \in 1 .. n
      BY <1>1
    <3> QED BY <3>1, <1>2
  <2>3. i # 1 => s[1] < s[i]
    BY <1>1, <1>2, <2>1, <2>2
  <2>4. s[1] \in Nat /\ m \in Nat
    BY <2>2
  <2>5. s[1] = m
    BY <2>1, <2>2, <2>3, <2>4
  <2> QED BY <1>1, <1>3, <2>2, <2>5
<1>5. \A i \in 2 .. n : s[i] \in S \ {m}
  <2>1. \A i \in 2 .. n : i \in 1 .. n /\ s[1] < s[i] /\ s[i] \in S /\ s[1] \in Nat
    BY <1>1, <1>2, <1>4
  <2> QED BY <2>1, <1>4
<1>6. /\ Tail(s) \in Seq(S) /\ Len(Tail(s)) = n - 1
      /\ \A i \in 1 .. n - 1 : Tail(s)[i] = s[i + 1]
  BY <1>1, <1>3, <1>4
<1>7. Tail(s) \in [1 .. n - 1 -> S \ {m}]
  <2>1. \A i \in 1 .. n - 1 : Tail(s)[i] \in S \ {m}
    BY <1>1, <1>5, <1>6
  <2>2. Tail(s) \in [1 .. n - 1 -> S]
    BY <1>6, SequencesAreFunctions
  <2> QED BY <2>1, <2>2
<1>8. \A i, j \in 1 .. n - 1 : i < j => Tail(s)[i] < Tail(s)[j]
  BY <1>1, <1>2, <1>6
<1>9. Sorted(Tail(s), S \ {m})
  BY <1>1, <1>7, <1>8 DEF Sorted
<1> QED BY <1>3, <1>4, <1>9

-----------------------------------------------------------------------------
(* The gate *)

Runs(x, ph) == {t \in Calls : ph[t] = "running" /\ ExecutorOf[t] = x}

\* What queue, counters and phases say of executor x: who queues is in the queue once, an
\* exclusive call runs alone, and the counters count.
GateAt(x, q, shared, exclusive, ph) ==
  /\ q \in Seq(Calls) /\ shared \in Nat /\ exclusive \in BOOLEAN
  /\ \A i \in 1 .. Len(q) : ph[q[i]] = "queued" /\ ExecutorOf[q[i]] = x
  /\ \A i, j \in 1 .. Len(q) : q[i] = q[j] => i = j
  /\ \A t \in Runs(x, ph) \ Shared : Runs(x, ph) = {t}
  /\ shared = Cardinality(Runs(x, ph) \cap Shared)
  /\ exclusive <=> Runs(x, ph) \ Shared # {}

GateInv ==
  /\ Gate!TypeOK
  /\ \A x \in Executors :
       GateAt(x, queue[x], concurrentInFlight[x], exclusiveInFlight[x], phase)

\* How many calls a drain may start, which ones, and the phases it leaves.
MayStart(q, shared, exclusive, n) ==
  /\ n \in 0 .. Len(q)
  /\ n > 0 => /\ ~exclusive
              /\ \/ \A i \in 1 .. n : q[i] \in Shared
                 \/ n = 1 /\ q[1] \notin Shared /\ shared = 0

Prefix(q, n) == {q[i] : i \in 1 .. n}

StillExclusive(exclusive, S) == exclusive \/ S \ Shared # {}

WithRunning(ph, S) == [t \in Calls |-> IF t \in S THEN "running" ELSE ph[t]]

LEMMA GateConstants == IsFiniteSet(Calls) /\ ExecutorOf \in [Calls -> Executors] /\ Shared \subseteq Calls
  BY CallsAssumption DEF Gate!GateAssumption, Gate!IsFiniteSet, IsFiniteSet

LEMMA GateCardinality == \A S : Gate!Cardinality(S) = Cardinality(S)
  BY DEF Gate!Cardinality, Cardinality

\* The prefix is the longest one of shared calls.
LEMMA SharedPrefixIs ==
  ASSUME NEW q \in Seq(Calls)
  PROVE  /\ Gate!SharedPrefix(q) \in 0 .. Len(q)
         /\ \A i \in 1 .. Gate!SharedPrefix(q) : q[i] \in Shared
<1> DEFINE E == {n \in 0 .. Len(q) : n < Len(q) => q[n + 1] \notin Shared}
<1>1. Len(q) \in E /\ E \in SUBSET Nat
  OBVIOUS
<1>2. PICK n \in E : \A m \in E : n <= m
  <2> HIDE DEF E
  <2> QED BY <1>1, LeastNumber
<1>3. \A i \in 1 .. n : q[i] \in Shared
  <2>1. ASSUME NEW i \in 1 .. n, q[i] \notin Shared
        PROVE  FALSE
    <3>1. i - 1 \in 0 .. Len(q) /\ q[(i - 1) + 1] = q[i] /\ i - 1 < n
      BY <1>1, <1>2
    <3>2. i - 1 \in E
      BY <3>1, <2>1
    <3>3. n \in Nat /\ n <= i - 1
      BY <1>2, <3>2
    <3> QED BY <3>1, <3>3
  <2> QED BY <2>1
<1>4. \E k \in 0 .. Len(q) : /\ \A i \in 1 .. k : q[i] \in Shared
                             /\ k < Len(q) => q[k + 1] \notin Shared
  BY <1>2, <1>3
<1> QED BY <1>4 DEF Gate!SharedPrefix

LEMMA StartCountIs ==
  ASSUME NEW q \in Seq(Calls), NEW shared \in Nat, NEW exclusive \in BOOLEAN,
         NEW n, n = Gate!StartCount(q, shared, exclusive)
  PROVE  MayStart(q, shared, exclusive, n)
<1> USE DEF MayStart
<1>1. CASE exclusive \/ q = <<>>
  BY <1>1 DEF Gate!StartCount
<1>2. CASE ~exclusive /\ q # <<>> /\ q[1] \in Shared
  BY <1>2, SharedPrefixIs DEF Gate!StartCount
<1>3. CASE ~exclusive /\ q # <<>> /\ q[1] \notin Shared
  <2>1. n \in {0, 1} /\ (n = 1 => shared = 0)
    BY <1>3 DEF Gate!StartCount
  <2>2. Len(q) >= 1
    BY <1>3
  <2> QED BY <1>3, <2>1, <2>2
<1> QED BY <1>1, <1>2, <1>3

\* A drain keeps what it finds.
LEMMA DrainAt ==
  ASSUME NEW x \in Executors, NEW q, NEW shared, NEW exclusive, NEW ph, NEW n,
         GateAt(x, q, shared, exclusive, ph), MayStart(q, shared, exclusive, n),
         NEW started, started = Prefix(q, n),
         NEW rest, rest = SubSeq(q, n + 1, Len(q)),
         NEW sharedLater, sharedLater = shared + Cardinality(started \cap Shared),
         NEW exclusiveLater, exclusiveLater = StillExclusive(exclusive, started),
         NEW later, later = WithRunning(ph, started)
  PROVE  GateAt(x, rest, sharedLater, exclusiveLater, later)
<1> USE DEF StillExclusive
<1>1. q \in Seq(Calls) /\ n \in Nat /\ n <= Len(q) /\ shared \in Nat /\ exclusive \in BOOLEAN
  BY DEF GateAt, MayStart
<1>2. /\ rest \in Seq(Calls) /\ Len(rest) = Len(q) - n
      /\ \A i \in 1 .. Len(rest) : rest[i] = q[n + i] /\ n + i \in 1 .. Len(q)
  BY <1>1
<1>3. started \subseteq Calls /\ \A i \in 1 .. Len(q) : q[i] \in started <=> i <= n
  <2>1. started = {q[i] : i \in 1 .. n}
    BY DEF Prefix
  <2>2. \A i, j \in 1 .. Len(q) : q[i] = q[j] => i = j
    BY DEF GateAt
  <2> QED BY <1>1, <2>1, <2>2
<1>4. \A i \in 1 .. Len(rest) : later[rest[i]] = "queued" /\ ExecutorOf[rest[i]] = x
  BY <1>1, <1>2, <1>3 DEF GateAt, WithRunning
<1>5. \A i, j \in 1 .. Len(rest) : rest[i] = rest[j] => i = j
  <2>1. \A i, j \in 1 .. Len(q) : q[i] = q[j] => i = j
    BY DEF GateAt
  <2>2. ASSUME NEW i \in 1 .. Len(rest), NEW j \in 1 .. Len(rest), rest[i] = rest[j]
        PROVE  i = j
    <3>1. n + i \in 1 .. Len(q) /\ n + j \in 1 .. Len(q) /\ q[n + i] = q[n + j]
      BY <1>2, <2>2
    <3>2. n + i = n + j
      BY <2>1, <3>1
    <3> QED BY <1>1, <3>2
  <2> QED BY <2>2
<1>6. Runs(x, later) = Runs(x, ph) \cup started /\ Runs(x, ph) \cap started = {}
  <2>1. started \subseteq {t \in Calls : ph[t] = "queued" /\ ExecutorOf[t] = x}
    <3>1. \A i \in 1 .. n : q[i] \in Calls /\ ph[q[i]] = "queued" /\ ExecutorOf[q[i]] = x
      BY <1>1 DEF GateAt
    <3> QED BY <3>1 DEF Prefix
  <2> QED BY <2>1 DEF Runs, WithRunning
<1>7. IsFiniteSet(Calls)
  BY GateConstants
<1>8. IsFiniteSet(Runs(x, ph) \cap Shared) /\ IsFiniteSet(started \cap Shared)
  BY <1>3, <1>7, FS_Subset DEF Runs
<1>9. /\ Cardinality(Runs(x, later) \cap Shared) = shared + Cardinality(started \cap Shared)
      /\ Cardinality(started \cap Shared) \in Nat
  <2> DEFINE A == Runs(x, ph) \cap Shared
             B == started \cap Shared
  <2>1. A \cap B = {} /\ Runs(x, later) \cap Shared = A \cup B
    BY <1>6
  <2>2. Cardinality(A) = shared
    BY DEF GateAt
  <2> HIDE DEF A, B
  <2>3. Cardinality(A \cup B) = Cardinality(A) + Cardinality(B) - Cardinality(A \cap B)
    BY <1>8, FS_Union DEF A, B
  <2>4. Cardinality(A \cap B) = 0 /\ Cardinality(A) \in Nat /\ Cardinality(B) \in Nat
    BY <1>8, <2>1, FS_EmptySet, FS_CardinalityType DEF A, B
  <2>5. Cardinality(A \cup B) = shared + Cardinality(B)
    BY <2>2, <2>3, <2>4
  <2>6. Cardinality(Runs(x, later) \cap Shared) = Cardinality(A \cup B)
    BY <2>1
  <2> QED BY <2>4, <2>5, <2>6 DEF B
<1>10. \A t \in Runs(x, later) \ Shared : Runs(x, later) = {t}
  <2>1. \A t \in Runs(x, ph) \ Shared : Runs(x, ph) = {t}
    BY DEF GateAt
  <2>2. CASE n = 0
    <3>1. started = {}
      BY <2>2 DEF Prefix
    <3> QED BY <2>1, <3>1, <1>6
  <2>3. CASE ~exclusive /\ started \subseteq Shared
    BY <2>3, <1>6 DEF GateAt
  <2>4. CASE n = 1 /\ shared = 0 /\ ~exclusive
    <3>1. started = {q[1]}
      BY <2>4 DEF Prefix
    <3>2. Runs(x, ph) \cap Shared = {} /\ Runs(x, ph) \ Shared = {}
      BY <2>4, <1>8, FS_EmptySet DEF GateAt
    <3> QED BY <3>1, <3>2, <1>6
  <2>5. n = 0 \/ (n > 0 /\ ~exclusive /\ (started \subseteq Shared \/ (n = 1 /\ shared = 0)))
    BY <1>1 DEF MayStart, Prefix
  <2> QED BY <2>2, <2>3, <2>4, <2>5
<1>11. (exclusive \/ started \ Shared # {}) <=> Runs(x, later) \ Shared # {}
  BY <1>6 DEF GateAt
<1>12. exclusiveLater \in BOOLEAN /\ sharedLater \in Nat
  BY <1>1, <1>9
<1>13. sharedLater = Cardinality(Runs(x, later) \cap Shared)
  BY <1>9
<1> QED BY <1>2, <1>4, <1>5, <1>10, <1>11, <1>12, <1>13 DEF GateAt

LEMMA DrainKeeps ==
  ASSUME GateInv, NEW x \in Executors, NEW q, NEW shared, NEW exclusive,
         NEW ph \in [Calls -> Gate!Phases], GateAt(x, q, shared, exclusive, ph),
         \A t \in Calls : ExecutorOf[t] # x => ph[t] = phase[t],
         Gate!Drain(x, q, shared, exclusive, ph), UNCHANGED closed
  PROVE  GateInv'
<1> DEFINE n == IF closed[x] THEN 0 ELSE Gate!StartCount(q, shared, exclusive)
           started == Prefix(q, n)
<1>1. MayStart(q, shared, exclusive, n) /\ q \in Seq(Calls)
  <2>1. q \in Seq(Calls) /\ shared \in Nat /\ exclusive \in BOOLEAN
    BY DEF GateAt
  <2>2. CASE closed[x]
    BY <2>1, <2>2 DEF MayStart
  <2>3. CASE ~closed[x]
    <3>1. n = Gate!StartCount(q, shared, exclusive)
      BY <2>3
    <3> HIDE DEF n
    <3> QED BY <2>1, <3>1, StartCountIs
  <2> QED BY <2>2, <2>3
<1>2. /\ queue' = [queue EXCEPT ![x] = SubSeq(q, n + 1, Len(q))]
      /\ concurrentInFlight' =
           [concurrentInFlight EXCEPT ![x] = shared + Cardinality(started \cap Shared)]
      /\ exclusiveInFlight' =
           [exclusiveInFlight EXCEPT ![x] = StillExclusive(exclusive, started)]
      /\ phase' = WithRunning(ph, started)
  BY GateCardinality DEF Gate!Drain, Prefix, WithRunning, StillExclusive
<1> HIDE DEF n
<1>3. started \subseteq {t \in Calls : ExecutorOf[t] = x}
  BY <1>1 DEF GateAt, MayStart, Prefix
<1> HIDE DEF started
<1>4. GateAt(x, SubSeq(q, n + 1, Len(q)), shared + Cardinality(started \cap Shared),
             StillExclusive(exclusive, started), phase')
  <2>1. PICK m, S, rest, sharedLater, exclusiveLater, later :
          /\ m = n /\ S = started /\ rest = SubSeq(q, n + 1, Len(q))
          /\ sharedLater = shared + Cardinality(started \cap Shared)
          /\ exclusiveLater = StillExclusive(exclusive, started)
          /\ later = phase'
    OBVIOUS
  <2>2. /\ MayStart(q, shared, exclusive, m) /\ S = Prefix(q, m)
        /\ rest = SubSeq(q, m + 1, Len(q))
        /\ sharedLater = shared + Cardinality(S \cap Shared)
        /\ exclusiveLater = StillExclusive(exclusive, S)
        /\ later = WithRunning(ph, S)
    BY <1>1, <1>2, <2>1 DEF started
  <2>3. GateAt(x, rest, sharedLater, exclusiveLater, later)
    BY <2>2, DrainAt
  <2> QED BY <2>1, <2>3
<1>5. GateAt(x, queue'[x], concurrentInFlight'[x], exclusiveInFlight'[x], phase')
  BY <1>2, <1>4 DEF GateInv, Gate!TypeOK
<1>6. phase' \in [Calls -> Gate!Phases]
  BY <1>2 DEF Gate!Phases, WithRunning
<1>7. ASSUME NEW y \in Executors, y # x
      PROVE  GateAt(y, queue'[y], concurrentInFlight'[y], exclusiveInFlight'[y], phase')
  <2>1. /\ queue'[y] = queue[y] /\ concurrentInFlight'[y] = concurrentInFlight[y]
        /\ exclusiveInFlight'[y] = exclusiveInFlight[y]
    BY <1>2, <1>7 DEF GateInv, Gate!TypeOK
  <2>2. \A t \in Calls : ExecutorOf[t] = y => phase'[t] = phase[t]
    BY <1>2, <1>3, <1>7 DEF WithRunning
  <2>3. Runs(y, phase') = Runs(y, phase)
    BY <2>2 DEF Runs
  <2>4. GateAt(y, queue[y], concurrentInFlight[y], exclusiveInFlight[y], phase)
    BY DEF GateInv
  <2>5. \A i \in 1 .. Len(queue[y]) : phase'[queue[y][i]] = "queued"
    BY <2>2, <2>4 DEF GateAt
  <2> QED BY <2>1, <2>3, <2>4, <2>5 DEF GateAt
<1>8. \A y \in Executors :
        GateAt(y, queue'[y], concurrentInFlight'[y], exclusiveInFlight'[y], phase')
  BY <1>5, <1>7
<1>9. Gate!TypeOK'
  <2>1. DOMAIN queue' = Executors /\ \A y \in Executors : queue'[y] \in Seq(Calls)
    BY <1>2, <1>8 DEF GateAt, GateInv, Gate!TypeOK
  <2>2. concurrentInFlight' \in [Executors -> Nat]
    BY <1>2, <1>4 DEF GateAt, GateInv, Gate!TypeOK
  <2>3. exclusiveInFlight' \in [Executors -> BOOLEAN]
    BY <1>2, <1>4 DEF GateAt, GateInv, Gate!TypeOK
  <2>4. closed' \in [Executors -> BOOLEAN]
    BY DEF GateInv, Gate!TypeOK
  <2> QED BY <2>1, <2>2, <2>3, <2>4, <1>6 DEF Gate!TypeOK
<1> QED BY <1>8, <1>9 DEF GateInv

\* What Gate!NoOvertaking says of a step.
StartsInOrder ==
  \A t \in Calls : phase[t] # "running" /\ phase'[t] = "running" =>
    LET q == queue[ExecutorOf[t]]
    IN  \A i \in DOMAIN q : phase'[q[i]] = "queued" => \E j \in 1 .. i : q[j] = t

\* A drain starts a prefix of the queue it is given.
LEMMA DrainStartsAPrefix ==
  ASSUME GateInv, NEW x \in Executors, NEW q, NEW shared, NEW exclusive,
         NEW ph \in [Calls -> Gate!Phases], GateAt(x, q, shared, exclusive, ph),
         Gate!Drain(x, q, shared, exclusive, ph)
  PROVE  \E n \in 0 .. Len(q) : phase' = WithRunning(ph, Prefix(q, n))
<1>1. q \in Seq(Calls) /\ shared \in Nat /\ exclusive \in BOOLEAN
  BY DEF GateAt
<1>2. PICK n : n = IF closed[x] THEN 0 ELSE Gate!StartCount(q, shared, exclusive)
  OBVIOUS
<1>3. n \in 0 .. Len(q)
  <2>1. CASE closed[x]
    BY <1>1, <1>2, <2>1
  <2>2. CASE ~closed[x]
    BY <1>1, <1>2, <2>2, StartCountIs DEF MayStart
  <2> QED BY <2>1, <2>2
<1>4. phase' = WithRunning(ph, Prefix(q, n))
  BY <1>2 DEF Gate!Drain, WithRunning, Prefix
<1> QED BY <1>3, <1>4

\* The queue a drain is given has what is left of the old one, in its order,
KeepsOrder(old, q, ph) ==
  \A i \in 1 .. Len(old) : ph[old[i]] = "queued" =>
    \E m \in 1 .. Len(q) : /\ q[m] = old[i]
                          /\ \A l \in 1 .. m : \E j \in 1 .. i : old[j] = q[l]

\* and nobody has been started before the drain.
StartsNobody(ph) == \A t \in Calls : ph[t] = "running" => phase[t] = "running"

LEMMA DrainStartsInOrder ==
  ASSUME GateInv, NEW x \in Executors, NEW q, NEW shared, NEW exclusive,
         NEW ph \in [Calls -> Gate!Phases], GateAt(x, q, shared, exclusive, ph),
         Gate!Drain(x, q, shared, exclusive, ph),
         NEW old, old = queue[x], StartsNobody(ph), KeepsOrder(old, q, ph)
  PROVE  StartsInOrder
<1>1. PICK n \in 0 .. Len(q) : phase' = WithRunning(ph, Prefix(q, n))
  BY DrainStartsAPrefix
<1>2. q \in Seq(Calls) /\ old \in Seq(Calls) /\ \A i \in 1 .. Len(q) : ExecutorOf[q[i]] = x
  BY DEF GateAt, GateInv
<1>3. SUFFICES ASSUME NEW t \in Calls, phase[t] # "running", phase'[t] = "running",
                      NEW i \in DOMAIN queue[ExecutorOf[t]],
                      phase'[queue[ExecutorOf[t]][i]] = "queued"
               PROVE  \E j \in 1 .. i : queue[ExecutorOf[t]][j] = t
  BY DEF StartsInOrder
<1>4. t \in Prefix(q, n)
  BY <1>1, <1>3 DEF WithRunning, StartsNobody
<1>5. PICK l \in 1 .. n : q[l] = t
  BY <1>4 DEF Prefix
<1>6. ExecutorOf[t] = x
  BY <1>2, <1>5
<1>7. i \in 1 .. Len(old) /\ phase'[old[i]] = "queued" /\ old[i] \in Calls
  BY <1>2, <1>3, <1>6
<1>8. ph[old[i]] = "queued" /\ old[i] \notin Prefix(q, n)
  BY <1>1, <1>7 DEF WithRunning
<1>9. PICK m \in 1 .. Len(q) : q[m] = old[i] /\ \A k \in 1 .. m : \E j \in 1 .. i : old[j] = q[k]
  BY <1>7, <1>8 DEF KeepsOrder
<1>10. ~ (m \in 1 .. n)
  BY <1>8, <1>9 DEF Prefix
<1>11. l \in 1 .. m
  BY <1>2, <1>10
<1>12. \E j \in 1 .. i : old[j] = t
  BY <1>5, <1>9, <1>11
<1> QED BY <1>6, <1>12

LEMMA GateRunKeeps ==
  ASSUME GateInv, NEW t \in Calls, Gate!Run(t)
  PROVE  GateInv' /\ StartsInOrder
<1> DEFINE x == ExecutorOf[t]
           ph == [phase EXCEPT ![t] = "queued"]
           q == Append(queue[x], t)
<1>1. x \in Executors
  BY GateConstants
<1>2. phase[t] = "new" /\ UNCHANGED closed
      /\ Gate!Drain(x, q, concurrentInFlight[x], exclusiveInFlight[x], ph)
  BY DEF Gate!Run
<1>3. GateAt(x, queue[x], concurrentInFlight[x], exclusiveInFlight[x], phase)
  BY <1>1 DEF GateInv
<1>4. phase \in [Calls -> Gate!Phases] /\ ph \in [Calls -> Gate!Phases]
  BY DEF GateInv, Gate!TypeOK, Gate!Phases
<1>5. Runs(x, ph) = Runs(x, phase)
  BY <1>2, <1>4 DEF Runs
<1>6. PICK old : old = queue[x]
  OBVIOUS
<1>7. /\ old \in Seq(Calls) /\ Len(old) \in Nat
      /\ \A i \in 1 .. Len(old) : phase[old[i]] = "queued" /\ ExecutorOf[old[i]] = x
      /\ \A i, j \in 1 .. Len(old) : old[i] = old[j] => i = j
  BY <1>3, <1>6 DEF GateAt
<1>8. /\ q \in Seq(Calls) /\ Len(q) = Len(old) + 1 /\ q[Len(old) + 1] = t
      /\ \A i \in 1 .. Len(old) : q[i] = old[i]
  BY <1>6, <1>7
<1>9. \A i \in 1 .. Len(old) : old[i] # t
  BY <1>2, <1>7
<1>10. ph[t] = "queued" /\ \A u \in Calls : u # t => ph[u] = phase[u]
  BY <1>4
<1>11. \A i \in 1 .. Len(q) : ph[q[i]] = "queued" /\ ExecutorOf[q[i]] = x
  <2> SUFFICES ASSUME NEW i \in 1 .. Len(q)
               PROVE  ph[q[i]] = "queued" /\ ExecutorOf[q[i]] = x
    OBVIOUS
  <2>1. CASE i \in 1 .. Len(old)
    BY <2>1, <1>7, <1>8, <1>9, <1>10
  <2>2. CASE i = Len(old) + 1
    BY <2>2, <1>8, <1>10
  <2> QED BY <2>1, <2>2, <1>7, <1>8
<1>12. \A i, j \in 1 .. Len(q) : q[i] = q[j] => i = j
  BY <1>7, <1>8, <1>9
<1> HIDE DEF q, ph, x
<1>13. GateAt(x, q, concurrentInFlight[x], exclusiveInFlight[x], ph)
  <2>1. PICK shared, exclusive, R :
          /\ shared = concurrentInFlight[x] /\ exclusive = exclusiveInFlight[x]
          /\ R = Runs(x, phase)
    OBVIOUS
  <2>2. /\ shared \in Nat /\ shared = Cardinality(R \cap Shared)
        /\ exclusive \in BOOLEAN /\ (exclusive <=> R \ Shared # {})
        /\ \A u \in R \ Shared : R = {u}
    BY <1>3, <2>1 DEF GateAt
  <2>3. q \in Seq(Calls) /\ R = Runs(x, ph)
    BY <1>5, <1>8, <2>1
  <2>4. GateAt(x, q, shared, exclusive, ph)
    BY <2>2, <2>3, <1>11, <1>12 DEF GateAt
  <2> QED BY <2>1, <2>4
<1>14. /\ \A u \in Calls : ExecutorOf[u] # x => ph[u] = phase[u]
       /\ \A u \in Calls : ph[u] = "running" => phase[u] = "running"
  BY <1>4 DEF x, ph
<1>15. GateInv'
  BY <1>1, <1>2, <1>4, <1>13, <1>14, DrainKeeps
<1>16. ASSUME NEW i \in 1 .. Len(old), ph[old[i]] = "queued"
       PROVE  \E m \in 1 .. Len(q) : q[m] = old[i] /\ \A l \in 1 .. m : \E j \in 1 .. i : old[j] = q[l]
  <2>1. i \in 1 .. Len(q) /\ \A l \in 1 .. i : q[l] = old[l]
    BY <1>7, <1>8
  <2> QED BY <2>1, <1>7
<1>17. StartsNobody(ph) /\ KeepsOrder(old, q, ph)
  BY <1>14, <1>16 DEF StartsNobody, KeepsOrder
<1>18. StartsInOrder
  BY <1>1, <1>2, <1>4, <1>6, <1>13, <1>17, DrainStartsInOrder
<1> QED BY <1>15, <1>18

\* A step of the gate hands a drain consistent counters.
LEMMA GateFinishKeeps ==
  ASSUME GateInv, NEW t \in Calls, Gate!Finish(t)
  PROVE  GateInv' /\ StartsInOrder
<1> DEFINE x == ExecutorOf[t]
           ph == [phase EXCEPT ![t] = "finished"]
           shared == IF t \in Shared THEN concurrentInFlight[x] - 1 ELSE concurrentInFlight[x]
           exclusive == IF t \in Shared THEN exclusiveInFlight[x] ELSE FALSE
<1>1. x \in Executors
  BY GateConstants
<1>2. phase[t] = "running" /\ UNCHANGED closed /\ Gate!Drain(x, queue[x], shared, exclusive, ph)
  BY DEF Gate!Finish
<1>3. GateAt(x, queue[x], concurrentInFlight[x], exclusiveInFlight[x], phase)
  BY <1>1 DEF GateInv
<1>4. phase \in [Calls -> Gate!Phases] /\ ph \in [Calls -> Gate!Phases]
  BY DEF GateInv, Gate!TypeOK, Gate!Phases
<1>5. t \in Runs(x, phase) /\ Runs(x, ph) = Runs(x, phase) \ {t}
  BY <1>2, <1>4 DEF Runs
<1>6. \A i \in 1 .. Len(queue[x]) : ph[queue[x][i]] = "queued" /\ ExecutorOf[queue[x][i]] = x
  BY <1>2, <1>3, <1>4 DEF GateAt
<1>7. shared \in Nat /\ shared = Cardinality(Runs(x, ph) \cap Shared)
  <2>1. CASE t \in Shared
    <3>1. IsFiniteSet(Runs(x, phase) \cap Shared)
      <4>1. Runs(x, phase) \cap Shared \in SUBSET Calls
        BY GateConstants
      <4> QED BY <4>1, GateConstants, FS_Subset
    <3>2. Runs(x, ph) \cap Shared = (Runs(x, phase) \cap Shared) \ {t}
          /\ t \in Runs(x, phase) \cap Shared
      BY <2>1, <1>5
    <3>3. /\ Cardinality(Runs(x, ph) \cap Shared) = Cardinality(Runs(x, phase) \cap Shared) - 1
          /\ IsFiniteSet(Runs(x, ph) \cap Shared)
      <4>1. PICK A, B : A = Runs(x, phase) \cap Shared /\ B = Runs(x, ph) \cap Shared
        OBVIOUS
      <4>2. IsFiniteSet(A) /\ B = A \ {t} /\ t \in A
        BY <3>1, <3>2, <4>1
      <4>3. IsFiniteSet(B) /\ Cardinality(B) = Cardinality(A) - 1
        BY <4>2, FS_RemoveElement
      <4> QED BY <4>1, <4>3
    <3>4. Cardinality(Runs(x, ph) \cap Shared) \in Nat
      BY <3>3, FS_CardinalityType
    <3> QED BY <2>1, <3>3, <3>4, <1>3 DEF GateAt
  <2>2. CASE t \notin Shared
    <3>1. Runs(x, ph) \cap Shared = Runs(x, phase) \cap Shared
      BY <2>2, <1>5
    <3> QED BY <2>2, <3>1, <1>3 DEF GateAt
  <2> QED BY <2>1, <2>2
<1>8. exclusive \in BOOLEAN /\ (exclusive <=> Runs(x, ph) \ Shared # {})
  <2>1. CASE t \in Shared
    <3>1. Runs(x, ph) \ Shared = Runs(x, phase) \ Shared
      BY <2>1, <1>5
    <3>2. /\ exclusiveInFlight[x] \in BOOLEAN
          /\ exclusiveInFlight[x] <=> Runs(x, phase) \ Shared # {}
      BY <1>3 DEF GateAt
    <3> QED BY <2>1, <3>1, <3>2
  <2>2. CASE t \notin Shared
    <3>1. Runs(x, phase) = {t}
      BY <2>2, <1>3, <1>5 DEF GateAt
    <3> QED BY <2>2, <3>1, <1>5
  <2> QED BY <2>1, <2>2
<1>9. \A u \in Runs(x, ph) \ Shared : Runs(x, ph) = {u}
  BY <1>3, <1>5 DEF GateAt
<1>10. /\ \A u \in Calls : ExecutorOf[u] # x => ph[u] = phase[u]
       /\ \A u \in Calls : ph[u] = "running" => phase[u] = "running"
  BY <1>4
<1>11. PICK n, e, q : n = shared /\ e = exclusive /\ q = queue[x]
  OBVIOUS
<1> HIDE DEF shared, exclusive, ph, x
<1>12. GateAt(x, q, n, e, ph)
  BY <1>3, <1>6, <1>7, <1>8, <1>9, <1>11 DEF GateAt
<1>13. GateInv'
  BY <1>1, <1>2, <1>4, <1>10, <1>11, <1>12, DrainKeeps
<1>14. ASSUME NEW i \in 1 .. Len(q)
       PROVE  \E m \in 1 .. Len(q) : q[m] = q[i] /\ \A l \in 1 .. m : \E j \in 1 .. i : q[j] = q[l]
  OBVIOUS
<1>15. StartsNobody(ph) /\ KeepsOrder(q, q, ph)
  BY <1>10, <1>14 DEF StartsNobody, KeepsOrder
<1>16. StartsInOrder
  BY <1>1, <1>2, <1>4, <1>10, <1>11, <1>12, <1>15, DrainStartsInOrder
<1> QED BY <1>13, <1>16

LEMMA RemoveAtIs ==
  ASSUME NEW q \in Seq(Calls), NEW k \in 1 .. Len(q), NEW r, r = Gate!RemoveAt(q, k)
  PROVE  /\ r \in Seq(Calls) /\ Len(r) = Len(q) - 1
         /\ \A i \in 1 .. Len(r) : r[i] = IF i < k THEN q[i] ELSE q[i + 1]
<1> DEFINE a == SubSeq(q, 1, k - 1)
           b == SubSeq(q, k + 1, Len(q))
<1>1. a \in Seq(Calls) /\ Len(a) = k - 1 /\ \A i \in 1 .. k - 1 : a[i] = q[i]
  OBVIOUS
<1>2. b \in Seq(Calls) /\ Len(b) = Len(q) - k /\ \A i \in 1 .. Len(q) - k : b[i] = q[k + i]
  OBVIOUS
<1>3. r = a \o b
  BY DEF Gate!RemoveAt
<1> HIDE DEF a, b
<1>4. r \in Seq(Calls) /\ Len(r) = Len(q) - 1
  <2>1. Len(q) \in Nat /\ k \in 1 .. Len(q)
    OBVIOUS
  <2>2. r \in Seq(Calls) /\ Len(r) = Len(a) + Len(b)
    <3>1. a \in Seq(Calls) /\ b \in Seq(Calls)
      BY <1>1, <1>2
    <3>2. a \o b \in Seq(Calls) /\ Len(a \o b) = Len(a) + Len(b)
      BY <3>1
    <3> QED BY <3>2, <1>3
  <2> QED BY <2>1, <2>2, <1>1, <1>2
<1>5. ASSUME NEW i \in 1 .. Len(r)
      PROVE  r[i] = IF i < k THEN q[i] ELSE q[i + 1]
  <2>1. CASE i < k
    BY <2>1, <1>1, <1>2, <1>3
  <2>2. CASE i >= k
    <3>1. r[i] = b[i - (k - 1)]
      BY <2>2, <1>1, <1>2, <1>3, <1>4
    <3>2. i - (k - 1) \in 1 .. Len(q) - k /\ k + (i - (k - 1)) = i + 1
      BY <2>2, <1>4
    <3> QED BY <2>2, <3>1, <3>2, <1>2
  <2> QED BY <2>1, <2>2
<1> QED BY <1>4, <1>5

LEMMA GateAbortKeeps ==
  ASSUME GateInv, NEW t \in Calls, Gate!Abort(t)
  PROVE  GateInv' /\ StartsInOrder
<1> DEFINE x == ExecutorOf[t]
           ph == [phase EXCEPT ![t] = "aborted"]
<1>1. x \in Executors
  BY GateConstants
<1>2. PICK k \in DOMAIN queue[x] :
        /\ queue[x][k] = t
        /\ Gate!Drain(x, Gate!RemoveAt(queue[x], k), concurrentInFlight[x], exclusiveInFlight[x], ph)
  BY DEF Gate!Abort
<1>3. phase[t] = "queued" /\ UNCHANGED closed
  BY DEF Gate!Abort
<1>4. GateAt(x, queue[x], concurrentInFlight[x], exclusiveInFlight[x], phase)
  BY <1>1 DEF GateInv
<1>5. phase \in [Calls -> Gate!Phases] /\ ph \in [Calls -> Gate!Phases]
  BY DEF GateInv, Gate!TypeOK, Gate!Phases
<1>6. Runs(x, ph) = Runs(x, phase)
  BY <1>3, <1>5 DEF Runs
<1>7. PICK q, r : q = queue[x] /\ r = Gate!RemoveAt(queue[x], k)
  OBVIOUS
<1>8. q \in Seq(Calls) /\ k \in 1 .. Len(q)
  BY <1>2, <1>4, <1>7 DEF GateAt
<1>9. /\ r \in Seq(Calls) /\ Len(r) = Len(q) - 1
      /\ \A i \in 1 .. Len(r) : r[i] = IF i < k THEN q[i] ELSE q[i + 1]
  <2>1. r = Gate!RemoveAt(q, k)
    BY <1>7
  <2> QED BY <2>1, <1>8, RemoveAtIs
<1>10. \A i, j \in 1 .. Len(q) : q[i] = q[j] => i = j
  BY <1>4, <1>7 DEF GateAt
<1>11. \A i \in 1 .. Len(r) : r[i] # t /\ \E l \in 1 .. Len(q) : r[i] = q[l]
  <2>1. q[k] = t /\ Len(q) \in Nat
    BY <1>2, <1>7, <1>8
  <2>2. ASSUME NEW i \in 1 .. Len(r)
        PROVE  \E l \in 1 .. Len(q) : r[i] = q[l] /\ l # k
    <3>1. CASE i < k
      BY <3>1, <2>1, <1>8, <1>9
    <3>2. CASE i >= k
      <4>1. i + 1 \in 1 .. Len(q) /\ r[i] = q[i + 1] /\ i + 1 # k
        BY <3>2, <2>1, <1>8, <1>9
      <4> QED BY <4>1
    <3> QED BY <3>1, <3>2, <1>8
  <2> QED BY <2>1, <2>2, <1>8, <1>10
<1>12. \A i, j \in 1 .. Len(r) : r[i] = r[j] => i = j
  BY <1>8, <1>9, <1>10
<1>13. \A i \in 1 .. Len(r) : ph[r[i]] = "queued" /\ ExecutorOf[r[i]] = x
  <2>1. \A l \in 1 .. Len(q) : q[l] \in Calls /\ phase[q[l]] = "queued" /\ ExecutorOf[q[l]] = x
    BY <1>4, <1>7, <1>8 DEF GateAt
  <2>2. \A u \in Calls : u # t => ph[u] = phase[u]
    BY <1>5
  <2> HIDE DEF x, ph
  <2> SUFFICES ASSUME NEW i \in 1 .. Len(r)
               PROVE  ph[r[i]] = "queued" /\ ExecutorOf[r[i]] = x
    OBVIOUS
  <2>3. PICK l \in 1 .. Len(q) : r[i] = q[l] /\ r[i] # t
    BY <1>11
  <2> QED BY <2>1, <2>2, <2>3
<1>14. /\ \A u \in Calls : ExecutorOf[u] # x => ph[u] = phase[u]
       /\ \A u \in Calls : ph[u] = "running" => phase[u] = "running"
  BY <1>5
<1>16. ASSUME NEW i \in 1 .. Len(q), ph[q[i]] = "queued"
       PROVE  \E m \in 1 .. Len(r) : r[m] = q[i] /\ \A l \in 1 .. m : \E j \in 1 .. i : q[j] = r[l]
  <2>1. i # k /\ Len(q) \in Nat
    BY <1>2, <1>5, <1>7, <1>8, <1>16
  <2>2. CASE i < k
    <3>1. i \in 1 .. Len(r) /\ \A l \in 1 .. i : r[l] = q[l]
      BY <2>1, <2>2, <1>8, <1>9
    <3> QED BY <3>1
  <2>3. CASE i > k
    <3>1. i - 1 \in 1 .. Len(r) /\ r[i - 1] = q[i]
      BY <2>1, <2>3, <1>8, <1>9
    <3>2. ASSUME NEW l \in 1 .. i - 1
          PROVE  \E j \in 1 .. i : q[j] = r[l]
      <4>1. l \in 1 .. i /\ l + 1 \in 1 .. i /\ (r[l] = q[l] \/ r[l] = q[l + 1])
        BY <2>1, <2>3, <1>8, <1>9
      <4> QED BY <4>1
    <3> QED BY <3>1, <3>2
  <2>4. i < k \/ i > k
    BY <2>1, <1>8
  <2> QED BY <2>2, <2>3, <2>4
<1> HIDE DEF x, ph
<1>15. GateAt(x, r, concurrentInFlight[x], exclusiveInFlight[x], ph)
  <2>1. PICK shared, exclusive, R :
          /\ shared = concurrentInFlight[x] /\ exclusive = exclusiveInFlight[x]
          /\ R = Runs(x, phase)
    OBVIOUS
  <2>2. /\ shared \in Nat /\ shared = Cardinality(R \cap Shared)
        /\ exclusive \in BOOLEAN /\ (exclusive <=> R \ Shared # {})
        /\ \A u \in R \ Shared : R = {u}
    BY <1>4, <2>1 DEF GateAt
  <2>3. r \in Seq(Calls) /\ R = Runs(x, ph)
    BY <1>6, <1>9, <2>1
  <2>4. GateAt(x, r, shared, exclusive, ph)
    BY <2>2, <2>3, <1>12, <1>13 DEF GateAt
  <2> QED BY <2>1, <2>4
<1>17. Gate!Drain(x, r, concurrentInFlight[x], exclusiveInFlight[x], ph)
  BY <1>2, <1>7
<1>18. GateInv'
  BY <1>1, <1>3, <1>5, <1>14, <1>15, <1>17, DrainKeeps
<1>19. StartsNobody(ph) /\ KeepsOrder(q, r, ph)
  BY <1>14, <1>16 DEF StartsNobody, KeepsOrder
<1>20. StartsInOrder
  BY <1>1, <1>5, <1>7, <1>15, <1>17, <1>19, DrainStartsInOrder
<1> QED BY <1>18, <1>20

LEMMA GateCloseKeeps ==
  ASSUME GateInv, NEW x \in Executors, Gate!Close(x)
  PROVE  GateInv' /\ StartsInOrder
<1>1. /\ closed' = [closed EXCEPT ![x] = TRUE] /\ queue' = [queue EXCEPT ![x] = <<>>]
      /\ phase' = [t \in Calls |-> IF phase[t] = "queued" /\ ExecutorOf[t] = x
                                   THEN "aborted" ELSE phase[t]]
      /\ UNCHANGED <<concurrentInFlight, exclusiveInFlight>>
  BY DEF Gate!Close
<1>2. Gate!TypeOK'
  BY <1>1 DEF GateInv, Gate!TypeOK, Gate!Phases
<1>3. ASSUME NEW y \in Executors
      PROVE  GateAt(y, queue'[y], concurrentInFlight'[y], exclusiveInFlight'[y], phase')
  <2>1. GateAt(y, queue[y], concurrentInFlight[y], exclusiveInFlight[y], phase)
    BY DEF GateInv
  <2>2. Runs(y, phase') = Runs(y, phase)
    BY <1>1 DEF Runs
  <2>3. CASE y = x
    <3>1. queue'[y] = <<>>
      BY <1>1, <2>3 DEF GateInv, Gate!TypeOK
    <3>2. /\ concurrentInFlight'[y] = concurrentInFlight[y]
          /\ exclusiveInFlight'[y] = exclusiveInFlight[y]
      BY <1>1
    <3> QED BY <2>1, <2>2, <3>1, <3>2 DEF GateAt
  <2>4. CASE y # x
    <3>1. queue'[y] = queue[y]
      BY <1>1, <2>4 DEF GateInv, Gate!TypeOK
    <3>2. \A i \in 1 .. Len(queue[y]) : phase'[queue[y][i]] = "queued"
      BY <1>1, <2>1, <2>4 DEF GateAt
    <3>3. PICK q, shared, exclusive, R, later :
            /\ q = queue[y] /\ shared = concurrentInFlight[y] /\ exclusive = exclusiveInFlight[y]
            /\ R = Runs(y, phase) /\ later = phase'
      OBVIOUS
    <3>4. /\ queue'[y] = q /\ concurrentInFlight'[y] = shared
          /\ exclusiveInFlight'[y] = exclusive /\ Runs(y, later) = R
      BY <1>1, <2>2, <3>1, <3>3
    <3>5. \A i \in 1 .. Len(q) : later[q[i]] = "queued"
      BY <3>2, <3>3
    <3>6. GateAt(y, q, shared, exclusive, later)
      BY <2>1, <3>3, <3>4, <3>5 DEF GateAt
    <3> QED BY <3>3, <3>4, <3>6
  <2> QED BY <2>3, <2>4
<1>4. StartsInOrder
  BY <1>1 DEF StartsInOrder
<1> QED BY <1>2, <1>3, <1>4 DEF GateInv

LEMMA GateRefuseKeeps ==
  ASSUME GateInv, NEW t \in Calls, Gate!Refuse(t)
  PROVE  GateInv' /\ StartsInOrder
<1>1. /\ phase[t] = "new" /\ \E p \in {"rejected", "aborted"} : phase' = [phase EXCEPT ![t] = p]
      /\ UNCHANGED <<queue, concurrentInFlight, exclusiveInFlight, closed>>
  BY DEF Gate!Refuse
<1>2. Gate!TypeOK'
  BY <1>1 DEF GateInv, Gate!TypeOK, Gate!Phases
<1>3. ASSUME NEW y \in Executors
      PROVE  GateAt(y, queue[y], concurrentInFlight[y], exclusiveInFlight[y], phase')
  <2>1. GateAt(y, queue[y], concurrentInFlight[y], exclusiveInFlight[y], phase)
    BY DEF GateInv
  <2>2. Runs(y, phase') = Runs(y, phase)
    BY <1>1 DEF Runs, GateInv, Gate!TypeOK
  <2>3. \A i \in 1 .. Len(queue[y]) : phase'[queue[y][i]] = "queued"
    BY <1>1, <2>1 DEF GateAt, GateInv, Gate!TypeOK
  <2> QED BY <2>1, <2>2, <2>3 DEF GateAt
<1>4. StartsInOrder
  BY <1>1 DEF StartsInOrder, GateInv, Gate!TypeOK
<1> QED BY <1>1, <1>2, <1>3, <1>4 DEF GateInv

LEMMA GateStepKeeps ==
  ASSUME GateInv, [Gate!Next]_gateVars
  PROVE  GateInv' /\ StartsInOrder
<1>1. CASE Gate!Next
  BY <1>1, GateRunKeeps, GateFinishKeeps, GateAbortKeeps, GateCloseKeeps, GateRefuseKeeps
  DEF Gate!Next
<1>2. CASE UNCHANGED gateVars
  BY <1>2 DEF gateVars, GateInv, Gate!TypeOK, StartsInOrder
<1> QED BY <1>1, <1>2

LEMMA GateInitKeeps == Gate!Init => GateInv
<1> SUFFICES ASSUME Gate!Init PROVE GateInv
  OBVIOUS
<1>1. Gate!TypeOK
  BY DEF Gate!Init, Gate!TypeOK, Gate!Phases
<1>2. ASSUME NEW x \in Executors
      PROVE  GateAt(x, queue[x], concurrentInFlight[x], exclusiveInFlight[x], phase)
  <2>1. Runs(x, phase) = {}
    BY DEF Gate!Init, Runs
  <2>2. queue[x] = <<>> /\ concurrentInFlight[x] = 0 /\ exclusiveInFlight[x] = FALSE
    BY DEF Gate!Init
  <2>3. Runs(x, phase) \cap Shared = {} /\ Runs(x, phase) \ Shared = {} /\ Cardinality({}) = 0
    BY <2>1, FS_EmptySet
  <2>4. concurrentInFlight[x] = Cardinality(Runs(x, phase) \cap Shared)
    BY <2>2, <2>3
  <2>5. PICK q, e : q = queue[x] /\ e = exclusiveInFlight[x]
    OBVIOUS
  <2>6. q \in Seq(Calls) /\ Len(q) = 0 /\ e \in BOOLEAN /\ ~e /\ concurrentInFlight[x] \in Nat
    <3>1. <<>> \in Seq(Calls) /\ Len(<<>>) = 0
      OBVIOUS
    <3>2. e = FALSE /\ q = <<>> /\ concurrentInFlight[x] = 0
      BY <2>2, <2>5
    <3>3. e \in BOOLEAN /\ ~e
      BY <3>2
    <3> QED BY <3>1, <3>2, <3>3
  <2>7. GateAt(x, q, concurrentInFlight[x], e, phase)
    BY <2>1, <2>3, <2>4, <2>6 DEF GateAt
  <2> QED BY <2>5, <2>7
<1> QED BY <1>1, <1>2 DEF GateInv

LEMMA GateExcludes == GateInv => Gate!ExclusiveRunsAlone
<1> SUFFICES ASSUME GateInv PROVE Gate!ExclusiveRunsAlone
  OBVIOUS
<1>1. \A x \in Executors : Gate!Running(x) = Runs(x, phase)
  BY DEF Gate!Running, Runs
<1> QED BY <1>1, GateCardinality DEF GateInv, GateAt, Gate!ExclusiveRunsAlone

-----------------------------------------------------------------------------
(* The path locks *)

Order(o) == LockOrder[o]

WantOf(o) == Locks!ToSet(LockOrder[o])

\* The order has every path the operation passes, once.
LEMMA OrderIs ==
  ASSUME NEW o \in Editors
  PROVE  /\ Order(o) \in Seq(Paths) /\ Len(Order(o)) \in Nat \ {0}
         /\ \A i, j \in 1 .. Len(Order(o)) : Order(o)[i] = Order(o)[j] => i = j
         /\ \A i \in 1 .. Len(Order(o)) : Order(o)[i] \in WantOf(o)
         /\ \A p \in WantOf(o) : p \in Paths /\ \E i \in 1 .. Len(Order(o)) : Order(o)[i] = p
         /\ WantOf(o) = ToSet(Given[o])
<1> DEFINE S == ToSet(Given[o])
<1>1. Paths \subseteq Nat /\ Given[o] \in Seq(Paths) /\ Given[o] # <<>>
  BY CallsAssumption
<1>2. S \in SUBSET Paths /\ S # {}
  <2>1. 1 \in DOMAIN Given[o] /\ DOMAIN Given[o] = 1 .. Len(Given[o])
    BY <1>1
  <2>2. S = {Given[o][i] : i \in DOMAIN Given[o]}
    BY DEF ToSet
  <2>3. \A i \in DOMAIN Given[o] : Given[o][i] \in Paths
    BY <1>1
  <2> QED BY <2>1, <2>2, <2>3
<1>3. IsFiniteSet(S)
  <2> DEFINE n == Len(Given[o])
  <2>1. n \in Nat /\ Given[o] \in [1 .. n -> S] /\ \A p \in S : \E i \in 1 .. n : Given[o][i] = p
    BY <1>1 DEF ToSet
  <2>2. Given[o] \in Surjection(1 .. n, S)
    BY <2>1 DEF Surjection
  <2>3. IsFiniteSet(1 .. n)
    BY <2>1, FS_Interval
  <2> QED BY <2>2, <2>3, FS_Surjection
<1>4. PICK s : s = Order(o)
  OBVIOUS
<1>5. s = Ascending(S)
  BY <1>4 DEF Order, LockOrder
<1>6. Sorted(s, S)
  BY <1>1, <1>2, <1>3, <1>5, AscendingIsSorted
<1> HIDE DEF S
<1>7. /\ s \in Seq(S) /\ Len(s) = Cardinality(S) /\ Cardinality(S) \in Nat
      /\ \A i, j \in 1 .. Len(s) : s[i] = s[j] => i = j
      /\ \A k \in S : \E i \in 1 .. Len(s) : s[i] = k
  BY <1>1, <1>2, <1>3, <1>6, SortedIsOnto
<1>8. Len(s) # 0
  BY <1>2, <1>3, <1>7, FS_EmptySet
<1>9. s \in Seq(Paths) /\ \A i \in 1 .. Len(s) : s[i] \in S
  BY <1>2, <1>7
<1>10. WantOf(o) = S
  <2>1. WantOf(o) = {s[i] : i \in 1 .. Len(s)}
    BY <1>4, <1>7 DEF WantOf, Order, Locks!ToSet
  <2> QED BY <2>1, <1>7, <1>9
<1>11. S = ToSet(Given[o])
  BY DEF S
<1>12. \A p \in S : p \in Paths
  BY <1>2
<1> QED BY <1>4, <1>7, <1>8, <1>9, <1>10, <1>11, <1>12

\* So FileLocks is given what it assumes.
LEMMA LocksAssumption == Locks!FileLocksAssumption
<1>1. Paths \subseteq Nat
  BY CallsAssumption
<1>2. ASSUME NEW o \in Editors
      PROVE  /\ LockOrder[o] \in Seq(Paths) /\ LockOrder[o] # <<>>
             /\ \A i, j \in DOMAIN LockOrder[o] : LockOrder[o][i] = LockOrder[o][j] => i = j
  <2>1. PICK s : s = LockOrder[o]
    OBVIOUS
  <2>2. s \in Seq(Paths) /\ Len(s) # 0 /\ \A i, j \in 1 .. Len(s) : s[i] = s[j] => i = j
    BY <2>1, OrderIs DEF Order
  <2> QED BY <2>1, <2>2
<1> QED BY <1>1, <1>2 DEF Locks!FileLocksAssumption, Locks!IsInjective

\* What acquire(i) does, last being the index at which it stops.
Acquired(o, i, last) ==
  /\ i = Len(mine[o]) + 1 /\ last \in i - 1 .. Len(Order(o))
  /\ made' = made + (last - i + 1)
  /\ \A q \in Editors : q # o => mine'[q] = mine[q] /\ waits'[q] = waits[q] /\ editing'[q] = editing[q]
  /\ DOMAIN mine' = Editors /\ locks' \in [Paths -> Nat] /\ waits' \in [Editors -> Nat]
  /\ editing' \in [Editors -> {"new", "waiting", "inside", "leaving", "done"}]
  /\ mine'[o] \in Seq(Nat) /\ Len(mine'[o]) = last
  /\ \A k \in 1 .. last : mine'[o][k] = IF k < i THEN mine[o][k] ELSE made + (k - i + 1)
  /\ \A k \in i .. last - 1 : locks[Order(o)[k]] = 0
  /\ waits'[o] = IF last < i THEN 0 ELSE locks[Order(o)[last]]
  /\ editing'[o] = IF waits'[o] = 0 THEN "inside" ELSE "waiting"
  /\ waits'[o] = 0 => last = Len(Order(o))
  /\ \A k \in i .. last : locks'[Order(o)[k]] = made + (k - i + 1)
  /\ \A p \in Paths : (\A k \in i .. last : Order(o)[k] # p) => locks'[p] = locks[p]

LEMMA StopsAtIs ==
  ASSUME Locks!TypeOK, NEW o \in Editors, NEW i \in 1 .. Len(Order(o)), NEW k, k = Locks!StopsAt(o, i)
  PROVE  /\ k \in i .. Len(Order(o))
         /\ \A j \in i .. k - 1 : locks[Order(o)[j]] = 0
         /\ locks[Order(o)[k]] # 0 \/ k = Len(Order(o))
<1> DEFINE n == Len(Order(o))
           E == {m \in i .. n : locks[Order(o)[m]] # 0 \/ m = n}
<1>1. n \in Nat \ {0}
  BY OrderIs
<1>2. E \in SUBSET Nat /\ n \in E
  BY <1>1
<1>3. PICK m \in E : \A j \in E : m <= j
  <2> HIDE DEF E
  <2> QED BY <1>2, LeastNumber
<1> HIDE DEF n
<1>4. \A j \in i .. m - 1 : locks[Order(o)[j]] = 0
  BY <1>1, <1>3
<1>5. \E l \in i .. n : /\ \A j \in i .. l - 1 : locks[Order(o)[j]] = 0
                        /\ locks[Order(o)[l]] # 0 \/ l = n
  BY <1>3, <1>4
<1>6. k = CHOOSE l \in i .. n : /\ \A j \in i .. l - 1 : locks[Order(o)[j]] = 0
                                /\ locks[Order(o)[l]] # 0 \/ l = n
  BY DEF Locks!StopsAt, Order, n
<1> QED BY <1>5, <1>6 DEF n

LEMMA AcquireIs ==
  ASSUME Locks!TypeOK, NEW o \in Editors, NEW i, i = Len(mine[o]) + 1, Locks!AcquireFrom(o, i)
  PROVE  \E last : Acquired(o, i, last)
<1> DEFINE order == Order(o)
           n == Len(order)
           last == IF i > n THEN n ELSE Locks!StopsAt(o, i)
           taken == {order[j] : j \in i .. last}
           At(p) == CHOOSE j \in DOMAIN order : order[j] = p
           previous == IF i > n THEN 0 ELSE locks[order[last]]
<1>1. /\ made' = made + last - i + 1
      /\ mine' = [mine EXCEPT ![o] = @ \o [j \in 1 .. last - i + 1 |-> made + j]]
      /\ locks' = [p \in Paths |-> IF p \in taken THEN made + At(p) - i + 1 ELSE locks[p]]
      /\ waits' = [waits EXCEPT ![o] = previous]
      /\ editing' = [editing EXCEPT ![o] = IF previous = 0 THEN "inside" ELSE "waiting"]
  BY DEF Locks!AcquireFrom, Order
<1>2. /\ order \in Seq(Paths) /\ n \in Nat \ {0}
      /\ \A j, k \in 1 .. n : order[j] = order[k] => j = k
  BY OrderIs
<1>3. /\ mine[o] \in Seq(1 .. made) /\ Len(mine[o]) <= n /\ made \in Nat /\ Len(mine[o]) \in Nat
      /\ DOMAIN mine = Editors /\ DOMAIN waits = Editors /\ DOMAIN editing = Editors
  BY DEF Locks!TypeOK, Order
<1>4. i \in 1 .. n + 1
  BY <1>2, <1>3
<1>5. /\ last \in i - 1 .. n
      /\ \A k \in i .. last - 1 : locks[order[k]] = 0
      /\ i <= n => last >= i /\ (locks[order[last]] # 0 \/ last = n)
  <2>1. CASE i > n
    BY <2>1, <1>2, <1>4
  <2>2. CASE i <= n
    <3>1. last = Locks!StopsAt(o, i) /\ i \in 1 .. n
      BY <2>2, <1>4
    <3> HIDE DEF last
    <3> QED BY <3>1, <1>2, StopsAtIs
  <2> QED BY <2>1, <2>2, <1>2, <1>4
<1>6. i > n => last = n /\ last < i
  OBVIOUS
<1>7. previous = IF last < i THEN 0 ELSE locks[order[last]]
  BY <1>2, <1>4, <1>5, <1>6
<1> HIDE DEF last, n, previous
<1>8. PICK l, prev : l = last /\ prev = previous
  OBVIOUS
<1>9. made' = made + (l - i + 1)
  BY <1>1, <1>2, <1>3, <1>4, <1>5, <1>8
<1>10. /\ \A q \in Editors : q # o =>
             mine'[q] = mine[q] /\ waits'[q] = waits[q] /\ editing'[q] = editing[q]
       /\ DOMAIN mine' = Editors
       /\ waits'[o] = prev /\ editing'[o] = IF prev = 0 THEN "inside" ELSE "waiting"
  BY <1>1, <1>3, <1>8
<1>11. /\ mine'[o] \in Seq(Nat) /\ Len(mine'[o]) = l
       /\ \A k \in 1 .. l : mine'[o][k] = IF k < i THEN mine[o][k] ELSE made + (k - i + 1)
  <2> DEFINE a == mine[o]
             b == [j \in 1 .. l - i + 1 |-> made + j]
  <2>1. mine'[o] = a \o b
    BY <1>1, <1>3, <1>8
  <2>2. a \in Seq(Nat) /\ Len(a) = i - 1
    BY <1>3, <1>4
  <2>3. l - i + 1 \in Nat /\ i \in Nat \ {0} /\ l \in Nat
    BY <1>2, <1>4, <1>5, <1>8
  <2>4. b \in Seq(Nat) /\ Len(b) = l - i + 1
    BY <1>3, <2>3
  <2>5. \A j \in 1 .. l - i + 1 : b[j] = made + j
    BY <1>3, <2>3
  <2>6. i - 1 \in Nat /\ (i - 1) + (l - i + 1) = l
    BY <2>3
  <2> HIDE DEF a, b
  <2>7. PICK c, d : c = a /\ d = b
    OBVIOUS
  <2>8. c \in Seq(Nat) /\ d \in Seq(Nat)
    BY <2>2, <2>4, <2>7
  <2>9. /\ c \o d \in Seq(Nat) /\ Len(c \o d) = Len(c) + Len(d)
        /\ \A k \in 1 .. Len(c) + Len(d) :
             (c \o d)[k] = IF k <= Len(c) THEN c[k] ELSE d[k - Len(c)]
    BY <2>8, ConcatIs
  <2>10. Len(c) = i - 1 /\ Len(c) + Len(d) = l
    BY <2>2, <2>4, <2>6, <2>7
  <2>11. \A k \in 1 .. l : (c \o d)[k] = IF k <= i - 1 THEN c[k] ELSE d[k - (i - 1)]
    BY <2>9, <2>10
  <2>12. ASSUME NEW k \in 1 .. l
         PROVE  (c \o d)[k] = IF k < i THEN a[k] ELSE made + (k - i + 1)
    <3>1. CASE k < i
      <4>1. k <= i - 1
        BY <3>1, <2>3
      <4> QED BY <3>1, <4>1, <2>7, <2>11
    <3>2. CASE k >= i
      <4>1. ~ (k <= i - 1) /\ ~ (k < i) /\ k - (i - 1) = k - i + 1 /\ k - i + 1 \in 1 .. l - i + 1
        BY <3>2, <2>3
      <4>2. (c \o d)[k] = d[k - i + 1]
        BY <4>1, <2>11
      <4> QED BY <4>1, <4>2, <2>5, <2>7
    <3>3. k \in Nat /\ i \in Nat
      BY <2>3
    <3>4. k < i \/ k >= i
      BY <3>3
    <3> QED BY <3>1, <3>2, <3>4
  <2>13. mine'[o] = c \o d
    BY <2>1, <2>7
  <2> QED BY <2>9, <2>10, <2>12, <2>13 DEF a
<1>12. prev = 0 => l = n
  BY <1>2, <1>4, <1>5, <1>6, <1>7, <1>8
<1>13. ASSUME NEW k \in i .. l
       PROVE  locks'[order[k]] = made + (k - i + 1)
  <2>1. k \in 1 .. n /\ k \in DOMAIN order /\ order[k] \in Paths /\ DOMAIN order = 1 .. n
    BY <1>2, <1>4, <1>5, <1>8 DEF n
  <2>2. order[k] \in taken
    BY <1>8
  <2>3. At(order[k]) = k
    BY <2>1, <1>2
  <2>4. locks'[order[k]] = made + k - i + 1
    BY <1>1, <2>1, <2>2, <2>3
  <2> QED BY <2>1, <2>4, <1>3, <1>4
<1>14. ASSUME NEW p \in Paths, \A k \in i .. l : order[k] # p
       PROVE  locks'[p] = locks[p]
  BY <1>1, <1>8, <1>14
<1>15. /\ locks \in [Paths -> Nat] /\ waits \in [Editors -> Nat]
       /\ editing \in [Editors -> {"new", "waiting", "inside", "leaving", "done"}]
  BY <1>3 DEF Locks!TypeOK
<1>16. prev \in Nat
  <2>1. last >= i => last \in 1 .. n /\ order[last] \in Paths
    BY <1>2, <1>4, <1>5 DEF n
  <2> QED BY <1>2, <1>4, <1>5, <1>7, <1>8, <1>15, <2>1
<1>17. waits' \in [Editors -> Nat]
  BY <1>1, <1>8, <1>15, <1>16
<1>18. editing' \in [Editors -> {"new", "waiting", "inside", "leaving", "done"}]
  BY <1>1, <1>8, <1>15
<1>19. locks' \in [Paths -> Nat]
  <2>1. ASSUME NEW p \in Paths
        PROVE  locks'[p] \in Nat
    <3>1. CASE \A k \in i .. l : order[k] # p
      BY <3>1, <1>14, <1>15
    <3>2. CASE \E k \in i .. l : order[k] = p
      <4>1. PICK k \in i .. l : order[k] = p
        BY <3>2
      <4>2. made + (k - i + 1) \in Nat
        BY <1>2, <1>3, <1>4, <1>5, <1>8
      <4> QED BY <4>1, <4>2, <1>13
    <3> QED BY <3>1, <3>2
  <2>2. locks' = [p \in Paths |-> locks'[p]]
    BY <1>1
  <2> QED BY <2>1, <2>2
<1>20. Acquired(o, i, l)
  BY <1>5, <1>7, <1>8, <1>9, <1>10, <1>11, <1>12, <1>13, <1>14, <1>17, <1>18, <1>19 DEF Acquired, n
<1> QED BY <1>20

PendingOf(m, p) ==
  UNION {{m[o][i] : i \in {k \in DOMAIN m[o] : Order(o)[k] = p}} : o \in Editors}

Holds(m, o, k, p, r) == k \in 1 .. Len(m[o]) /\ Order(o)[k] = p /\ m[o][k] = r

LEMMA PendingIs ==
  ASSUME NEW m, NEW n \in Nat, \A q \in Editors : m[q] \in Seq(1 .. n)
  PROVE  /\ \A p : PendingOf(m, p) \in SUBSET (1 .. n) /\ IsFiniteSet(PendingOf(m, p))
         /\ \A p, r : r \in PendingOf(m, p) <=> \E o \in Editors : \E k : Holds(m, o, k, p, r)
<1>1. \A q \in Editors : /\ Len(m[q]) \in Nat /\ DOMAIN m[q] = 1 .. Len(m[q])
                         /\ \A k \in 1 .. Len(m[q]) : m[q][k] \in 1 .. n
  OBVIOUS
<1>2. ASSUME NEW p, NEW r
      PROVE  r \in PendingOf(m, p) <=> \E o \in Editors : \E k : Holds(m, o, k, p, r)
  BY <1>1 DEF PendingOf, Holds
<1>3. ASSUME NEW p
      PROVE  PendingOf(m, p) \in SUBSET (1 .. n) /\ IsFiniteSet(PendingOf(m, p))
  <2>1. \A r \in PendingOf(m, p) : r \in 1 .. n
    BY <1>1, <1>2 DEF Holds
  <2>2. IsFiniteSet(1 .. n)
    BY FS_Interval
  <2> QED BY <2>1, <2>2, FS_Subset
<1> QED BY <1>2, <1>3

\* With m the reservations before and m1 those after, acquire has appended new[h + 1], ...
Grows(m, n, m1, n1, o, h, last, new) ==
  /\ n \in Nat /\ n1 \in Nat
  /\ \A q \in Editors : m[q] \in Seq(1 .. n)
  /\ \A q \in Editors : m1[q] \in Seq(1 .. n1)
  /\ h \in Nat /\ h = Len(m[o]) /\ last \in Nat /\ h <= last /\ last <= Len(Order(o))
  /\ \A q \in Editors : q # o => m1[q] = m[q]
  /\ Len(m1[o]) = last
  /\ \A k \in 1 .. h : m1[o][k] = m[o][k]
  /\ \A k \in h + 1 .. last : m1[o][k] = new[k]

PendingAfter(m, m1, o, h, last, new) ==
  /\ \A p : (\A k \in h + 1 .. last : Order(o)[k] # p) => PendingOf(m1, p) = PendingOf(m, p)
  /\ \A k \in h + 1 .. last :
       PendingOf(m1, Order(o)[k]) = PendingOf(m, Order(o)[k]) \cup {new[k]}

LEMMA PendingGrows ==
  ASSUME NEW m, NEW n, NEW m1, NEW n1, NEW o \in Editors, NEW h, NEW last, NEW new,
         Grows(m, n, m1, n1, o, h, last, new)
  PROVE  PendingAfter(m, m1, o, h, last, new)
<1> USE DEF Grows
<1>1. \A p, r : r \in PendingOf(m, p) <=> \E q \in Editors : \E k : Holds(m, q, k, p, r)
  <2>1. n \in Nat /\ \A q \in Editors : m[q] \in Seq(1 .. n)
    OBVIOUS
  <2> QED BY <2>1, PendingIs, Zenon
<1>2. \A p, r : r \in PendingOf(m1, p) <=> \E q \in Editors : \E k : Holds(m1, q, k, p, r)
  <2>1. n1 \in Nat /\ \A q \in Editors : m1[q] \in Seq(1 .. n1)
    OBVIOUS
  <2> QED BY <2>1, PendingIs, Zenon
<1>3. /\ Len(Order(o)) \in Nat
      /\ \A j, k \in 1 .. Len(Order(o)) : Order(o)[j] = Order(o)[k] => j = k
  BY OrderIs
<1>4. ASSUME NEW q \in Editors, NEW k, NEW p, NEW r, Holds(m, q, k, p, r)
      PROVE  Holds(m1, q, k, p, r)
  <2>1. CASE q # o
    BY <2>1, <1>4 DEF Holds
  <2>2. CASE q = o
    <3>1. k \in 1 .. h /\ k \in 1 .. last
      BY <2>2, <1>4 DEF Holds
    <3> QED BY <3>1, <2>2, <1>4 DEF Holds
  <2> QED BY <2>1, <2>2
<1>5. ASSUME NEW q \in Editors, NEW k, NEW p, NEW r, Holds(m1, q, k, p, r), ~ Holds(m, q, k, p, r)
      PROVE  q = o /\ k \in h + 1 .. last /\ Order(o)[k] = p /\ r = new[k]
  <2>1. q = o
    BY <1>5 DEF Holds
  <2>2. k \in 1 .. last /\ Order(o)[k] = p /\ m1[o][k] = r
    BY <2>1, <1>5 DEF Holds
  <2>3. k \notin 1 .. h
    BY <2>1, <2>2, <1>5 DEF Holds
  <2>4. k \in h + 1 .. last
    <3>1. h \in Nat /\ last \in Nat /\ k \in Nat /\ k <= last /\ 1 <= k
      BY <2>2
    <3>2. k > h
      BY <2>3, <3>1
    <3> QED BY <3>1, <3>2
  <2> QED BY <2>1, <2>2, <2>4
<1>6. ASSUME NEW p, NEW r \in PendingOf(m1, p), r \notin PendingOf(m, p)
      PROVE  \E k \in h + 1 .. last : Order(o)[k] = p /\ r = new[k]
  <2>1. PICK q \in Editors : \E k : Holds(m1, q, k, p, r)
    BY <1>2
  <2>2. PICK k : Holds(m1, q, k, p, r)
    BY <2>1
  <2>3. ~ Holds(m, q, k, p, r)
    BY <1>1, <1>6
  <2>4. q = o /\ k \in h + 1 .. last /\ Order(o)[k] = p /\ r = new[k]
    BY <1>5, <2>2, <2>3
  <2> QED BY <2>4
<1>7. ASSUME NEW p, NEW r \in PendingOf(m, p)
       PROVE  r \in PendingOf(m1, p)
  BY <1>1, <1>2, <1>4
<1>8. ASSUME NEW k \in h + 1 .. last
      PROVE  new[k] \in PendingOf(m1, Order(o)[k])
  <2>1. k \in 1 .. last
    OBVIOUS
  <2>2. Holds(m1, o, k, Order(o)[k], new[k])
    BY <2>1 DEF Holds
  <2> QED BY <2>2, <1>2
<1>9. ASSUME NEW p, \A k \in h + 1 .. last : Order(o)[k] # p
      PROVE  PendingOf(m1, p) = PendingOf(m, p)
  <2>1. ASSUME NEW r PROVE r \in PendingOf(m1, p) <=> r \in PendingOf(m, p)
    BY <1>9, <1>6, <1>7
  <2> QED BY <2>1
<1>10. ASSUME NEW k \in h + 1 .. last
      PROVE  PendingOf(m1, Order(o)[k]) = PendingOf(m, Order(o)[k]) \cup {new[k]}
  <2>1. ASSUME NEW j \in h + 1 .. last, Order(o)[j] = Order(o)[k]
        PROVE  j = k
    <3>1. j \in 1 .. Len(Order(o)) /\ k \in 1 .. Len(Order(o))
      BY <1>3
    <3> QED BY <3>1, <2>1, <1>3
  <2> DEFINE A == PendingOf(m1, Order(o)[k])
             B == PendingOf(m, Order(o)[k])
  <2>2. ASSUME NEW r \in A, r \notin B PROVE r = new[k]
    <3>1. PICK p : p = Order(o)[k]
      OBVIOUS
    <3>2. r \in PendingOf(m1, p) /\ r \notin PendingOf(m, p)
      BY <2>2, <3>1
    <3>3. \E l \in h + 1 .. last : Order(o)[l] = p /\ r = new[l]
      BY <3>2, <1>6
    <3> QED BY <2>1, <3>1, <3>3
  <2>3. ASSUME NEW r \in B PROVE r \in A
    BY <1>7
  <2>4. new[k] \in A
    BY <1>8
  <2> HIDE DEF A, B
  <2>5. A = B \cup {new[k]}
    BY <2>2, <2>3, <2>4
  <2> QED BY <2>5 DEF A, B
<1> QED BY <1>9, <1>10 DEF PendingAfter

\* Likewise, the last one of o, m[o][h], is given back.
Shrinks(m, m1, n, o, h) ==
  /\ n \in Nat
  /\ \A q \in Editors : m[q] \in Seq(1 .. n)
  /\ \A q \in Editors : m1[q] \in Seq(1 .. n)
  /\ h \in Nat \ {0} /\ h = Len(m[o]) /\ h <= Len(Order(o))
  /\ \A q \in Editors : q # o => m1[q] = m[q]
  /\ Len(m1[o]) = h - 1
  /\ \A k \in 1 .. h - 1 : m1[o][k] = m[o][k]
  /\ \A q \in Editors : \A i \in 1 .. Len(m[q]) : m[q][i] = m[o][h] => q = o /\ i = h

LEMMA PendingShrinks ==
  ASSUME NEW m, NEW m1, NEW n, NEW o \in Editors, NEW h, Shrinks(m, m1, n, o, h)
  PROVE  /\ \A p : p # Order(o)[h] => PendingOf(m1, p) = PendingOf(m, p)
         /\ PendingOf(m1, Order(o)[h]) = PendingOf(m, Order(o)[h]) \ {m[o][h]}
         /\ m[o][h] \in PendingOf(m, Order(o)[h])
<1> USE DEF Shrinks
<1>1. \A p, r : r \in PendingOf(m, p) <=> \E q \in Editors : \E k : Holds(m, q, k, p, r)
  <2>1. n \in Nat /\ \A q \in Editors : m[q] \in Seq(1 .. n)
    OBVIOUS
  <2> QED BY <2>1, PendingIs, Zenon
<1>2. \A p, r : r \in PendingOf(m1, p) <=> \E q \in Editors : \E k : Holds(m1, q, k, p, r)
  <2>1. n \in Nat /\ \A q \in Editors : m1[q] \in Seq(1 .. n)
    OBVIOUS
  <2> QED BY <2>1, PendingIs, Zenon
<1>3. ASSUME NEW q \in Editors, NEW k, NEW p, NEW r
      PROVE  Holds(m1, q, k, p, r) <=> Holds(m, q, k, p, r) /\ ~ (q = o /\ k = h)
  <2>1. CASE q # o
    BY <2>1 DEF Holds
  <2>2. CASE q = o
    <3>1. k \in 1 .. h - 1 <=> k \in 1 .. h /\ k # h
      OBVIOUS
    <3> QED BY <3>1, <2>2 DEF Holds
  <2> QED BY <2>1, <2>2
<1>4. ASSUME NEW p, NEW r
      PROVE  Holds(m, o, h, p, r) <=> p = Order(o)[h] /\ r = m[o][h]
  <2>1. h \in 1 .. Len(m[o])
    OBVIOUS
  <2> QED BY <2>1 DEF Holds
<1>5. ASSUME NEW p, p # Order(o)[h]
      PROVE  PendingOf(m1, p) = PendingOf(m, p)
  <2>1. ASSUME NEW r PROVE r \in PendingOf(m1, p) <=> r \in PendingOf(m, p)
    BY <1>1, <1>2, <1>3, <1>4, <1>5
  <2> QED BY <2>1
<1>6. ASSUME NEW q \in Editors, NEW k, NEW p, Holds(m, q, k, p, m[o][h])
      PROVE  q = o /\ k = h
  BY <1>6 DEF Holds
<1>7. PendingOf(m1, Order(o)[h]) = PendingOf(m, Order(o)[h]) \ {m[o][h]}
  <2>1. ASSUME NEW r
        PROVE  r \in PendingOf(m1, Order(o)[h]) <=> r \in PendingOf(m, Order(o)[h]) /\ r # m[o][h]
    BY <1>1, <1>2, <1>3, <1>4, <1>6
  <2> QED BY <2>1
<1>8. m[o][h] \in PendingOf(m, Order(o)[h])
  BY <1>1, <1>4
<1> QED BY <1>5, <1>7, <1>8

Held(o) == 1 .. Len(mine[o])

\* A reservation is of one operation, on one path, and nobody has released it.
ReservationsAreOwned ==
  /\ \A o, q \in Editors : \A i \in Held(o) : \A j \in Held(q) :
       mine[o][i] = mine[q][j] => o = q /\ i = j
  /\ \A o \in Editors : \A i \in Held(o) : mine[o][i] \notin resolved

\* What an operation has reserved, by its phase.
HeldByPhase ==
  \A o \in Editors :
    /\ editing[o] \in {"new", "done"} => Len(mine[o]) = 0
    /\ editing[o] = "waiting" =>
         Len(mine[o]) # 0 /\ waits[o] # 0 /\ waits[o] < mine[o][Len(mine[o])]
    /\ editing[o] = "inside" => Len(mine[o]) = Len(Order(o))
    /\ editing[o] = "leaving" => Len(mine[o]) # 0

\* Who does not wait for its last path is the first on it, and on all before.
FirstOnItsPaths ==
  \A o \in Editors : \A i \in Held(o) :
    i < Len(mine[o]) \/ editing[o] \in {"inside", "leaving"} =>
      \A r \in PendingOf(mine, Order(o)[i]) : mine[o][i] <= r

\* Who waits, waits for the one just before it.
WaitsForTheOneBefore ==
  \A o \in Editors : editing[o] = "waiting" =>
    \A r \in PendingOf(mine, Order(o)[Len(mine[o])]) : r < mine[o][Len(mine[o])] =>
      r <= waits[o] /\ waits[o] \in PendingOf(mine, Order(o)[Len(mine[o])])

MapIsExact ==
  \A p \in Paths :
    /\ PendingOf(mine, p) = {} => locks[p] = 0
    /\ PendingOf(mine, p) # {} =>
         locks[p] \in PendingOf(mine, p) /\ \A r \in PendingOf(mine, p) : r <= locks[p]

LockInv ==
  /\ Locks!TypeOK
  /\ ReservationsAreOwned
  /\ HeldByPhase
  /\ FirstOnItsPaths
  /\ WaitsForTheOneBefore
  /\ MapIsExact

LEMMA LocksPending ==
  ASSUME NEW p
  PROVE  Locks!Pending(p) = PendingOf(mine, p) /\ Locks!Pending(p)' = PendingOf(mine', p)
<1>1. Locks!Pending(p) = PendingOf(mine, p)
  BY DEF Locks!Pending, PendingOf, Order
<1>2. Locks!Pending(p)' = PendingOf(mine', p)
  BY DEF Locks!Pending, PendingOf, Order
<1> QED BY <1>1, <1>2

LEMMA LockInitKeeps == Locks!Init => LockInv
<1> SUFFICES ASSUME Locks!Init PROVE LockInv
  OBVIOUS
<1>1. \A o \in Editors : mine[o] = <<>> /\ Len(mine[o]) = 0 /\ editing[o] = "new"
  BY DEF Locks!Init
<1>2. Locks!TypeOK
  <2>1. \A o \in Editors : mine[o] \in Seq(1 .. made) /\ Len(mine[o]) <= Len(LockOrder[o])
    <3>1. ASSUME NEW o \in Editors
          PROVE  mine[o] \in Seq(1 .. made) /\ Len(mine[o]) <= Len(Order(o))
      <4>1. <<>> \in Seq(1 .. made) /\ Len(Order(o)) \in Nat
        BY OrderIs
      <4>2. 0 <= Len(Order(o))
        BY <4>1
      <4> QED BY <4>1, <4>2, <1>1
    <3> QED BY <3>1 DEF Order
  <2> QED BY <2>1 DEF Locks!Init, Locks!TypeOK
<1>3. \A p : PendingOf(mine, p) = {}
  <2>1. \A o \in Editors : DOMAIN mine[o] = {}
    BY <1>1
  <2> QED BY <2>1 DEF PendingOf
<1>4. ReservationsAreOwned /\ HeldByPhase /\ FirstOnItsPaths /\ WaitsForTheOneBefore
  BY <1>1 DEF ReservationsAreOwned, HeldByPhase, FirstOnItsPaths, WaitsForTheOneBefore, Held
<1>5. MapIsExact
  BY <1>3 DEF MapIsExact, Locks!Init
<1> QED BY <1>2, <1>4, <1>5 DEF LockInv

LEMMA LockFinishKeeps ==
  ASSUME LockInv, NEW o \in Editors, Locks!Finish(o)
  PROVE  LockInv'
<1>1. /\ editing[o] = "inside" /\ editing' = [editing EXCEPT ![o] = "leaving"]
      /\ locks' = locks /\ made' = made /\ resolved' = resolved /\ mine' = mine /\ waits' = waits
  BY DEF Locks!Finish
<1>2. editing \in [Editors -> {"new", "waiting", "inside", "leaving", "done"}]
  BY DEF LockInv, Locks!TypeOK
<1>3. Locks!TypeOK'
  BY <1>1, <1>2 DEF LockInv, Locks!TypeOK
<1>4. HeldByPhase'
  <2>1. Len(mine[o]) = Len(Order(o)) /\ Len(Order(o)) # 0
    BY <1>1, OrderIs DEF LockInv, HeldByPhase
  <2> QED BY <1>1, <1>2, <2>1 DEF LockInv, HeldByPhase
<1>5. ReservationsAreOwned' /\ MapIsExact'
  BY <1>1 DEF LockInv, ReservationsAreOwned, MapIsExact, Held
<1>6. FirstOnItsPaths'
  BY <1>1, <1>2 DEF LockInv, FirstOnItsPaths, Held
<1>7. WaitsForTheOneBefore'
  BY <1>1, <1>2 DEF LockInv, WaitsForTheOneBefore
<1> QED BY <1>3, <1>4, <1>5, <1>6, <1>7 DEF LockInv

\* What the finally block of one path does.
Released(o, h) ==
  /\ editing[o] = "leaving" /\ h \in Nat \ {0} /\ h = Len(mine[o]) /\ h <= Len(Order(o))
  /\ made' = made /\ waits' = waits /\ resolved' = resolved \cup {mine[o][h]}
  /\ \A q \in Editors : q # o => mine'[q] = mine[q] /\ editing'[q] = editing[q]
  /\ DOMAIN mine' = Editors
  /\ editing' \in [Editors -> {"new", "waiting", "inside", "leaving", "done"}]
  /\ locks' \in [Paths -> 0 .. made]
  /\ mine'[o] \in Seq(1 .. made) /\ Len(mine'[o]) = h - 1
  /\ \A k \in 1 .. h - 1 : mine'[o][k] = mine[o][k]
  /\ editing'[o] = IF h = 1 THEN "done" ELSE "leaving"
  /\ \A p \in Paths : locks'[p] = IF p = Order(o)[h] /\ locks[p] = mine[o][h] THEN 0 ELSE locks[p]

LEMMA UnlockIs ==
  ASSUME LockInv, NEW o \in Editors, Locks!Unlock(o)
  PROVE  Released(o, Len(mine[o]))
<1>1. /\ editing[o] = "leaving" /\ made' = made /\ waits' = waits
      /\ resolved' = resolved \cup {mine[o][Len(mine[o])]}
      /\ mine' = [mine EXCEPT ![o] = Locks!Front(@)]
      /\ editing' = [editing EXCEPT ![o] = IF Len(mine[o]) = 1 THEN "done" ELSE @]
      /\ locks' = [locks EXCEPT ![Order(o)[Len(mine[o])]] =
                      IF @ = mine[o][Len(mine[o])] THEN 0 ELSE @]
  BY DEF Locks!Unlock, Order
<1>2. PICK h : h = Len(mine[o])
  OBVIOUS
<1>3. /\ mine[o] \in Seq(1 .. made) /\ h \in Nat \ {0} /\ h <= Len(Order(o)) /\ made \in Nat
      /\ DOMAIN mine = Editors /\ locks \in [Paths -> 0 .. made]
      /\ editing \in [Editors -> {"new", "waiting", "inside", "leaving", "done"}]
  <2>1. /\ mine[o] \in Seq(1 .. made) /\ Len(mine[o]) <= Len(Order(o)) /\ made \in Nat
        /\ DOMAIN mine = Editors /\ locks \in [Paths -> 0 .. made]
        /\ editing \in [Editors -> {"new", "waiting", "inside", "leaving", "done"}]
    BY DEF LockInv, Locks!TypeOK, Order
  <2>2. Len(mine[o]) \in Nat /\ Len(mine[o]) # 0
    BY <2>1, <1>1 DEF LockInv, HeldByPhase
  <2> QED BY <2>1, <2>2, <1>2
<1>4. PICK f : f = mine'[o]
  OBVIOUS
<1>5. f = SubSeq(mine[o], 1, h - 1)
  BY <1>1, <1>2, <1>3, <1>4 DEF Locks!Front
<1>6. f \in Seq(1 .. made) /\ Len(f) = h - 1 /\ \A k \in 1 .. h - 1 : f[k] = mine[o][k]
  BY <1>2, <1>3, <1>5, FrontIs
<1>7. /\ \A q \in Editors : q # o => mine'[q] = mine[q] /\ editing'[q] = editing[q]
      /\ DOMAIN mine' = Editors /\ editing'[o] = IF h = 1 THEN "done" ELSE "leaving"
      /\ editing' \in [Editors -> {"new", "waiting", "inside", "leaving", "done"}]
  BY <1>1, <1>2, <1>3
<1>8. /\ locks' \in [Paths -> 0 .. made]
      /\ \A p \in Paths :
           locks'[p] = IF p = Order(o)[h] /\ locks[p] = mine[o][h] THEN 0 ELSE locks[p]
  <2>1. PICK p0, r0 : p0 = Order(o)[h] /\ r0 = mine[o][h]
    OBVIOUS
  <2>2. locks' = [locks EXCEPT ![p0] = IF @ = r0 THEN 0 ELSE @] /\ 0 \in 0 .. made
    BY <2>1, <1>1, <1>2, <1>3
  <2>3. \A p \in Paths : locks'[p] = IF p = p0 /\ locks[p] = r0 THEN 0 ELSE locks[p]
    BY <2>2, <1>3
  <2>4. locks' \in [Paths -> 0 .. made]
    BY <2>2, <1>3
  <2> QED BY <2>1, <2>3, <2>4
<1>9. Released(o, h)
  BY <1>1, <1>2, <1>3, <1>4, <1>6, <1>7, <1>8 DEF Released
<1> QED BY <1>2, <1>9

\* Who gives a path back is the first on it.
LEMMA ReleasedPending ==
  ASSUME LockInv, NEW o \in Editors, NEW h, Released(o, h)
  PROVE  /\ \A p : p # Order(o)[h] => PendingOf(mine', p) = PendingOf(mine, p)
         /\ PendingOf(mine', Order(o)[h]) = PendingOf(mine, Order(o)[h]) \ {mine[o][h]}
         /\ mine[o][h] \in PendingOf(mine, Order(o)[h])
         /\ \A r \in PendingOf(mine, Order(o)[h]) : mine[o][h] <= r
         /\ \A p : PendingOf(mine, p) \in SUBSET (1 .. made) /\ IsFiniteSet(PendingOf(mine, p))
<1>1. PICK m, m1, n : m = mine /\ m1 = mine' /\ n = made
  OBVIOUS
<1>2. n \in Nat /\ \A q \in Editors : m[q] \in Seq(1 .. n)
  BY <1>1 DEF LockInv, Locks!TypeOK
<1>3. \A q \in Editors : m1[q] \in Seq(1 .. n)
  BY <1>1, <1>2 DEF Released
<1>4. /\ h \in Nat \ {0} /\ h = Len(m[o]) /\ h <= Len(Order(o))
      /\ \A q \in Editors : q # o => m1[q] = m[q]
      /\ Len(m1[o]) = h - 1
      /\ \A k \in 1 .. h - 1 : m1[o][k] = m[o][k]
  BY <1>1 DEF Released
<1>5. \A q \in Editors : \A i \in 1 .. Len(m[q]) : m[q][i] = m[o][h] => q = o /\ i = h
  <2>1. \A q, s \in Editors : \A i \in 1 .. Len(m[q]) : \A j \in 1 .. Len(m[s]) :
          m[q][i] = m[s][j] => q = s /\ i = j
    BY <1>1 DEF LockInv, ReservationsAreOwned, Held
  <2>2. h \in 1 .. Len(m[o])
    BY <1>4
  <2> QED BY <2>1, <2>2
<1>6. Shrinks(m, m1, n, o, h)
  BY <1>2, <1>3, <1>4, <1>5 DEF Shrinks
<1>7. /\ \A p : p # Order(o)[h] => PendingOf(m1, p) = PendingOf(m, p)
      /\ PendingOf(m1, Order(o)[h]) = PendingOf(m, Order(o)[h]) \ {m[o][h]}
      /\ m[o][h] \in PendingOf(m, Order(o)[h])
  BY <1>6, PendingShrinks
<1>8. \A r \in PendingOf(mine, Order(o)[h]) : mine[o][h] <= r
  <2>1. h \in Held(o) /\ editing[o] = "leaving"
    BY <1>1, <1>4 DEF Released, Held
  <2> QED BY <2>1 DEF LockInv, FirstOnItsPaths
<1>9. \A p : PendingOf(m, p) \in SUBSET (1 .. n) /\ IsFiniteSet(PendingOf(m, p))
  BY <1>2, PendingIs
<1> QED BY <1>1, <1>7, <1>8, <1>9

\* The first on a path gives it back, so nobody who waits loses what it waits for.
LEMMA LockUnlockKeeps ==
  ASSUME LockInv, NEW o \in Editors, Locks!Unlock(o)
  PROVE  LockInv'
<1>1. PICK h : h = Len(mine[o])
  OBVIOUS
<1>2. Released(o, h)
  BY <1>1, UnlockIs
<1>3. PICK m, m1, r0, p0 : m = mine /\ m1 = mine' /\ r0 = mine[o][h] /\ p0 = Order(o)[h]
  OBVIOUS
<1>4. made \in Nat /\ \A q \in Editors : m[q] \in Seq(1 .. made) /\ Len(m[q]) \in Nat /\ Len(m[q]) <= Len(Order(q))
  BY <1>3 DEF LockInv, Locks!TypeOK, Order
<1>5. \A q \in Editors : m1[q] \in Seq(1 .. made)
  BY <1>2, <1>3, <1>4 DEF Released
<1>6. /\ h \in Nat \ {0} /\ h = Len(m[o]) /\ h <= Len(Order(o))
      /\ \A q \in Editors : q # o => m1[q] = m[q]
      /\ Len(m1[o]) = h - 1
      /\ \A k \in 1 .. h - 1 : m1[o][k] = m[o][k]
  BY <1>2, <1>3 DEF Released
<1>7. /\ \A q, s \in Editors : \A i \in 1 .. Len(m[q]) : \A j \in 1 .. Len(m[s]) :
           m[q][i] = m[s][j] => q = s /\ i = j
      /\ \A q \in Editors : \A i \in 1 .. Len(m[q]) : m[q][i] \notin resolved
  BY <1>3 DEF LockInv, ReservationsAreOwned, Held
<1>8. \A q \in Editors : \A i \in 1 .. Len(m[q]) : m[q][i] = m[o][h] => q = o /\ i = h
  <2>1. h \in 1 .. Len(m[o])
    BY <1>6
  <2> QED BY <2>1, <1>7
<1>9. /\ \A p : p # p0 => PendingOf(m1, p) = PendingOf(m, p)
      /\ PendingOf(m1, p0) = PendingOf(m, p0) \ {r0}
      /\ r0 \in PendingOf(m, p0)
  BY <1>2, <1>3, ReleasedPending
<1>10. \A r \in PendingOf(m, p0) : r0 <= r /\ r \in Nat
  <2>1. \A r \in PendingOf(m, p0) : r0 <= r
    BY <1>2, <1>3, ReleasedPending
  <2>2. PendingOf(m, p0) \in SUBSET (1 .. made)
    BY <1>2, <1>3, ReleasedPending
  <2> QED BY <2>1, <2>2, <1>4
<1>11. \A q \in Editors : \A i \in 1 .. Len(m1[q]) :
         i \in 1 .. Len(m[q]) /\ m1[q][i] = m[q][i]
  <2>1. \A i \in 1 .. Len(m1[o]) : i \in 1 .. Len(m[o]) /\ i \in 1 .. h - 1
    BY <1>6
  <2> QED BY <2>1, <1>6
<1>12. \A q \in Editors : \A i \in 1 .. Len(m1[q]) : m1[q][i] # r0
  <2>1. h \notin 1 .. Len(m1[o])
    BY <1>6
  <2> QED BY <2>1, <1>3, <1>8, <1>11
<1>13. Locks!TypeOK'
  <2>1. ASSUME NEW q \in Editors
        PROVE  Len(m1[q]) <= Len(Order(q))
    <3>1. CASE q # o
      BY <3>1, <1>4, <1>6
    <3>2. CASE q = o
      <4>1. Len(Order(o)) \in Nat
        BY OrderIs
      <4> QED BY <4>1, <3>2, <1>6
    <3> QED BY <3>1, <3>2
  <2>2. h \in 1 .. Len(m[o]) /\ r0 \in 1 .. made
    BY <1>3, <1>4, <1>6
  <2>3. /\ made' = made /\ waits' = waits /\ resolved' = resolved \cup {r0} /\ DOMAIN mine' = Editors
        /\ editing' \in [Editors -> {"new", "waiting", "inside", "leaving", "done"}]
        /\ locks' \in [Paths -> 0 .. made]
    BY <1>2, <1>3 DEF Released
  <2>4. resolved \subseteq 1 .. made /\ waits \in [Editors -> 0 .. made]
    BY DEF LockInv, Locks!TypeOK
  <2>5. \A q \in Editors : Order(q) = LockOrder[q]
    BY DEF Order
  <2> QED BY <1>3, <1>4, <1>5, <2>1, <2>2, <2>3, <2>4, <2>5 DEF Locks!TypeOK
<1>14. ReservationsAreOwned'
  <2>1. resolved' = resolved \cup {r0}
    BY <1>2, <1>3 DEF Released
  <2> QED BY <2>1, <1>3, <1>7, <1>11, <1>12 DEF ReservationsAreOwned, Held
<1>15. \A q \in Editors : q # o => editing'[q] = editing[q]
  BY <1>2 DEF Released
<1>16. /\ editing[o] = "leaving" /\ waits' = waits
       /\ editing'[o] = IF h = 1 THEN "done" ELSE "leaving"
  BY <1>2 DEF Released
<1>17. HeldByPhase'
  <2>1. ASSUME NEW q \in Editors
        PROVE  /\ editing'[q] \in {"new", "done"} => Len(m1[q]) = 0
               /\ editing'[q] = "waiting" =>
                    Len(m1[q]) # 0 /\ waits'[q] # 0 /\ waits'[q] < m1[q][Len(m1[q])]
               /\ editing'[q] = "inside" => Len(m1[q]) = Len(Order(q))
               /\ editing'[q] = "leaving" => Len(m1[q]) # 0
    <3>1. CASE q # o
      BY <3>1, <1>3, <1>6, <1>15, <1>16 DEF LockInv, HeldByPhase
    <3>2. CASE q = o
      BY <3>2, <1>6, <1>16
    <3> QED BY <3>1, <3>2
  <2> QED BY <2>1, <1>3 DEF HeldByPhase
<1>18. FirstOnItsPaths'
  <2>1. ASSUME NEW q \in Editors, NEW i \in 1 .. Len(m1[q]),
               i < Len(m1[q]) \/ editing'[q] \in {"inside", "leaving"},
               NEW r \in PendingOf(m1, Order(q)[i])
        PROVE  m1[q][i] <= r
    <3>1. i \in 1 .. Len(m[q]) /\ m1[q][i] = m[q][i]
      BY <1>11
    <3>2. i < Len(m[q]) \/ editing[q] \in {"inside", "leaving"}
      BY <2>1, <1>6, <1>15, <1>16
    <3>3. r \in PendingOf(m, Order(q)[i])
      BY <1>9
    <3> QED BY <3>1, <3>2, <3>3, <1>3 DEF LockInv, FirstOnItsPaths, Held
  <2> QED BY <2>1, <1>3 DEF FirstOnItsPaths, Held
<1>19. WaitsForTheOneBefore'
  <2>1. ASSUME NEW q \in Editors, editing'[q] = "waiting",
               NEW r \in PendingOf(m1, Order(q)[Len(m1[q])]), r < m1[q][Len(m1[q])]
        PROVE  r <= waits'[q] /\ waits'[q] \in PendingOf(m1, Order(q)[Len(m1[q])])
    <3>1. q # o /\ editing[q] = "waiting" /\ m1[q] = m[q]
      BY <2>1, <1>6, <1>15, <1>16
    <3>2. r \in PendingOf(m, Order(q)[Len(m[q])])
      BY <3>1, <1>9
    <3>3. r <= waits[q] /\ waits[q] \in PendingOf(m, Order(q)[Len(m[q])])
      BY <3>1, <3>2, <2>1, <1>3 DEF LockInv, WaitsForTheOneBefore
    <3>4. waits[q] \in PendingOf(m1, Order(q)[Len(m[q])])
      <4>1. CASE Order(q)[Len(m[q])] = p0
        <5>1. r \in PendingOf(m, p0) /\ r # r0
          BY <4>1, <3>1, <2>1, <1>9
        <5>2. r0 \in Nat /\ r \in Nat /\ r0 <= r
          BY <5>1, <1>9, <1>10
        <5>3. waits[q] # r0
          BY <5>1, <5>2, <3>3
        <5> QED BY <5>3, <4>1, <3>3, <1>9
      <4>2. CASE Order(q)[Len(m[q])] # p0
        BY <4>2, <3>3, <1>9
      <4> QED BY <4>1, <4>2
    <3> QED BY <3>1, <3>3, <3>4, <1>16
  <2> QED BY <2>1, <1>3 DEF WaitsForTheOneBefore
<1>20. MapIsExact'
  <2>1. ASSUME NEW p \in Paths
        PROVE  /\ PendingOf(m1, p) = {} => locks'[p] = 0
               /\ PendingOf(m1, p) # {} =>
                    locks'[p] \in PendingOf(m1, p) /\ \A r \in PendingOf(m1, p) : r <= locks'[p]
    <3>1. /\ PendingOf(m, p) = {} => locks[p] = 0
          /\ PendingOf(m, p) # {} =>
               locks[p] \in PendingOf(m, p) /\ \A r \in PendingOf(m, p) : r <= locks[p]
      BY <1>3 DEF LockInv, MapIsExact
    <3>2. locks'[p] = IF p = p0 /\ locks[p] = r0 THEN 0 ELSE locks[p]
      BY <1>2, <1>3 DEF Released
    <3>3. CASE p # p0
      BY <3>1, <3>2, <3>3, <1>9
    <3>4. CASE p = p0 /\ locks[p] = r0
      <4>1. \A r \in PendingOf(m, p0) : r = r0
        BY <3>1, <3>4, <1>10
      <4> QED BY <4>1, <3>2, <3>4, <1>9
    <3>5. CASE p = p0 /\ locks[p] # r0
      BY <3>1, <3>2, <3>5, <1>9
    <3> QED BY <3>3, <3>4, <3>5
  <2> QED BY <2>1, <1>3 DEF MapIsExact
<1> QED BY <1>13, <1>14, <1>17, <1>18, <1>19, <1>20 DEF LockInv

\* acquire, of an operation that holds h reservations: the new ones are new[h + 1], ...,
\* new[last], numbers nobody had before.
Taken(o, h, last, new) ==
  /\ h \in Nat /\ h = Len(mine[o]) /\ last \in Nat /\ h <= last /\ last <= Len(Order(o))
  /\ made' \in Nat /\ made <= made'
  /\ \A k \in h + 1 .. last : new[k] \in Nat /\ made < new[k] /\ new[k] <= made'
  /\ \A j, k \in h + 1 .. last : new[j] = new[k] => j = k
  /\ \A q \in Editors : q # o =>
       mine'[q] = mine[q] /\ waits'[q] = waits[q] /\ editing'[q] = editing[q]
  /\ \A q \in Editors : mine'[q] \in Seq(1 .. made')
  /\ DOMAIN mine' = Editors /\ locks' \in [Paths -> Nat] /\ waits' \in [Editors -> Nat]
  /\ editing' \in [Editors -> {"new", "waiting", "inside", "leaving", "done"}]
  /\ Len(mine'[o]) = last
  /\ \A k \in 1 .. h : mine'[o][k] = mine[o][k]
  /\ \A k \in h + 1 .. last : mine'[o][k] = new[k]
  /\ \A k \in h + 1 .. last - 1 : locks[Order(o)[k]] = 0
  /\ waits'[o] = IF last = h THEN 0 ELSE locks[Order(o)[last]]
  /\ editing'[o] = IF waits'[o] = 0 THEN "inside" ELSE "waiting"
  /\ waits'[o] = 0 => last = Len(Order(o))
  /\ \A k \in h + 1 .. last : locks'[Order(o)[k]] = new[k]
  /\ \A p \in Paths : (\A k \in h + 1 .. last : Order(o)[k] # p) => locks'[p] = locks[p]

LEMMA TakenIs ==
  ASSUME Locks!TypeOK, NEW o \in Editors, NEW i, NEW last, Acquired(o, i, last)
  PROVE  \E new : Taken(o, Len(mine[o]), last, new)
<1>1. PICK h, n : h = Len(mine[o]) /\ n = made
  OBVIOUS
<1> DEFINE new == [k \in h + 1 .. last |-> n + (k - i + 1)]
<1>2. /\ n \in Nat /\ Len(Order(o)) \in Nat /\ h \in Nat
      /\ \A q \in Editors : mine[q] \in Seq(1 .. n)
  BY <1>1, OrderIs DEF Locks!TypeOK
<1>3. /\ i = h + 1 /\ last \in Nat /\ h <= last /\ last <= Len(Order(o))
      /\ (last < i <=> last = h) /\ last \in i - 1 .. Len(Order(o))
  BY <1>1, <1>2 DEF Acquired
<1>4. made' = n + (last - i + 1) /\ made' \in Nat /\ n <= made'
  BY <1>1, <1>2, <1>3 DEF Acquired
<1>5. \A k \in h + 1 .. last : /\ new[k] = n + (k - i + 1) /\ new[k] \in Nat /\ n < new[k]
                               /\ new[k] <= made'
  BY <1>2, <1>3, <1>4
<1>6. \A j, k \in h + 1 .. last : new[j] = new[k] => j = k
  BY <1>2, <1>3
<1>7. /\ \A q \in Editors : q # o =>
           mine'[q] = mine[q] /\ waits'[q] = waits[q] /\ editing'[q] = editing[q]
      /\ DOMAIN mine' = Editors /\ locks' \in [Paths -> Nat] /\ waits' \in [Editors -> Nat]
      /\ editing' \in [Editors -> {"new", "waiting", "inside", "leaving", "done"}]
      /\ mine'[o] \in Seq(Nat) /\ Len(mine'[o]) = last
      /\ \A k \in 1 .. last : mine'[o][k] = IF k < i THEN mine[o][k] ELSE n + (k - i + 1)
  BY <1>1 DEF Acquired
<1>8. \A k \in 1 .. h : mine'[o][k] = mine[o][k]
  BY <1>3, <1>7, <1>2
<1>9. \A k \in h + 1 .. last : mine'[o][k] = new[k]
  <2>1. ASSUME NEW k \in h + 1 .. last
        PROVE  k \in 1 .. last /\ ~ (k < i)
    BY <1>2, <1>3
  <2> QED BY <2>1, <1>5, <1>7
<1>10. ASSUME NEW q \in Editors
       PROVE  mine'[q] \in Seq(1 .. made')
  <2>1. PICK f, g, n1 : f = mine'[q] /\ g = mine[q] /\ n1 = made'
    OBVIOUS
  <2>2. g \in Seq(1 .. n) /\ n1 \in Nat /\ n <= n1
    BY <2>1, <1>2, <1>4
  <2>3. CASE q # o
    <3>1. f = g
      BY <2>1, <2>3, <1>7
    <3>2. \A k \in 1 .. n : k \in 1 .. n1
      BY <2>2, <1>2
    <3>3. \A k \in 1 .. Len(g) : g[k] \in 1 .. n
      BY <2>2, ElementsOf
    <3>4. g \in Seq(1 .. n1)
      BY <2>2, <3>2, <3>3, SequenceInto
    <3> QED BY <2>1, <3>1, <3>4
  <2>4. CASE q = o
    <3>1. f \in Seq(Nat) /\ Len(f) = last
      BY <2>1, <2>4, <1>7
    <3>2. ASSUME NEW k \in 1 .. last
          PROVE  f[k] \in 1 .. n1
      <4>1. CASE k \in 1 .. h
        <5>1. f[k] = g[k] /\ g[k] \in 1 .. n
          <6>1. f[k] = g[k]
            BY <4>1, <2>1, <2>4, <1>8
          <6>2. k \in 1 .. Len(g)
            BY <4>1, <2>1, <2>4, <1>1
          <6>3. g[k] \in 1 .. n
            BY <6>2, <2>2, ElementsOf
          <6> QED BY <6>1, <6>3
        <5> QED BY <5>1, <2>2, <1>2
      <4>2. CASE k \notin 1 .. h
        <5>1. k \in h + 1 .. last
          BY <4>2, <1>2, <1>3
        <5>2. f[k] = new[k]
          BY <5>1, <2>1, <2>4, <1>9
        <5>3. new[k] \in Nat /\ n < new[k] /\ new[k] <= n1
          BY <5>1, <1>5, <2>1
        <5> HIDE DEF new
        <5> QED BY <5>2, <5>3, <2>2, <1>2
      <4> QED BY <4>1, <4>2
    <3>3. f \in Seq(1 .. n1)
      <4>1. \A k \in 1 .. Len(f) : f[k] \in 1 .. n1
        BY <3>1, <3>2
      <4>2. PICK T : T = Nat
        OBVIOUS
      <4>3. f \in Seq(T)
        BY <3>1, <4>2
      <4> QED BY <4>1, <4>3, SequenceInto
    <3> QED BY <2>1, <3>3
  <2> QED BY <2>3, <2>4
<1>11. \A k \in h + 1 .. last - 1 : locks[Order(o)[k]] = 0
  BY <1>3 DEF Acquired
<1>12. /\ waits'[o] = IF last = h THEN 0 ELSE locks[Order(o)[last]]
       /\ editing'[o] = IF waits'[o] = 0 THEN "inside" ELSE "waiting"
       /\ waits'[o] = 0 => last = Len(Order(o))
  BY <1>3 DEF Acquired
<1>13. ASSUME NEW k \in h + 1 .. last
       PROVE  locks'[Order(o)[k]] = new[k]
  <2>1. locks'[Order(o)[k]] = n + (k - i + 1)
    BY <1>1, <1>3 DEF Acquired
  <2> QED BY <2>1, <1>5
<1>14. ASSUME NEW p \in Paths, \A k \in h + 1 .. last : Order(o)[k] # p
       PROVE  locks'[p] = locks[p]
  BY <1>3, <1>14 DEF Acquired
<1>15. PICK f : f = new
  OBVIOUS
<1> HIDE DEF new
<1>16. /\ \A k \in h + 1 .. last : f[k] \in Nat /\ n < f[k] /\ f[k] <= made'
       /\ \A j, k \in h + 1 .. last : f[j] = f[k] => j = k
       /\ \A k \in h + 1 .. last : mine'[o][k] = f[k]
       /\ \A k \in h + 1 .. last : locks'[Order(o)[k]] = f[k]
       /\ \A p \in Paths : (\A k \in h + 1 .. last : Order(o)[k] # p) => locks'[p] = locks[p]
       /\ \A q \in Editors : mine'[q] \in Seq(1 .. made')
  BY <1>5, <1>6, <1>9, <1>10, <1>13, <1>14, <1>15
<1>17. Taken(o, h, last, f)
  BY <1>1, <1>2, <1>3, <1>4, <1>7, <1>8, <1>11, <1>12, <1>16 DEF Taken
<1> QED BY <1>1, <1>17

\* What the reservations of every path become when acquire takes new ones.
LEMMA TakenPending ==
  ASSUME LockInv, NEW o \in Editors, NEW h, NEW last, NEW new, Taken(o, h, last, new)
  PROVE  /\ \A p : (\A k \in h + 1 .. last : Order(o)[k] # p) => PendingOf(mine', p) = PendingOf(mine, p)
         /\ \A k \in h + 1 .. last :
              PendingOf(mine', Order(o)[k]) = PendingOf(mine, Order(o)[k]) \cup {new[k]}
         /\ \A p : PendingOf(mine, p) \in SUBSET (1 .. made) /\ IsFiniteSet(PendingOf(mine, p))
         /\ \A p : PendingOf(mine', p) \in SUBSET (1 .. made') /\ IsFiniteSet(PendingOf(mine', p))
<1>1. PICK m, n, m1, n1 : m = mine /\ n = made /\ m1 = mine' /\ n1 = made'
  OBVIOUS
<1>2. n \in Nat /\ \A q \in Editors : m[q] \in Seq(1 .. n)
  BY <1>1 DEF LockInv, Locks!TypeOK
<1>3. n1 \in Nat /\ \A q \in Editors : m1[q] \in Seq(1 .. n1)
  BY <1>1 DEF Taken
<1>4. Grows(m, n, m1, n1, o, h, last, new)
  BY <1>1, <1>2, <1>3 DEF Grows, Taken
<1>5. PendingAfter(m, m1, o, h, last, new)
  BY <1>4, PendingGrows
<1>6. \A p : PendingOf(m, p) \in SUBSET (1 .. n) /\ IsFiniteSet(PendingOf(m, p))
  BY <1>2, PendingIs
<1>7. \A p : PendingOf(m1, p) \in SUBSET (1 .. n1) /\ IsFiniteSet(PendingOf(m1, p))
  BY <1>3, PendingIs
<1> QED BY <1>1, <1>5, <1>6, <1>7 DEF PendingAfter

\* An operation goes on to the next path when nobody is before it on the last.
LEMMA AcquireKeeps ==
  ASSUME LockInv, NEW o \in Editors, NEW h, NEW last, NEW new, Taken(o, h, last, new),
         editing[o] \in {"new", "waiting"}, editing[o] = "waiting" => waits[o] \in resolved,
         resolved' = resolved
  PROVE  LockInv'
<1>1. PICK m, m1, n, order : m = mine /\ m1 = mine' /\ n = made /\ order = Order(o)
  OBVIOUS
<1>2. /\ n \in Nat /\ resolved \subseteq 1 .. n
      /\ \A q \in Editors : m[q] \in Seq(1 .. n)
      /\ \A q \in Editors : Len(m[q]) <= Len(Order(q))
      /\ locks \in [Paths -> 0 .. n] /\ waits \in [Editors -> 0 .. n]
  BY <1>1 DEF LockInv, Locks!TypeOK, Order
<1>3. \A q \in Editors : \A i \in 1 .. Len(m[q]) : m[q][i] \in Nat /\ m[q][i] <= n
  BY <1>2, ElementsOf
<1>4. /\ h \in Nat /\ h = Len(m[o]) /\ last \in Nat /\ h <= last /\ last <= Len(order)
      /\ made' \in Nat /\ n <= made'
      /\ \A k \in h + 1 .. last : new[k] \in Nat /\ n < new[k] /\ new[k] <= made'
      /\ \A j, k \in h + 1 .. last : new[j] = new[k] => j = k
      /\ \A q \in Editors : q # o =>
           m1[q] = m[q] /\ waits'[q] = waits[q] /\ editing'[q] = editing[q]
      /\ Len(m1[o]) = last
      /\ \A k \in 1 .. h : m1[o][k] = m[o][k]
      /\ \A k \in h + 1 .. last : m1[o][k] = new[k]
  BY <1>1 DEF Taken
<1>5. /\ \A k \in h + 1 .. last - 1 : locks[order[k]] = 0
      /\ waits'[o] = IF last = h THEN 0 ELSE locks[order[last]]
      /\ editing'[o] = IF waits'[o] = 0 THEN "inside" ELSE "waiting"
      /\ waits'[o] = 0 => last = Len(order)
      /\ \A k \in h + 1 .. last : locks'[order[k]] = new[k]
      /\ \A p \in Paths : (\A k \in h + 1 .. last : order[k] # p) => locks'[p] = locks[p]
  BY <1>1 DEF Taken
<1>6. /\ \A p : (\A k \in h + 1 .. last : order[k] # p) => PendingOf(m1, p) = PendingOf(m, p)
      /\ \A k \in h + 1 .. last : PendingOf(m1, order[k]) = PendingOf(m, order[k]) \cup {new[k]}
      /\ \A p : PendingOf(m, p) \in SUBSET (1 .. n)
  BY <1>1, TakenPending
<1>7. /\ Len(order) \in Nat \ {0}
      /\ \A k \in 1 .. Len(order) : order[k] \in Paths
      /\ \A j, k \in 1 .. Len(order) : order[j] = order[k] => j = k
      /\ \A k \in h + 1 .. last : k \in 1 .. Len(order)
  <2>1. /\ order \in Seq(Paths) /\ Len(order) \in Nat \ {0}
        /\ \A j, k \in 1 .. Len(order) : order[j] = order[k] => j = k
    BY <1>1, OrderIs
  <2> QED BY <2>1, <1>4, ElementsOf
<1>8. ASSUME NEW p, NEW r \in PendingOf(m1, p), r \notin PendingOf(m, p)
      PROVE  r > n /\ r \in Nat
  <2>1. PICK k \in h + 1 .. last : order[k] = p
    BY <1>6, <1>8
  <2>2. r = new[k]
    BY <2>1, <1>6, <1>8
  <2> QED BY <2>2, <1>2, <1>4
<1>9. \A p : \A r \in PendingOf(m, p) : r \in PendingOf(m1, p)
  BY <1>6
<1>10. \A k \in h + 1 .. last : \A q \in Editors : \A i \in 1 .. Len(m[q]) : m[q][i] # new[k]
  <2>1. ASSUME NEW k \in h + 1 .. last, NEW q \in Editors, NEW i \in 1 .. Len(m[q]), m[q][i] = new[k]
        PROVE  FALSE
    <3>1. m[q][i] \in Nat /\ m[q][i] <= n
      BY <1>3
    <3>2. n < new[k]
      BY <1>4
    <3> QED BY <2>1, <3>1, <3>2, <1>2
  <2> QED BY <2>1
<1>11. \A q \in Editors : \A i \in 1 .. Len(m1[q]) :
         \/ i \in 1 .. Len(m[q]) /\ m1[q][i] = m[q][i]
         \/ q = o /\ i \in h + 1 .. last /\ m1[q][i] = new[i]
  BY <1>4
<1>12. Locks!TypeOK'
  <2>1. ASSUME NEW q \in Editors
        PROVE  m1[q] \in Seq(1 .. made') /\ Len(m1[q]) <= Len(Order(q))
    <3>1. m1[q] \in Seq(1 .. made')
      BY <1>1 DEF Taken
    <3> QED BY <3>1, <1>1, <1>2, <1>4
  <2>2. ASSUME NEW p \in Paths
        PROVE  locks'[p] \in 0 .. made'
    <3>1. CASE \A k \in h + 1 .. last : order[k] # p
      <4>1. locks'[p] = locks[p] /\ locks[p] \in 0 .. n
        BY <3>1, <1>2, <1>5
      <4> QED BY <4>1, <1>2, <1>4
    <3>2. CASE \E k \in h + 1 .. last : order[k] = p
      <4>1. PICK k \in h + 1 .. last : order[k] = p
        BY <3>2
      <4> QED BY <4>1, <1>4, <1>5
    <3> QED BY <3>1, <3>2
  <2>3. ASSUME NEW q \in Editors
        PROVE  waits'[q] \in 0 .. made'
    <3>1. \A i \in 0 .. n : i \in 0 .. made'
      BY <1>2, <1>4
    <3>2. CASE q # o
      BY <3>1, <3>2, <1>2, <1>4
    <3>3. CASE q = o /\ last = h
      BY <3>3, <1>4, <1>5
    <3>4. CASE q = o /\ last # h
      <4>1. last \in 1 .. Len(order) /\ order[last] \in Paths
        BY <3>4, <1>4, <1>7
      <4> QED BY <3>1, <3>4, <4>1, <1>2, <1>5
    <3> QED BY <3>2, <3>3, <3>4
  <2>4. /\ locks' \in [Paths -> Nat] /\ waits' \in [Editors -> Nat] /\ DOMAIN mine' = Editors
        /\ editing' \in [Editors -> {"new", "waiting", "inside", "leaving", "done"}]
    BY DEF Taken
  <2>5. locks' \in [Paths -> 0 .. made']
    BY <2>2, <2>4
  <2>6. waits' \in [Editors -> 0 .. made']
    BY <2>3, <2>4
  <2>7. resolved' \subseteq 1 .. made'
    BY <1>2, <1>4
  <2>8. \A q \in Editors : Order(q) = LockOrder[q]
    BY DEF Order
  <2> QED BY <1>1, <1>4, <2>1, <2>4, <2>5, <2>6, <2>7, <2>8 DEF Locks!TypeOK
<1>13. ReservationsAreOwned'
  <2>0. \A q, s \in Editors : \A i \in 1 .. Len(m[q]) : \A j \in 1 .. Len(m[s]) :
          m[q][i] = m[s][j] => q = s /\ i = j
    BY <1>1 DEF LockInv, ReservationsAreOwned, Held
  <2>1. ASSUME NEW q \in Editors, NEW s \in Editors, NEW i \in 1 .. Len(m1[q]), NEW j \in 1 .. Len(m1[s]),
               m1[q][i] = m1[s][j]
        PROVE  q = s /\ i = j
    <3>1. \/ i \in 1 .. Len(m[q]) /\ m1[q][i] = m[q][i]
          \/ q = o /\ i \in h + 1 .. last /\ m1[q][i] = new[i]
      BY <1>11
    <3>2. \/ j \in 1 .. Len(m[s]) /\ m1[s][j] = m[s][j]
          \/ s = o /\ j \in h + 1 .. last /\ m1[s][j] = new[j]
      BY <1>11
    <3>3. i \in 1 .. Len(m[q]) /\ j \in 1 .. Len(m[s]) /\ m[q][i] = m[s][j] => q = s /\ i = j
      BY <2>0
    <3> QED BY <2>1, <3>1, <3>2, <3>3, <1>4, <1>10
  <2>2. ASSUME NEW q \in Editors, NEW i \in 1 .. Len(m1[q])
        PROVE  m1[q][i] \notin resolved'
    <3>1. i \in 1 .. Len(m[q]) => m[q][i] \notin resolved
      BY <1>1 DEF LockInv, ReservationsAreOwned, Held
    <3>2. i \in h + 1 .. last => new[i] \notin resolved
      BY <1>2, <1>4
    <3> QED BY <3>1, <3>2, <1>11
  <2> QED BY <2>1, <2>2, <1>1 DEF ReservationsAreOwned, Held
<1>14. \A p \in Paths :
         /\ PendingOf(m, p) = {} => locks[p] = 0
         /\ PendingOf(m, p) # {} =>
              locks[p] \in PendingOf(m, p) /\ \A r \in PendingOf(m, p) : r <= locks[p]
  BY <1>1 DEF LockInv, MapIsExact
<1>15. \A p \in Paths : locks[p] = 0 => PendingOf(m, p) = {}
  BY <1>6, <1>14
<1>16. MapIsExact'
  <2>1. ASSUME NEW p \in Paths
        PROVE  /\ PendingOf(m1, p) = {} => locks'[p] = 0
               /\ PendingOf(m1, p) # {} =>
                    locks'[p] \in PendingOf(m1, p) /\ \A r \in PendingOf(m1, p) : r <= locks'[p]
    <3>1. CASE \A k \in h + 1 .. last : order[k] # p
      BY <3>1, <1>5, <1>6, <1>14
    <3>2. CASE \E k \in h + 1 .. last : order[k] = p
      <4>1. PICK k \in h + 1 .. last : order[k] = p
        BY <3>2
      <4>2. locks'[p] = new[k] /\ PendingOf(m1, p) = PendingOf(m, p) \cup {new[k]}
        BY <4>1, <1>5, <1>6
      <4>3. \A r \in PendingOf(m, p) : r <= new[k]
        BY <1>2, <1>4, <1>6
      <4> QED BY <4>2, <4>3, <1>4
    <3> QED BY <3>1, <3>2
  <2> QED BY <2>1, <1>1 DEF MapIsExact
<1>17. last # h => /\ last \in h + 1 .. last /\ last \in 1 .. Len(order) /\ order[last] \in Paths
                   /\ waits'[o] = locks[order[last]] /\ m1[o][last] = new[last]
                   /\ n < new[last] /\ new[last] \in Nat
  <2> HAVE last # h
  <2>1. last \in h + 1 .. last
    BY <1>4
  <2> QED BY <2>1, <1>4, <1>5, <1>7
<1>18. HeldByPhase'
  <2>1. ASSUME NEW q \in Editors
        PROVE  /\ editing'[q] \in {"new", "done"} => Len(m1[q]) = 0
               /\ editing'[q] = "waiting" =>
                    Len(m1[q]) # 0 /\ waits'[q] # 0 /\ waits'[q] < m1[q][Len(m1[q])]
               /\ editing'[q] = "inside" => Len(m1[q]) = Len(Order(q))
               /\ editing'[q] = "leaving" => Len(m1[q]) # 0
    <3>1. CASE q # o
      BY <3>1, <1>1, <1>4 DEF LockInv, HeldByPhase
    <3>2. CASE q = o /\ waits'[o] = 0
      BY <3>2, <1>1, <1>4, <1>5
    <3>3. CASE q = o /\ waits'[o] # 0
      <4>1. last # h /\ editing'[o] = "waiting"
        BY <3>3, <1>5
      <4>2. locks[order[last]] \in Nat /\ locks[order[last]] <= n
        BY <4>1, <1>2, <1>17
      <4> QED BY <3>3, <4>1, <4>2, <1>2, <1>4, <1>17
    <3> QED BY <3>1, <3>2, <3>3
  <2> QED BY <2>1, <1>1 DEF HeldByPhase
<1>19. ASSUME NEW i \in 1 .. h, NEW r \in PendingOf(m, order[i])
       PROVE  m[o][i] <= r
  <2>1. i \in Held(o) /\ r \in PendingOf(mine, Order(o)[i])
    BY <1>1, <1>4 DEF Held
  <2>2. CASE i < h
    BY <2>1, <2>2, <1>1, <1>4 DEF LockInv, FirstOnItsPaths
  <2>3. CASE i = h
    <3>1. editing[o] = "waiting"
      BY <2>3, <1>1, <1>4 DEF LockInv, HeldByPhase
    <3>2. waits[o] \in resolved
      BY <3>1
    <3>3. waits[o] \notin PendingOf(m, order[h])
      <4>1. SUFFICES ASSUME waits[o] \in PendingOf(m, order[h]) PROVE FALSE
        OBVIOUS
      <4>2. \E q \in Editors : \E k : Holds(m, q, k, order[h], waits[o])
        <5>1. PICK n1, p, w : n1 = n /\ p = order[h] /\ w = waits[o]
          OBVIOUS
        <5>2. w \in PendingOf(m, p) <=> \E q \in Editors : \E k : Holds(m, q, k, p, w)
          BY <1>2, PendingIs
        <5> QED BY <5>1, <5>2, <4>1
      <4> QED BY <4>2, <3>2, <1>1 DEF Holds, LockInv, ReservationsAreOwned, Held
    <3>4. ~ (r < m[o][h])
      BY <2>1, <2>3, <3>1, <3>3, <1>1, <1>4 DEF LockInv, WaitsForTheOneBefore
    <3>5. r \in Nat /\ m[o][h] \in Nat
      BY <2>1, <2>3, <1>3, <1>4, <1>6
    <3> QED BY <3>4, <3>5, <2>3
  <2> QED BY <2>2, <2>3, <1>4
<1>20. ASSUME NEW i \in 1 .. h
       PROVE  PendingOf(m1, order[i]) = PendingOf(m, order[i])
  <2>1. \A k \in h + 1 .. last : order[k] # order[i]
    BY <1>4, <1>7
  <2> QED BY <2>1, <1>6
<1>21. FirstOnItsPaths'
  <2>1. ASSUME NEW q \in Editors, NEW i \in 1 .. Len(m1[q]),
               i < Len(m1[q]) \/ editing'[q] \in {"inside", "leaving"},
               NEW r \in PendingOf(m1, Order(q)[i])
        PROVE  m1[q][i] <= r
    <3>1. CASE q # o
      <4>1. m1[q] = m[q] /\ i \in Held(q) /\ (i < Len(mine[q]) \/ editing[q] \in {"inside", "leaving"})
        BY <3>1, <2>1, <1>1, <1>4 DEF Held
      <4>2. CASE r \in PendingOf(m, Order(q)[i])
        BY <4>1, <4>2, <1>1 DEF LockInv, FirstOnItsPaths
      <4>3. CASE r \notin PendingOf(m, Order(q)[i])
        <5>1. r > n /\ r \in Nat
          BY <4>3, <1>8
        <5>2. m[q][i] <= n /\ m[q][i] \in Nat
          BY <4>1, <1>3
        <5> QED BY <5>1, <5>2, <4>1, <1>2
      <4> QED BY <4>2, <4>3
    <3>2. CASE q = o /\ i \in 1 .. h
      <4>1. r \in PendingOf(m, order[i])
        BY <3>2, <1>1, <1>20
      <4>2. m[o][i] <= r
        BY <3>2, <4>1, <1>19
      <4> QED BY <3>2, <4>2, <1>4
    <3>3. CASE q = o /\ i \in h + 1 .. last
      <4>1. locks[order[i]] = 0
        <5>1. CASE i < last
          <6>1. i \in h + 1 .. last - 1
            BY <3>3, <5>1, <1>4
          <6> QED BY <6>1, <1>5
        <5>2. CASE i = last
          <6>1. waits'[o] = 0 /\ last # h
            BY <2>1, <3>3, <5>2, <1>4, <1>5
          <6> QED BY <6>1, <5>2, <1>17
        <5> QED BY <5>1, <5>2, <3>3, <1>4
      <4>2. PendingOf(m, order[i]) = {}
        BY <3>3, <4>1, <1>7, <1>15
      <4>3. r = new[i]
        BY <3>3, <4>2, <1>1, <1>6
      <4> QED BY <3>3, <4>3, <1>4
    <3> QED BY <3>1, <3>2, <3>3, <1>4
  <2> QED BY <2>1, <1>1 DEF FirstOnItsPaths, Held
<1>22. WaitsForTheOneBefore'
  <2>1. ASSUME NEW q \in Editors, editing'[q] = "waiting",
               NEW r \in PendingOf(m1, Order(q)[Len(m1[q])]), r < m1[q][Len(m1[q])]
        PROVE  r <= waits'[q] /\ waits'[q] \in PendingOf(m1, Order(q)[Len(m1[q])])
    <3>1. CASE q # o
      <4>1. m1[q] = m[q] /\ editing[q] = "waiting" /\ waits'[q] = waits[q]
        BY <3>1, <2>1, <1>4
      <4>2. m[q][Len(m[q])] <= n /\ m[q][Len(m[q])] \in Nat
        <5>1. Len(m[q]) \in Nat /\ Len(m[q]) # 0
          BY <4>1, <1>1, <1>2 DEF LockInv, HeldByPhase
        <5> QED BY <5>1, <1>3
      <4>3. r \in PendingOf(m, Order(q)[Len(m[q])])
        <5>1. r \notin PendingOf(m, Order(q)[Len(m[q])]) => r > n /\ r \in Nat
          BY <4>1, <1>8
        <5> QED BY <5>1, <4>1, <4>2, <2>1, <1>2
      <4>4. r <= waits[q] /\ waits[q] \in PendingOf(m, Order(q)[Len(m[q])])
        BY <4>1, <4>3, <2>1, <1>1 DEF LockInv, WaitsForTheOneBefore
      <4> QED BY <4>1, <4>4, <1>9
    <3>2. CASE q = o
      <4>1. last # h /\ waits'[o] # 0 /\ Len(m1[o]) = last
        BY <3>2, <2>1, <1>4, <1>5
      <4>2. r \in PendingOf(m1, order[last]) /\ r < new[last]
        BY <3>2, <4>1, <2>1, <1>1, <1>17
      <4>3. r \in PendingOf(m, order[last])
        BY <4>1, <4>2, <1>6, <1>17
      <4>4. r <= locks[order[last]] /\ locks[order[last]] \in PendingOf(m, order[last])
        BY <4>1, <4>3, <1>14, <1>17
      <4> QED BY <3>2, <4>1, <4>4, <1>1, <1>9, <1>17
    <3> QED BY <3>1, <3>2
  <2> QED BY <2>1, <1>1 DEF WaitsForTheOneBefore
<1> QED BY <1>12, <1>13, <1>16, <1>18, <1>21, <1>22 DEF LockInv

OwnerIn(m, r) == CHOOSE o \in Editors : \E i \in DOMAIN m[o] : m[o][i] = r

\* The operations of the reservations in S, in the order of the reservations.
QueueIn(S, m) ==
  LET order == Locks!Ascending(S)
  IN  [i \in DOMAIN order |-> OwnerIn(m, order[i])]

LEMMA QueueIs ==
  ASSUME NEW S \in SUBSET Nat, IsFiniteSet(S), NEW m, NEW s, Sorted(s, S)
  PROVE  /\ QueueIn(S, m) = [i \in 1 .. Len(s) |-> OwnerIn(m, s[i])]
         /\ s \in Seq(S) /\ Len(s) \in Nat
<1>1. s = Locks!Ascending(S)
  BY AscendingIsSorted, SortedIsUnique
<1>2. s \in Seq(S) /\ Len(s) \in Nat
  BY SortedIsOnto
<1>3. DOMAIN s = 1 .. Len(s)
  BY <1>2
<1> QED BY <1>1, <1>2, <1>3 DEF QueueIn

LEMMA QueueStays ==
  ASSUME NEW S \in SUBSET Nat, IsFiniteSet(S), NEW m, NEW m1,
         \A r \in S : OwnerIn(m1, r) = OwnerIn(m, r)
  PROVE  QueueIn(S, m1) = QueueIn(S, m)
<1>1. PICK s : Sorted(s, S)
  BY SortedExists
<1>2. /\ QueueIn(S, m) = [i \in 1 .. Len(s) |-> OwnerIn(m, s[i])]
      /\ QueueIn(S, m1) = [i \in 1 .. Len(s) |-> OwnerIn(m1, s[i])]
      /\ s \in Seq(S) /\ Len(s) \in Nat
  BY <1>1, QueueIs
<1>3. \A i \in 1 .. Len(s) : OwnerIn(m1, s[i]) = OwnerIn(m, s[i])
  BY <1>2, ElementsOf
<1> QED BY <1>2, <1>3

LEMMA QueueMembers ==
  ASSUME NEW S \in SUBSET Nat, IsFiniteSet(S), NEW m, NEW i \in DOMAIN QueueIn(S, m)
  PROVE  \E r \in S : QueueIn(S, m)[i] = OwnerIn(m, r)
<1>1. PICK s : Sorted(s, S)
  BY SortedExists
<1>2. /\ QueueIn(S, m) = [j \in 1 .. Len(s) |-> OwnerIn(m, s[j])]
      /\ s \in Seq(S) /\ Len(s) \in Nat
  BY <1>1, QueueIs
<1>3. i \in 1 .. Len(s) /\ QueueIn(S, m)[i] = OwnerIn(m, s[i])
  BY <1>2
<1> QED BY <1>2, <1>3, ElementsOf

\* T and m1 are S and m with one more reservation, r, the last.
AddsLast(S, m, T, m1, r) ==
  /\ S \in SUBSET Nat /\ IsFiniteSet(S) /\ r \in Nat /\ T = S \cup {r}
  /\ \A x \in S : x < r /\ OwnerIn(m1, x) = OwnerIn(m, x)

LEMMA QueueAppends ==
  ASSUME NEW S, NEW m, NEW T, NEW m1, NEW r, AddsLast(S, m, T, m1, r)
  PROVE  QueueIn(T, m1) = Append(QueueIn(S, m), OwnerIn(m1, r))
<1>0. /\ S \in SUBSET Nat /\ IsFiniteSet(S) /\ r \in Nat /\ T = S \cup {r}
      /\ \A x \in S : x < r
      /\ \A x \in S : OwnerIn(m1, x) = OwnerIn(m, x)
  BY DEF AddsLast
<1>1. PICK s : Sorted(s, S)
  BY <1>0, SortedExists
<1>2. PICK t : t = Append(s, r)
  OBVIOUS
<1>3. Sorted(t, T)
  BY <1>0, <1>1, <1>2, SortedAppend
<1>4. T \in SUBSET Nat /\ IsFiniteSet(T)
  BY <1>0, FS_AddElement
<1>5. /\ QueueIn(S, m) = [i \in 1 .. Len(s) |-> OwnerIn(m, s[i])]
      /\ s \in Seq(S) /\ Len(s) \in Nat
  BY <1>0, <1>1, QueueIs
<1>6. QueueIn(T, m1) = [i \in 1 .. Len(t) |-> OwnerIn(m1, t[i])]
  BY <1>3, <1>4, QueueIs
<1>7. PICK n, e, q : n = Len(s) /\ e = OwnerIn(m1, r) /\ q = QueueIn(S, m)
  OBVIOUS
<1>8. Len(t) = n + 1 /\ (\A i \in 1 .. n : t[i] = s[i] /\ s[i] \in S) /\ t[n + 1] = r
  <2>1. s \in Seq(T)
    BY <1>0, <1>5
  <2>2. \A i \in 1 .. n : s[i] \in S
    BY <1>5, <1>7, ElementsOf
  <2> QED BY <1>0, <1>2, <1>5, <1>7, <2>1, <2>2
<1>9. \A i \in 1 .. n + 1 : OwnerIn(m1, t[i]) = IF i = n + 1 THEN e ELSE OwnerIn(m, s[i])
  <2>1. ASSUME NEW i \in 1 .. n + 1
        PROVE  OwnerIn(m1, t[i]) = IF i = n + 1 THEN e ELSE OwnerIn(m, s[i])
    <3>1. CASE i = n + 1
      BY <3>1, <1>7, <1>8
    <3>2. CASE i # n + 1
      <4>1. i \in 1 .. n
        BY <3>2, <1>5, <1>7
      <4> QED BY <4>1, <3>2, <1>0, <1>8
    <3> QED BY <3>1, <3>2
  <2> QED BY <2>1
<1>10. q = [i \in 1 .. n |-> OwnerIn(m, s[i])] /\ n \in Nat
  BY <1>5, <1>7
<1>11. Append(q, e) = [i \in 1 .. n + 1 |-> IF i = n + 1 THEN e ELSE OwnerIn(m, s[i])]
  <2> DEFINE X == {OwnerIn(m, s[i]) : i \in 1 .. n} \cup {e}
  <2>1. q \in [1 .. n -> X] /\ e \in X
    BY <1>10
  <2> HIDE DEF X
  <2>2. q \in Seq(X) /\ Len(q) = n
    BY <2>1, <1>10
  <2>3. /\ Append(q, e) \in Seq(X) /\ Len(Append(q, e)) = n + 1
        /\ (\A i \in 1 .. n : Append(q, e)[i] = q[i]) /\ Append(q, e)[n + 1] = e
    BY <2>1, <2>2, <1>10
  <2>4. Append(q, e) \in [1 .. n + 1 -> X]
    BY <2>3, SequencesAreFunctions
  <2>5. \A i \in 1 .. n + 1 : Append(q, e)[i] = IF i = n + 1 THEN e ELSE OwnerIn(m, s[i])
    BY <2>3, <1>10
  <2> QED BY <2>4, <2>5
<1>12. QueueIn(T, m1) = [i \in 1 .. n + 1 |-> IF i = n + 1 THEN e ELSE OwnerIn(m, s[i])]
  <2>1. QueueIn(T, m1) = [i \in 1 .. n + 1 |-> OwnerIn(m1, t[i])]
    BY <1>6, <1>8
  <2> QED BY <2>1, <1>9
<1> QED BY <1>2, <1>7, <1>11, <1>12

\* T and m1 are S and m without the first reservation, r.
DropsFirst(S, m, T, m1, r) ==
  /\ S \in SUBSET Nat /\ IsFiniteSet(S) /\ r \in S /\ T = S \ {r}
  /\ \A x \in S : r <= x /\ (x # r => OwnerIn(m1, x) = OwnerIn(m, x))

LEMMA QueueLosesItsHead ==
  ASSUME NEW S, NEW m, NEW T, NEW m1, NEW r, DropsFirst(S, m, T, m1, r)
  PROVE  /\ QueueIn(S, m) # <<>> /\ Head(QueueIn(S, m)) = OwnerIn(m, r)
         /\ QueueIn(T, m1) = Tail(QueueIn(S, m))
<1>0. /\ S \in SUBSET Nat /\ IsFiniteSet(S) /\ r \in S /\ T = S \ {r}
      /\ \A x \in S : r <= x
      /\ \A x \in S : x # r => OwnerIn(m1, x) = OwnerIn(m, x)
  BY DEF DropsFirst
<1>1. PICK s : Sorted(s, S)
  BY <1>0, SortedExists
<1>2. PICK t : t = Tail(s)
  OBVIOUS
<1>3. s # <<>> /\ Head(s) = r /\ Sorted(t, T)
  BY <1>0, <1>1, <1>2, SortedTail
<1>4. T \in SUBSET Nat /\ IsFiniteSet(T)
  BY <1>0, FS_RemoveElement
<1>5. /\ QueueIn(S, m) = [i \in 1 .. Len(s) |-> OwnerIn(m, s[i])]
      /\ s \in Seq(S) /\ Len(s) \in Nat
  BY <1>0, <1>1, QueueIs
<1>6. QueueIn(T, m1) = [i \in 1 .. Len(t) |-> OwnerIn(m1, t[i])] /\ t \in Seq(T)
  <2>1. Sorted(t, T)
    BY <1>3
  <2>2. T \in SUBSET Nat
    BY <1>4
  <2>3. IsFiniteSet(T)
    BY <1>4
  <2> QED BY <2>1, <2>2, <2>3, QueueIs
<1>7. PICK n, q : n = Len(s) /\ q = QueueIn(S, m)
  OBVIOUS
<1>8. /\ n \in Nat \ {0} /\ Len(t) = n - 1 /\ s[1] = r
      /\ \A i \in 1 .. n - 1 : t[i] = s[i + 1]
  BY <1>2, <1>3, <1>5, <1>7
<1>9. \A i \in 1 .. n - 1 : OwnerIn(m1, t[i]) = OwnerIn(m, s[i + 1])
  <2>1. \A i \in 1 .. n - 1 : t[i] \in T
    BY <1>6, <1>8, ElementsOf
  <2> QED BY <2>1, <1>0, <1>8
<1>10. q = [i \in 1 .. n |-> OwnerIn(m, s[i])]
  BY <1>5, <1>7
<1> DEFINE X == {OwnerIn(m, s[i]) : i \in 1 .. n}
<1>11. q \in [1 .. n -> X]
  BY <1>10
<1> HIDE DEF X
<1>12. q \in Seq(X) /\ Len(q) = n
  BY <1>8, <1>11
<1>13. q # <<>> /\ Head(q) = OwnerIn(m, r)
  BY <1>8, <1>10, <1>12
<1>14. Tail(q) = [i \in 1 .. n - 1 |-> OwnerIn(m, s[i + 1])]
  <2>1. /\ Tail(q) \in Seq(X) /\ Len(Tail(q)) = n - 1
        /\ \A i \in 1 .. n - 1 : Tail(q)[i] = q[i + 1]
    BY <1>8, <1>12, <1>13
  <2>2. Tail(q) \in [1 .. n - 1 -> X]
    BY <2>1, SequencesAreFunctions
  <2>3. \A i \in 1 .. n - 1 : Tail(q)[i] = OwnerIn(m, s[i + 1])
    BY <2>1, <1>8, <1>10
  <2> QED BY <2>2, <2>3
<1>15. QueueIn(T, m1) = [i \in 1 .. n - 1 |-> OwnerIn(m, s[i + 1])]
  <2>1. QueueIn(T, m1) = [i \in 1 .. n - 1 |-> OwnerIn(m1, t[i])]
    BY <1>6, <1>8
  <2> QED BY <2>1, <1>9
<1> QED BY <1>2, <1>7, <1>13, <1>14, <1>15

LEMMA OwnerIs ==
  ASSUME NEW m, NEW n, \A q \in Editors : m[q] \in Seq(1 .. n),
         \A q, s \in Editors : \A i \in 1 .. Len(m[q]) : \A j \in 1 .. Len(m[s]) :
           m[q][i] = m[s][j] => q = s /\ i = j,
         NEW o \in Editors, NEW k, NEW p, NEW r, Holds(m, o, k, p, r)
  PROVE  OwnerIn(m, r) = o
<1>1. \A q \in Editors : DOMAIN m[q] = 1 .. Len(m[q])
  OBVIOUS
<1>2. k \in 1 .. Len(m[o]) /\ m[o][k] = r
  BY DEF Holds
<1>3. \E q \in Editors : \E i \in DOMAIN m[q] : m[q][i] = r
  BY <1>1, <1>2
<1>4. PICK w : w = OwnerIn(m, r)
  OBVIOUS
<1>5. w \in Editors /\ \E i \in DOMAIN m[w] : m[w][i] = r
  BY <1>3, <1>4 DEF OwnerIn
<1> QED BY <1>1, <1>2, <1>4, <1>5

Queues == [p \in Paths |-> QueueIn(PendingOf(mine, p), mine)]

Insiders == {o \in Editors : editing[o] = "inside"}

LEMMA LockQueueIs ==
  /\ [p \in Paths |-> Locks!LockQueue(p)] = Queues
  /\ [p \in Paths |-> Locks!LockQueue(p)]' = Queues'
<1>1. \A p : Locks!LockQueue(p) = QueueIn(PendingOf(mine, p), mine)
  <2>1. \A r : Locks!OwnerOf(r) = OwnerIn(mine, r)
    BY DEF Locks!OwnerOf, OwnerIn
  <2> QED BY <2>1, LocksPending DEF Locks!LockQueue, QueueIn
<1>2. \A p : Locks!LockQueue(p)' = QueueIn(PendingOf(mine', p), mine')
  <2>1. \A r : Locks!OwnerOf(r)' = OwnerIn(mine', r)
    BY DEF Locks!OwnerOf, OwnerIn
  <2>2. \A p : Locks!Pending(p)' = PendingOf(mine', p)
    BY LocksPending
  <2>3. \A S : Locks!Ascending(S)' = Locks!Ascending(S)
    BY DEF Locks!Ascending
  <2> QED BY <2>1, <2>2, <2>3 DEF Locks!LockQueue, QueueIn
<1> QED BY <1>1, <1>2 DEF Queues

LEMMA PendingHasOwners ==
  ASSUME LockInv, NEW p, NEW r \in PendingOf(mine, p)
  PROVE  \E o \in Editors : \E k : Holds(mine, o, k, p, r) /\ OwnerIn(mine, r) = o
<1>1. PICK m, n : m = mine /\ n = made
  OBVIOUS
<1>2. n \in Nat /\ \A q \in Editors : m[q] \in Seq(1 .. n)
  BY <1>1 DEF LockInv, Locks!TypeOK
<1>3. \A q, s \in Editors : \A i \in 1 .. Len(m[q]) : \A j \in 1 .. Len(m[s]) :
        m[q][i] = m[s][j] => q = s /\ i = j
  BY <1>1 DEF LockInv, ReservationsAreOwned, Held
<1>4. \E o \in Editors : \E k : Holds(m, o, k, p, r)
  BY <1>1, <1>2, PendingIs
<1>5. PICK o \in Editors : \E k : Holds(m, o, k, p, r)
  BY <1>4
<1>6. PICK k : Holds(m, o, k, p, r)
  BY <1>5
<1>7. OwnerIn(m, r) = o
  BY <1>2, <1>3, <1>6, OwnerIs
<1> QED BY <1>1, <1>6, <1>7

\* What is proved of a state, for the state after a step.
OwnedAfter ==
  /\ made' \in Nat
  /\ \A q \in Editors : mine'[q] \in Seq(1 .. made')
  /\ \A q, s \in Editors : \A i \in 1 .. Len(mine'[q]) : \A j \in 1 .. Len(mine'[s]) :
       mine'[q][i] = mine'[s][j] => q = s /\ i = j

LEMMA OwnedAfterIs == LockInv' => OwnedAfter
  BY DEF LockInv, Locks!TypeOK, ReservationsAreOwned, Held, OwnedAfter

LEMMA OwnerAfterIs ==
  ASSUME OwnedAfter, NEW o \in Editors, NEW k, NEW p, NEW r, Holds(mine', o, k, p, r)
  PROVE  OwnerIn(mine', r) = o
<1>1. PICK m, n : m = mine' /\ n = made'
  OBVIOUS
<1>2. \A q \in Editors : m[q] \in Seq(1 .. n)
  BY <1>1 DEF OwnedAfter
<1>3. \A q, s \in Editors : \A i \in 1 .. Len(m[q]) : \A j \in 1 .. Len(m[s]) :
        m[q][i] = m[s][j] => q = s /\ i = j
  BY <1>1 DEF OwnedAfter
<1>4. Holds(m, o, k, p, r)
  BY <1>1
<1>5. OwnerIn(m, r) = o
  BY <1>2, <1>3, <1>4, OwnerIs
<1> QED BY <1>1, <1>5

LEMMA TakenOwners ==
  ASSUME LockInv, LockInv', NEW o \in Editors, NEW h, NEW last, NEW new, Taken(o, h, last, new)
  PROVE  /\ \A p : \A r \in PendingOf(mine, p) : OwnerIn(mine', r) = OwnerIn(mine, r)
         /\ \A k \in h + 1 .. last : OwnerIn(mine', new[k]) = o
<1>1. OwnedAfter
  BY OwnedAfterIs
<1>2. /\ h \in Nat /\ h = Len(mine[o]) /\ last \in Nat /\ h <= last
      /\ \A q \in Editors : q # o => mine'[q] = mine[q]
      /\ Len(mine'[o]) = last
      /\ \A k \in 1 .. h : mine'[o][k] = mine[o][k]
      /\ \A k \in h + 1 .. last : mine'[o][k] = new[k]
  BY DEF Taken
<1>3. ASSUME NEW p, NEW r \in PendingOf(mine, p)
      PROVE  OwnerIn(mine', r) = OwnerIn(mine, r)
  <2>1. PICK q \in Editors : \E k : Holds(mine, q, k, p, r) /\ OwnerIn(mine, r) = q
    BY PendingHasOwners
  <2>2. PICK k : Holds(mine, q, k, p, r) /\ OwnerIn(mine, r) = q
    BY <2>1
  <2>3. Holds(mine', q, k, p, r)
    <3>1. CASE q # o
      BY <3>1, <2>2, <1>2 DEF Holds
    <3>2. CASE q = o
      <4>1. k \in 1 .. h /\ k \in 1 .. last
        BY <3>2, <2>2, <1>2 DEF Holds
      <4> QED BY <4>1, <3>2, <2>2, <1>2 DEF Holds
    <3> QED BY <3>1, <3>2
  <2>4. PICK x : x = r
    OBVIOUS
  <2>5. Holds(mine', q, k, p, x)
    BY <2>3, <2>4
  <2>6. OwnerIn(mine', x) = q
    BY <2>5, <1>1, OwnerAfterIs
  <2> QED BY <2>2, <2>4, <2>6
<1>4. ASSUME NEW k \in h + 1 .. last
      PROVE  OwnerIn(mine', new[k]) = o
  <2>1. k \in 1 .. last
    BY <1>2
  <2>2. PICK p, r : p = Order(o)[k] /\ r = new[k]
    OBVIOUS
  <2>3. Holds(mine', o, k, p, r)
    BY <2>1, <2>2, <1>2 DEF Holds
  <2>4. OwnerIn(mine', r) = o
    BY <2>3, <1>1, OwnerAfterIs
  <2> QED BY <2>2, <2>4
<1> QED BY <1>3, <1>4

\* An operation inside has all its paths, and is the first on each of them.
LEMMA InsideIsFirst ==
  ASSUME LockInv, NEW o \in Editors, editing[o] = "inside", NEW p \in WantOf(o)
  PROVE  Queues[p] # <<>> /\ Head(Queues[p]) = o
<1>1. PICK k \in 1 .. Len(Order(o)) : Order(o)[k] = p
  BY OrderIs
<1>2. p \in Paths /\ k \in Held(o)
  BY <1>1, OrderIs DEF LockInv, HeldByPhase, Held
<1>3. PICK m, n, r, S : m = mine /\ n = made /\ r = mine[o][k] /\ S = PendingOf(mine, p)
  OBVIOUS
<1>4. Holds(m, o, k, p, r)
  BY <1>1, <1>2, <1>3 DEF Holds, Held
<1>5. n \in Nat /\ \A q \in Editors : m[q] \in Seq(1 .. n)
  BY <1>3 DEF LockInv, Locks!TypeOK
<1>6. \A q, s \in Editors : \A i \in 1 .. Len(m[q]) : \A j \in 1 .. Len(m[s]) :
        m[q][i] = m[s][j] => q = s /\ i = j
  BY <1>3 DEF LockInv, ReservationsAreOwned, Held
<1>7. OwnerIn(m, r) = o
  BY <1>4, <1>5, <1>6, OwnerIs
<1>8. S \in SUBSET (1 .. n) /\ IsFiniteSet(S) /\ r \in S
  BY <1>3, <1>4, <1>5, PendingIs
<1>9. \A x \in S : r <= x
  BY <1>1, <1>2, <1>3 DEF LockInv, FirstOnItsPaths
<1>10. S \in SUBSET Nat
  BY <1>5, <1>8
<1>11. QueueIn(S, m) # <<>> /\ Head(QueueIn(S, m)) = o
  <2>1. PICK T : T = S \ {r}
    OBVIOUS
  <2>2. DropsFirst(S, m, T, m, r)
    BY <2>1, <1>8, <1>9, <1>10 DEF DropsFirst
  <2> QED BY <2>2, <1>7, QueueLosesItsHead
<1>12. Queues[p] = QueueIn(S, m)
  BY <1>2, <1>3 DEF Queues
<1> QED BY <1>11, <1>12

InsidersAreFirst ==
  \A o \in Editors : editing[o] = "inside" =>
    \A p \in WantOf(o) : Queues[p] # <<>> /\ Head(Queues[p]) = o

LEMMA InsideAreFirst == LockInv => InsidersAreFirst
  BY InsideIsFirst DEF InsidersAreFirst

LEMMA InsideAreFirstAfter == LockInv' => InsidersAreFirst'
  BY InsideAreFirst, PTL

\* FifoLocks!Join of one state and the next.
Joins(o, q, q1, insiders, insiders1) ==
  /\ o \notin insiders
  /\ \E S \in SUBSET WantOf(o) :
       /\ \A p \in S : \A i \in DOMAIN q[p] : q[p][i] # o
       /\ q1 = [p \in Paths |-> IF p \in S THEN Append(q[p], o) ELSE q[p]]
  /\ \/ insiders1 = insiders
     \/ /\ insiders1 = insiders \cup {o}
        /\ \A p \in WantOf(o) : q1[p] # <<>> /\ Head(q1[p]) = o

LEMMA JoinIs ==
  ASSUME NEW o \in Editors
  PROVE  Locks!Fifo!Join(o) <=> Joins(o, Queues, Queues', Insiders, Insiders')
<1>1. [q \in Editors |-> Locks!ToSet(LockOrder[q])][o] = WantOf(o)
  BY DEF WantOf
<1>2. Locks!Fifo!Join(o) <=>
        Joins(o, [p \in Paths |-> Locks!LockQueue(p)], [p \in Paths |-> Locks!LockQueue(p)]', Insiders, Insiders')
  BY <1>1 DEF Locks!Fifo!Join, Locks!Fifo!AtHead, Joins, Insiders
<1> QED BY <1>2, LockQueueIs

LEMMA TakenJoins ==
  ASSUME LockInv, LockInv', NEW o \in Editors, NEW h, NEW last, NEW new, Taken(o, h, last, new),
         editing[o] \in {"new", "waiting"}
  PROVE  Locks!Fifo!Join(o)
<1> DEFINE S == {Order(o)[k] : k \in h + 1 .. last}
<1>1. /\ h \in Nat /\ h = Len(mine[o]) /\ last \in Nat /\ h <= last /\ last <= Len(Order(o))
      /\ \A k \in h + 1 .. last : new[k] \in Nat /\ made < new[k]
      /\ \A q \in Editors : q # o => editing'[q] = editing[q]
      /\ editing'[o] = "inside" \/ editing'[o] = "waiting"
  BY DEF Taken
<1>2. /\ Len(Order(o)) \in Nat
      /\ \A j, k \in 1 .. Len(Order(o)) : Order(o)[j] = Order(o)[k] => j = k
      /\ \A k \in 1 .. Len(Order(o)) : Order(o)[k] \in WantOf(o)
      /\ \A p \in WantOf(o) : p \in Paths
  BY OrderIs
<1>3. \A k \in h + 1 .. last : k \in 1 .. Len(Order(o))
  BY <1>1, <1>2
<1>4. /\ \A p : (\A k \in h + 1 .. last : Order(o)[k] # p) => PendingOf(mine', p) = PendingOf(mine, p)
      /\ \A k \in h + 1 .. last :
           PendingOf(mine', Order(o)[k]) = PendingOf(mine, Order(o)[k]) \cup {new[k]}
      /\ \A p : PendingOf(mine, p) \in SUBSET (1 .. made) /\ IsFiniteSet(PendingOf(mine, p))
  BY TakenPending
<1>5. /\ \A p : \A r \in PendingOf(mine, p) : OwnerIn(mine', r) = OwnerIn(mine, r)
      /\ \A k \in h + 1 .. last : OwnerIn(mine', new[k]) = o
  BY TakenOwners
<1>6. made \in Nat
  BY DEF LockInv, Locks!TypeOK
<1>7. S \in SUBSET WantOf(o)
  BY <1>2, <1>3
<1>8. ASSUME NEW p \in S, NEW i \in DOMAIN Queues[p]
      PROVE  Queues[p][i] # o
  <2>1. PICK k \in h + 1 .. last : Order(o)[k] = p
    OBVIOUS
  <2>2. p \in Paths
    BY <1>2, <1>7
  <2>3. PICK P, m : P = PendingOf(mine, p) /\ m = mine
    OBVIOUS
  <2>4. P \in SUBSET Nat /\ IsFiniteSet(P) /\ Queues[p] = QueueIn(P, m)
    BY <2>2, <2>3, <1>4, <1>6 DEF Queues
  <2>5. PICK r \in P : Queues[p][i] = OwnerIn(m, r)
    BY <2>4, QueueMembers
  <2>6. PICK q \in Editors : \E j : Holds(mine, q, j, p, r) /\ OwnerIn(mine, r) = q
    BY <2>3, PendingHasOwners
  <2>7. PICK j : Holds(mine, q, j, p, r) /\ OwnerIn(mine, r) = q
    BY <2>6
  <2>8. q # o
    <3>1. SUFFICES ASSUME q = o PROVE FALSE
      OBVIOUS
    <3>2. j \in 1 .. h /\ Order(o)[j] = p
      BY <3>1, <2>7, <1>1 DEF Holds
    <3>3. j \in 1 .. Len(Order(o)) /\ j # k
      BY <3>2, <1>1, <1>2
    <3> QED BY <3>2, <3>3, <2>1, <1>2, <1>3
  <2> QED BY <2>3, <2>5, <2>7, <2>8
<1>9. ASSUME NEW p \in Paths
      PROVE  Queues'[p] = IF p \in S THEN Append(Queues[p], o) ELSE Queues[p]
  <2>1. PICK P, P1, m, m1 : P = PendingOf(mine, p) /\ P1 = PendingOf(mine', p) /\ m = mine /\ m1 = mine'
    OBVIOUS
  <2>2. P \in SUBSET Nat /\ IsFiniteSet(P) /\ \A x \in P : OwnerIn(m1, x) = OwnerIn(m, x)
    BY <2>1, <1>4, <1>5, <1>6
  <2>3. Queues[p] = QueueIn(P, m) /\ Queues'[p] = QueueIn(P1, m1)
    BY <2>1 DEF Queues
  <2>4. CASE p \in S
    <3>1. PICK k \in h + 1 .. last : Order(o)[k] = p
      BY <2>4
    <3>2. PICK r : r = new[k]
      OBVIOUS
    <3>3. r \in Nat /\ P1 = P \cup {r} /\ OwnerIn(m1, r) = o
      BY <3>1, <3>2, <2>1, <1>1, <1>4, <1>5
    <3>4. \A x \in P : x < r
      BY <3>1, <3>2, <2>1, <1>1, <1>4, <1>6
    <3>5. QueueIn(P1, m1) = Append(QueueIn(P, m), OwnerIn(m1, r))
      <4>1. AddsLast(P, m, P1, m1, r)
        BY <2>2, <3>3, <3>4 DEF AddsLast
      <4> QED BY <4>1, QueueAppends
    <3> QED BY <2>3, <2>4, <3>3, <3>5
  <2>5. CASE p \notin S
    <3>1. P1 = P
      BY <2>1, <2>5, <1>4
    <3>2. QueueIn(P, m1) = QueueIn(P, m)
      BY <2>2, QueueStays
    <3> QED BY <2>3, <2>5, <3>1, <3>2
  <2> QED BY <2>4, <2>5
<1> HIDE DEF S
<1>10. Queues' = [p \in Paths |-> IF p \in S THEN Append(Queues[p], o) ELSE Queues[p]]
  <2>1. Queues' = [p \in Paths |-> Queues'[p]]
    BY DEF Queues
  <2> QED BY <2>1, <1>9
<1>11. \/ Insiders' = Insiders
       \/ /\ Insiders' = Insiders \cup {o}
          /\ \A p \in WantOf(o) : Queues'[p] # <<>> /\ Head(Queues'[p]) = o
  <2>1. CASE editing'[o] = "waiting"
    <3>1. Insiders' = Insiders
      BY <2>1, <1>1 DEF Insiders
    <3> QED BY <3>1
  <2>2. CASE editing'[o] = "inside"
    <3>1. Insiders' = Insiders \cup {o}
      BY <2>2, <1>1 DEF Insiders
    <3>2. \A p \in WantOf(o)' : Queues'[p] # <<>> /\ Head(Queues'[p]) = o
      BY <2>2, InsideAreFirstAfter DEF InsidersAreFirst
    <3> QED BY <3>1, <3>2 DEF WantOf, Locks!ToSet
  <2> QED BY <2>1, <2>2, <1>1
<1>12. o \notin Insiders
  BY DEF Insiders
<1>13. PICK q, q1, j, j1 : q = Queues /\ q1 = Queues' /\ j = Insiders /\ j1 = Insiders'
  OBVIOUS
<1>14. Joins(o, q, q1, j, j1)
  BY <1>7, <1>8, <1>10, <1>11, <1>12, <1>13 DEF Joins
<1> QED BY <1>13, <1>14, JoinIs

LocksFollowFifo == [Locks!Fifo!FifoNext]_(Locks!Fifo!fifoVars)

LEMMA JoinFollows ==
  ASSUME NEW o \in Editors, Locks!Fifo!Join(o)
  PROVE  LocksFollowFifo
  BY DEF LocksFollowFifo, Locks!Fifo!FifoNext

LEMMA AcquireFollows ==
  ASSUME LockInv, NEW o \in Editors, NEW i, i = Len(mine[o]) + 1, Locks!AcquireFrom(o, i),
         editing[o] \in {"new", "waiting"}, editing[o] = "waiting" => waits[o] \in resolved,
         resolved' = resolved
  PROVE  LockInv' /\ LocksFollowFifo
<1>1. Locks!TypeOK
  BY DEF LockInv
<1>2. PICK last : Acquired(o, i, last)
  BY <1>1, AcquireIs
<1>3. PICK new : Taken(o, Len(mine[o]), last, new)
  BY <1>1, <1>2, TakenIs
<1>4. PICK h : h = Len(mine[o])
  OBVIOUS
<1>5. Taken(o, h, last, new)
  BY <1>3, <1>4
<1>6. LockInv'
  BY <1>5, AcquireKeeps
<1>7. Locks!Fifo!Join(o)
  BY <1>5, <1>6, TakenJoins
<1> QED BY <1>6, <1>7, JoinFollows

LEMMA StartFollows ==
  ASSUME LockInv, NEW o \in Editors, Locks!Start(o)
  PROVE  LockInv' /\ LocksFollowFifo
<1>1. editing[o] = "new" /\ Locks!AcquireFrom(o, 1) /\ resolved' = resolved
  BY DEF Locks!Start
<1>2. Len(mine[o]) = 0
  BY <1>1 DEF LockInv, HeldByPhase
<1>3. PICK i : i = 1
  OBVIOUS
<1>4. i = Len(mine[o]) + 1 /\ Locks!AcquireFrom(o, i)
  BY <1>1, <1>2, <1>3
<1> QED BY <1>1, <1>4, AcquireFollows

LEMMA WakeFollows ==
  ASSUME LockInv, NEW o \in Editors, Locks!Wake(o)
  PROVE  LockInv' /\ LocksFollowFifo
<1>1. /\ editing[o] = "waiting" /\ waits[o] \in resolved /\ resolved' = resolved
      /\ Locks!AcquireFrom(o, Len(mine[o]) + 1)
  BY DEF Locks!Wake
<1>2. PICK i : i = Len(mine[o]) + 1
  OBVIOUS
<1>3. Locks!AcquireFrom(o, i)
  BY <1>1, <1>2
<1> QED BY <1>1, <1>2, <1>3, AcquireFollows

LEMMA FinishFollows ==
  ASSUME LockInv, NEW o \in Editors, Locks!Finish(o)
  PROVE  LockInv' /\ LocksFollowFifo
<1>1. LockInv'
  BY LockFinishKeeps
<1>2. /\ editing[o] = "inside" /\ editing' = [editing EXCEPT ![o] = "leaving"] /\ mine' = mine
  BY DEF Locks!Finish
<1>3. editing \in [Editors -> {"new", "waiting", "inside", "leaving", "done"}]
  BY DEF LockInv, Locks!TypeOK
<1>4. o \in Insiders /\ Insiders' = Insiders \ {o}
  BY <1>2, <1>3 DEF Insiders
<1>5. Queues' = Queues
  BY <1>2 DEF Queues
<1>6. Locks!Fifo!Leave(o)
  BY <1>4, <1>5, LockQueueIs DEF Locks!Fifo!Leave, Insiders
<1>7. LocksFollowFifo
  BY <1>6 DEF LocksFollowFifo, Locks!Fifo!FifoNext
<1> QED BY <1>1, <1>7

LEMMA UnlockFollows ==
  ASSUME LockInv, NEW o \in Editors, Locks!Unlock(o)
  PROVE  LockInv' /\ LocksFollowFifo
<1>1. LockInv'
  BY LockUnlockKeeps
<1>2. OwnedAfter
  BY <1>1, OwnedAfterIs
<1>3. PICK h : h = Len(mine[o])
  OBVIOUS
<1>4. Released(o, h)
  BY <1>3, UnlockIs
<1>5. /\ h \in Nat \ {0} /\ h = Len(mine[o]) /\ h <= Len(Order(o)) /\ editing[o] = "leaving"
      /\ \A q \in Editors : q # o => mine'[q] = mine[q] /\ editing'[q] = editing[q]
      /\ Len(mine'[o]) = h - 1
      /\ \A k \in 1 .. h - 1 : mine'[o][k] = mine[o][k]
      /\ editing'[o] = "done" \/ editing'[o] = "leaving"
  BY <1>4 DEF Released
<1>6. PICK r0, p0 : r0 = mine[o][h] /\ p0 = Order(o)[h]
  OBVIOUS
<1>7. /\ \A p : p # p0 => PendingOf(mine', p) = PendingOf(mine, p)
      /\ PendingOf(mine', p0) = PendingOf(mine, p0) \ {r0}
      /\ r0 \in PendingOf(mine, p0)
      /\ \A r \in PendingOf(mine, p0) : r0 <= r
      /\ \A p : PendingOf(mine, p) \in SUBSET (1 .. made) /\ IsFiniteSet(PendingOf(mine, p))
  BY <1>4, <1>6, ReleasedPending
<1>8. made \in Nat
  BY DEF LockInv, Locks!TypeOK
<1>9. p0 \in WantOf(o) /\ p0 \in Paths
  <2>1. h \in 1 .. Len(Order(o))
    BY <1>5, OrderIs
  <2> QED BY <2>1, <1>6, OrderIs
<1>10. Holds(mine, o, h, p0, r0)
  <2>1. h \in 1 .. Len(mine[o])
    BY <1>5
  <2> QED BY <2>1, <1>6 DEF Holds
<1>11. OwnerIn(mine, r0) = o
  <2>1. PICK q \in Editors : \E k : Holds(mine, q, k, p0, r0) /\ OwnerIn(mine, r0) = q
    BY <1>7, PendingHasOwners
  <2>2. q = o
    BY <2>1, <1>10 DEF Holds, LockInv, ReservationsAreOwned, Held
  <2> QED BY <2>1, <2>2
<1>12. ASSUME NEW p, NEW r \in PendingOf(mine, p), r # r0
       PROVE  OwnerIn(mine', r) = OwnerIn(mine, r)
  <2>1. PICK q \in Editors : \E k : Holds(mine, q, k, p, r) /\ OwnerIn(mine, r) = q
    BY PendingHasOwners
  <2>2. PICK k : Holds(mine, q, k, p, r) /\ OwnerIn(mine, r) = q
    BY <2>1
  <2>3. Holds(mine', q, k, p, r)
    <3>1. CASE q # o
      BY <3>1, <2>2, <1>5 DEF Holds
    <3>2. CASE q = o
      <4>1. k \in 1 .. h - 1
        BY <3>2, <2>2, <1>5, <1>6, <1>12 DEF Holds
      <4> QED BY <4>1, <3>2, <2>2, <1>5 DEF Holds
    <3> QED BY <3>1, <3>2
  <2>4. PICK x : x = r
    OBVIOUS
  <2>5. Holds(mine', q, k, p, x)
    BY <2>3, <2>4
  <2>6. OwnerIn(mine', x) = q
    BY <2>5, <1>2, OwnerAfterIs
  <2> QED BY <2>2, <2>4, <2>6
<1>13. Queues[p0] # <<>> /\ Head(Queues[p0]) = o /\ Queues'[p0] = Tail(Queues[p0])
  <2>1. PICK P, P1, m, m1 : P = PendingOf(mine, p0) /\ P1 = PendingOf(mine', p0) /\ m = mine /\ m1 = mine'
    OBVIOUS
  <2>2. P \in SUBSET Nat /\ IsFiniteSet(P)
    BY <2>1, <1>7, <1>8
  <2>3. \A x \in P : r0 <= x /\ (x # r0 => OwnerIn(m1, x) = OwnerIn(m, x))
    BY <2>1, <1>7, <1>12
  <2>4. DropsFirst(P, m, P1, m1, r0)
    BY <2>1, <2>2, <2>3, <1>7 DEF DropsFirst
  <2>5. /\ QueueIn(P, m) # <<>> /\ Head(QueueIn(P, m)) = OwnerIn(m, r0)
        /\ QueueIn(P1, m1) = Tail(QueueIn(P, m))
    BY <2>4, QueueLosesItsHead
  <2>6. Queues[p0] = QueueIn(P, m) /\ Queues'[p0] = QueueIn(P1, m1)
    BY <2>1, <1>9 DEF Queues
  <2> QED BY <2>1, <2>5, <2>6, <1>11
<1>14. ASSUME NEW p \in Paths, p # p0
       PROVE  Queues'[p] = Queues[p]
  <2>1. PICK P, m, m1 : P = PendingOf(mine, p) /\ m = mine /\ m1 = mine'
    OBVIOUS
  <2>2. P \in SUBSET Nat /\ IsFiniteSet(P)
    BY <2>1, <1>7, <1>8
  <2>3. \A x \in P : OwnerIn(m1, x) = OwnerIn(m, x)
    <3>1. r0 \notin P
      <4>1. SUFFICES ASSUME r0 \in P PROVE FALSE
        OBVIOUS
      <4>2. PICK q \in Editors : \E k : Holds(mine, q, k, p, r0) /\ OwnerIn(mine, r0) = q
        BY <4>1, <2>1, PendingHasOwners
      <4>3. PICK k : Holds(mine, q, k, p, r0)
        BY <4>2
      <4>4. q = o /\ k = h
        BY <4>3, <1>10 DEF Holds, LockInv, ReservationsAreOwned, Held
      <4> QED BY <4>3, <4>4, <1>10, <1>14 DEF Holds
    <3> QED BY <3>1, <2>1, <1>12
  <2>4. QueueIn(P, m1) = QueueIn(P, m)
    BY <2>2, <2>3, QueueStays
  <2>5. Queues[p] = QueueIn(P, m) /\ Queues'[p] = QueueIn(P, m1)
    BY <2>1, <1>7, <1>14 DEF Queues
  <2> QED BY <2>4, <2>5
<1>15. Queues' = [Queues EXCEPT ![p0] = Tail(@)]
  <2>1. Queues' = [p \in Paths |-> Queues'[p]] /\ Queues = [p \in Paths |-> Queues[p]]
    BY DEF Queues
  <2>2. \A p \in Paths : Queues'[p] = IF p = p0 THEN Tail(Queues[p0]) ELSE Queues[p]
    BY <1>13, <1>14
  <2>3. PICK f, g : f = Queues /\ g = Queues'
    OBVIOUS
  <2>4. /\ g = [p \in Paths |-> g[p]] /\ f = [p \in Paths |-> f[p]]
        /\ \A p \in Paths : g[p] = IF p = p0 THEN Tail(f[p0]) ELSE f[p]
    BY <2>1, <2>2, <2>3
  <2>5. g = [f EXCEPT ![p0] = Tail(@)]
    BY <2>4
  <2> QED BY <2>3, <2>5
<1>16. o \notin Insiders /\ Insiders' = Insiders
  BY <1>5 DEF Insiders
<1>17. [q \in Editors |-> Locks!ToSet(LockOrder[q])][o] = WantOf(o)
  BY DEF WantOf
<1>18. Locks!Fifo!Free(o, p0)
  BY <1>13, <1>15, <1>16, LockQueueIs DEF Locks!Fifo!Free, Insiders
<1>19. LocksFollowFifo
  BY <1>9, <1>17, <1>18 DEF LocksFollowFifo, Locks!Fifo!FifoNext
<1> QED BY <1>1, <1>19

LEMMA LockStepKeeps ==
  ASSUME LockInv, [Locks!Next]_lockVars
  PROVE  LockInv' /\ LocksFollowFifo
<1>1. CASE Locks!Next
  BY <1>1, StartFollows, WakeFollows, FinishFollows, UnlockFollows DEF Locks!Next
<1>2. CASE UNCHANGED lockVars
  <2>1. /\ locks' = locks /\ made' = made /\ resolved' = resolved /\ mine' = mine
        /\ waits' = waits /\ editing' = editing
    BY <1>2 DEF lockVars
  <2>2. LockInv'
    BY <2>1 DEF LockInv, Locks!TypeOK, ReservationsAreOwned, HeldByPhase, FirstOnItsPaths,
                WaitsForTheOneBefore, MapIsExact, Held
  <2>3. Queues' = Queues /\ Insiders' = Insiders
    BY <2>1 DEF Queues, Insiders
  <2>4. LocksFollowFifo
    BY <2>3, LockQueueIs DEF LocksFollowFifo, Locks!Fifo!fifoVars, Insiders
  <2> QED BY <2>2, <2>4
<1> QED BY <1>1, <1>2

LEMMA LockInitFollows ==
  ASSUME Locks!Init, LockInv
  PROVE  Locks!Fifo!FifoInit
<1>1. \A o \in Editors : mine[o] = <<>> /\ editing[o] = "new"
  BY DEF Locks!Init
<1>2. Insiders = {}
  BY <1>1 DEF Insiders
<1>3. \A p : PendingOf(mine, p) = {}
  <2>1. \A o \in Editors : DOMAIN mine[o] = {}
    BY <1>1
  <2> QED BY <2>1 DEF PendingOf
<1>4. \A m : QueueIn({}, m) = <<>>
  <2>1. Sorted(<<>>, {})
    BY FS_EmptySet DEF Sorted
  <2>2. ASSUME NEW m PROVE QueueIn({}, m) = <<>>
    <3>1. PICK S, s : S = {} /\ s = <<>>
      OBVIOUS
    <3>2. Sorted(s, S) /\ S \in SUBSET Nat /\ IsFiniteSet(S)
      BY <2>1, <3>1, FS_EmptySet
    <3>3. QueueIn(S, m) = [i \in 1 .. Len(s) |-> OwnerIn(m, s[i])]
      BY <3>2, QueueIs
    <3> QED BY <3>1, <3>3
  <2> QED BY <2>2
<1>5. Queues = [p \in Paths |-> <<>>]
  BY <1>3, <1>4 DEF Queues
<1> QED BY <1>2, <1>5, LockQueueIs DEF Locks!Fifo!FifoInit, Insiders

LEMMA LockMapIsExact == LockInv => Locks!MapHasLastReservation
  BY LocksPending DEF LockInv, MapIsExact, Locks!MapHasLastReservation

-----------------------------------------------------------------------------
(* The calls *)

CallsInv == GateInv /\ LockInv

LEMMA CallsInitKeeps == Init => CallsInv
  BY GateInitKeeps, LockInitKeeps DEF Init, CallsInv

\* Each step of a call is at most one of the gate and one of the locks.
LEMMA StepsOfTheLayers ==
  ASSUME [Next]_vars
  PROVE  [Gate!Next]_gateVars /\ [Locks!Next]_lockVars
<1>1. CASE UNCHANGED vars
  BY <1>1 DEF vars
<1>2. ASSUME NEW t \in Calls, Execute(t) \/ Leave(t) \/ Abort(t)
      PROVE  [Gate!Next]_gateVars /\ [Locks!Next]_lockVars
  BY <1>2 DEF Execute, Leave, Abort, Gate!Next
<1>3. ASSUME NEW t \in Calls, Schedule(t) \/ Admit(t) \/ Settle(t) \/ GiveUp(t)
      PROVE  [Gate!Next]_gateVars /\ [Locks!Next]_lockVars
  BY <1>3 DEF Schedule, Admit, Settle, GiveUp
<1>4. ASSUME NEW t \in Editors, Edit(t)
      PROVE  [Gate!Next]_gateVars /\ [Locks!Next]_lockVars
  BY <1>4 DEF Edit, Locks!Next
<1>5. ASSUME NEW x \in Executors, Dispose(x)
      PROVE  [Gate!Next]_gateVars /\ [Locks!Next]_lockVars
  BY <1>5 DEF Dispose, Gate!Next
<1>6. CASE Next
  BY <1>6, <1>2, <1>3, <1>4, <1>5 DEF Next, Progress
<1> QED BY <1>1, <1>6

LEMMA CallsStepKeeps ==
  ASSUME CallsInv, [Next]_vars
  PROVE  CallsInv' /\ StartsInOrder /\ LocksFollowFifo
<1>1. [Gate!Next]_gateVars /\ [Locks!Next]_lockVars
  BY StepsOfTheLayers
<1>2. GateInv' /\ StartsInOrder
  BY <1>1, GateStepKeeps DEF CallsInv
<1>3. LockInv' /\ LocksFollowFifo
  BY <1>1, LockStepKeeps DEF CallsInv
<1> QED BY <1>2, <1>3 DEF CallsInv

\* CallsInv is an invariant of every run.
THEOREM CallsInvariant == Spec => []CallsInv
<1>1. CallsInv /\ [Next]_vars => CallsInv'
  BY CallsStepKeeps
<1> QED BY <1>1, CallsInitKeeps, PTL DEF Spec

\* ToolConcurrencyGate and FileLockManager exclude: a call that is not concurrency-safe runs
\* alone in its executor, whose counters count what runs; and the lock map has an entry for
\* exactly the paths that are held or waited for, the last reservation made.
THEOREM LayersAlwaysExclude == Spec => []LayersExclude
<1>1. CallsInv => LayersExclude
  BY GateExcludes, LockMapIsExact DEF CallsInv, LayersExclude
<1> QED BY <1>1, CallsInvariant, PTL

\* ToolConcurrencyGate, "later reads cannot overtake an earlier write": no call starts while an
\* earlier one, of either kind, stays in the queue of its executor.
THEOREM NobodyOvertakes == Spec => NoOvertaking
<1>1. CallsInv /\ [Next]_vars => StartsInOrder
  BY CallsStepKeeps
<1>2. StartsInOrder =>
        [\A t \in Calls : phase[t] # "running" /\ phase'[t] = "running" =>
           LET q == queue[ExecutorOf[t]]
           IN  \A i \in DOMAIN q :
                 phase'[q[i]] = "queued" => \E j \in 1 .. i : q[j] = t]_(Gate!vars)
  BY DEF StartsInOrder
<1> QED BY <1>1, <1>2, CallsInvariant, PTL DEF Spec, NoOvertaking, Gate!NoOvertaking

\* FileLockManager's promise chain implements FifoLocks: the operations on a path take turns in
\* the order in which they asked for it, each at the head of all its paths while it runs.
THEOREM LocksImplementFifo == Spec => ImplementsFifo
<1>1. CallsInv /\ [Next]_vars => LocksFollowFifo
  BY CallsStepKeeps
<1>2. Init => Locks!Fifo!FifoInit
  BY LockInitKeeps, LockInitFollows DEF Init
<1> QED BY <1>1, <1>2, CallsInvariant, PTL
    DEF Spec, ImplementsFifo, Locks!ImplementsFifo, Locks!Fifo!FifoSpec, LocksFollowFifo

\* What the FIFO buys: edits that run at the same time, of an agent, its subagents or another
\* session, have no path in common.
THEOREM EditorsExclude == Spec => []Locks!Fifo!Exclusive
<1>1. ASSUME LockInv
      PROVE  Locks!Fifo!Exclusive
  <2>1. InsidersAreFirst
    BY <1>1, InsideAreFirst
  <2>2. \A o \in Editors : [q \in Editors |-> Locks!ToSet(LockOrder[q])][o] = WantOf(o)
    BY DEF WantOf
  <2> QED BY <2>1, <2>2 DEF Locks!Fifo!Exclusive, InsidersAreFirst
<1>2. CallsInv => Locks!Fifo!Exclusive
  BY <1>1 DEF CallsInv
<1> QED BY <1>2, CallsInvariant, PTL
=============================================================================
