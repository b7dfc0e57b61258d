--------------------------- MODULE Waiters_proofs ---------------------------
(***************************************************************************)
(* Proofs about the two controllers that keep a queue, for any requests,   *)
(* classes, owners, runs and limits. Each rests on one inductive           *)
(* invariant. RequestInv: the queue of ProviderRequestAdmission lists      *)
(* every queued request once, who came later has aged no more, and exactly *)
(* the owners who run or wait have orders. TaskInv: the pool of            *)
(* TaskRunScheduler lists the queued runs once, counts the running ones    *)
(* and the queued bytes, and holds one key per run; no run waits beside    *)
(* free capacity. They give exact accounts, service in turn, and that the  *)
(* first controller is a permit pool.                                      *)
(***************************************************************************)
EXTENDS Admission, FiniteSetTheorems, SequenceTheorems, TLAPS

\* The sequence q holds every member of W once and nothing else.
Lists(q, W) ==
  /\ q \in Seq(W)
  /\ \A w \in W : \E i \in DOMAIN q : q[i] = w
  /\ \A i, j \in DOMAIN q : q[i] = q[j] => i = j

\* The sequence r is q without its position i.
Without(r, q, i) ==
  /\ Len(r) = Len(q) - 1 /\ DOMAIN r = 1 .. Len(q) - 1
  /\ \A j \in 1 .. Len(q) - 1 : r[j] = IF j < i THEN q[j] ELSE q[j + 1]

\* The values f gives never rise along q.
Falling(q, f) == \A i, j \in DOMAIN q : i < j => f[q[i]] >= f[q[j]]

\* RemoveAt takes one position out.
LEMMA RemovedAt ==
  ASSUME NEW S, NEW s \in Seq(S), NEW i \in 1 .. Len(s)
  PROVE  RemoveAt(s, i) \in Seq(S) /\ Without(RemoveAt(s, i), s, i)
<1> DEFINE before == SubSeq(s, 1, i - 1)
           after  == SubSeq(s, i + 1, Len(s))
<1>1. PICK n \in Nat : n = Len(s) /\ s \in [1 .. n -> S] /\ i \in 1 .. n
  BY LenProperties
<1>2. /\ before \in Seq(S) /\ Len(before) = i - 1
      /\ \A j \in 1 .. i - 1 : before[j] = s[j]
  BY <1>1, SubSeqProperties
<1>3. /\ after \in Seq(S) /\ Len(after) = n - i
      /\ \A j \in 1 .. n - i : after[j] = s[i + j]
  <2>1. \A j \in i + 1 .. n : s[j] \in S
    BY <1>1
  <2>2. /\ after \in Seq(S)
        /\ Len(after) = IF i + 1 <= n THEN n - (i + 1) + 1 ELSE 0
        /\ \A j \in 1 .. n - (i + 1) + 1 : after[j] = s[(i + 1) + j - 1]
    BY <1>1, <2>1, SubSeqProperties
  <2> HIDE DEF after
  <2>3. Len(after) = n - i
    <3>0. Len(after) = IF i + 1 <= n THEN n - (i + 1) + 1 ELSE 0
      BY <2>2
    <3>1. n \in Nat /\ i \in Nat /\ i <= n
      BY <1>1
    <3> QED BY <3>0, <3>1
  <2>4. \A j \in 1 .. n - i : j \in 1 .. n - (i + 1) + 1 /\ (i + 1) + j - 1 = i + j
    BY <1>1
  <2> QED BY <2>2, <2>3, <2>4
<1> HIDE DEF before, after
<1>4. RemoveAt(s, i) = before \o after
  BY DEF RemoveAt, before, after
<1>5. PICK r : r = before \o after
  OBVIOUS
<1>6. /\ r \in Seq(S) /\ Len(r) = Len(before) + Len(after)
      /\ \A j \in 1 .. Len(before) + Len(after) : r[j] =
           IF j <= Len(before) THEN before[j] ELSE after[j - Len(before)]
  BY <1>2, <1>3, <1>5, ConcatProperties
<1>7. Len(r) = n - 1 /\ DOMAIN r = 1 .. n - 1
  BY <1>1, <1>2, <1>3, <1>6, LenProperties
<1>8. ASSUME NEW j \in 1 .. n - 1
      PROVE  r[j] = IF j < i THEN s[j] ELSE s[j + 1]
  <2>0. r[j] = IF j <= i - 1 THEN before[j] ELSE after[j - (i - 1)]
    <3>1. j \in 1 .. Len(before) + Len(after)
      BY <1>1, <1>2, <1>3
    <3>2. r[j] = IF j <= Len(before) THEN before[j] ELSE after[j - Len(before)]
      BY <1>6, <3>1
    <3> QED BY <1>2, <3>2
  <2>1. CASE j < i
    <3>1. j <= i - 1 /\ j \in 1 .. i - 1
      BY <1>1, <2>1
    <3> QED BY <1>2, <2>0, <2>1, <3>1
  <2>2. CASE ~(j < i)
    <3>1. j - (i - 1) \in 1 .. n - i /\ i + (j - (i - 1)) = j + 1 /\ ~(j <= i - 1)
      BY <1>1, <2>2
    <3>2. after[j - (i - 1)] = s[j + 1]
      BY <1>3, <3>1
    <3> QED BY <2>0, <2>2, <3>1, <3>2
  <2> QED BY <2>1, <2>2
<1> QED BY <1>1, <1>4, <1>5, <1>6, <1>7, <1>8 DEF Without

\* So does Tail, the first one.
LEMMA HeadGone ==
  ASSUME NEW S, NEW s \in Seq(S), s # <<>>
  PROVE  1 \in DOMAIN s /\ Head(s) = s[1] /\ Tail(s) \in Seq(S) /\ Without(Tail(s), s, 1)
<1>1. PICK n \in Nat : n = Len(s) /\ DOMAIN s = 1 .. n /\ n # 0
  BY LenProperties, EmptySeq
<1>2. PICK r : r = Tail(s)
  OBVIOUS
<1>3. r \in Seq(S) /\ Len(r) = n - 1 /\ \A i \in 1 .. Len(r) : r[i] = s[i + 1]
  BY <1>1, <1>2, HeadTailProperties
<1>4. DOMAIN r = 1 .. n - 1
  BY <1>3, LenProperties
<1>5. \A j \in 1 .. n - 1 : ~(j < 1) /\ r[j] = s[j + 1]
  BY <1>3, <1>1
<1> QED BY <1>1, <1>2, <1>3, <1>4, <1>5 DEF Without

\* Each position of the shorter sequence is one of the longer, in the same order.
LEMMA WithoutMap ==
  ASSUME NEW S, NEW q \in Seq(S), NEW i \in DOMAIN q, NEW r, Without(r, q, i)
  PROVE  \E f \in [DOMAIN r -> DOMAIN q \ {i}] :
           /\ \A j \in DOMAIN r : r[j] = q[f[j]]
           /\ \A j, k \in DOMAIN r : (j < k <=> f[j] < f[k]) /\ (f[j] = f[k] => j = k)
           /\ \A k \in DOMAIN q \ {i} : \E j \in DOMAIN r : f[j] = k
<1>1. PICK n \in Nat : n = Len(q) /\ DOMAIN q = 1 .. n /\ i \in 1 .. n /\ DOMAIN r = 1 .. n - 1
  BY LenProperties DEF Without
<1>2. \A j \in 1 .. n - 1 : r[j] = IF j < i THEN q[j] ELSE q[j + 1]
  BY <1>1 DEF Without
<1> DEFINE f == [j \in 1 .. n - 1 |-> IF j < i THEN j ELSE j + 1]
<1>3. f \in [DOMAIN r -> DOMAIN q \ {i}] /\ \A j \in DOMAIN r : r[j] = q[f[j]]
  BY <1>1, <1>2
<1>4. \A j, k \in DOMAIN r : (j < k <=> f[j] < f[k]) /\ (f[j] = f[k] => j = k)
  BY <1>1
<1>5. ASSUME NEW k \in DOMAIN q \ {i}
      PROVE  \E j \in DOMAIN r : f[j] = k
  <2>0. k \in 1 .. n /\ k # i
    BY <1>1, <1>5
  <2>1. CASE k < i
    <3>1. k \in DOMAIN r
      BY <1>1, <2>0, <2>1
    <3>2. f[k] = k
      BY <1>1, <2>1, <3>1
    <3> QED BY <3>1, <3>2
  <2>2. CASE k > i
    <3>1. k - 1 \in DOMAIN r
      BY <1>1, <2>0, <2>2
    <3>2. f[k - 1] = k
      BY <1>1, <2>0, <2>2, <3>1
    <3> QED BY <3>1, <3>2
  <2> QED BY <1>1, <2>0, <2>1, <2>2
<1> HIDE DEF f
<1> QED BY <1>3, <1>4, <1>5

LEMMA ListWithout ==
  ASSUME NEW W, NEW q, Lists(q, W), NEW i \in DOMAIN q, NEW r \in Seq(W), Without(r, q, i)
  PROVE  Lists(r, W \ {q[i]})
<1>1. q \in Seq(W)
  BY DEF Lists
<1>2. PICK f \in [DOMAIN r -> DOMAIN q \ {i}] :
           /\ \A j \in DOMAIN r : r[j] = q[f[j]]
           /\ \A j, k \in DOMAIN r : (j < k <=> f[j] < f[k]) /\ (f[j] = f[k] => j = k)
           /\ \A k \in DOMAIN q \ {i} : \E j \in DOMAIN r : f[j] = k
  BY <1>1, WithoutMap
<1>3. \A j \in DOMAIN r : r[j] \in W \ {q[i]}
  BY <1>1, <1>2 DEF Lists
<1>4. r \in Seq(W \ {q[i]})
  <2>1. PICK n \in Nat : n = Len(r) /\ DOMAIN r = 1 .. n /\ r \in [1 .. n -> W]
    BY LenProperties
  <2>2. r \in [1 .. n -> W \ {q[i]}]
    BY <2>1, <1>3
  <2> QED BY <2>2, SeqDef
<1>5. \A w \in W \ {q[i]} : \E j \in DOMAIN r : r[j] = w
  <2> TAKE w \in W \ {q[i]}
  <2>1. PICK k \in DOMAIN q : q[k] = w
    BY DEF Lists
  <2>2. PICK j \in DOMAIN r : f[j] = k
    BY <1>2, <2>1
  <2> QED BY <1>2, <2>1, <2>2
<1>6. \A j, k \in DOMAIN r : r[j] = r[k] => j = k
  BY <1>2 DEF Lists
<1> QED BY <1>4, <1>5, <1>6 DEF Lists

LEMMA FallingWithout ==
  ASSUME NEW S, NEW q \in Seq(S), NEW i \in DOMAIN q, NEW r, Without(r, q, i),
         NEW f, Falling(q, f)
  PROVE  Falling(r, f)
<1>1. PICK g \in [DOMAIN r -> DOMAIN q \ {i}] :
           /\ \A j \in DOMAIN r : r[j] = q[g[j]]
           /\ \A j, k \in DOMAIN r : (j < k <=> g[j] < g[k]) /\ (g[j] = g[k] => j = k)
           /\ \A k \in DOMAIN q \ {i} : \E j \in DOMAIN r : g[j] = k
  BY WithoutMap
<1> QED BY <1>1 DEF Falling

LEMMA ListAppend ==
  ASSUME NEW W, NEW q, Lists(q, W), NEW t, t \notin W
  PROVE  Lists(Append(q, t), W \cup {t})
<1>1. PICK n \in Nat : n = Len(q) /\ DOMAIN q = 1 .. n /\ q \in [1 .. n -> W]
  BY LenProperties DEF Lists
<1>2. q \in Seq(W \cup {t})
  <2>1. q \in [1 .. n -> W \cup {t}]
    BY <1>1
  <2> QED BY <2>1, SeqDef
<1>3. PICK r : r = Append(q, t)
  OBVIOUS
<1>4. /\ r \in Seq(W \cup {t}) /\ Len(r) = n + 1
      /\ \A i \in 1 .. n : r[i] = q[i]
      /\ r[n + 1] = t
  BY <1>1, <1>2, <1>3, AppendProperties
<1>5. DOMAIN r = 1 .. n + 1 /\ \A i \in DOMAIN r : i \in 1 .. n \/ i = n + 1
  BY <1>4, LenProperties
<1>6. \A w \in W \cup {t} : \E i \in DOMAIN r : r[i] = w
  BY <1>1, <1>4, <1>5 DEF Lists
<1>7. \A i \in 1 .. n : r[i] \in W /\ r[i] # t
  BY <1>1, <1>4
<1>8. \A i, j \in DOMAIN r : r[i] = r[j] => i = j
  BY <1>1, <1>4, <1>5, <1>7 DEF Lists
<1> QED BY <1>3, <1>4, <1>6, <1>8 DEF Lists
\* A sequence is as long as the set it lists is large.
LEMMA ListCount ==
  ASSUME NEW W, NEW q, Lists(q, W)
  PROVE  IsFiniteSet(W) /\ Cardinality(W) = Len(q)
<1>1. PICK n \in Nat : n = Len(q) /\ DOMAIN q = 1 .. n /\ q \in [1 .. n -> W]
  BY LenProperties DEF Lists
<1>2. q \in Bijection(1 .. n, W)
  BY <1>1 DEF Lists, Bijection, Injection, Surjection, IsInjective
<1>3. IsFiniteSet(1 .. n) /\ Cardinality(1 .. n) = n
  BY FS_Interval
<1>4. ExistsBijection(1 .. n, W)
  BY <1>2 DEF ExistsBijection
<1> QED BY <1>1, <1>3, <1>4, FS_Bijection

First(q, n) == {q[i] : i \in 1 .. n}

\* The first n members of a sequence go, and the rest lists what is left.
LEMMA ListSplit ==
  ASSUME NEW W, NEW q, Lists(q, W), NEW n \in Nat, n <= Len(q)
  PROVE  /\ First(q, n) \subseteq W
         /\ IsFiniteSet(First(q, n)) /\ Cardinality(First(q, n)) = n
         /\ Lists(SubSeq(q, n + 1, Len(q)), W \ First(q, n))
         /\ Len(SubSeq(q, n + 1, Len(q))) = Len(q) - n
<1> DEFINE first == First(q, n)
<1>0. first = {q[i] : i \in 1 .. n}
  BY DEF First
<1>1. PICK m \in Nat : m = Len(q) /\ DOMAIN q = 1 .. m /\ q \in [1 .. m -> W] /\ n <= m
  BY LenProperties DEF Lists
<1>2. /\ \A i, j \in 1 .. m : q[i] = q[j] => i = j
      /\ \A w \in W : \E i \in 1 .. m : q[i] = w
  BY <1>1 DEF Lists
<1>3. \A i \in 1 .. n : i \in 1 .. m
  BY <1>1
<1>4. first \subseteq W
  BY <1>0, <1>1, <1>3
<1>5. IsFiniteSet(first) /\ Cardinality(first) = n
  <2> DEFINE f == [i \in 1 .. n |-> q[i]]
  <2>1. f \in Bijection(1 .. n, first)
    BY <1>0, <1>2, <1>3 DEF Bijection, Injection, Surjection, IsInjective
  <2>2. IsFiniteSet(1 .. n) /\ Cardinality(1 .. n) = n
    BY FS_Interval
  <2>3. ExistsBijection(1 .. n, first)
    BY <2>1 DEF ExistsBijection
  <2> HIDE DEF first, f
  <2> QED BY <2>2, <2>3, FS_Bijection
<1>6. PICK r : r = SubSeq(q, n + 1, m)
  OBVIOUS
<1>7. /\ r \in Seq(W) /\ Len(r) = m - n
      /\ \A i \in 1 .. m - n : r[i] = q[n + i]
  <2>1. \A i \in n + 1 .. m : q[i] \in W
    BY <1>1
  <2>2. /\ r \in Seq(W)
        /\ Len(r) = IF n + 1 <= m THEN m - (n + 1) + 1 ELSE 0
        /\ \A i \in 1 .. m - (n + 1) + 1 : r[i] = q[(n + 1) + i - 1]
    BY <1>6, <2>1, SubSeqProperties
  <2>3. Len(r) = m - n
    <3>1. Len(r) = IF n + 1 <= m THEN m - (n + 1) + 1 ELSE 0
      BY <2>2
    <3>2. n \in Nat /\ m \in Nat /\ n <= m
      BY <1>1
    <3> QED BY <3>1, <3>2
  <2>4. \A i \in 1 .. m - n : i \in 1 .. m - (n + 1) + 1 /\ (n + 1) + i - 1 = n + i
    BY <1>1
  <2> QED BY <2>2, <2>3, <2>4
<1>8. DOMAIN r = 1 .. m - n
  BY <1>7, LenProperties
<1>9. \A i \in 1 .. m - n : n + i \in 1 .. m /\ ~(n + i \in 1 .. n)
  BY <1>1
<1>10. \A i \in 1 .. m - n : r[i] \in W \ first
  <2> TAKE i \in 1 .. m - n
  <2>1. r[i] = q[n + i] /\ r[i] \in W
    BY <1>1, <1>7, <1>9
  <2>2. ASSUME NEW j \in 1 .. n, q[j] = q[n + i]
        PROVE  FALSE
    BY <1>2, <1>3, <1>9, <2>2
  <2> QED BY <1>0, <2>1, <2>2
<1>11. \A w \in W \ first : \E i \in 1 .. m - n : r[i] = w
  <2> TAKE w \in W \ first
  <2>1. PICK k \in 1 .. m : q[k] = w
    BY <1>2
  <2>2. ~(k \in 1 .. n)
    BY <1>0, <2>1
  <2>3. k - n \in 1 .. m - n /\ n + (k - n) = k
    BY <1>1, <2>2
  <2>4. r[k - n] = w
    BY <1>7, <2>1, <2>3
  <2> QED BY <2>3, <2>4
<1>12. \A i, j \in 1 .. m - n : r[i] = r[j] => i = j
  <2> TAKE i, j \in 1 .. m - n
  <2> HAVE r[i] = r[j]
  <2>1. n + i = n + j
    BY <1>2, <1>7, <1>9
  <2> QED BY <2>1
<1> HIDE DEF first
<1>13. r \in Seq(W \ first)
  <2>1. r \in [1 .. m - n -> W \ first]
    BY <1>7, <1>8, <1>10, LenProperties
  <2>2. m - n \in Nat
    BY <1>1
  <2> QED BY <2>1, <2>2, SeqDef
<1>14. Lists(r, W \ first)
  BY <1>8, <1>11, <1>12, <1>13 DEF Lists
<1> QED BY <1>1, <1>4, <1>5, <1>6, <1>7, <1>14 DEF first

-----------------------------------------------------------------------------
(* Requests to providers *)

InFlight == Provider!In("running")
Pending == Provider!In("queued")

RequestPhases == {"new", "queued", "running", "finished", "dropped"}

RequestsTyped ==
  /\ requestPhase \in [Requests -> RequestPhases]
  /\ cursor \in Nat
  /\ age \in [Requests -> 0 .. 2]
  /\ requestsClosed \in BOOLEAN /\ requestLoop \in {"idle", "drain", "close"}
  /\ requestLoop = "close" => requestsClosed

\* Who came later has not waited longer, and only who waits has aged.
AgesKept ==
  /\ Falling(requestQueue, age)
  /\ \A t \in Requests : requestPhase[t] # "queued" => age[t] = 0

\* The owners of A, and they only, have orders, different ones and all below n.
OrdersFor(ord, n, A) ==
  /\ ord \in [RequestOwners -> Nat] /\ n \in Nat \ {0}
  /\ \A o \in RequestOwners : ord[o] # 0 <=> \E t \in A : RequestOwner[t] = o
  /\ \A o, p \in RequestOwners : ord[o] = ord[p] /\ ord[o] # 0 => o = p
  /\ \A o \in RequestOwners : ord[o] < n

RequestInv ==
  /\ RequestsTyped
  /\ Lists(requestQueue, Pending)
  /\ AgesKept
  /\ OrdersFor(order, nextOrder, InFlight \cup Pending)
  /\ Provider!NothingWaitsInVain

LEMMA RequestFacts ==
  ASSUME RequestInv
  PROVE  /\ requestPhase \in [Requests -> RequestPhases]
         /\ requestQueue \in Seq(Requests)
         /\ InFlight \subseteq Requests /\ Pending \subseteq Requests
         /\ \A t \in Requests : t \in InFlight <=> requestPhase[t] = "running"
         /\ \A t \in Requests : t \in Pending <=> requestPhase[t] = "queued"
         /\ \A i \in DOMAIN requestQueue : requestQueue[i] \in Pending
         /\ \A t \in Requests : RequestOwner[t] \in RequestOwners
<1>1. requestQueue \in Seq(Pending) /\ Pending \subseteq Requests
  BY DEF RequestInv, Lists, Pending, Provider!In
<1>2. requestQueue \in Seq(Requests)
  BY <1>1, SeqMonotonic
<1>3. \A i \in DOMAIN requestQueue : requestQueue[i] \in Pending
  BY <1>1, LenProperties
<1>4. \A t \in Requests : RequestOwner[t] \in RequestOwners
  BY RequestsAssumption DEF Provider!AdmissionAssumption
<1> QED
  BY <1>1, <1>2, <1>3, <1>4 DEF RequestInv, RequestsTyped, InFlight, Pending, Provider!In

\* Who runs and who waits after one request changed phase.
LEMMA RequestSettles ==
  ASSUME requestPhase \in [Requests -> RequestPhases], NEW t \in Requests,
         NEW p \in RequestPhases, Provider!Settle(t, p)
  PROVE  /\ requestPhase' \in [Requests -> RequestPhases]
         /\ requestPhase'[t] = p
         /\ \A u \in Requests : u # t => requestPhase'[u] = requestPhase[u]
         /\ InFlight' = IF p = "running" THEN InFlight \cup {t} ELSE InFlight \ {t}
         /\ Pending' = IF p = "queued" THEN Pending \cup {t} ELSE Pending \ {t}
  BY DEF Provider!Settle, InFlight, Pending, Provider!In

LEMMA OwnerRegistered ==
  ASSUME NEW A \in SUBSET Requests, NEW t \in Requests,
         OrdersFor(order, nextOrder, A), Provider!Register(RequestOwner[t])
  PROVE  OrdersFor(order', nextOrder', A \cup {t})
<1> DEFINE o == RequestOwner[t]
<1>1. o \in RequestOwners
  BY RequestsAssumption DEF Provider!AdmissionAssumption
<1>2. CASE order[o] = 0
  <2>1. order' = [order EXCEPT ![o] = nextOrder] /\ nextOrder' = nextOrder + 1
    BY <1>2 DEF Provider!Register
  <2>2. /\ order' \in [RequestOwners -> Nat] /\ nextOrder' \in Nat \ {0}
        /\ order'[o] = nextOrder /\ \A p \in RequestOwners : p # o => order'[p] = order[p]
    BY <1>1, <2>1 DEF OrdersFor
  <2>3. \A p \in RequestOwners : order'[p] # 0 <=> \E u \in A \cup {t} : RequestOwner[u] = p
    BY <1>1, <2>2 DEF OrdersFor
  <2>4. \A p, q \in RequestOwners : order'[p] = order'[q] /\ order'[p] # 0 => p = q
    BY <1>1, <2>2 DEF OrdersFor
  <2>5. \A p \in RequestOwners : order'[p] < nextOrder'
    BY <1>1, <2>1, <2>2 DEF OrdersFor
  <2> QED BY <2>2, <2>3, <2>4, <2>5 DEF OrdersFor
<1>3. CASE order[o] # 0
  <2>1. order' = order /\ nextOrder' = nextOrder
    BY <1>3 DEF Provider!Register
  <2>2. \A p \in RequestOwners : order[p] # 0 <=> \E u \in A \cup {t} : RequestOwner[u] = p
    BY <1>1, <1>3 DEF OrdersFor
  <2> QED BY <2>1, <2>2 DEF OrdersFor
<1> QED BY <1>2, <1>3

LEMMA OwnerUnregistered ==
  ASSUME NEW t \in Requests, t \in InFlight \cup Pending,
         OrdersFor(order, nextOrder, InFlight \cup Pending), Provider!Unregister(t)
  PROVE  OrdersFor(order', nextOrder', (InFlight \cup Pending) \ {t})
<1> DEFINE o == RequestOwner[t]
           A == InFlight \cup Pending
<1>1. o \in RequestOwners
  BY RequestsAssumption DEF Provider!AdmissionAssumption
<1>2. /\ order' = IF \E u \in A \ {t} : RequestOwner[u] = o THEN order ELSE [order EXCEPT ![o] = 0]
      /\ nextOrder' = nextOrder
  BY DEF Provider!Unregister, InFlight, Pending
<1>3. PICK B : B = A /\ OrdersFor(order, nextOrder, B) /\ t \in B
  OBVIOUS
<1> HIDE DEF A
<1>4. CASE \E u \in B \ {t} : RequestOwner[u] = o
  <2>1. order' = order
    BY <1>2, <1>3, <1>4
  <2>2. \A p \in RequestOwners : order[p] # 0 <=> \E u \in B \ {t} : RequestOwner[u] = p
    BY <1>3, <1>4 DEF OrdersFor
  <2>3. OrdersFor(order, nextOrder, B \ {t})
    BY <1>3, <2>2 DEF OrdersFor
  <2> QED BY <1>2, <1>3, <2>1, <2>3 DEF A
<1>5. CASE ~\E u \in B \ {t} : RequestOwner[u] = o
  <2>1. order' = [order EXCEPT ![o] = 0]
    BY <1>2, <1>3, <1>5
  <2>2. /\ order' \in [RequestOwners -> Nat]
        /\ order'[o] = 0 /\ \A p \in RequestOwners : p # o => order'[p] = order[p]
    BY <1>1, <1>3, <2>1 DEF OrdersFor
  <2>3. \A p \in RequestOwners : order'[p] # 0 <=> \E u \in B \ {t} : RequestOwner[u] = p
    BY <1>1, <1>3, <1>5, <2>2 DEF OrdersFor
  <2>4. /\ \A p, q \in RequestOwners : order'[p] = order'[q] /\ order'[p] # 0 => p = q
        /\ \A p \in RequestOwners : order'[p] < nextOrder'
    BY <1>1, <1>2, <1>3, <2>2 DEF OrdersFor
  <2>5. nextOrder' \in Nat \ {0}
    BY <1>2, <1>3 DEF OrdersFor
  <2>6. OrdersFor(order', nextOrder', B \ {t})
    BY <2>2, <2>3, <2>4, <2>5 DEF OrdersFor
  <2> QED BY <1>3, <2>6 DEF A
<1> QED BY <1>4, <1>5

\* Which requests could start depends on who runs and who waits.
LEMMA SameEligible ==
  ASSUME InFlight' = InFlight, UNCHANGED requestQueue
  PROVE  Provider!Eligible' = Provider!Eligible
<1>1. Provider!In("running")' = Provider!In("running")
  BY DEF InFlight
<1> QED BY <1>1 DEF Provider!Eligible, Provider!CanStart, Provider!In

LEMMA InitRequests == Provider!Init => RequestInv
<1> SUFFICES ASSUME Provider!Init PROVE RequestInv
  OBVIOUS
<1>1. InFlight = {} /\ Pending = {}
  BY DEF Provider!Init, InFlight, Pending, Provider!In
<1>2. RequestsTyped
  <2>1. requestPhase \in [Requests -> RequestPhases] /\ age \in [Requests -> 0 .. 2]
    BY DEF Provider!Init, RequestPhases
  <2>2. /\ cursor \in Nat /\ requestsClosed \in BOOLEAN
        /\ requestLoop \in {"idle", "drain", "close"} /\ requestLoop # "close"
    BY DEF Provider!Init
  <2> QED BY <2>1, <2>2 DEF RequestsTyped
<1>3. /\ requestQueue \in Seq({}) /\ DOMAIN requestQueue = {}
  BY EmptySeq DEF Provider!Init
<1>4. Lists(requestQueue, Pending) /\ AgesKept
  BY <1>1, <1>3 DEF Lists, AgesKept, Falling, Provider!Init
<1>5. OrdersFor(order, nextOrder, {})
  BY DEF OrdersFor, Provider!Init
<1>6. Provider!NothingWaitsInVain
  BY <1>3 DEF Provider!NothingWaitsInVain, Provider!Eligible
<1> QED BY <1>1, <1>2, <1>4, <1>5, <1>6 DEF RequestInv

LEMMA RefuseKeeps ==
  ASSUME RequestInv, NEW t \in Requests, Provider!Refuse(t)
  PROVE  RequestInv'
<1>1. /\ requestPhase[t] = "new" /\ Provider!Settle(t, "dropped")
      /\ UNCHANGED <<requestQueue, order, nextOrder, cursor, age, requestsClosed, requestLoop>>
  BY DEF Provider!Refuse
<1>2. /\ InFlight' = InFlight /\ Pending' = Pending
      /\ requestPhase' \in [Requests -> RequestPhases] /\ requestPhase'[t] = "dropped"
      /\ \A u \in Requests : u # t => requestPhase'[u] = requestPhase[u]
  BY <1>1, RequestFacts, RequestSettles DEF RequestPhases
<1>3. RequestsTyped'
  BY <1>1, <1>2 DEF RequestInv, RequestsTyped
<1>4. AgesKept'
  BY <1>1, <1>2 DEF RequestInv, AgesKept, Falling
<1>5. Lists(requestQueue, Pending)' /\ OrdersFor(order, nextOrder, InFlight \cup Pending)'
  BY <1>1, <1>2 DEF RequestInv
<1>6. Provider!NothingWaitsInVain'
  BY <1>1, <1>2, SameEligible DEF RequestInv, Provider!NothingWaitsInVain
<1> QED BY <1>3, <1>4, <1>5, <1>6 DEF RequestInv

LEMMA StartNowKeeps ==
  ASSUME RequestInv, NEW t \in Requests, Provider!StartNow(t)
  PROVE  RequestInv'
<1>1. /\ requestPhase[t] = "new" /\ Provider!Settle(t, "running")
      /\ requestQueue = <<>> /\ Provider!Register(RequestOwner[t])
      /\ UNCHANGED <<requestQueue, cursor, age, requestsClosed, requestLoop>>
  BY DEF Provider!StartNow
<1>2. /\ InFlight' = InFlight \cup {t} /\ Pending' = Pending
      /\ requestPhase' \in [Requests -> RequestPhases] /\ requestPhase'[t] = "running"
      /\ \A u \in Requests : u # t => requestPhase'[u] = requestPhase[u]
  BY <1>1, RequestFacts, RequestSettles DEF RequestPhases
<1>3. RequestsTyped'
  BY <1>1, <1>2 DEF RequestInv, RequestsTyped
<1>4. AgesKept'
  BY <1>1, <1>2 DEF RequestInv, AgesKept, Falling
<1>5. Lists(requestQueue, Pending)'
  BY <1>1, <1>2 DEF RequestInv
<1>6. OrdersFor(order', nextOrder', InFlight' \cup Pending')
  <2>1. OrdersFor(order', nextOrder', (InFlight \cup Pending) \cup {t})
    BY <1>1, RequestFacts, OwnerRegistered DEF RequestInv
  <2>2. (InFlight \cup Pending) \cup {t} = InFlight' \cup Pending'
    BY <1>2
  <2> QED BY <2>1, <2>2
<1>7. Provider!NothingWaitsInVain'
  BY <1>1 DEF Provider!NothingWaitsInVain, Provider!Eligible
<1> QED BY <1>3, <1>4, <1>5, <1>6, <1>7 DEF RequestInv

LEMMA EnqueueKeeps ==
  ASSUME RequestInv, NEW t \in Requests, Provider!Enqueue(t)
  PROVE  RequestInv'
<1>1. /\ requestPhase[t] = "new" /\ Provider!Settle(t, "queued")
      /\ requestQueue' = Append(requestQueue, t) /\ Provider!Register(RequestOwner[t])
      /\ requestLoop' = "drain" /\ UNCHANGED <<cursor, age, requestsClosed>>
  BY DEF Provider!Enqueue
<1>2. /\ InFlight' = InFlight /\ Pending' = Pending \cup {t} /\ t \notin Pending
      /\ requestPhase' \in [Requests -> RequestPhases] /\ requestPhase'[t] = "queued"
      /\ \A u \in Requests : u # t => requestPhase'[u] = requestPhase[u]
  BY <1>1, RequestFacts, RequestSettles DEF RequestPhases
<1>3. RequestsTyped'
  BY <1>1, <1>2 DEF RequestInv, RequestsTyped
<1>4. Lists(requestQueue, Pending)'
  BY <1>1, <1>2, ListAppend DEF RequestInv
<1>5. AgesKept'
  <2>1. PICK n \in Nat : n = Len(requestQueue) /\ DOMAIN requestQueue = 1 .. n
    BY RequestFacts, LenProperties
  <2>2. /\ DOMAIN requestQueue' = 1 .. n + 1 /\ requestQueue'[n + 1] = t
        /\ \A i \in 1 .. n : requestQueue'[i] = requestQueue[i]
    <3>1. /\ requestQueue' \in Seq(Requests) /\ Len(requestQueue') = n + 1
          /\ requestQueue'[n + 1] = t
          /\ \A i \in 1 .. n : requestQueue'[i] = requestQueue[i]
      BY <1>1, <2>1, RequestFacts, AppendProperties
    <3> QED BY <3>1, LenProperties
  <2>3. age[t] = 0 /\ \A i \in 1 .. n : requestQueue[i] \in Requests
    BY <1>1, <2>1, RequestFacts DEF RequestInv, AgesKept
  <2>4. \A i, j \in 1 .. n : i < j => age[requestQueue[i]] >= age[requestQueue[j]]
    BY <2>1 DEF RequestInv, AgesKept, Falling
  <2>5. \A u \in Requests : age[u] >= 0
    BY DEF RequestInv, RequestsTyped
  <2>6. \A i, j \in 1 .. n + 1 : i < j => age[requestQueue'[i]] >= age[requestQueue'[j]]
    <3> TAKE i, j \in 1 .. n + 1
    <3> HAVE i < j
    <3>1. i \in 1 .. n /\ (j \in 1 .. n \/ j = n + 1)
      BY <2>1
    <3> QED BY <2>2, <2>3, <2>4, <2>5, <3>1
  <2> QED BY <1>1, <1>2, <2>2, <2>6 DEF RequestInv, AgesKept, Falling
<1>6. OrdersFor(order', nextOrder', InFlight' \cup Pending')
  <2>1. OrdersFor(order', nextOrder', (InFlight \cup Pending) \cup {t})
    BY <1>1, RequestFacts, OwnerRegistered DEF RequestInv
  <2>2. (InFlight \cup Pending) \cup {t} = InFlight' \cup Pending'
    BY <1>2
  <2> QED BY <2>1, <2>2
<1>7. Provider!NothingWaitsInVain'
  BY <1>1 DEF Provider!NothingWaitsInVain
<1> QED BY <1>3, <1>4, <1>5, <1>6, <1>7 DEF RequestInv

\* A request leaves the queue, to run or for good.
LEMMA LeavesQueue ==
  ASSUME RequestInv, NEW i \in DOMAIN requestQueue, NEW p \in {"running", "dropped"},
         requestQueue' \in Seq(Pending), Without(requestQueue', requestQueue, i),
         Provider!Settle(requestQueue[i], p), Provider!Fresh(requestQueue[i])
  PROVE  /\ requestQueue[i] \in Pending
         /\ requestPhase' \in [Requests -> RequestPhases]
         /\ InFlight' = IF p = "running" THEN InFlight \cup {requestQueue[i]} ELSE InFlight
         /\ Pending' = Pending \ {requestQueue[i]}
         /\ Lists(requestQueue', Pending')
         /\ age' \in [Requests -> 0 .. 2] /\ AgesKept'
<1>1. PICK t : t = requestQueue[i]
  OBVIOUS
<1>2. t \in Requests /\ t \in Pending /\ t \notin InFlight
  BY <1>1, RequestFacts
<1>3. /\ requestPhase' \in [Requests -> RequestPhases] /\ requestPhase'[t] = p
      /\ \A u \in Requests : u # t => requestPhase'[u] = requestPhase[u]
      /\ InFlight' = IF p = "running" THEN InFlight \cup {t} ELSE InFlight
      /\ Pending' = Pending \ {t}
  <2>1. /\ p \in RequestPhases /\ p # "queued" /\ Provider!Settle(t, p)
        /\ requestPhase \in [Requests -> RequestPhases]
    BY <1>1, RequestFacts DEF RequestPhases
  <2>2. /\ requestPhase' \in [Requests -> RequestPhases] /\ requestPhase'[t] = p
        /\ \A u \in Requests : u # t => requestPhase'[u] = requestPhase[u]
        /\ InFlight' = IF p = "running" THEN InFlight \cup {t} ELSE InFlight \ {t}
        /\ Pending' = IF p = "queued" THEN Pending \cup {t} ELSE Pending \ {t}
    BY <1>2, <2>1, RequestSettles
  <2>3. InFlight \ {t} = InFlight
    BY <1>2
  <2> QED BY <2>1, <2>2, <2>3
<1>4. Lists(requestQueue', Pending')
  BY <1>1, <1>3, ListWithout DEF RequestInv
<1>5. /\ age' \in [Requests -> 0 .. 2] /\ age'[t] = 0
      /\ \A u \in Requests : u # t => age'[u] = age[u]
  BY <1>1, <1>2 DEF Provider!Fresh, RequestInv, RequestsTyped
<1>6. Falling(requestQueue', age)
  BY RequestFacts, FallingWithout DEF RequestInv, AgesKept
<1>7. \A j \in DOMAIN requestQueue' : requestQueue'[j] \in Requests /\ requestQueue'[j] # t
  <2>1. requestQueue' \in Seq(Pending')
    BY <1>4 DEF Lists
  <2>2. \A j \in DOMAIN requestQueue' : requestQueue'[j] \in Pending'
    BY <2>1, LenProperties
  <2> QED BY <1>3, <2>2, RequestFacts
<1>8. AgesKept'
  BY <1>3, <1>5, <1>6, <1>7 DEF RequestInv, AgesKept, Falling
<1> QED BY <1>1, <1>2, <1>3, <1>4, <1>5, <1>8

LEMMA DrainAdmitKeeps ==
  ASSUME RequestInv, Provider!DrainAdmit
  PROVE  RequestInv'
<1>1. PICK i \in Provider!Eligible :
        /\ requestQueue' = RemoveAt(requestQueue, i)
        /\ cursor' = Provider!OrderAt(i)
        /\ Provider!Settle(requestQueue[i], "running") /\ Provider!Fresh(requestQueue[i])
  BY DEF Provider!DrainAdmit, Provider!RemoveAt, RemoveAt
<1>2. requestLoop = "drain" /\ UNCHANGED <<order, nextOrder, requestsClosed, requestLoop>>
  BY DEF Provider!DrainAdmit
<1>3. i \in DOMAIN requestQueue /\ requestQueue \in Seq(Pending) /\ i \in 1 .. Len(requestQueue)
  <2>1. i \in DOMAIN requestQueue
    BY DEF Provider!Eligible
  <2> QED BY <2>1, LenProperties DEF RequestInv, Lists
<1>4. requestQueue' \in Seq(Pending) /\ Without(requestQueue', requestQueue, i)
  BY <1>1, <1>3, RemovedAt
<1>5. /\ requestQueue[i] \in Pending /\ requestPhase' \in [Requests -> RequestPhases]
      /\ InFlight' = InFlight \cup {requestQueue[i]} /\ Pending' = Pending \ {requestQueue[i]}
      /\ Lists(requestQueue', Pending') /\ age' \in [Requests -> 0 .. 2] /\ AgesKept'
  BY <1>1, <1>3, <1>4, LeavesQueue
<1>6. cursor' \in Nat
  <2>1. RequestOwner[requestQueue[i]] \in RequestOwners
    BY <1>3, RequestFacts
  <2> QED BY <1>1, <2>1 DEF Provider!OrderAt, RequestInv, OrdersFor
<1>7. RequestsTyped'
  BY <1>2, <1>5, <1>6 DEF RequestInv, RequestsTyped
<1>8. OrdersFor(order', nextOrder', InFlight' \cup Pending')
  <2>1. InFlight' \cup Pending' = InFlight \cup Pending
    BY <1>5
  <2> QED BY <1>2, <2>1 DEF RequestInv
<1>9. Provider!NothingWaitsInVain'
  BY <1>2 DEF Provider!NothingWaitsInVain
<1> QED BY <1>5, <1>7, <1>8, <1>9 DEF RequestInv

LEMMA ReleaseKeeps ==
  ASSUME RequestInv, NEW t \in Requests, Provider!Release(t)
  PROVE  RequestInv'
<1>1. /\ requestPhase[t] = "running" /\ Provider!Settle(t, "finished") /\ Provider!Unregister(t)
      /\ requestLoop' = "drain" /\ UNCHANGED <<requestQueue, cursor, age, requestsClosed>>
  BY DEF Provider!Release
<1>2. /\ InFlight' = InFlight \ {t} /\ Pending' = Pending /\ t \in InFlight /\ t \notin Pending
      /\ requestPhase' \in [Requests -> RequestPhases] /\ requestPhase'[t] = "finished"
      /\ \A u \in Requests : u # t => requestPhase'[u] = requestPhase[u]
  BY <1>1, RequestFacts, RequestSettles DEF RequestPhases
<1>3. RequestsTyped'
  BY <1>1, <1>2 DEF RequestInv, RequestsTyped
<1>4. AgesKept'
  BY <1>1, <1>2 DEF RequestInv, AgesKept, Falling
<1>5. Lists(requestQueue, Pending)'
  BY <1>1, <1>2 DEF RequestInv
<1>6. OrdersFor(order', nextOrder', InFlight' \cup Pending')
  <2>1. OrdersFor(order', nextOrder', (InFlight \cup Pending) \ {t})
    BY <1>1, <1>2, OwnerUnregistered DEF RequestInv
  <2>2. (InFlight \cup Pending) \ {t} = InFlight' \cup Pending'
    BY <1>2
  <2> QED BY <2>1, <2>2
<1>7. Provider!NothingWaitsInVain'
  BY <1>1 DEF Provider!NothingWaitsInVain
<1> QED BY <1>3, <1>4, <1>5, <1>6, <1>7 DEF RequestInv

\* A waiting request is rejected: by its signal, its ticket, its deadline, or a close.
LEMMA RejectedKeeps ==
  ASSUME RequestInv, NEW i \in DOMAIN requestQueue,
         requestQueue' \in Seq(Pending), Without(requestQueue', requestQueue, i),
         Provider!Unregister(requestQueue[i]), Provider!Settle(requestQueue[i], "dropped"),
         Provider!Fresh(requestQueue[i]), UNCHANGED <<cursor, requestsClosed>>,
         requestLoop' \in {"drain", "close"}, requestLoop' = "close" => requestsClosed
  PROVE  RequestInv'
<1>1. /\ requestQueue[i] \in Pending /\ requestPhase' \in [Requests -> RequestPhases]
      /\ InFlight' = InFlight /\ Pending' = Pending \ {requestQueue[i]}
      /\ Lists(requestQueue', Pending') /\ age' \in [Requests -> 0 .. 2] /\ AgesKept'
  BY LeavesQueue
<1>2. RequestsTyped'
  BY <1>1 DEF RequestInv, RequestsTyped
<1>3. OrdersFor(order', nextOrder', InFlight' \cup Pending')
  <2>1. requestQueue[i] \in Requests /\ requestQueue[i] \notin InFlight
    BY <1>1, RequestFacts
  <2>2. OrdersFor(order', nextOrder', (InFlight \cup Pending) \ {requestQueue[i]})
    BY <1>1, <2>1, OwnerUnregistered DEF RequestInv
  <2>3. (InFlight \cup Pending) \ {requestQueue[i]} = InFlight' \cup Pending'
    BY <1>1, <2>1
  <2> QED BY <2>2, <2>3
<1>4. Provider!NothingWaitsInVain'
  BY DEF Provider!NothingWaitsInVain
<1> QED BY <1>1, <1>2, <1>3, <1>4 DEF RequestInv

LEMMA RejectPendingKeeps ==
  ASSUME RequestInv, NEW t \in Requests, Provider!RejectPending(t)
  PROVE  RequestInv'
<1>1. PICK i \in DOMAIN requestQueue : requestQueue[i] = t /\ requestQueue' = RemoveAt(requestQueue, i)
  BY DEF Provider!RejectPending, Provider!RemoveAt, RemoveAt
<1>2. requestQueue \in Seq(Pending) /\ i \in 1 .. Len(requestQueue)
  BY LenProperties DEF RequestInv, Lists
<1>3. requestQueue' \in Seq(Pending) /\ Without(requestQueue', requestQueue, i)
  BY <1>1, <1>2, RemovedAt
<1>4. /\ Provider!Unregister(requestQueue[i]) /\ Provider!Settle(requestQueue[i], "dropped")
      /\ Provider!Fresh(requestQueue[i]) /\ UNCHANGED <<cursor, requestsClosed>>
      /\ requestLoop' \in {"drain", "close"} /\ (requestLoop' = "close" => requestsClosed)
  BY <1>1 DEF Provider!RejectPending
<1> QED BY <1>3, <1>4, RejectedKeeps

LEMMA CloseRejectsKeeps ==
  ASSUME RequestInv, Provider!CloseRejects
  PROVE  RequestInv'
<1>1. requestQueue \in Seq(Pending) /\ requestQueue # <<>>
  BY DEF RequestInv, Lists, Provider!CloseRejects
<1>2. /\ 1 \in DOMAIN requestQueue /\ Head(requestQueue) = requestQueue[1]
      /\ Tail(requestQueue) \in Seq(Pending) /\ Without(Tail(requestQueue), requestQueue, 1)
  BY <1>1, HeadGone
<1>3. requestQueue' \in Seq(Pending) /\ Without(requestQueue', requestQueue, 1)
  BY <1>2 DEF Provider!CloseRejects
<1>4. /\ Provider!Unregister(requestQueue[1]) /\ Provider!Settle(requestQueue[1], "dropped")
      /\ Provider!Fresh(requestQueue[1]) /\ UNCHANGED <<cursor, requestsClosed>>
      /\ requestLoop' \in {"drain", "close"} /\ (requestLoop' = "close" => requestsClosed)
  BY <1>2 DEF Provider!CloseRejects, RequestInv, RequestsTyped
<1> QED BY <1>2, <1>3, <1>4, RejectedKeeps

LEMMA AgesStepKeeps ==
  ASSUME RequestInv, NEW i \in DOMAIN requestQueue, Provider!Ages(i)
  PROVE  RequestInv'
<1>1. PICK t \in Requests : t = requestQueue[i]
  BY RequestFacts
<1>2. /\ age[t] < 2 /\ age' = [age EXCEPT ![t] = @ + 1]
      /\ \A j \in 1 .. i - 1 : age[requestQueue[j]] > age[t]
      /\ UNCHANGED <<requestPhase, requestQueue, order, nextOrder, cursor, requestsClosed, requestLoop>>
  BY <1>1 DEF Provider!Ages
<1>3. /\ age' \in [Requests -> 0 .. 2] /\ age'[t] = age[t] + 1
      /\ \A u \in Requests : u # t => age'[u] = age[u]
  BY <1>2 DEF RequestInv, RequestsTyped
<1>4. InFlight' = InFlight /\ Pending' = Pending
  BY <1>2 DEF InFlight, Pending, Provider!In
<1>5. RequestsTyped'
  BY <1>2, <1>3 DEF RequestInv, RequestsTyped
<1>6. AgesKept'
  <2>1. PICK n \in Nat : DOMAIN requestQueue = 1 .. n
    BY RequestFacts, LenProperties
  <2>2. /\ \A j \in 1 .. n : requestQueue[j] \in Requests
        /\ \A j, k \in 1 .. n : requestQueue[j] = requestQueue[k] => j = k
        /\ \A j, k \in 1 .. n : j < k => age[requestQueue[j]] >= age[requestQueue[k]]
        /\ \A u \in Requests : age[u] \in 0 .. 2
    BY <2>1, RequestFacts DEF RequestInv, Lists, AgesKept, Falling, RequestsTyped
  <2>3. ASSUME NEW j \in 1 .. n, NEW k \in 1 .. n, j < k
        PROVE  age'[requestQueue[j]] >= age'[requestQueue[k]]
    <3>1. CASE k = i
      <4>1. age[requestQueue[j]] > age[t] /\ j # i
        BY <1>2, <2>1, <2>3, <3>1
      <4>2. requestQueue[j] # t /\ requestQueue[j] \in Requests
        BY <1>1, <2>1, <2>2, <4>1
      <4> QED BY <1>1, <1>3, <2>2, <3>1, <4>1, <4>2
    <3>2. CASE k # i
      <4>1. requestQueue[k] # t /\ requestQueue[k] \in Requests /\ requestQueue[j] \in Requests
        BY <1>1, <2>1, <2>2, <3>2
      <4>2. age'[requestQueue[k]] = age[requestQueue[k]]
        BY <1>3, <4>1
      <4>3. age'[requestQueue[j]] >= age[requestQueue[j]]
        BY <1>3, <2>2, <4>1
      <4>4. age'[requestQueue[j]] \in 0 .. 2
        BY <1>3, <4>1
      <4> QED BY <2>2, <2>3, <4>1, <4>2, <4>3, <4>4
    <3> QED BY <3>1, <3>2
  <2>4. t \in Pending
    BY <1>1, RequestFacts
  <2>5. \A u \in Requests : requestPhase[u] # "queued" => age'[u] = 0
    BY <1>3, <2>4, RequestFacts DEF RequestInv, AgesKept
  <2> QED BY <1>2, <2>1, <2>3, <2>5 DEF AgesKept, Falling
<1>7. Lists(requestQueue, Pending)' /\ OrdersFor(order, nextOrder, InFlight \cup Pending)'
  BY <1>2, <1>4 DEF RequestInv
<1>8. Provider!NothingWaitsInVain'
  BY <1>2, <1>4, SameEligible DEF RequestInv, Provider!NothingWaitsInVain
<1> QED BY <1>5, <1>6, <1>7, <1>8 DEF RequestInv

\* The other steps only change what the loop does.
LEMMA LoopKeeps ==
  ASSUME RequestInv,
         Provider!DrainStop \/ Provider!Close \/ Provider!CloseDone \/ UNCHANGED requestVars
  PROVE  RequestInv'
<1>1. /\ UNCHANGED <<requestPhase, requestQueue, order, nextOrder, cursor, age>>
      /\ requestsClosed' \in BOOLEAN /\ requestLoop' \in {"idle", "drain", "close"}
      /\ requestLoop' = "close" => requestsClosed'
  BY DEF Provider!DrainStop, Provider!Close, Provider!CloseDone, requestVars,
         RequestInv, RequestsTyped
<1>2. InFlight' = InFlight /\ Pending' = Pending
  BY <1>1 DEF InFlight, Pending, Provider!In
<1>3. RequestsTyped' /\ AgesKept'
  BY <1>1 DEF RequestInv, RequestsTyped, AgesKept
<1>4. Lists(requestQueue, Pending)' /\ OrdersFor(order, nextOrder, InFlight \cup Pending)'
  BY <1>1, <1>2 DEF RequestInv
<1>5. Provider!NothingWaitsInVain'
  <2>1. Provider!Eligible' = Provider!Eligible
    BY <1>1, <1>2, SameEligible
  <2>2. requestLoop' = "idle" /\ ~requestsClosed' =>
          Provider!Eligible = {} \/ (requestLoop = "idle" /\ ~requestsClosed)
    BY DEF Provider!DrainStop, Provider!Close, Provider!CloseDone, requestVars,
           RequestInv, RequestsTyped
  <2> QED BY <2>1, <2>2 DEF RequestInv, Provider!NothingWaitsInVain
<1> QED BY <1>3, <1>4, <1>5 DEF RequestInv

LEMMA NextRequests == RequestInv /\ [Provider!Next]_requestVars => RequestInv'
<1> SUFFICES ASSUME RequestInv, [Provider!Next]_requestVars
             PROVE  RequestInv'
  OBVIOUS
<1>1. ASSUME NEW t \in Requests,
             \/ Provider!Refuse(t) \/ Provider!StartNow(t) \/ Provider!Enqueue(t)
             \/ Provider!Release(t) \/ Provider!RejectPending(t)
      PROVE  RequestInv'
  BY <1>1, RefuseKeeps, StartNowKeeps, EnqueueKeeps, ReleaseKeeps, RejectPendingKeeps
<1>2. ASSUME NEW i \in DOMAIN requestQueue, Provider!Ages(i)
      PROVE  RequestInv'
  BY <1>2, AgesStepKeeps
<1> QED
  BY <1>1, <1>2, DrainAdmitKeeps, CloseRejectsKeeps, LoopKeeps DEF Provider!Next

\* The invariant in the words of the component: its type, its orders.
LEMMA RequestInvMeans ==
  ASSUME RequestInv
  PROVE  Provider!TypeOK /\ Provider!NothingWaitsInVain /\ Provider!OrdersAreOwners
<1>1. Provider!IsInjective(requestQueue)
  BY DEF RequestInv, Lists, Provider!IsInjective
<1>2. Provider!ToSet(requestQueue) = Provider!In("queued")
  BY RequestFacts DEF RequestInv, Lists, Provider!ToSet, Pending
<1>3. Provider!TypeOK
  BY <1>1, <1>2, RequestFacts
  DEF RequestInv, RequestsTyped, RequestPhases, OrdersFor, Provider!TypeOK
<1>4. Provider!OrdersAreOwners
  BY DEF RequestInv, OrdersFor, Provider!OrdersAreOwners, InFlight, Pending
<1> QED BY <1>3, <1>4 DEF RequestInv

-----------------------------------------------------------------------------
(* Turns *)

\* Requests alike in owner, domain and class can start together or not at all.
LEMMA AlikeStart ==
  ASSUME NEW t \in Requests, NEW u \in Requests, RequestOwner[t] = RequestOwner[u],
         DomainOf[t] = DomainOf[u], ClassOf[t] = ClassOf[u], Provider!CanStart(t)
  PROVE  Provider!CanStart(u)
<1>1. \A g \in Provider!Groups : Provider!InGroup(t, g) <=> Provider!InGroup(u, g)
  BY DEF Provider!InGroup
<1>2. ASSUME NEW g, NEW s
      PROVE  Provider!Peers(t, g, s) = Provider!Peers(u, g, s)
  BY DEF Provider!Peers, Provider!SameScope
<1> QED BY <1>1, <1>2 DEF Provider!CanStart

RequestsInTurn ==
  \A i, j \in DOMAIN requestQueue :
     /\ i < j /\ requestLoop = "drain"
     /\ RequestOwner[requestQueue[i]] = RequestOwner[requestQueue[j]]
     /\ DomainOf[requestQueue[i]] = DomainOf[requestQueue[j]]
     /\ ClassOf[requestQueue[i]] = ClassOf[requestQueue[j]]
     => ~(requestPhase[requestQueue[j]] = "queued" /\ requestPhase'[requestQueue[j]] = "running")

LEMMA DrainInTurn ==
  ASSUME RequestInv, Provider!DrainAdmit
  PROVE  RequestsInTurn
<1> SUFFICES ASSUME NEW i \in DOMAIN requestQueue, NEW j \in DOMAIN requestQueue, i < j,
                    RequestOwner[requestQueue[i]] = RequestOwner[requestQueue[j]],
                    DomainOf[requestQueue[i]] = DomainOf[requestQueue[j]],
                    ClassOf[requestQueue[i]] = ClassOf[requestQueue[j]],
                    requestPhase[requestQueue[j]] = "queued",
                    requestPhase'[requestQueue[j]] = "running"
             PROVE  FALSE
  BY DEF RequestsInTurn
<1>1. PICK k \in Provider!Eligible :
        Provider!IsNext(k) /\ Provider!Settle(requestQueue[k], "running")
  BY DEF Provider!DrainAdmit
<1>2. PICK n \in Nat : DOMAIN requestQueue = 1 .. n
  BY RequestFacts, LenProperties
<1>3. k \in DOMAIN requestQueue /\ Provider!CanStart(requestQueue[k])
  BY DEF Provider!Eligible
<1>4. requestQueue[j] = requestQueue[k]
  BY <1>1, RequestFacts DEF Provider!Settle
<1>5. k = j
  BY <1>3, <1>4 DEF RequestInv, Lists
<1>6. requestQueue[i] \in Requests /\ requestQueue[j] \in Requests
  BY RequestFacts
<1>7. i \in Provider!Eligible
  BY <1>3, <1>5, <1>6, AlikeStart DEF Provider!Eligible
<1>8. Provider!Better(j, i)
  <2>1. j \in Provider!BestOfOwner /\ i # j
    BY <1>1, <1>2, <1>5 DEF Provider!IsNext, Provider!BestRanked
  <2> QED BY <1>7, <2>1 DEF Provider!BestOfOwner
<1>9. PICK t \in Requests, u \in Requests : t = requestQueue[i] /\ u = requestQueue[j]
  BY <1>6
<1>10. age[t] >= age[u] /\ age[t] \in 0 .. 2 /\ age[u] \in 0 .. 2
  BY <1>9 DEF RequestInv, AgesKept, Falling, RequestsTyped
<1>11. Provider!BaseRank(t) = Provider!BaseRank(u) /\ Provider!BaseRank(t) \in 0 .. 2
  <2>1. ClassOf[t] = ClassOf[u]
    BY <1>9
  <2> QED BY <2>1 DEF Provider!BaseRank
<1>12. Provider!Rank(t) <= Provider!Rank(u)
  BY <1>10, <1>11 DEF Provider!Rank
<1>13. Provider!Rank(u) < Provider!Rank(t) \/ (Provider!Rank(t) = Provider!Rank(u) /\ j < i)
  BY <1>8, <1>9 DEF Provider!Better
<1>14. Provider!Rank(t) \in Int /\ Provider!Rank(u) \in Int
  BY <1>10, <1>11 DEF Provider!Rank
<1> QED BY <1>2, <1>12, <1>13, <1>14

LEMMA StepInTurn ==
  ASSUME RequestInv, [Provider!Next]_requestVars
  PROVE  RequestsInTurn
<1>1. requestPhase \in [Requests -> RequestPhases]
  BY RequestFacts
<1>2. CASE requestLoop # "drain"
  BY <1>2 DEF RequestsInTurn
<1>3. CASE Provider!DrainAdmit
  BY <1>3, DrainInTurn
<1>4. CASE UNCHANGED requestPhase
  BY <1>4 DEF RequestsInTurn
<1>5. requestLoop # "drain" \/ Provider!DrainAdmit \/ UNCHANGED requestPhase
  BY DEF Provider!Next, Provider!Refuse, Provider!StartNow, Provider!Enqueue, Provider!Release,
         Provider!RejectPending, Provider!Ages, Provider!DrainStop, Provider!Close,
         Provider!CloseRejects, Provider!CloseDone, requestVars
<1> QED BY <1>2, <1>3, <1>4, <1>5

-----------------------------------------------------------------------------
(* The permit pool *)

\* Holders and outsiders of the pool, in terms of phases, and what a step does to them.
LEMMA RequestPoolPhase ==
  ASSUME requestPhase \in [Requests -> RequestPhases]
  PROVE  /\ Provider!Pool!Holders = InFlight
         /\ \A t \in Requests :
              /\ requestPhase[t] = "new" => Provider!PoolPhase[t] = "outside"
              /\ requestPhase[t] = "queued" => Provider!PoolPhase[t] = "waiting"
              /\ requestPhase[t] = "running" => Provider!PoolPhase[t] = "holding"
<1>1. \A t \in Requests :
        /\ requestPhase[t] = "new" => Provider!PoolPhase[t] = "outside"
        /\ requestPhase[t] = "queued" => Provider!PoolPhase[t] = "waiting"
        /\ requestPhase[t] = "running" => Provider!PoolPhase[t] = "holding"
        /\ Provider!PoolPhase[t] = "holding" => requestPhase[t] = "running"
  BY DEF Provider!PoolPhase, RequestPhases
<1>2. Provider!Pool!Holders = InFlight
  BY <1>1 DEF Provider!Pool!Holders, InFlight, Provider!In
<1> QED BY <1>1, <1>2

LEMMA RequestPoolStep ==
  ASSUME requestPhase \in [Requests -> RequestPhases], NEW t \in Requests,
         NEW p \in RequestPhases, Provider!Settle(t, p)
  PROVE  Provider!PoolPhase' =
           [Provider!PoolPhase EXCEPT ![t] =
              CASE p = "new" -> "outside" [] p = "queued" -> "waiting"
                [] p = "running" -> "holding" [] OTHER -> "gone"]
<1>1. \A u \in Requests : requestPhase'[u] = IF u = t THEN p ELSE requestPhase[u]
  BY DEF Provider!Settle
<1>2. \A u \in Requests : u # t => Provider!PoolPhase'[u] = Provider!PoolPhase[u]
  BY <1>1 DEF Provider!PoolPhase
<1>3. Provider!PoolPhase'[t] = CASE p = "new" -> "outside" [] p = "queued" -> "waiting"
                                 [] p = "running" -> "holding" [] OTHER -> "gone"
  BY <1>1 DEF Provider!PoolPhase
<1>4. /\ Provider!PoolPhase = [u \in Requests |-> Provider!PoolPhase[u]]
      /\ Provider!PoolPhase' = [u \in Requests |-> Provider!PoolPhase'[u]]
  BY DEF Provider!PoolPhase
<1> QED BY <1>2, <1>3, <1>4

\* canStart looks at the same counts as the quotas.
LEMMA StartHasRoom ==
  ASSUME RequestInv, NEW t \in Requests, Provider!CanStart(t)
  PROVE  Provider!Pool!HasRoom(t)
<1> SUFFICES ASSUME NEW u \in Requests, NEW ls \in Provider!StartLimits,
                    t \in Provider!Peers(u, ls[1], ls[2])
             PROVE  Cardinality(InFlight \cap Provider!Peers(u, ls[1], ls[2]))
                      < Provider!InFlightLimit(ls[1], ls[2])
  <2>1. Provider!Pool!Holders = InFlight
    BY RequestFacts, RequestPoolPhase
  <2>2. \A S : Provider!Pool!Cardinality(S) = Cardinality(S)
    BY DEF Provider!Pool!Cardinality, Cardinality
  <2> QED BY <2>1, <2>2 DEF Provider!Pool!HasRoom
<1>1. PICK g \in Provider!Groups, s \in Provider!Scopes : ls = <<g, s>>
  BY DEF Provider!StartLimits
<1>2. Provider!InGroup(t, g)
  BY <1>1 DEF Provider!Peers
<1>3. Provider!Peers(t, g, s) = Provider!Peers(u, g, s)
  BY <1>1 DEF Provider!Peers, Provider!SameScope
<1>4. Provider!Cardinality(Provider!In("running") \cap Provider!Peers(t, g, s)) < Provider!InFlightLimit(g, s)
  BY <1>1, <1>2 DEF Provider!CanStart
<1>5. \A S : Provider!Cardinality(S) = Cardinality(S)
  BY DEF Provider!Cardinality, Cardinality
<1> QED BY <1>1, <1>3, <1>4, <1>5 DEF InFlight

LEMMA StepOfPool ==
  ASSUME RequestInv, [Provider!Next]_requestVars
  PROVE  Provider!Pool!Next \/ UNCHANGED Provider!PoolPhase
<1> USE DEF RequestPhases
<1>1. ASSUME NEW t \in Requests, Provider!Refuse(t)
      PROVE  Provider!Pool!Drop(t)
  <2>1. Provider!PoolPhase[t] = "outside" /\ Provider!Settle(t, "dropped")
    BY <1>1, RequestFacts, RequestPoolPhase DEF Provider!Refuse
  <2>2. Provider!PoolPhase' = [Provider!PoolPhase EXCEPT ![t] = "gone"]
    BY <2>1, RequestFacts, RequestPoolStep
  <2> QED BY <2>1, <2>2 DEF Provider!Pool!Drop
<1>2. ASSUME NEW t \in Requests, Provider!StartNow(t)
      PROVE  Provider!Pool!Grant(t)
  <2>1. Provider!PoolPhase[t] = "outside" /\ Provider!Settle(t, "running")
    BY <1>2, RequestFacts, RequestPoolPhase DEF Provider!StartNow
  <2>2. Provider!PoolPhase' = [Provider!PoolPhase EXCEPT ![t] = "holding"]
    BY <2>1, RequestFacts, RequestPoolStep
  <2>3. Provider!Pool!HasRoom(t)
    BY <1>2, StartHasRoom DEF Provider!StartNow
  <2> QED BY <2>1, <2>2, <2>3 DEF Provider!Pool!Grant
<1>3. ASSUME NEW t \in Requests, Provider!Enqueue(t)
      PROVE  Provider!Pool!Wait(t)
  <2>1. Provider!PoolPhase[t] = "outside" /\ Provider!Settle(t, "queued")
    BY <1>3, RequestFacts, RequestPoolPhase DEF Provider!Enqueue
  <2>2. Provider!PoolPhase' = [Provider!PoolPhase EXCEPT ![t] = "waiting"]
    BY <2>1, RequestFacts, RequestPoolStep
  <2> QED BY <2>1, <2>2 DEF Provider!Pool!Wait
<1>4. ASSUME NEW t \in Requests, Provider!Release(t)
      PROVE  Provider!Pool!Return(t)
  <2>1. Provider!PoolPhase[t] = "holding" /\ Provider!Settle(t, "finished")
    BY <1>4, RequestFacts, RequestPoolPhase DEF Provider!Release
  <2>2. Provider!PoolPhase' = [Provider!PoolPhase EXCEPT ![t] = "gone"]
    BY <2>1, RequestFacts, RequestPoolStep
  <2> QED BY <2>1, <2>2 DEF Provider!Pool!Return
<1>5. ASSUME NEW t \in Pending, Provider!Settle(t, "dropped")
      PROVE  t \in Requests /\ Provider!Pool!Drop(t)
  <2>1. t \in Requests /\ Provider!PoolPhase[t] = "waiting"
    BY RequestFacts, RequestPoolPhase
  <2>2. Provider!PoolPhase' = [Provider!PoolPhase EXCEPT ![t] = "gone"]
    BY <1>5, <2>1, RequestFacts, RequestPoolStep
  <2> QED BY <2>1, <2>2 DEF Provider!Pool!Drop
<1>6. ASSUME NEW t \in Requests, Provider!RejectPending(t)
      PROVE  Provider!Pool!Drop(t)
  <2>1. t \in Pending /\ Provider!Settle(t, "dropped")
    BY <1>6, RequestFacts DEF Provider!RejectPending
  <2> QED BY <1>5, <2>1
<1>7. ASSUME Provider!CloseRejects
      PROVE  \E t \in Requests : Provider!Pool!Drop(t)
  <2>1. requestQueue # <<>> /\ Provider!Settle(Head(requestQueue), "dropped")
    BY <1>7 DEF Provider!CloseRejects
  <2>2. 1 \in DOMAIN requestQueue /\ Head(requestQueue) = requestQueue[1]
    BY <2>1, RequestFacts, HeadGone
  <2>3. Head(requestQueue) \in Pending
    BY <2>2, RequestFacts
  <2> QED BY <1>5, <2>1, <2>3
<1>8. ASSUME Provider!DrainAdmit
      PROVE  \E t \in Requests : Provider!Pool!Grant(t)
  <2>1. PICK i \in Provider!Eligible : Provider!Settle(requestQueue[i], "running")
    BY <1>8 DEF Provider!DrainAdmit
  <2>2. PICK t \in Pending : t = requestQueue[i] /\ Provider!CanStart(t)
    BY RequestFacts DEF Provider!Eligible
  <2>3. t \in Requests /\ Provider!PoolPhase[t] = "waiting"
    BY RequestFacts, RequestPoolPhase
  <2>4. Provider!PoolPhase' = [Provider!PoolPhase EXCEPT ![t] = "holding"]
    BY <2>1, <2>2, <2>3, RequestFacts, RequestPoolStep
  <2>5. Provider!Pool!HasRoom(t)
    BY <2>2, <2>3, StartHasRoom
  <2> QED BY <2>3, <2>4, <2>5 DEF Provider!Pool!Grant
<1>9. ASSUME UNCHANGED requestPhase
      PROVE  UNCHANGED Provider!PoolPhase
  BY <1>9 DEF Provider!PoolPhase
<1>10. \/ \E t \in Requests :
             \/ Provider!Refuse(t) \/ Provider!StartNow(t) \/ Provider!Enqueue(t)
             \/ Provider!Release(t) \/ Provider!RejectPending(t)
       \/ Provider!CloseRejects \/ Provider!DrainAdmit \/ UNCHANGED requestPhase
  BY DEF Provider!Next, Provider!Ages, Provider!DrainStop, Provider!Close, Provider!CloseDone,
         requestVars
<1> QED
  BY <1>1, <1>2, <1>3, <1>4, <1>6, <1>7, <1>8, <1>9, <1>10 DEF Provider!Pool!Next

-----------------------------------------------------------------------------
(* The limits: a pool that looks for room before each grant exceeds none *)

Places ==
  {<<Provider!Peers(t, ls[1], ls[2]), Provider!InFlightLimit(ls[1], ls[2])>> :
     t \in Requests, ls \in Provider!StartLimits}

HoldersWithin(H) == \A q \in Places : Cardinality(H \cap q[1]) <= q[2]

\* Of every group no more run in a scope than its limit.
WithinLimits == HoldersWithin(InFlight)

LEMMA PlacesAreLimits == \A q \in Places : q[2] \in Nat
<1> SUFFICES ASSUME NEW ls \in Provider!StartLimits
             PROVE  Provider!InFlightLimit(ls[1], ls[2]) \in Nat
  BY DEF Places
<1>1. PICK g \in Provider!Groups, s \in Provider!Scopes : ls = <<g, s>>
  BY DEF Provider!StartLimits
<1>2. \A h \in Provider!Groups, u \in Provider!Scopes : MaxInFlight[h][u] \in Nat \ {0}
  BY RequestsAssumption DEF Provider!AdmissionAssumption
<1>3. MaxInFlight[g][s] \in Nat
  BY <1>2
<1>4. MaxInFlight["all"]["domain"] \in Nat \ {0}
  BY <1>2 DEF Provider!Groups, Provider!Scopes
<1>5. (IF MaxInFlight["all"]["domain"] > 1 THEN MaxInFlight["all"]["domain"] - 1 ELSE 1) \in Nat
  BY <1>4
<1> QED BY <1>1, <1>3, <1>5 DEF Provider!InFlightLimit

LEMMA RoomInPlaces ==
  ASSUME NEW t \in Requests, Provider!Pool!HasRoom(t)
  PROVE  \A q \in Places : t \in q[1] => Cardinality(Provider!Pool!Holders \cap q[1]) < q[2]
<1>1. \A S : Provider!Pool!Cardinality(S) = Cardinality(S)
  BY DEF Provider!Pool!Cardinality, Cardinality
<1> QED BY <1>1 DEF Provider!Pool!HasRoom, Places

LEMMA OneMoreHolder ==
  ASSUME NEW H \in SUBSET Requests, HoldersWithin(H), NEW t \in Requests, t \notin H,
         \A q \in Places : t \in q[1] => Cardinality(H \cap q[1]) < q[2]
  PROVE  HoldersWithin(H \cup {t})
<1> SUFFICES ASSUME NEW q \in Places
             PROVE  Cardinality((H \cup {t}) \cap q[1]) <= q[2]
  BY DEF HoldersWithin
<1>1. PICK S, T : S = H \cap q[1] /\ T = (H \cup {t}) \cap q[1]
  OBVIOUS
<1>2. IsFiniteSet(S)
  <2>1. IsFiniteSet(Requests) /\ S \in SUBSET Requests
    BY <1>1, RequestsAssumption DEF Provider!AdmissionAssumption, Provider!IsFiniteSet, IsFiniteSet
  <2> QED BY <2>1, FS_Subset
<1>3. Cardinality(S) \in Nat /\ Cardinality(S) <= q[2] /\ q[2] \in Nat
  BY <1>1, <1>2, FS_CardinalityType, PlacesAreLimits DEF HoldersWithin
<1>4. CASE t \in q[1]
  <2>1. T = S \cup {t} /\ t \notin S /\ Cardinality(S) < q[2]
    BY <1>1, <1>4
  <2>2. Cardinality(T) = Cardinality(S) + 1
    BY <1>2, <2>1, FS_AddElement
  <2> QED BY <1>1, <1>3, <2>1, <2>2
<1>5. CASE t \notin q[1]
  BY <1>1, <1>3, <1>5
<1> QED BY <1>4, <1>5

LEMMA FewerHolders ==
  ASSUME NEW H \in SUBSET Requests, HoldersWithin(H), NEW G \in SUBSET H
  PROVE  HoldersWithin(G)
<1> SUFFICES ASSUME NEW q \in Places PROVE Cardinality(G \cap q[1]) <= q[2]
  BY DEF HoldersWithin
<1>0. PICK S, T : S = H \cap q[1] /\ T = G \cap q[1]
  OBVIOUS
<1>1. S = H \cap q[1] /\ T = G \cap q[1] /\ T \in SUBSET S
  BY <1>0
<1>2. IsFiniteSet(S)
  <2>1. IsFiniteSet(Requests) /\ S \in SUBSET Requests
    BY <1>1, RequestsAssumption DEF Provider!AdmissionAssumption, Provider!IsFiniteSet, IsFiniteSet
  <2> QED BY <2>1, FS_Subset
<1>3. IsFiniteSet(T) /\ Cardinality(T) <= Cardinality(S)
  BY <1>1, <1>2, FS_Subset
<1>4. Cardinality(S) <= q[2] /\ q[2] \in Nat /\ Cardinality(S) \in Nat /\ Cardinality(T) \in Nat
  BY <1>1, <1>2, <1>3, FS_CardinalityType, PlacesAreLimits DEF HoldersWithin
<1> QED BY <1>1, <1>3, <1>4

LEMMA StepWithinLimits ==
  ASSUME RequestInv, requestPhase' \in [Requests -> RequestPhases], WithinLimits,
         [Provider!Next]_requestVars
  PROVE  WithinLimits'
<1>1. PICK H : H = Provider!Pool!Holders /\ H = InFlight /\ H \in SUBSET Requests /\ HoldersWithin(H)
  BY RequestFacts, RequestPoolPhase DEF WithinLimits
<1>2. /\ Provider!PoolPhase = [u \in Requests |-> Provider!PoolPhase[u]]
      /\ \A u \in Requests : u \in H <=> Provider!PoolPhase[u] = "holding"
  BY <1>1 DEF Provider!PoolPhase, Provider!Pool!Holders
<1>3. PICK G : G = InFlight' /\ G = {u \in Requests : Provider!PoolPhase'[u] = "holding"}
  <2>1. \A u \in Requests : Provider!PoolPhase'[u] = "holding" <=> requestPhase'[u] = "running"
    BY DEF Provider!PoolPhase, RequestPhases
  <2> QED BY <2>1 DEF InFlight, Provider!In
<1>4. CASE UNCHANGED Provider!PoolPhase
  <2>1. G = H
    BY <1>1, <1>2, <1>3, <1>4
  <2> QED BY <1>1, <1>3, <2>1 DEF WithinLimits, HoldersWithin, Places
<1>5. ASSUME NEW t \in Requests, Provider!Pool!Grant(t)
      PROVE  HoldersWithin(G)
  <2>1. t \notin H
    BY <1>2, <1>5 DEF Provider!Pool!Grant
  <2>2. \A u \in Requests : Provider!PoolPhase'[u] = "holding" <=> u \in H \cup {t}
    BY <1>2, <1>5 DEF Provider!Pool!Grant
  <2>3. G = H \cup {t}
    BY <1>1, <1>3, <2>2
  <2>4. \A q \in Places : t \in q[1] => Cardinality(H \cap q[1]) < q[2]
    BY <1>1, <1>5, RoomInPlaces DEF Provider!Pool!Grant
  <2> QED BY <1>1, <2>1, <2>3, <2>4, OneMoreHolder
<1>6. ASSUME NEW t \in Requests,
             Provider!Pool!Wait(t) \/ Provider!Pool!Drop(t) \/ Provider!Pool!Return(t)
      PROVE  HoldersWithin(G)
  <2>1. \A u \in Requests : Provider!PoolPhase'[u] = "holding" => u \in H
    BY <1>2, <1>6 DEF Provider!Pool!Wait, Provider!Pool!Drop, Provider!Pool!Return
  <2>2. G \in SUBSET H
    BY <1>3, <2>1
  <2> QED BY <1>1, <2>2, FewerHolders
<1>7. HoldersWithin(G) => WithinLimits'
  BY <1>3 DEF WithinLimits, HoldersWithin, Places
<1> QED BY <1>4, <1>5, <1>6, <1>7, StepOfPool DEF Provider!Pool!Next

LEMMA InitWithinLimits == RequestInv /\ Provider!Init => WithinLimits
<1> SUFFICES ASSUME RequestInv, Provider!Init PROVE WithinLimits
  OBVIOUS
<1>1. InFlight = {}
  BY DEF Provider!Init, InFlight, Provider!In
<1>2. HoldersWithin({})
  <2>1. \A q \in Places : Cardinality({} \cap q[1]) = 0
    BY FS_EmptySet
  <2> QED BY <2>1, PlacesAreLimits DEF HoldersWithin
<1> QED BY <1>1, <1>2 DEF WithinLimits

-----------------------------------------------------------------------------
(* Runs of tasks *)

\* The bytes of runs, one by one.
Units(S) == UNION {{r} \X (1 .. RunBytes[r]) : r \in S}

LEMMA BytesAreUnits ==
  ASSUME NEW S
  PROVE  TaskRuns!SumBytes(S) = Cardinality(Units(S))
<1>1. \A T : TaskRuns!Cardinality(T) = Cardinality(T)
  BY DEF TaskRuns!Cardinality, Cardinality
<1> QED BY <1>1 DEF TaskRuns!SumBytes, Units

LEMMA RunsFinite ==
  /\ IsFiniteSet(Runs) /\ \A S \in SUBSET Runs : IsFiniteSet(S)
  /\ \A r \in Runs : RunBytes[r] \in Nat \ {0}
<1>1. IsFiniteSet(Runs) /\ \A r \in Runs : RunBytes[r] \in Nat \ {0}
  <2>1. TaskRuns!IsFiniteSet(Runs) <=> IsFiniteSet(Runs)
    BY DEF TaskRuns!IsFiniteSet, IsFiniteSet
  <2> QED BY <2>1, RunsAssumption DEF TaskRuns!TaskAdmissionAssumption
<1> QED BY <1>1, FS_Subset

LEMMA UnitsFinite ==
  ASSUME NEW S \in SUBSET Runs
  PROVE  IsFiniteSet(Units(S))
<1> DEFINE T == {{r} \X (1 .. RunBytes[r]) : r \in S}
           f == [r \in S |-> {r} \X (1 .. RunBytes[r])]
<1>1. f \in Surjection(S, T)
  BY DEF Surjection
<1>2. IsFiniteSet(T)
  <2> HIDE DEF f, T
  <2> QED BY <1>1, RunsFinite, FS_Surjection
<1>3. ASSUME NEW r \in S
      PROVE  IsFiniteSet({r} \X (1 .. RunBytes[r]))
  <2>1. IsFiniteSet({r}) /\ IsFiniteSet(1 .. RunBytes[r])
    BY RunsFinite, FS_Singleton, FS_Interval
  <2> QED BY <2>1, FS_Product
<1>4. \A U \in T : IsFiniteSet(U)
  BY <1>3
<1> QED BY <1>2, <1>4, FS_UNION DEF Units

\* Bytes of disjoint sets of runs add up.
LEMMA BytesAdd ==
  ASSUME NEW S \in SUBSET Runs, NEW T \in SUBSET Runs, S \cap T = {}
  PROVE  /\ TaskRuns!SumBytes(S) \in Nat /\ TaskRuns!SumBytes(T) \in Nat
         /\ TaskRuns!SumBytes(S \cup T) = TaskRuns!SumBytes(S) + TaskRuns!SumBytes(T)
<1>1. IsFiniteSet(Units(S)) /\ IsFiniteSet(Units(T))
  BY UnitsFinite
<1>2. Units(S \cup T) = Units(S) \cup Units(T)
  BY DEF Units
<1>3. Units(S) \cap Units(T) = {}
  <2> SUFFICES ASSUME NEW u \in Units(S), u \in Units(T) PROVE FALSE
    OBVIOUS
  <2>1. PICK r \in S : u \in {r} \X (1 .. RunBytes[r])
    BY DEF Units
  <2>2. PICK v \in T : u \in {v} \X (1 .. RunBytes[v])
    BY DEF Units
  <2>3. u[1] = r /\ u[1] = v
    BY <2>1, <2>2
  <2> QED BY <2>3
<1>4. Cardinality(Units(S)) \in Nat /\ Cardinality(Units(T)) \in Nat
  BY <1>1, FS_CardinalityType
<1>5. Cardinality(Units(S) \cap Units(T)) = 0
  BY <1>3, FS_EmptySet
<1>6. Cardinality(Units(S) \cup Units(T))
        = Cardinality(Units(S)) + Cardinality(Units(T)) - Cardinality(Units(S) \cap Units(T))
  BY <1>1, FS_Union
<1>7. /\ TaskRuns!SumBytes(S) = Cardinality(Units(S))
      /\ TaskRuns!SumBytes(T) = Cardinality(Units(T))
      /\ TaskRuns!SumBytes(S \cup T) = Cardinality(Units(S \cup T))
  BY BytesAreUnits
<1>8. Cardinality(Units(S) \cup Units(T)) = Cardinality(Units(S)) + Cardinality(Units(T))
  BY <1>4, <1>5, <1>6
<1> QED BY <1>2, <1>4, <1>7, <1>8

LEMMA BytesOne ==
  ASSUME NEW r \in Runs
  PROVE  TaskRuns!SumBytes({r}) = RunBytes[r]
<1>1. Units({r}) = {r} \X (1 .. RunBytes[r])
  BY DEF Units
<1>2. IsFiniteSet({r}) /\ Cardinality({r}) = 1
  BY FS_Singleton
<1>3. PICK b \in Nat : b = RunBytes[r]
  BY RunsFinite
<1>4. IsFiniteSet(1 .. b) /\ Cardinality(1 .. b) = b
  BY FS_Interval
<1>5. Cardinality({r} \X (1 .. b)) = Cardinality({r}) * Cardinality(1 .. b)
  BY <1>2, <1>4, FS_Product
<1>6. Cardinality({r} \X (1 .. b)) = b
  BY <1>2, <1>3, <1>4, <1>5
<1>7. TaskRuns!SumBytes({r}) = Cardinality(Units({r}))
  BY BytesAreUnits
<1> QED BY <1>1, <1>3, <1>6, <1>7

RunPhases == {"new", "queued", "running", "released", "cancelled", "refused"}

RunningIn(s) == {r \in Runs : s.phase[r] = "running"}
QueuedIn(s) == {r \in Runs : s.phase[r] = "queued"}
LiveIn(s) == RunningIn(s) \cup QueuedIn(s)

PoolTyped(s) ==
  s \in [queue : Seq(Runs), inFlight : Nat, bytes : Nat,
         keys : SUBSET {RunKey[r] : r \in Runs}, phase : [Runs -> RunPhases]]

PoolExact(s) ==
  /\ PoolTyped(s)
  /\ Lists(s.queue, QueuedIn(s))
  /\ s.inFlight = Cardinality(RunningIn(s))
  /\ s.bytes = TaskRuns!SumBytes(QueuedIn(s))
  /\ s.keys = {RunKey[r] : r \in LiveIn(s)}
  /\ \A r, u \in LiveIn(s) : RunKey[r] = RunKey[u] => r = u

\* No run waits beside free capacity.
Served(s, l, p) == s.queue # <<>> => p \/ s.inFlight >= l.concurrent

\* What draining s under limits l leaves: it starts queued runs from the head, none while
\* paused and none above the limit.
DrainedFrom(d, s, l, p) ==
  /\ d.inFlight >= s.inFlight
  /\ d.inFlight > s.inFlight => d.inFlight <= l.concurrent
  /\ Len(d.queue) <= Len(s.queue) /\ d.keys = s.keys
  /\ \A r \in Runs : d.phase[r] # s.phase[r] => s.phase[r] = "queued" /\ d.phase[r] = "running"
  /\ \A r \in Runs : d.phase[r] # s.phase[r] =>
       /\ ~p
       /\ \A i \in DOMAIN s.queue : d.phase[s.queue[i]] = "queued" =>
            \E j \in 1 .. i : s.queue[j] = r

LimitsTyped(l) == l.concurrent \in Nat /\ l.queued \in Nat /\ l.bytes \in Nat

LEMMA AllLimitsTyped == \A l \in RunLimits : LimitsTyped(l)
BY RunsAssumption DEF TaskRuns!TaskAdmissionAssumption, LimitsTyped

LEMMA PoolFields ==
  ASSUME NEW s, PoolTyped(s)
  PROVE  /\ s = [queue |-> s.queue, inFlight |-> s.inFlight, bytes |-> s.bytes,
                 keys |-> s.keys, phase |-> s.phase]
         /\ s.queue \in Seq(Runs) /\ s.inFlight \in Nat /\ s.bytes \in Nat
         /\ s.keys \subseteq {RunKey[r] : r \in Runs} /\ s.phase \in [Runs -> RunPhases]
BY DEF PoolTyped

\* How many runs a drain starts.
LEMMA DrainCounts ==
  ASSUME NEW s, PoolExact(s), NEW l, LimitsTyped(l), NEW p \in BOOLEAN
  PROVE  LET n == TaskRuns!DrainCount(s, l, p)
         IN  /\ n \in Nat /\ n <= Len(s.queue)
             /\ n > 0 => ~p /\ s.inFlight + n <= l.concurrent
             /\ n < Len(s.queue) => p \/ s.inFlight + n >= l.concurrent
<1>1. PICK m \in Nat, k \in Nat, c \in Nat : m = Len(s.queue) /\ k = s.inFlight /\ c = l.concurrent
  <2>1. Len(s.queue) \in Nat
    BY PoolFields, LenProperties DEF PoolExact
  <2> QED BY <2>1, PoolFields DEF PoolExact, LimitsTyped
<1>2. CASE p \/ k >= c
  <2>1. TaskRuns!DrainCount(s, l, p) = 0
    BY <1>1, <1>2 DEF TaskRuns!DrainCount
  <2> QED BY <1>1, <1>2, <2>1
<1>3. CASE ~p /\ k < c
  <2>1. TaskRuns!DrainCount(s, l, p) = TaskRuns!Min({c - k, m})
    BY <1>1, <1>3 DEF TaskRuns!DrainCount
  <2>2. TaskRuns!Min({c - k, m}) = IF c - k <= m THEN c - k ELSE m
    <3> DEFINE least == IF c - k <= m THEN c - k ELSE m
    <3>1. least \in {c - k, m} /\ \A y \in {c - k, m} : least =< y
      BY <1>1, <1>3
    <3>2. \A x \in {c - k, m} : (\A y \in {c - k, m} : x =< y) => x = least
      BY <1>1, <1>3
    <3> HIDE DEF least
    <3>3. TaskRuns!Min({c - k, m}) = least
      BY <3>1, <3>2 DEF TaskRuns!Min
    <3> QED BY <3>3 DEF least
  <2> QED BY <1>1, <1>3, <2>1, <2>2
<1> QED BY <1>1, <1>2, <1>3

\* Draining keeps the pool exact and leaves nobody beside free capacity.
LEMMA DrainExact ==
  ASSUME NEW s, PoolExact(s), NEW l, LimitsTyped(l), NEW p \in BOOLEAN
  PROVE  LET d == TaskRuns!Drain(s, l, p)
         IN  PoolExact(d) /\ Served(d, l, p) /\ DrainedFrom(d, s, l, p)
<1>1. PICK n \in Nat :
        /\ n = TaskRuns!DrainCount(s, l, p) /\ n <= Len(s.queue)
        /\ n > 0 => ~p /\ s.inFlight + n <= l.concurrent
        /\ n < Len(s.queue) => p \/ s.inFlight + n >= l.concurrent
  BY DrainCounts
<1>2. /\ s.queue \in Seq(Runs) /\ s.inFlight \in Nat /\ s.bytes \in Nat
      /\ s.keys \subseteq {RunKey[r] : r \in Runs} /\ s.phase \in [Runs -> RunPhases]
  BY PoolFields DEF PoolExact
<1>3. PICK started : started = {s.queue[i] : i \in 1 .. n}
  OBVIOUS
<1>4. PICK d : d = TaskRuns!Drain(s, l, p)
  OBVIOUS
<1>5. d = [queue |-> SubSeq(s.queue, n + 1, Len(s.queue)), inFlight |-> s.inFlight + n,
           bytes |-> s.bytes - TaskRuns!SumBytes(started), keys |-> s.keys,
           phase |-> [r \in Runs |-> IF r \in started THEN "running" ELSE s.phase[r]]]
  <2>1. s = [queue |-> s.queue, inFlight |-> s.inFlight, bytes |-> s.bytes,
             keys |-> s.keys, phase |-> s.phase]
    BY PoolFields DEF PoolExact
  <2>2. d = [s EXCEPT !.queue = SubSeq(s.queue, n + 1, Len(s.queue)),
                      !.inFlight = s.inFlight + n,
                      !.bytes = s.bytes - TaskRuns!SumBytes(started),
                      !.phase = [r \in Runs |-> IF r \in started THEN "running" ELSE s.phase[r]]]
    BY <1>1, <1>3, <1>4 DEF TaskRuns!Drain
  <2> QED BY <2>1, <2>2
<1>6. /\ started \subseteq QueuedIn(s) /\ IsFiniteSet(started) /\ Cardinality(started) = n
      /\ Lists(d.queue, QueuedIn(s) \ started) /\ Len(d.queue) = Len(s.queue) - n
  <2>1. Lists(s.queue, QueuedIn(s))
    BY DEF PoolExact
  <2>2. d.queue = SubSeq(s.queue, n + 1, Len(s.queue))
    BY <1>5
  <2>3. PICK W, q : W = QueuedIn(s) /\ q = s.queue /\ Lists(q, W) /\ n <= Len(q)
    BY <1>1, <2>1
  <2>4. /\ First(q, n) \subseteq W
        /\ IsFiniteSet(First(q, n)) /\ Cardinality(First(q, n)) = n
        /\ Lists(SubSeq(q, n + 1, Len(q)), W \ First(q, n))
        /\ Len(SubSeq(q, n + 1, Len(q))) = Len(q) - n
    BY <2>3, ListSplit
  <2>5. started = First(q, n) /\ d.queue = SubSeq(q, n + 1, Len(q))
    BY <1>3, <2>2, <2>3 DEF First
  <2> QED BY <2>3, <2>4, <2>5
<1>7. \A r \in Runs : d.phase[r] = IF r \in started THEN "running" ELSE s.phase[r]
  BY <1>5
<1>8. d.phase \in [Runs -> RunPhases]
  BY <1>2, <1>5 DEF RunPhases
<1>9. QueuedIn(d) = QueuedIn(s) \ started /\ RunningIn(d) = RunningIn(s) \cup started
  BY <1>6, <1>7 DEF QueuedIn, RunningIn
<1>10. LiveIn(d) = LiveIn(s)
  BY <1>6, <1>9 DEF LiveIn
<1>11. d.inFlight = Cardinality(RunningIn(d))
  <2>1. RunningIn(s) \cap started = {} /\ RunningIn(s) \in SUBSET Runs
    BY <1>6 DEF RunningIn, QueuedIn
  <2>2. IsFiniteSet(RunningIn(s))
    BY <2>1, RunsFinite
  <2>3. Cardinality(RunningIn(s) \cup started)
          = Cardinality(RunningIn(s)) + n - Cardinality(RunningIn(s) \cap started)
    BY <1>6, <2>2, FS_Union
  <2>4. Cardinality(RunningIn(s) \cap started) = 0
    BY <2>1, FS_EmptySet
  <2>5. Cardinality(RunningIn(s)) = s.inFlight
    BY DEF PoolExact
  <2>6. Cardinality(RunningIn(s) \cup started) = s.inFlight + n
    BY <1>2, <2>3, <2>4, <2>5
  <2>7. d.inFlight = s.inFlight + n
    BY <1>5
  <2> QED BY <1>9, <2>6, <2>7
<1>12. d.bytes = TaskRuns!SumBytes(QueuedIn(d)) /\ d.bytes \in Nat
  <2>1. (QueuedIn(s) \ started) \cap started = {} /\ (QueuedIn(s) \ started) \cup started = QueuedIn(s)
    BY <1>6
  <2>2. QueuedIn(s) \ started \in SUBSET Runs /\ started \in SUBSET Runs
    BY <1>6 DEF QueuedIn
  <2>3. /\ TaskRuns!SumBytes(QueuedIn(s) \ started) \in Nat /\ TaskRuns!SumBytes(started) \in Nat
        /\ TaskRuns!SumBytes((QueuedIn(s) \ started) \cup started)
              = TaskRuns!SumBytes(QueuedIn(s) \ started) + TaskRuns!SumBytes(started)
    BY <2>1, <2>2, BytesAdd
  <2>4. PICK a \in Nat, b \in Nat :
          a = TaskRuns!SumBytes(QueuedIn(s) \ started) /\ b = TaskRuns!SumBytes(started)
    BY <2>3
  <2>5. s.bytes = a + b
    BY <2>1, <2>3, <2>4 DEF PoolExact
  <2>6. d.bytes = s.bytes - b
    BY <1>5, <2>4
  <2> QED BY <1>9, <2>4, <2>5, <2>6
<1>13. PoolExact(d)
  <2>1. d.queue \in Seq(Runs)
    <3>1. d.queue \in Seq(QueuedIn(s) \ started) /\ QueuedIn(s) \ started \subseteq Runs
      BY <1>6 DEF Lists, QueuedIn
    <3> QED BY <3>1, SeqMonotonic
  <2>2. d.inFlight \in Nat /\ d.keys = s.keys
    BY <1>2, <1>5
  <2>3. d = [queue |-> d.queue, inFlight |-> d.inFlight, bytes |-> d.bytes,
             keys |-> d.keys, phase |-> d.phase]
    BY <1>5
  <2>4. PoolTyped(d)
    BY <1>2, <1>8, <1>12, <2>1, <2>2, <2>3 DEF PoolTyped
  <2> QED BY <1>6, <1>9, <1>10, <1>11, <1>12, <2>2, <2>4 DEF PoolExact
<1>14. Served(d, l, p)
  <2>1. d.queue # <<>> => n < Len(s.queue)
    <3>1. d.queue \in Seq(Runs)
      BY <1>13, PoolFields DEF PoolExact
    <3>2. d.queue # <<>> => Len(d.queue) # 0 /\ Len(d.queue) \in Nat
      BY <3>1, EmptySeq, LenProperties
    <3>3. Len(s.queue) \in Nat
      BY <1>2, LenProperties
    <3> QED BY <1>1, <1>6, <3>2, <3>3
  <2>2. d.inFlight = s.inFlight + n
    BY <1>5
  <2> QED BY <1>1, <2>1, <2>2 DEF Served
<1>15. DrainedFrom(d, s, l, p)
  <2>1. d.inFlight = s.inFlight + n /\ d.keys = s.keys
    BY <1>5
  <2>2. /\ d.inFlight >= s.inFlight /\ (d.inFlight > s.inFlight => d.inFlight <= l.concurrent)
        /\ Len(d.queue) <= Len(s.queue)
    <3>1. Len(s.queue) \in Nat
      BY <1>2, LenProperties
    <3> QED BY <1>1, <1>2, <1>6, <2>1, <3>1
  <2>3. ASSUME NEW r \in Runs, d.phase[r] # s.phase[r]
        PROVE  s.phase[r] = "queued" /\ d.phase[r] = "running" /\ r \in started
    BY <1>6, <1>7, <2>3 DEF QueuedIn
  <2>4. ASSUME NEW r \in started
        PROVE  /\ ~p
               /\ \A i \in DOMAIN s.queue : d.phase[s.queue[i]] = "queued" =>
                    \E j \in 1 .. i : s.queue[j] = r
    <3>1. PICK j \in 1 .. n : s.queue[j] = r
      BY <1>3
    <3>2. n > 0
      BY <1>1, <3>1
    <3>3. ASSUME NEW i \in DOMAIN s.queue, d.phase[s.queue[i]] = "queued"
          PROVE  j \in 1 .. i
      <4>1. i \in 1 .. Len(s.queue) /\ s.queue[i] \in Runs
        BY <1>2, LenProperties
      <4>2. s.queue[i] \notin started
        BY <1>7, <3>3, <4>1
      <4>3. i \notin 1 .. n
        BY <1>3, <4>2
      <4> QED BY <1>1, <4>1, <4>3
    <3> QED BY <1>1, <3>1, <3>2, <3>3
  <2> QED BY <2>1, <2>2, <2>3, <2>4 DEF DrainedFrom
<1> QED BY <1>4, <1>13, <1>14, <1>15

\* A free run takes a permit at once.
LEMMA StartedExact ==
  ASSUME NEW s, PoolExact(s), NEW r \in Runs, r \notin LiveIn(s), RunKey[r] \notin s.keys
  PROVE  /\ PoolExact(TaskRuns!WithStarted(s, r))
         /\ TaskRuns!WithStarted(s, r).queue = s.queue
         /\ TaskRuns!WithStarted(s, r).inFlight = s.inFlight + 1
         /\ TaskRuns!WithStarted(s, r).phase = [s.phase EXCEPT ![r] = "running"]
<1>1. /\ s.queue \in Seq(Runs) /\ s.inFlight \in Nat /\ s.bytes \in Nat
      /\ s.keys \subseteq {RunKey[u] : u \in Runs} /\ s.phase \in [Runs -> RunPhases]
      /\ s = [queue |-> s.queue, inFlight |-> s.inFlight, bytes |-> s.bytes,
              keys |-> s.keys, phase |-> s.phase]
  BY PoolFields DEF PoolExact
<1>2. PICK d : d = TaskRuns!WithStarted(s, r)
  OBVIOUS
<1>3. d = [queue |-> s.queue, inFlight |-> s.inFlight + 1, bytes |-> s.bytes,
           keys |-> s.keys \cup {RunKey[r]}, phase |-> [s.phase EXCEPT ![r] = "running"]]
  BY <1>1, <1>2 DEF TaskRuns!WithStarted
<1>4. /\ d.phase \in [Runs -> RunPhases]
      /\ RunningIn(d) = RunningIn(s) \cup {r} /\ QueuedIn(d) = QueuedIn(s) \ {r}
  <2>1. /\ d.phase \in [Runs -> RunPhases]
        /\ \A u \in Runs : d.phase[u] = IF u = r THEN "running" ELSE s.phase[u]
    BY <1>1, <1>3 DEF RunPhases
  <2> QED BY <2>1 DEF RunningIn, QueuedIn
<1>5. r \notin RunningIn(s) /\ QueuedIn(d) = QueuedIn(s) /\ LiveIn(d) = LiveIn(s) \cup {r}
  BY <1>4 DEF LiveIn
<1>6. d.inFlight = Cardinality(RunningIn(d))
  <2>1. IsFiniteSet(RunningIn(s))
    BY RunsFinite DEF RunningIn
  <2>2. Cardinality(RunningIn(s) \cup {r}) = Cardinality(RunningIn(s)) + 1
    BY <1>5, <2>1, FS_AddElement
  <2>3. Cardinality(RunningIn(s)) = s.inFlight
    BY DEF PoolExact
  <2> QED BY <1>3, <1>4, <2>2, <2>3
<1>7. PoolTyped(d)
  BY <1>1, <1>3, <1>4 DEF PoolTyped
<1>8. d.keys = {RunKey[u] : u \in LiveIn(d)}
  <2>1. d.keys = s.keys \cup {RunKey[r]}
    BY <1>3
  <2>2. s.keys = {RunKey[u] : u \in LiveIn(s)}
    BY DEF PoolExact
  <2> QED BY <1>5, <2>1, <2>2
<1>9. \A t, u \in LiveIn(d) : RunKey[t] = RunKey[u] => t = u
  BY <1>5 DEF PoolExact
<1>10. Lists(d.queue, QueuedIn(d)) /\ d.bytes = TaskRuns!SumBytes(QueuedIn(d))
  BY <1>3, <1>5 DEF PoolExact
<1>11. d.queue = s.queue /\ d.inFlight = s.inFlight + 1 /\ d.phase = [s.phase EXCEPT ![r] = "running"]
  BY <1>3
<1> QED BY <1>2, <1>6, <1>7, <1>8, <1>9, <1>10, <1>11 DEF PoolExact

\* A run joins the queue.
LEMMA QueuedExact ==
  ASSUME NEW s, PoolExact(s), NEW r \in Runs, r \notin LiveIn(s), RunKey[r] \notin s.keys
  PROVE  /\ PoolExact(TaskRuns!WithQueued(s, r))
         /\ Len(TaskRuns!WithQueued(s, r).queue) = Len(s.queue) + 1
         /\ TaskRuns!WithQueued(s, r).inFlight = s.inFlight
         /\ TaskRuns!WithQueued(s, r).bytes = s.bytes + RunBytes[r]
         /\ TaskRuns!WithQueued(s, r).phase = [s.phase EXCEPT ![r] = "queued"]
<1>1. /\ s.queue \in Seq(Runs) /\ s.inFlight \in Nat /\ s.bytes \in Nat
      /\ s.keys \subseteq {RunKey[u] : u \in Runs} /\ s.phase \in [Runs -> RunPhases]
      /\ s = [queue |-> s.queue, inFlight |-> s.inFlight, bytes |-> s.bytes,
              keys |-> s.keys, phase |-> s.phase]
  BY PoolFields DEF PoolExact
<1>2. PICK d : d = TaskRuns!WithQueued(s, r)
  OBVIOUS
<1>3. d = [queue |-> Append(s.queue, r), inFlight |-> s.inFlight, bytes |-> s.bytes + RunBytes[r],
           keys |-> s.keys \cup {RunKey[r]}, phase |-> [s.phase EXCEPT ![r] = "queued"]]
  BY <1>1, <1>2 DEF TaskRuns!WithQueued
<1>4. /\ d.phase \in [Runs -> RunPhases]
      /\ RunningIn(d) = RunningIn(s) \ {r} /\ QueuedIn(d) = QueuedIn(s) \cup {r}
  <2>1. /\ d.phase \in [Runs -> RunPhases]
        /\ \A u \in Runs : d.phase[u] = IF u = r THEN "queued" ELSE s.phase[u]
    BY <1>1, <1>3 DEF RunPhases
  <2> QED BY <2>1 DEF RunningIn, QueuedIn
<1>5. r \notin QueuedIn(s) /\ RunningIn(d) = RunningIn(s) /\ LiveIn(d) = LiveIn(s) \cup {r}
  BY <1>4 DEF LiveIn
<1>6. d.bytes = TaskRuns!SumBytes(QueuedIn(d)) /\ d.bytes \in Nat
  <2>1. QueuedIn(s) \in SUBSET Runs /\ {r} \in SUBSET Runs /\ QueuedIn(s) \cap {r} = {}
    BY <1>5 DEF QueuedIn
  <2>2. /\ TaskRuns!SumBytes(QueuedIn(s)) \in Nat
        /\ TaskRuns!SumBytes(QueuedIn(s) \cup {r})
             = TaskRuns!SumBytes(QueuedIn(s)) + TaskRuns!SumBytes({r})
    BY <2>1, BytesAdd
  <2>3. PICK b \in Nat : b = RunBytes[r] /\ TaskRuns!SumBytes({r}) = b
    BY RunsFinite, BytesOne
  <2>4. s.bytes = TaskRuns!SumBytes(QueuedIn(s))
    BY DEF PoolExact
  <2>5. d.bytes = s.bytes + b
    BY <1>3, <2>3
  <2> QED BY <1>1, <1>4, <2>2, <2>3, <2>4, <2>5
<1>7. /\ Append(s.queue, r) \in Seq(Runs)
      /\ Len(Append(s.queue, r)) = Len(s.queue) + 1
  BY <1>1, AppendProperties
<1>8. PoolTyped(d)
  BY <1>1, <1>3, <1>4, <1>6, <1>7 DEF PoolTyped
<1>9. d.keys = {RunKey[u] : u \in LiveIn(d)}
  <2>1. d.keys = s.keys \cup {RunKey[r]}
    BY <1>3
  <2>2. s.keys = {RunKey[u] : u \in LiveIn(s)}
    BY DEF PoolExact
  <2> QED BY <1>5, <2>1, <2>2
<1>10. \A t, u \in LiveIn(d) : RunKey[t] = RunKey[u] => t = u
  BY <1>5 DEF PoolExact
<1>11. Lists(d.queue, QueuedIn(d))
  <2>1. Lists(s.queue, QueuedIn(s))
    BY DEF PoolExact
  <2>2. Lists(Append(s.queue, r), QueuedIn(s) \cup {r})
    BY <1>5, <2>1, ListAppend
  <2> QED BY <1>3, <1>4, <2>2
<1>12. d.inFlight = Cardinality(RunningIn(d))
  BY <1>3, <1>5 DEF PoolExact
<1>13. /\ Len(d.queue) = Len(s.queue) + 1 /\ d.inFlight = s.inFlight
       /\ d.bytes = s.bytes + RunBytes[r] /\ d.phase = [s.phase EXCEPT ![r] = "queued"]
  BY <1>3, <1>7
<1> QED BY <1>2, <1>6, <1>8, <1>9, <1>10, <1>11, <1>12, <1>13 DEF PoolExact

\* A running run gives its permit back.
LEMMA ReleasedExact ==
  ASSUME NEW s, PoolExact(s), NEW r \in Runs, r \in RunningIn(s)
  PROVE  /\ PoolExact(TaskRuns!WithReleased(s, r))
         /\ TaskRuns!WithReleased(s, r).queue = s.queue
         /\ TaskRuns!WithReleased(s, r).inFlight = s.inFlight - 1
         /\ TaskRuns!WithReleased(s, r).phase = [s.phase EXCEPT ![r] = "released"]
<1>1. /\ s.queue \in Seq(Runs) /\ s.inFlight \in Nat /\ s.bytes \in Nat
      /\ s.keys \subseteq {RunKey[u] : u \in Runs} /\ s.phase \in [Runs -> RunPhases]
      /\ s = [queue |-> s.queue, inFlight |-> s.inFlight, bytes |-> s.bytes,
              keys |-> s.keys, phase |-> s.phase]
      /\ r \in Runs
  BY PoolFields DEF PoolExact, RunningIn
<1>2. PICK d : d = TaskRuns!WithReleased(s, r)
  OBVIOUS
<1>3. d = [queue |-> s.queue, inFlight |-> IF s.inFlight > 0 THEN s.inFlight - 1 ELSE 0,
           bytes |-> s.bytes, keys |-> s.keys \ {RunKey[r]},
           phase |-> [s.phase EXCEPT ![r] = "released"]]
  BY <1>1, <1>2 DEF TaskRuns!WithReleased
<1>4. /\ d.phase \in [Runs -> RunPhases]
      /\ RunningIn(d) = RunningIn(s) \ {r} /\ QueuedIn(d) = QueuedIn(s) \ {r}
  <2>1. /\ d.phase \in [Runs -> RunPhases]
        /\ \A u \in Runs : d.phase[u] = IF u = r THEN "released" ELSE s.phase[u]
    BY <1>1, <1>3 DEF RunPhases
  <2> QED BY <2>1 DEF RunningIn, QueuedIn
<1>5. r \notin QueuedIn(s) /\ QueuedIn(d) = QueuedIn(s) /\ LiveIn(d) = LiveIn(s) \ {r}
  BY <1>4 DEF LiveIn, RunningIn, QueuedIn
<1>6. Cardinality(RunningIn(d)) = s.inFlight - 1 /\ s.inFlight # 0
  <2>1. IsFiniteSet(RunningIn(s))
    BY RunsFinite DEF RunningIn
  <2>2. Cardinality(RunningIn(s) \ {r}) = Cardinality(RunningIn(s)) - 1
    BY <2>1, FS_RemoveElement
  <2>3. Cardinality(RunningIn(s)) = s.inFlight
    BY DEF PoolExact
  <2>4. Cardinality(RunningIn(s)) # 0
    BY <2>1, FS_EmptySet
  <2> QED BY <1>4, <2>2, <2>3, <2>4
<1>7. d.inFlight = s.inFlight - 1 /\ d.inFlight \in Nat
  BY <1>1, <1>3, <1>6
<1>8. PoolTyped(d)
  <2>1. d.keys \subseteq {RunKey[u] : u \in Runs} /\ d.queue \in Seq(Runs) /\ d.bytes \in Nat
    BY <1>1, <1>3
  <2>2. d = [queue |-> d.queue, inFlight |-> d.inFlight, bytes |-> d.bytes,
             keys |-> d.keys, phase |-> d.phase]
    BY <1>3
  <2> QED BY <1>4, <1>7, <2>1, <2>2 DEF PoolTyped
<1>9. d.keys = {RunKey[u] : u \in LiveIn(d)}
  <2>1. s.keys = {RunKey[u] : u \in LiveIn(s)} /\ r \in LiveIn(s)
    BY DEF PoolExact, LiveIn
  <2>2. \A u \in LiveIn(s) : RunKey[u] = RunKey[r] => u = r
    BY <2>1 DEF PoolExact
  <2> QED BY <1>3, <1>5, <2>1, <2>2
<1>10. \A t, u \in LiveIn(d) : RunKey[t] = RunKey[u] => t = u
  BY <1>5 DEF PoolExact
<1>11. Lists(d.queue, QueuedIn(d)) /\ d.bytes = TaskRuns!SumBytes(QueuedIn(d))
  BY <1>3, <1>5 DEF PoolExact
<1>12. d.queue = s.queue /\ d.phase = [s.phase EXCEPT ![r] = "released"]
  BY <1>3
<1> QED BY <1>2, <1>6, <1>7, <1>8, <1>9, <1>10, <1>11, <1>12 DEF PoolExact

\* A queued run is cancelled.
LEMMA CancelledExact ==
  ASSUME NEW s, PoolExact(s), NEW r \in Runs, r \in QueuedIn(s)
  PROVE  /\ PoolExact(TaskRuns!WithCancelled(s, r))
         /\ Len(TaskRuns!WithCancelled(s, r).queue) < Len(s.queue)
         /\ TaskRuns!WithCancelled(s, r).inFlight = s.inFlight
         /\ TaskRuns!WithCancelled(s, r).phase = [s.phase EXCEPT ![r] = "cancelled"]
<1>1. /\ s.queue \in Seq(Runs) /\ s.inFlight \in Nat /\ s.bytes \in Nat
      /\ s.keys \subseteq {RunKey[u] : u \in Runs} /\ s.phase \in [Runs -> RunPhases]
      /\ s = [queue |-> s.queue, inFlight |-> s.inFlight, bytes |-> s.bytes,
              keys |-> s.keys, phase |-> s.phase]
      /\ r \in Runs
  BY PoolFields DEF PoolExact, QueuedIn
<1>2. PICK d : d = TaskRuns!WithCancelled(s, r)
  OBVIOUS
<1>3. PICK i \in DOMAIN s.queue :
        /\ s.queue[i] = r
        /\ d = [queue |-> RemoveAt(s.queue, i), inFlight |-> s.inFlight,
                bytes |-> s.bytes - RunBytes[r], keys |-> s.keys \ {RunKey[r]},
                phase |-> [s.phase EXCEPT ![r] = "cancelled"]]
  <2> DEFINE i == CHOOSE i \in DOMAIN s.queue : s.queue[i] = r
  <2>1. i \in DOMAIN s.queue /\ s.queue[i] = r
    BY DEF PoolExact, Lists
  <2>2. d = [s EXCEPT !.queue = RemoveAt(s.queue, i), !.bytes = s.bytes - RunBytes[r],
                      !.keys = s.keys \ {RunKey[r]},
                      !.phase = [s.phase EXCEPT ![r] = "cancelled"]]
    BY <1>1, <1>2 DEF TaskRuns!WithCancelled, TaskRuns!RemoveAt, RemoveAt
  <2> HIDE DEF i
  <2> QED BY <1>1, <2>1, <2>2
<1>4. /\ d.phase \in [Runs -> RunPhases]
      /\ RunningIn(d) = RunningIn(s) \ {r} /\ QueuedIn(d) = QueuedIn(s) \ {r}
  <2>1. /\ d.phase \in [Runs -> RunPhases]
        /\ \A u \in Runs : d.phase[u] = IF u = r THEN "cancelled" ELSE s.phase[u]
    BY <1>1, <1>3 DEF RunPhases
  <2> QED BY <2>1 DEF RunningIn, QueuedIn
<1>5. r \notin RunningIn(s) /\ RunningIn(d) = RunningIn(s) /\ LiveIn(d) = LiveIn(s) \ {r}
  BY <1>4 DEF LiveIn, RunningIn, QueuedIn
<1>6. Lists(d.queue, QueuedIn(d)) /\ Len(d.queue) = Len(s.queue) - 1
  <2>1. Lists(s.queue, QueuedIn(s)) /\ s.queue \in Seq(QueuedIn(s)) /\ i \in 1 .. Len(s.queue)
    BY LenProperties DEF PoolExact, Lists
  <2>2. RemoveAt(s.queue, i) \in Seq(QueuedIn(s)) /\ Without(RemoveAt(s.queue, i), s.queue, i)
    BY <2>1, RemovedAt
  <2>3. Lists(RemoveAt(s.queue, i), QueuedIn(s) \ {s.queue[i]})
    BY <2>1, <2>2, ListWithout
  <2> QED BY <1>3, <1>4, <2>2, <2>3 DEF Without
<1>7. d.bytes = TaskRuns!SumBytes(QueuedIn(d)) /\ d.bytes \in Nat
  <2>1. /\ QueuedIn(d) \in SUBSET Runs /\ {r} \in SUBSET Runs /\ QueuedIn(d) \cap {r} = {}
        /\ QueuedIn(d) \cup {r} = QueuedIn(s)
    BY <1>1, <1>4 DEF QueuedIn
  <2>2. /\ TaskRuns!SumBytes(QueuedIn(d)) \in Nat
        /\ TaskRuns!SumBytes(QueuedIn(d) \cup {r})
             = TaskRuns!SumBytes(QueuedIn(d)) + TaskRuns!SumBytes({r})
    BY <2>1, BytesAdd
  <2>3. PICK b \in Nat : b = RunBytes[r] /\ TaskRuns!SumBytes({r}) = b
    BY <1>1, RunsFinite, BytesOne
  <2>4. PICK a \in Nat : a = TaskRuns!SumBytes(QueuedIn(d))
    BY <2>2
  <2>5. s.bytes = a + b
    BY <2>1, <2>2, <2>3, <2>4 DEF PoolExact
  <2>6. d.bytes = s.bytes - b
    BY <1>3, <2>3
  <2> QED BY <2>4, <2>5, <2>6
<1>8. PoolTyped(d)
  <2>1. d.keys \subseteq {RunKey[u] : u \in Runs} /\ d.inFlight \in Nat
    BY <1>1, <1>3
  <2>2. d.queue \in Seq(Runs)
    <3>1. d.queue \in Seq(QueuedIn(d)) /\ QueuedIn(d) \subseteq Runs
      BY <1>6 DEF Lists, QueuedIn
    <3> QED BY <3>1, SeqMonotonic
  <2>3. d = [queue |-> d.queue, inFlight |-> d.inFlight, bytes |-> d.bytes,
             keys |-> d.keys, phase |-> d.phase]
    BY <1>3
  <2> QED BY <1>4, <1>7, <2>1, <2>2, <2>3 DEF PoolTyped
<1>9. d.keys = {RunKey[u] : u \in LiveIn(d)}
  <2>1. s.keys = {RunKey[u] : u \in LiveIn(s)} /\ r \in LiveIn(s)
    BY DEF PoolExact, LiveIn
  <2>2. \A u \in LiveIn(s) : RunKey[u] = RunKey[r] => u = r
    BY <2>1 DEF PoolExact
  <2> QED BY <1>3, <1>5, <2>1, <2>2
<1>10. \A t, u \in LiveIn(d) : RunKey[t] = RunKey[u] => t = u
  BY <1>5 DEF PoolExact
<1>11. d.inFlight = Cardinality(RunningIn(d)) /\ d.inFlight = s.inFlight
  BY <1>3, <1>5 DEF PoolExact
<1>12. Len(d.queue) < Len(s.queue) /\ d.phase = [s.phase EXCEPT ![r] = "cancelled"]
  <2>1. Len(s.queue) \in Nat
    BY <1>1, LenProperties
  <2> QED BY <1>3, <1>6, <2>1
<1> QED BY <1>2, <1>6, <1>7, <1>8, <1>9, <1>10, <1>11, <1>12 DEF PoolExact

TaskInv ==
  /\ PoolExact(taskPool)
  /\ taskLimits \in RunLimits /\ configured \in BOOLEAN /\ paused \in BOOLEAN
  /\ Served(taskPool, taskLimits, paused)

LEMMA InitRuns == TaskRuns!Init => TaskInv
<1> SUFFICES ASSUME TaskRuns!Init PROVE TaskInv
  OBVIOUS
<1>1. /\ taskLimits = InitialLimits /\ configured = FALSE /\ paused = FALSE
      /\ taskPool = [queue |-> <<>>, inFlight |-> 0, bytes |-> 0, keys |-> {},
                     phase |-> [r \in Runs |-> "new"]]
  BY DEF TaskRuns!Init
<1>2. RunningIn(taskPool) = {} /\ QueuedIn(taskPool) = {} /\ LiveIn(taskPool) = {}
  BY <1>1 DEF RunningIn, QueuedIn, LiveIn
<1>3. PoolTyped(taskPool)
  BY <1>1 DEF PoolTyped, RunPhases
<1>4. Lists(<<>>, {})
  <2>1. <<>> \in Seq({}) /\ DOMAIN <<>> = {}
    BY EmptySeq
  <2> QED BY <2>1 DEF Lists
<1>5. TaskRuns!SumBytes({}) = 0
  <2>1. Units({}) = {}
    BY DEF Units
  <2> QED BY <2>1, BytesAreUnits, FS_EmptySet
<1>6. PoolExact(taskPool)
  BY <1>1, <1>2, <1>3, <1>4, <1>5, FS_EmptySet DEF PoolExact
<1>7. InitialLimits \in RunLimits
  BY RunsAssumption DEF TaskRuns!TaskAdmissionAssumption
<1> QED BY <1>1, <1>6, <1>7 DEF TaskInv, Served

\* What every step does to the pool: it grows only within the limits, and who starts passes
\* nobody who waits.
RunsGrow ==
  /\ taskPool'.inFlight > taskPool.inFlight => taskPool'.inFlight <= taskLimits'.concurrent
  /\ Len(taskPool'.queue) > Len(taskPool.queue) =>
       Len(taskPool'.queue) <= taskLimits'.queued /\ taskPool'.bytes <= taskLimits'.bytes

RunsInTurn ==
  \A r \in Runs : taskPool.phase[r] # "running" /\ taskPool'.phase[r] = "running" =>
    /\ ~paused'
    /\ \A i \in DOMAIN taskPool.queue :
         taskPool'.phase[taskPool.queue[i]] = "queued" => \E j \in 1 .. i : taskPool.queue[j] = r

RunsStep == TaskInv' /\ RunsGrow /\ RunsInTurn

\* A step that only drains.
LEMMA OnlyDrains ==
  ASSUME TaskInv, taskLimits' \in RunLimits, configured' \in BOOLEAN, paused' \in BOOLEAN,
         taskPool' = TaskRuns!Drain(taskPool, taskLimits', paused')
  PROVE  RunsStep
<1>1. PICK l, p, d : l = taskLimits' /\ p = paused' /\ d = TaskRuns!Drain(taskPool, l, p)
  OBVIOUS
<1>2. PoolExact(d) /\ Served(d, l, p) /\ DrainedFrom(d, taskPool, l, p)
  BY <1>1, DrainExact, AllLimitsTyped DEF TaskInv
<1>3. taskPool' = d
  BY <1>1
<1>4. TaskInv'
  BY <1>1, <1>2, <1>3 DEF TaskInv
<1>5. RunsGrow
  <2>1. Len(d.queue) <= Len(taskPool.queue) /\ Len(d.queue) \in Nat /\ Len(taskPool.queue) \in Nat
    BY <1>2, PoolFields, LenProperties DEF DrainedFrom, TaskInv, PoolExact
  <2>2. d.inFlight > taskPool.inFlight => d.inFlight <= l.concurrent
    BY <1>2 DEF DrainedFrom
  <2> QED BY <1>1, <1>3, <2>1, <2>2 DEF RunsGrow
<1>6. RunsInTurn
  BY <1>1, <1>2, <1>3 DEF RunsInTurn, DrainedFrom
<1> QED BY <1>4, <1>5, <1>6 DEF RunsStep

\* A run that waits nowhere is turned away.
LEMMA TurnedAwayExact ==
  ASSUME NEW s, PoolExact(s), NEW r \in Runs, r \notin LiveIn(s),
         NEW ph \in RunPhases, ph # "running", ph # "queued"
  PROVE  /\ PoolExact([s EXCEPT !.phase[r] = ph])
         /\ [s EXCEPT !.phase[r] = ph].queue = s.queue
         /\ [s EXCEPT !.phase[r] = ph].inFlight = s.inFlight
         /\ [s EXCEPT !.phase[r] = ph].phase = [s.phase EXCEPT ![r] = ph]
<1>1. /\ s.queue \in Seq(Runs) /\ s.inFlight \in Nat /\ s.bytes \in Nat
      /\ s.keys \subseteq {RunKey[u] : u \in Runs} /\ s.phase \in [Runs -> RunPhases]
      /\ s = [queue |-> s.queue, inFlight |-> s.inFlight, bytes |-> s.bytes,
              keys |-> s.keys, phase |-> s.phase]
  BY PoolFields DEF PoolExact
<1>2. PICK d : d = [s EXCEPT !.phase[r] = ph]
  OBVIOUS
<1>3. d = [queue |-> s.queue, inFlight |-> s.inFlight, bytes |-> s.bytes,
           keys |-> s.keys, phase |-> [s.phase EXCEPT ![r] = ph]]
  BY <1>1, <1>2
<1>4. /\ d.phase \in [Runs -> RunPhases]
      /\ RunningIn(d) = RunningIn(s) \ {r} /\ QueuedIn(d) = QueuedIn(s) \ {r}
  <2>1. /\ d.phase \in [Runs -> RunPhases]
        /\ \A u \in Runs : d.phase[u] = IF u = r THEN ph ELSE s.phase[u]
    BY <1>1, <1>3
  <2> QED BY <2>1 DEF RunningIn, QueuedIn
<1>5. RunningIn(d) = RunningIn(s) /\ QueuedIn(d) = QueuedIn(s) /\ LiveIn(d) = LiveIn(s)
  BY <1>4 DEF LiveIn
<1>6. PoolTyped(d)
  BY <1>1, <1>3, <1>4 DEF PoolTyped
<1>7. /\ d.queue = s.queue /\ d.inFlight = s.inFlight /\ d.bytes = s.bytes /\ d.keys = s.keys
      /\ d.phase = [s.phase EXCEPT ![r] = ph]
  BY <1>3
<1> QED BY <1>2, <1>5, <1>6, <1>7 DEF PoolExact

\* After a drain one run that has not waited changes phase: whoever started passed nobody.
LEMMA ThenOneMoves ==
  ASSUME TaskInv, NEW s, PoolExact(s), NEW l, DrainedFrom(s, taskPool, l, paused'),
         NEW r \in Runs, taskPool.phase[r] = "new", NEW ph,
         taskPool'.phase = [s.phase EXCEPT ![r] = ph],
         ph = "running" => ~paused' /\ QueuedIn(s) = {}
  PROVE  RunsInTurn
<1>1. /\ s.phase \in [Runs -> RunPhases]
      /\ \A i \in DOMAIN taskPool.queue :
           taskPool.queue[i] \in Runs /\ taskPool.phase[taskPool.queue[i]] = "queued"
  <2>1. s.phase \in [Runs -> RunPhases]
    BY PoolFields DEF PoolExact
  <2>2. taskPool.queue \in Seq(QueuedIn(taskPool))
    BY DEF TaskInv, PoolExact, Lists
  <2>3. \A i \in DOMAIN taskPool.queue : taskPool.queue[i] \in QueuedIn(taskPool)
    BY <2>2, LenProperties, ElementOfSeq
  <2> QED BY <2>1, <2>3 DEF QueuedIn
<1>2. \A u \in Runs : taskPool'.phase[u] = IF u = r THEN ph ELSE s.phase[u]
  BY <1>1
<1>3. \A i \in DOMAIN taskPool.queue : taskPool'.phase[taskPool.queue[i]] = s.phase[taskPool.queue[i]]
  BY <1>1, <1>2
<1>4. ASSUME NEW u \in Runs, taskPool.phase[u] # "running", taskPool'.phase[u] = "running"
      PROVE  /\ ~paused'
             /\ \A i \in DOMAIN taskPool.queue :
                  taskPool'.phase[taskPool.queue[i]] = "queued"
                    => \E j \in 1 .. i : taskPool.queue[j] = u
  <2>1. CASE u = r
    <3>1. ~paused' /\ QueuedIn(s) = {}
      BY <1>2, <1>4, <2>1
    <3>2. \A i \in DOMAIN taskPool.queue : s.phase[taskPool.queue[i]] # "queued"
      BY <1>1, <3>1 DEF QueuedIn
    <3> QED BY <1>3, <3>1, <3>2
  <2>2. CASE u # r
    <3>1. s.phase[u] # taskPool.phase[u]
      BY <1>2, <1>4, <2>2
    <3>2. /\ ~paused'
          /\ \A i \in DOMAIN taskPool.queue : s.phase[taskPool.queue[i]] = "queued"
                => \E j \in 1 .. i : taskPool.queue[j] = u
      BY <3>1 DEF DrainedFrom
    <3> QED BY <1>3, <3>2
  <2> QED BY <2>1, <2>2
<1> QED BY <1>4 DEF RunsInTurn

LEMMA AdmitKeepsRuns ==
  ASSUME TaskInv, NEW r \in Runs, NEW offered \in RunLimits, TaskRuns!Admit(r, offered)
  PROVE  RunsStep
<1>1. PICK l, s, d :
        /\ l = (IF configured THEN taskLimits ELSE offered)
        /\ s = (IF configured THEN taskPool ELSE TaskRuns!Drain(taskPool, l, paused))
        /\ d = taskPool' /\ taskLimits' = l
        /\ \/ \E ph \in {"refused", "cancelled"} : d = [s EXCEPT !.phase[r] = ph]
           \/ /\ RunKey[r] \notin s.keys /\ ~TaskRuns!MustQueue(s, l)
              /\ d = TaskRuns!WithStarted(s, r)
           \/ /\ RunKey[r] \notin s.keys /\ TaskRuns!MustQueue(s, l) /\ ~TaskRuns!QueueFull(s, l, r)
              /\ d = TaskRuns!WithQueued(s, r)
  BY DEF TaskRuns!Admit
<1>2. taskPool.phase[r] = "new" /\ configured' = configured /\ paused' = paused
  BY DEF TaskRuns!Admit
<1>3. l \in RunLimits /\ LimitsTyped(l) /\ paused \in BOOLEAN /\ configured \in BOOLEAN
  BY <1>1, AllLimitsTyped DEF TaskInv
<1>4. PoolExact(taskPool) /\ taskPool.inFlight \in Nat /\ Len(taskPool.queue) \in Nat
  BY PoolFields, LenProperties DEF TaskInv, PoolExact
<1>5. PoolExact(s) /\ Served(s, l, paused) /\ DrainedFrom(s, taskPool, l, paused)
  <2>1. CASE configured
    <3>1. s = taskPool /\ l = taskLimits
      BY <1>1, <2>1
    <3>2. Served(s, l, paused)
      BY <3>1 DEF TaskInv
    <3>3. DrainedFrom(taskPool, taskPool, l, paused)
      BY <1>4 DEF DrainedFrom
    <3> QED BY <1>4, <3>1, <3>2, <3>3
  <2>2. CASE ~configured
    <3>1. s = TaskRuns!Drain(taskPool, l, paused)
      BY <1>1, <2>2
    <3> QED BY <1>3, <1>4, <3>1, DrainExact
  <2> QED BY <1>3, <2>1, <2>2
<1>6. r \notin LiveIn(s)
  BY <1>2, <1>5 DEF DrainedFrom, LiveIn, RunningIn, QueuedIn
<1>7. /\ s.inFlight \in Nat /\ s.bytes \in Nat /\ Len(s.queue) \in Nat /\ Len(s.queue) <= Len(taskPool.queue)
      /\ (s.inFlight > taskPool.inFlight => s.inFlight <= l.concurrent) /\ l.concurrent \in Nat
  BY <1>3, <1>5, PoolFields, LenProperties DEF PoolExact, DrainedFrom, LimitsTyped
<1>8. ASSUME NEW ph \in {"refused", "cancelled"}, d = [s EXCEPT !.phase[r] = ph]
      PROVE  RunsStep
  <2>1. ph \in RunPhases /\ ph # "running" /\ ph # "queued"
    BY DEF RunPhases
  <2>2. /\ PoolExact(d) /\ d.queue = s.queue /\ d.inFlight = s.inFlight
        /\ d.phase = [s.phase EXCEPT ![r] = ph]
    BY <1>5, <1>6, <1>8, <2>1, TurnedAwayExact
  <2>3. TaskInv'
    BY <1>1, <1>2, <1>3, <1>5, <2>2 DEF TaskInv, Served
  <2>4. RunsGrow
    BY <1>1, <1>4, <1>7, <2>2 DEF RunsGrow
  <2>5. RunsInTurn
    BY <1>1, <1>2, <1>5, <2>1, <2>2, ThenOneMoves
  <2> QED BY <2>3, <2>4, <2>5 DEF RunsStep
<1>9. ASSUME RunKey[r] \notin s.keys, ~TaskRuns!MustQueue(s, l), d = TaskRuns!WithStarted(s, r)
      PROVE  RunsStep
  <2>1. /\ PoolExact(d) /\ d.queue = s.queue /\ d.inFlight = s.inFlight + 1
        /\ d.phase = [s.phase EXCEPT ![r] = "running"]
    BY <1>5, <1>6, <1>9, StartedExact
  <2>2. ~paused /\ ~(s.inFlight >= l.concurrent)
    BY <1>9 DEF TaskRuns!MustQueue
  <2>3. s.queue = <<>>
    BY <1>5, <2>2 DEF Served
  <2>4. QueuedIn(s) = {}
    <3>1. DOMAIN s.queue = {}
      BY <2>3, EmptySeq
    <3> QED BY <1>5, <3>1 DEF PoolExact, Lists
  <2>5. TaskInv'
    BY <1>1, <1>2, <1>3, <2>1, <2>3 DEF TaskInv, Served
  <2>6. RunsGrow
    <3>1. d.inFlight <= l.concurrent
      BY <1>7, <2>1, <2>2
    <3>2. ~(Len(d.queue) > Len(taskPool.queue))
      BY <1>4, <1>7, <2>1
    <3> QED BY <1>1, <3>1, <3>2 DEF RunsGrow
  <2>7. RunsInTurn
    BY <1>1, <1>2, <1>5, <2>1, <2>2, <2>4, ThenOneMoves
  <2> QED BY <2>5, <2>6, <2>7 DEF RunsStep
<1>10. ASSUME RunKey[r] \notin s.keys, TaskRuns!MustQueue(s, l), ~TaskRuns!QueueFull(s, l, r),
              d = TaskRuns!WithQueued(s, r)
       PROVE  RunsStep
  <2>1. /\ PoolExact(d) /\ Len(d.queue) = Len(s.queue) + 1 /\ d.inFlight = s.inFlight
        /\ d.bytes = s.bytes + RunBytes[r] /\ d.phase = [s.phase EXCEPT ![r] = "queued"]
    BY <1>5, <1>6, <1>10, QueuedExact
  <2>2. paused \/ s.inFlight >= l.concurrent
    BY <1>10 DEF TaskRuns!MustQueue
  <2>3. ~(Len(s.queue) >= l.queued) /\ ~(RunBytes[r] > l.bytes - s.bytes)
    BY <1>10 DEF TaskRuns!QueueFull
  <2>4. TaskInv'
    BY <1>1, <1>2, <1>3, <2>1, <2>2 DEF TaskInv, Served
  <2>5. RunsGrow
    <3>1. PICK b \in Nat : b = RunBytes[r]
      BY RunsFinite
    <3>2. l.queued \in Nat /\ l.bytes \in Nat
      BY <1>3 DEF LimitsTyped
    <3>3. Len(d.queue) <= l.queued
      BY <1>7, <2>1, <2>3, <3>2
    <3>4. d.bytes <= l.bytes
      BY <1>7, <2>1, <2>3, <3>1, <3>2
    <3>5. d.inFlight > taskPool.inFlight => d.inFlight <= l.concurrent
      BY <1>7, <2>1
    <3> QED BY <1>1, <3>3, <3>4, <3>5 DEF RunsGrow
  <2>6. RunsInTurn
    <3>1. PICK ph \in RunPhases : ph = "queued"
      BY DEF RunPhases
    <3>2. taskPool'.phase = [s.phase EXCEPT ![r] = ph] /\ ph # "running"
      BY <1>1, <2>1, <3>1
    <3>3. PoolExact(s) /\ DrainedFrom(s, taskPool, l, paused') /\ taskPool.phase[r] = "new"
      BY <1>2, <1>5
    <3> QED BY <3>2, <3>3, ThenOneMoves
  <2> QED BY <2>4, <2>5, <2>6 DEF RunsStep
<1> QED BY <1>1, <1>8, <1>9, <1>10

LEMMA ReleaseKeepsRuns ==
  ASSUME TaskInv, NEW r \in Runs, TaskRuns!Release(r)
  PROVE  RunsStep
<1>1. PICK l, p, s, d :
        /\ l = taskLimits /\ p = paused /\ s = TaskRuns!WithReleased(taskPool, r)
        /\ d = TaskRuns!Drain(s, l, p)
  OBVIOUS
<1>2. /\ taskPool' = d /\ taskLimits' = l /\ paused' = p /\ configured' = configured
      /\ taskPool.phase[r] = "running"
  BY <1>1 DEF TaskRuns!Release
<1>3. PoolExact(taskPool) /\ l \in RunLimits /\ LimitsTyped(l) /\ p \in BOOLEAN
  BY <1>1, AllLimitsTyped DEF TaskInv
<1>4. /\ PoolExact(s) /\ s.queue = taskPool.queue /\ s.inFlight = taskPool.inFlight - 1
      /\ s.phase = [taskPool.phase EXCEPT ![r] = "released"]
  <2>1. r \in RunningIn(taskPool)
    BY <1>2 DEF RunningIn
  <2> QED BY <1>1, <1>3, <2>1, ReleasedExact
<1>5. PoolExact(d) /\ Served(d, l, p) /\ DrainedFrom(d, s, l, p)
  BY <1>1, <1>3, <1>4, DrainExact
<1>6. TaskInv'
  BY <1>2, <1>3, <1>5 DEF TaskInv
<1>7. RunsGrow
  <2>1. /\ d.inFlight \in Nat /\ s.inFlight \in Nat /\ taskPool.inFlight \in Nat
        /\ Len(d.queue) \in Nat /\ Len(s.queue) \in Nat
    BY <1>3, <1>4, <1>5, PoolFields, LenProperties DEF PoolExact
  <2>2. (d.inFlight > s.inFlight => d.inFlight <= l.concurrent) /\ Len(d.queue) <= Len(s.queue)
    BY <1>5 DEF DrainedFrom
  <2> QED BY <1>2, <1>4, <2>1, <2>2 DEF RunsGrow
<1>8. RunsInTurn
  <2>1. taskPool.phase \in [Runs -> RunPhases]
    BY <1>3, PoolFields DEF PoolExact
  <2>2. ASSUME NEW u \in Runs, taskPool.phase[u] # "running", d.phase[u] = "running"
        PROVE  d.phase[u] # s.phase[u]
    BY <1>2, <1>4, <2>1, <2>2
  <2> QED BY <1>2, <1>4, <1>5, <2>2 DEF RunsInTurn, DrainedFrom
<1> QED BY <1>6, <1>7, <1>8 DEF RunsStep

LEMMA CancelKeepsRuns ==
  ASSUME TaskInv, NEW r \in Runs, TaskRuns!Cancel(r)
  PROVE  RunsStep
<1>1. PICK d : d = TaskRuns!WithCancelled(taskPool, r)
  OBVIOUS
<1>2. /\ taskPool' = d /\ taskLimits' = taskLimits /\ paused' = paused /\ configured' = configured
      /\ taskPool.phase[r] = "queued"
  BY <1>1 DEF TaskRuns!Cancel
<1>3. PoolExact(taskPool) /\ r \in QueuedIn(taskPool)
  BY <1>2 DEF TaskInv, QueuedIn
<1>4. /\ PoolExact(d) /\ Len(d.queue) < Len(taskPool.queue) /\ d.inFlight = taskPool.inFlight
      /\ d.phase = [taskPool.phase EXCEPT ![r] = "cancelled"]
  BY <1>1, <1>3, CancelledExact
<1>5. /\ taskPool.inFlight \in Nat /\ Len(taskPool.queue) \in Nat /\ Len(d.queue) \in Nat
      /\ taskPool.phase \in [Runs -> RunPhases]
  BY <1>3, <1>4, PoolFields, LenProperties DEF PoolExact
<1>6. TaskInv'
  <2>1. taskPool.queue # <<>>
    BY <1>4, <1>5, EmptySeq
  <2> QED BY <1>2, <1>4, <2>1 DEF TaskInv, Served
<1>7. RunsGrow
  BY <1>2, <1>4, <1>5 DEF RunsGrow
<1>8. RunsInTurn
  BY <1>2, <1>4, <1>5 DEF RunsInTurn
<1> QED BY <1>6, <1>7, <1>8 DEF RunsStep

LEMMA NextRuns == TaskInv /\ [TaskRuns!Next]_taskVars => RunsStep
<1> SUFFICES ASSUME TaskInv, [TaskRuns!Next]_taskVars PROVE RunsStep
  OBVIOUS
<1>1. ASSUME NEW l \in RunLimits, TaskRuns!Configure(l) PROVE RunsStep
  BY <1>1, OnlyDrains DEF TaskRuns!Configure, TaskInv
<1>2. ASSUME NEW p \in BOOLEAN, TaskRuns!SetPaused(p) PROVE RunsStep
  BY <1>2, OnlyDrains DEF TaskRuns!SetPaused, TaskInv
<1>3. CASE UNCHANGED taskVars
  <2>1. taskPool.inFlight \in Nat /\ Len(taskPool.queue) \in Nat
    BY PoolFields, LenProperties DEF TaskInv, PoolExact
  <2> QED BY <1>3, <2>1 DEF taskVars, TaskInv, RunsStep, RunsGrow, RunsInTurn
<1> QED
  BY <1>1, <1>2, <1>3, AdmitKeepsRuns, ReleaseKeepsRuns, CancelKeepsRuns
  DEF TaskRuns!Next

LEMMA TaskInvMeans ==
  ASSUME TaskInv
  PROVE  TaskRuns!AccountingExact /\ TaskRuns!NothingWaitsInVain
<1>1. /\ PoolExact(taskPool) /\ PoolTyped(taskPool)
      /\ taskPool.queue \in Seq(Runs) /\ taskPool.inFlight \in Nat /\ taskPool.bytes \in Nat
      /\ taskPool.keys \subseteq {RunKey[r] : r \in Runs} /\ taskPool.phase \in [Runs -> RunPhases]
  BY PoolFields DEF TaskInv, PoolExact
<1>2. TaskRuns!Running = RunningIn(taskPool) /\ TaskRuns!Queued = QueuedIn(taskPool)
  BY DEF TaskRuns!Running, TaskRuns!Queued, RunningIn, QueuedIn
<1>3. \A S : TaskRuns!Cardinality(S) = Cardinality(S)
  BY DEF TaskRuns!Cardinality, Cardinality
<1>4. TaskRuns!TypeOK
  BY <1>1 DEF TaskInv, TaskRuns!TypeOK, TaskRuns!Phases, RunPhases
<1>5. TaskRuns!ToSet(taskPool.queue) = QueuedIn(taskPool)
  <2>1. Lists(taskPool.queue, QueuedIn(taskPool))
    BY <1>1 DEF PoolExact
  <2>2. \A i \in DOMAIN taskPool.queue : taskPool.queue[i] \in QueuedIn(taskPool)
    BY <2>1, LenProperties, ElementOfSeq DEF Lists
  <2> QED BY <2>1, <2>2 DEF Lists, TaskRuns!ToSet
<1>6. Len(taskPool.queue) = Cardinality(QueuedIn(taskPool))
  <2>1. Lists(taskPool.queue, QueuedIn(taskPool))
    BY <1>1 DEF PoolExact
  <2> QED BY <2>1, ListCount
<1>7. Cardinality(taskPool.keys) = Cardinality(LiveIn(taskPool))
  <2>1. PICK L, K : L = LiveIn(taskPool) /\ K = taskPool.keys
    OBVIOUS
  <2>2. /\ L \subseteq Runs /\ IsFiniteSet(L) /\ K = {RunKey[r] : r \in L}
        /\ \A r, u \in L : RunKey[r] = RunKey[u] => r = u
    BY <1>1, <2>1, RunsFinite DEF PoolExact, LiveIn, RunningIn, QueuedIn
  <2>3. PICK f : f = [r \in L |-> RunKey[r]]
    OBVIOUS
  <2>4. f \in Bijection(L, K)
    BY <2>2, <2>3 DEF Bijection, Injection, Surjection, IsInjective
  <2>5. IsFiniteSet(K) /\ Cardinality(K) = Cardinality(L)
    BY <2>2, <2>4, FS_Bijection DEF ExistsBijection
  <2> QED BY <2>1, <2>5
<1>8. TaskRuns!AccountingExact
  BY <1>1, <1>2, <1>3, <1>4, <1>5, <1>6, <1>7 DEF PoolExact, LiveIn, TaskRuns!AccountingExact
<1>9. TaskRuns!NothingWaitsInVain
  BY DEF TaskInv, Served, TaskRuns!NothingWaitsInVain
<1> QED BY <1>8, <1>9

-----------------------------------------------------------------------------
(* What a step of the whole is for one part *)

LEMMA RequestsMove == AdmissionSpec => Provider!Init /\ [][Provider!Next]_requestVars
<1>1. AdmissionInit => Provider!Init
  BY DEF AdmissionInit
<1>2. [AdmissionNext]_allVars => [Provider!Next]_requestVars
  BY DEF AdmissionNext, allVars, ToolStep, RuntimeStep, RequestStep, TaskStep
<1> QED BY <1>1, <1>2, PTL DEF AdmissionSpec

LEMMA RunsMove == AdmissionSpec => TaskRuns!Init /\ [][TaskRuns!Next]_taskVars
<1>1. AdmissionInit => TaskRuns!Init
  BY DEF AdmissionInit
<1>2. [AdmissionNext]_allVars => [TaskRuns!Next]_taskVars
  BY DEF AdmissionNext, allVars, ToolStep, RuntimeStep, RequestStep, TaskStep
<1> QED BY <1>1, <1>2, PTL DEF AdmissionSpec

LEMMA RequestsInvariant == AdmissionSpec => []RequestInv
BY InitRequests, NextRequests, RequestsMove, PTL

LEMMA RunsInvariant == AdmissionSpec => []TaskInv /\ [][RunsStep]_taskVars
<1>1. TaskInv /\ [TaskRuns!Next]_taskVars => TaskInv' /\ RunsStep
  BY NextRuns DEF RunsStep
<1> QED BY <1>1, InitRuns, RunsMove, PTL

(***************************************************************************)
(* For any classes, owners, domains and limits: never more requests run    *)
(* than a limit allows: in the process, in a domain, of an owner, of all,  *)
(* of the background or of the internal ones.                              *)
(***************************************************************************)
THEOREM RequestsWithinLimits == AdmissionSpec => []WithinLimits
<1>1. RequestInv /\ RequestInv' /\ WithinLimits /\ [Provider!Next]_requestVars => WithinLimits'
  <2>1. RequestInv' => requestPhase' \in [Requests -> RequestPhases]
    BY DEF RequestInv, RequestsTyped
  <2> QED BY <2>1, StepWithinLimits
<1> QED BY <1>1, InitWithinLimits, RequestsInvariant, RequestsMove, PTL

(***************************************************************************)
(* For any requests, runs and limits: between handlers nothing that could  *)
(* start waits, each waiting owner has one order, and the counters, bytes  *)
(* and keys of the task runs are those of the runs that hold or await a    *)
(* permit, one per task (ProviderRequestAdmission, TaskRunScheduler).      *)
(***************************************************************************)
THEOREM WaitersAreAccounted == AdmissionSpec => []WaitersAccounted
<1>1. RequestInv /\ TaskInv => WaitersAccounted
  BY RequestInvMeans, TaskInvMeans DEF WaitersAccounted
<1> QED BY <1>1, RequestsInvariant, RunsInvariant, PTL

(***************************************************************************)
(* For any limits, however they change: of two requests alike the drain    *)
(* takes the first, a task run that starts passes no queued one, a paused  *)
(* scheduler starts none, and a pool over its limits does not grow.        *)
(***************************************************************************)
THEOREM WaitersServedInTurn == AdmissionSpec => WaitersInTurn
<1>1. AdmissionSpec => Provider!ServedInTurn
  <2>1. RequestInv /\ [Provider!Next]_requestVars =>
          [\A i, j \in DOMAIN requestQueue :
             /\ i < j /\ requestLoop = "drain"
             /\ RequestOwner[requestQueue[i]] = RequestOwner[requestQueue[j]]
                  /\ DomainOf[requestQueue[i]] = DomainOf[requestQueue[j]]
             /\ ClassOf[requestQueue[i]] = ClassOf[requestQueue[j]]
             => ~(requestPhase[requestQueue[j]] = "queued"
                    /\ requestPhase'[requestQueue[j]] = "running")]_(Provider!vars)
    BY StepInTurn DEF RequestsInTurn
  <2> QED BY <2>1, RequestsInvariant, RequestsMove, PTL DEF Provider!ServedInTurn
<1>2. AdmissionSpec => TaskRuns!StartsInTurn
  <2>1. TaskInv /\ [RunsStep]_taskVars =>
          [\A r \in Runs \ TaskRuns!Running : taskPool'.phase[r] = "running" =>
             /\ ~paused'
             /\ \A i \in DOMAIN taskPool.queue :
                  taskPool'.phase[taskPool.queue[i]] = "queued" =>
                    \E j \in 1 .. i : taskPool.queue[j] = r]_(TaskRuns!vars)
    BY DEF RunsStep, RunsInTurn, TaskRuns!Running, TaskRuns!vars, taskVars
  <2> QED BY <2>1, RunsInvariant, PTL DEF TaskRuns!StartsInTurn
<1>3. AdmissionSpec => TaskRuns!GrowsOnlyWithinLimits
  <2>1. TaskInv /\ [RunsStep]_taskVars =>
          [/\ taskPool'.inFlight > taskPool.inFlight => taskPool'.inFlight <= taskLimits'.concurrent
           /\ Len(taskPool'.queue) > Len(taskPool.queue) =>
                Len(taskPool'.queue) <= taskLimits'.queued
                /\ taskPool'.bytes <= taskLimits'.bytes]_(TaskRuns!vars)
    BY DEF RunsStep, RunsGrow, TaskRuns!vars, taskVars
  <2> QED BY <2>1, RunsInvariant, PTL DEF TaskRuns!GrowsOnlyWithinLimits
<1> QED BY <1>1, <1>2, <1>3 DEF WaitersInTurn
=============================================================================
