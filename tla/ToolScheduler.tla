---------------------------- MODULE ToolScheduler ----------------------------
(***************************************************************************)
(* packages/cli/src/tools/execution/ConcurrencyScheduler.ts: the scheduler *)
(* every tool call of the process passes before its external invocation.   *)
(* Four in-flight limits (process, process per kind, session, session per  *)
(* kind) and two pending limits; a single queue in arrival order, drained  *)
(* one session after another behind a cursor.                              *)
(*                                                                         *)
(* JavaScript runs a handler to its end, the drain loop it ends with and   *)
(* the loop of cancelOwner included.  A handler is one action plus the     *)
(* iterations of those loops, one action each: while "loop" is not "idle"  *)
(* only the next iteration is enabled, so nothing interleaves with it.     *)
(***************************************************************************)
EXTENDS Integers, FiniteSets, SequencesExt

CONSTANTS Tasks, Sessions, Owners, Kinds,
          SessionOf, OwnerOf, KindOf,
          GlobalMaxInFlight, GlobalMaxPending,
          SessionMaxInFlight, SessionMaxPending,
          GlobalKindLimit, SessionKindLimit

ASSUME TasksAssumption ==
  /\ IsFiniteSet(Tasks)
  /\ SessionOf \in [Tasks -> Sessions]
  /\ OwnerOf \in [Tasks -> Owners]
  /\ KindOf \in [Tasks -> Kinds]

\* normalizeLimits throws unless these hold.
ASSUME LimitsAssumption ==
  /\ GlobalMaxInFlight \in Nat \ {0}
  /\ GlobalMaxPending \in Nat \ {0}
  /\ SessionMaxInFlight \in 1 .. GlobalMaxInFlight
  /\ SessionMaxPending \in 1 .. GlobalMaxPending
  /\ GlobalKindLimit \in [Kinds -> Nat \ {0}]
  /\ SessionKindLimit \in [Kinds -> Nat \ {0}]
  /\ \A k \in Kinds : SessionKindLimit[k] <= GlobalKindLimit[k]

VARIABLES
  queue,              \* pending tasks in arrival order
  sessions,           \* the session map; order 0 is "no entry"
  globalInFlight,
  globalKindInFlight,
  nextSessionOrder,
  lastAdmittedOrder,  \* the round-robin cursor
  closed,
  phase,              \* where the promise of each call stands
  loop,               \* "idle", or the synchronous loop in progress
  agenda              \* calls cancelOwner or close still has to abort

counters == <<sessions, globalInFlight, globalKindInFlight, nextSessionOrder>>
vars == <<queue, counters, lastAdmittedOrder, closed, phase, loop, agenda>>

NoSession == [order |-> 0, inFlight |-> 0, queued |-> 0,
              kindInFlight |-> [k \in Kinds |-> 0]]

SessionState == [order : Nat, inFlight : Nat, queued : Nat,
                 kindInFlight : [Kinds -> Nat]]

Phases == {"new", "queued", "running", "finished",
           "aborted", "timedOut", "rejected"}

TypeOK ==
  /\ queue \in Seq(Tasks)
  /\ sessions \in [Sessions -> SessionState]
  /\ globalInFlight \in Nat
  /\ globalKindInFlight \in [Kinds -> Nat]
  /\ nextSessionOrder \in Nat \ {0}
  /\ lastAdmittedOrder \in Nat
  /\ closed \in BOOLEAN
  /\ phase \in [Tasks -> Phases]
  /\ loop \in {"idle", "drain", "cancel"}
  /\ agenda \subseteq Tasks

Init ==
  /\ queue = <<>>
  /\ sessions = [s \in Sessions |-> NoSession]
  /\ globalInFlight = 0
  /\ globalKindInFlight = [k \in Kinds |-> 0]
  /\ nextSessionOrder = 1
  /\ lastAdmittedOrder = 0
  /\ closed = FALSE
  /\ phase = [t \in Tasks |-> "new"]
  /\ loop = "idle"
  /\ agenda = {}

-----------------------------------------------------------------------------
(* The session map and the four counters *)

Less1(n) == IF n > 0 THEN n - 1 ELSE 0   \* Math.max(0, n - 1)

\* getOrCreateSession: an entry opened now gets the next order.
WithEntry(map, s) ==
  IF map[s].order = 0 THEN [map EXCEPT ![s].order = nextSessionOrder] ELSE map

OrdersUsed(map, s) == IF map[s].order = 0 THEN 1 ELSE 0

\* deleteIdleSession
WithoutIdle(map, s) ==
  IF map[s].inFlight = 0 /\ map[s].queued = 0
  THEN [map EXCEPT ![s] = NoSession]
  ELSE map

\* removeQueuedAccounting
Dequeued(s) == WithoutIdle([sessions EXCEPT ![s].queued = Less1(@)], s)

Acquire_SkipSessionKind(map, t) ==   \* mutant of Acquire
  LET s == SessionOf[t] k == KindOf[t] IN
  /\ sessions' = [WithEntry(map, s) EXCEPT ![s].inFlight = @ + 1]
  /\ nextSessionOrder' = nextSessionOrder + OrdersUsed(map, s)
  /\ globalInFlight' = globalInFlight + 1
  /\ globalKindInFlight' = [globalKindInFlight EXCEPT ![k] = @ + 1]

Acquire(map, t) ==
  LET s == SessionOf[t] k == KindOf[t] IN
  /\ sessions' = [WithEntry(map, s) EXCEPT ![s].inFlight = @ + 1,
                                           ![s].kindInFlight[k] = @ + 1]
  /\ nextSessionOrder' = nextSessionOrder + OrdersUsed(map, s)
  /\ globalInFlight' = globalInFlight + 1
  /\ globalKindInFlight' = [globalKindInFlight EXCEPT ![k] = @ + 1]

Release(t) ==
  LET s == SessionOf[t] k == KindOf[t] IN
  /\ globalInFlight' = Less1(globalInFlight)
  /\ globalKindInFlight' = [globalKindInFlight EXCEPT ![k] = Less1(@)]
  /\ sessions' =
       IF sessions[s].order = 0 THEN sessions
       ELSE WithoutIdle([sessions EXCEPT ![s].inFlight = Less1(@),
                                         ![s].kindInFlight[k] = Less1(@)], s)
  /\ UNCHANGED nextSessionOrder

CanStart(t) ==
  LET s == SessionOf[t] k == KindOf[t] IN
  /\ globalInFlight < GlobalMaxInFlight
  /\ globalKindInFlight[k] < GlobalKindLimit[k]
  /\ sessions[s].inFlight < SessionMaxInFlight
  /\ sessions[s].kindInFlight[k] < SessionKindLimit[k]

-----------------------------------------------------------------------------
(* schedule *)

Settle(t, outcome) == phase' = [phase EXCEPT ![t] = outcome]

\* Closed, or the caller's signal has already fired: nothing is created.
Refuse(t) ==
  /\ loop = "idle" /\ phase[t] = "new"
  /\ \/ closed /\ Settle(t, "rejected")
     \/ ~closed /\ Settle(t, "aborted")
  /\ UNCHANGED <<queue, counters, lastAdmittedOrder, closed, loop, agenda>>

StartNow(t) ==
  /\ loop = "idle" /\ phase[t] = "new" /\ ~closed
  /\ queue = <<>> /\ CanStart(t)
  /\ lastAdmittedOrder' = WithEntry(sessions, SessionOf[t])[SessionOf[t]].order
  /\ Acquire(sessions, t)
  /\ Settle(t, "running")
  /\ UNCHANGED <<queue, closed, loop, agenda>>

PendingFull(t) ==
  \/ sessions[SessionOf[t]].queued >= SessionMaxPending
  \/ Len(queue) >= GlobalMaxPending

\* queue_full: the entry schedule opened is dropped again if it is idle,
\* but the order it took is spent.
RejectFull(t) ==
  LET s == SessionOf[t] IN
  /\ loop = "idle" /\ phase[t] = "new" /\ ~closed
  /\ ~(queue = <<>> /\ CanStart(t))
  /\ PendingFull(t)
  /\ sessions' = WithoutIdle(WithEntry(sessions, s), s)
  /\ nextSessionOrder' = nextSessionOrder + OrdersUsed(sessions, s)
  /\ Settle(t, "rejected")
  /\ UNCHANGED <<queue, globalInFlight, globalKindInFlight, lastAdmittedOrder,
                 closed, loop, agenda>>

Enqueue(t) ==
  LET s == SessionOf[t] IN
  /\ loop = "idle" /\ phase[t] = "new" /\ ~closed
  /\ ~(queue = <<>> /\ CanStart(t))
  /\ ~PendingFull(t)
  /\ queue' = Append(queue, t)
  /\ sessions' = [WithEntry(sessions, s) EXCEPT ![s].queued = @ + 1]
  /\ nextSessionOrder' = nextSessionOrder + OrdersUsed(sessions, s)
  /\ Settle(t, "queued")
  /\ loop' = "drain"
  /\ UNCHANGED <<globalInFlight, globalKindInFlight, lastAdmittedOrder,
                 closed, agenda>>

-----------------------------------------------------------------------------
(* drain *)

OrderAt(i) == sessions[SessionOf[queue[i]]].order

\* The first pending task of each session.
IsHead(i) == \A j \in 1 .. i - 1 : SessionOf[queue[j]] # SessionOf[queue[i]]

Eligible_AnyPosition == {i \in DOMAIN queue : CanStart(queue[i])}   \* mutant

Eligible == {i \in DOMAIN queue : IsHead(i) /\ CanStart(queue[i])}

AfterCursor(i) == OrderAt(i) > lastAdmittedOrder

\* The smallest order after the cursor, else the smallest order.
IsNext(i) ==
  \A j \in Eligible :
    IF AfterCursor(i) THEN AfterCursor(j) => OrderAt(i) <= OrderAt(j)
    ELSE ~AfterCursor(j) /\ OrderAt(i) <= OrderAt(j)

DrainAdmit_Once ==   \* mutant of DrainAdmit: no while loop
  /\ loop = "drain" /\ ~closed
  /\ \E i \in Eligible :
       LET t == queue[i] IN
       /\ IsNext(i)
       /\ queue' = RemoveAt(queue, i)
       /\ lastAdmittedOrder' = OrderAt(i)
       /\ Acquire(Dequeued(SessionOf[t]), t)
       /\ Settle(t, "running")
  /\ loop' = IF agenda = {} THEN "idle" ELSE "cancel"
  /\ UNCHANGED <<closed, agenda>>

\* One iteration.  removeQueuedAccounting may delete the session's entry, and
\* acquire then opens a new one with a new order.
DrainAdmit ==
  /\ loop = "drain" /\ ~closed
  /\ \E i \in Eligible :
       LET t == queue[i] IN
       /\ IsNext(i)
       /\ queue' = RemoveAt(queue, i)
       /\ lastAdmittedOrder' = OrderAt(i)
       /\ Acquire(Dequeued(SessionOf[t]), t)
       /\ Settle(t, "running")
  /\ UNCHANGED <<closed, loop, agenda>>

DrainStop ==
  /\ loop = "drain"
  /\ closed \/ Eligible = {}
  /\ loop' = IF agenda = {} THEN "idle" ELSE "cancel"
  /\ UNCHANGED <<queue, counters, lastAdmittedOrder, closed, phase, agenda>>

-----------------------------------------------------------------------------
(* The end of a running call, and of a pending one *)

Finish(t) ==
  /\ loop = "idle" /\ phase[t] = "running"
  /\ Release(t)
  /\ Settle(t, "finished")
  /\ loop' = "drain"
  /\ UNCHANGED <<queue, lastAdmittedOrder, closed, agenda>>

RemovePending_KeepCount(t, outcome) ==   \* mutant of RemovePending
  \E i \in DOMAIN queue :
    /\ queue[i] = t
    /\ queue' = RemoveAt(queue, i)
    /\ UNCHANGED sessions
    /\ Settle(t, outcome)
    /\ loop' = "drain"
    /\ UNCHANGED <<globalInFlight, globalKindInFlight, nextSessionOrder,
                   lastAdmittedOrder>>

\* removePendingTask and the drain its callers end with.
RemovePending(t, outcome) ==
  \E i \in DOMAIN queue :
    /\ queue[i] = t
    /\ queue' = RemoveAt(queue, i)
    /\ sessions' = Dequeued(SessionOf[t])
    /\ Settle(t, outcome)
    /\ loop' = "drain"
    /\ UNCHANGED <<globalInFlight, globalKindInFlight, nextSessionOrder,
                   lastAdmittedOrder>>

\* The caller's signal fires.
Abort(t) ==
  /\ loop = "idle"
  /\ RemovePending(t, "aborted")
  /\ UNCHANGED <<closed, agenda>>

\* The wait timer fires.
Timeout(t) ==
  /\ loop = "idle"
  /\ RemovePending(t, "timedOut")
  /\ UNCHANGED <<closed, agenda>>

\* cancelOwner: the calls to abort are listed first, then aborted one by one in
\* arrival order, each with its own drain.
CancelOwner(o) ==
  LET owned == {t \in ToSet(queue) : OwnerOf[t] = o} IN
  /\ loop = "idle" /\ owned # {}
  /\ agenda' = owned
  /\ loop' = "cancel"
  /\ UNCHANGED <<queue, counters, lastAdmittedOrder, closed, phase>>

Close ==
  /\ loop = "idle" /\ ~closed
  /\ closed' = TRUE
  /\ agenda' = ToSet(queue)
  /\ loop' = "cancel"
  /\ UNCHANGED <<queue, counters, lastAdmittedOrder, phase>>

\* abortTask for the next call listed; one that a drain has admitted in between
\* is no longer in the queue and is left alone.
CancelNext ==
  /\ loop = "cancel"
  /\ \E i \in DOMAIN queue :
       /\ queue[i] \in agenda
       /\ \A j \in 1 .. i - 1 : queue[j] \notin agenda
       /\ RemovePending(queue[i], "aborted")
       /\ agenda' = agenda \ {queue[i]}
  /\ UNCHANGED closed

CancelStop ==
  /\ loop = "cancel"
  /\ ToSet(queue) \cap agenda = {}
  /\ loop' = "idle"
  /\ agenda' = {}
  /\ UNCHANGED <<queue, counters, lastAdmittedOrder, closed, phase>>

-----------------------------------------------------------------------------

Schedule(t) == Refuse(t) \/ StartNow(t) \/ RejectFull(t) \/ Enqueue(t)

Loop == DrainAdmit \/ DrainStop \/ CancelNext \/ CancelStop

Next ==
  \/ \E t \in Tasks : Schedule(t) \/ Finish(t) \/ Abort(t) \/ Timeout(t)
  \/ \E o \in Owners : CancelOwner(o)
  \/ Close
  \/ Loop

Spec == Init /\ [][Next]_vars

-----------------------------------------------------------------------------
(* Properties *)

Running == {t \in Tasks : phase[t] = "running"}
Queued  == {t \in Tasks : phase[t] = "queued"}
InSession(s) == {t \in Tasks : SessionOf[t] = s}
OfKind(k)    == {t \in Tasks : KindOf[t] = k}

SessionExact(map, R, Q) ==
  \A s \in Sessions :
    /\ map[s].inFlight = Cardinality(R \cap InSession(s))
    /\ map[s].queued = Cardinality(Q \cap InSession(s))
    /\ \A k \in Kinds :
         map[s].kindInFlight[k] = Cardinality(R \cap InSession(s) \cap OfKind(k))
    /\ map[s].order # 0 <=> (R \cup Q) \cap InSession(s) # {}

ProcessExact(total, byKind, R) ==
  /\ total = Cardinality(R)
  /\ \A k \in Kinds : byKind[k] = Cardinality(R \cap OfKind(k))

QueueExact ==
  /\ \A i \in DOMAIN queue : phase[queue[i]] = "queued"
  /\ \A t \in Queued : \E i \in DOMAIN queue : queue[i] = t
  /\ \A i, j \in DOMAIN queue : queue[i] = queue[j] => i = j

(***************************************************************************)
(* Every counter is the number of calls it stands for, in the middle of a  *)
(* drain as well, although schedule, drain, abort, timeout, release and    *)
(* the deletion of idle session entries each adjust only a part of them:   *)
(* the permits of a call are taken and given back exactly once.  A session *)
(* has an entry only while it has work, and the queue holds each pending   *)
(* call once.                                                              *)
(***************************************************************************)
AccountingExact ==
  /\ ProcessExact(globalInFlight, globalKindInFlight, Running)
  /\ SessionExact(sessions, Running, Queued)
  /\ QueueExact

\* Between two handlers no pending call could start: whatever frees a permit or
\* uncovers a session's next call (release, abort, timeout, cancelOwner) has
\* drained for it.
NothingWaitsInVain == loop = "idle" /\ ~closed => Eligible = {}

\* A call never starts before an earlier pending call of its session, whether
\* schedule starts it at once or a drain admits it.
ArrivalOrder ==
  [][\A t \in Tasks : phase[t] # "running" /\ phase'[t] = "running" =>
       \A i \in DOMAIN queue : SessionOf[queue[i]] = SessionOf[t] =>
         \E j \in 1 .. i : queue[j] = t]_vars

(***************************************************************************)
(* The counters implement the abstract permit pool, whose quotas count the *)
(* calls themselves.                                                       *)
(***************************************************************************)
Quotas ==
  {<<Tasks, GlobalMaxInFlight>>}
  \cup {<<OfKind(k), GlobalKindLimit[k]>> : k \in Kinds}
  \cup {<<InSession(s), SessionMaxInFlight>> : s \in Sessions}
  \cup {<<InSession(s) \cap OfKind(k), SessionKindLimit[k]>> :
           s \in Sessions, k \in Kinds}

PoolPhase ==
  [t \in Tasks |-> CASE phase[t] = "new" -> "outside"
                     [] phase[t] = "queued" -> "waiting"
                     [] phase[t] = "running" -> "holding"
                     [] OTHER -> "gone"]

Pool == INSTANCE PermitPool WITH phase <- PoolPhase

ImplementsPermitPool == Pool!Spec
=============================================================================
