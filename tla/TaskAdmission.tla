---------------------------- MODULE TaskAdmission ----------------------------
(***************************************************************************)
(* packages/cli/src/agent/runtime/TaskRunScheduler.ts: the process-wide    *)
(* queue of background task runs. Its limits are taken from each caller    *)
(* until somebody configures them, they can change under running and       *)
(* queued runs, and it can be paused. Every handler is synchronous, so it  *)
(* is one step with the drain it ends with.                                *)
(***************************************************************************)
EXTENDS Integers, FiniteSets, SequencesExt

CONSTANTS
  Runs, Key, Bytes,     \* admissions, the task each is for and its pending bytes
  Limits,               \* the limits callers pass: [concurrent, queued, bytes]
  Initial               \* the built-in ones

TaskAdmissionAssumption ==
  /\ IsFiniteSet(Runs) /\ Bytes \in [Runs -> Nat \ {0}]
  /\ Limits \subseteq [concurrent : Nat \ {0}, queued : Nat, bytes : Nat]
  /\ Initial \in Limits

VARIABLES
  limits, configured, paused,
  pool      \* queue, inFlight, bytes (pendingBytes), keys (activeKeys), phase per run

vars == <<limits, configured, paused, pool>>

Phases == {"new", "queued", "running", "released", "cancelled", "refused"}

TypeOK ==
  /\ limits \in Limits
  /\ configured \in BOOLEAN /\ paused \in BOOLEAN
  /\ pool.queue \in Seq(Runs)
  /\ pool.inFlight \in Nat /\ pool.bytes \in Nat
  /\ pool.keys \subseteq {Key[r] : r \in Runs}
  /\ pool.phase \in [Runs -> Phases]

Init ==
  /\ limits = Initial /\ configured = FALSE /\ paused = FALSE
  /\ pool = [queue |-> <<>>, inFlight |-> 0, bytes |-> 0, keys |-> {},
             phase |-> [r \in Runs |-> "new"]]

-----------------------------------------------------------------------------
(* What the methods do to the pool *)

\* The bytes of several runs, as the size of the set of their single bytes.
SumBytes(S) == Cardinality(UNION {{r} \X (1 .. Bytes[r]) : r \in S})

DrainCount(s, l, isPaused) ==
  IF isPaused \/ s.inFlight >= l.concurrent THEN 0
  ELSE Min({l.concurrent - s.inFlight, Len(s.queue)})

\* drain: start runs from the head of the queue while there is capacity.
Drain(s, l, isPaused) ==
  LET n == DrainCount(s, l, isPaused)
      started == {s.queue[i] : i \in 1 .. n}
  IN  [s EXCEPT !.queue = SubSeq(@, n + 1, Len(@)),
                !.inFlight = @ + n,
                !.bytes = @ - SumBytes(started),
                !.phase = [r \in Runs |-> IF r \in started THEN "running" ELSE @[r]]]

WithStarted(s, r) ==
  [s EXCEPT !.inFlight = @ + 1, !.keys = @ \cup {Key[r]}, !.phase[r] = "running"]

WithQueued(s, r) ==
  [s EXCEPT !.queue = Append(@, r), !.bytes = @ + Bytes[r],
            !.keys = @ \cup {Key[r]}, !.phase[r] = "queued"]

WithReleased(s, r) ==
  [s EXCEPT !.inFlight = IF @ > 0 THEN @ - 1 ELSE 0,
            !.keys = @ \ {Key[r]}, !.phase[r] = "released"]

WithCancelled(s, r) ==
  [s EXCEPT !.queue = RemoveAt(@, CHOOSE i \in DOMAIN @ : @[i] = r), !.bytes = @ - Bytes[r],
            !.keys = @ \ {Key[r]}, !.phase[r] = "cancelled"]

MustQueue(s, l) == paused \/ s.inFlight >= l.concurrent

QueueFull(s, l, r) == Len(s.queue) >= l.queued \/ Bytes[r] > l.bytes - s.bytes

-----------------------------------------------------------------------------
(* Handlers *)

\* admit. A scheduler nobody configured adopts the limits of the caller, which may
\* release queued runs, before it looks at the run and whatever becomes of it. The
\* signal may have fired already.
Admit(r, offered) ==
  /\ pool.phase[r] = "new"
  /\ LET l == IF configured THEN limits ELSE offered
         s == IF configured THEN pool ELSE Drain(pool, l, paused)
         refused == Key[r] \in s.keys \/ (MustQueue(s, l) /\ QueueFull(s, l, r))
     IN  /\ limits' = l
         /\ \/ refused /\ pool' = [s EXCEPT !.phase[r] = "refused"]
            \/ ~refused /\ pool' = [s EXCEPT !.phase[r] = "cancelled"]
            \/ ~refused /\ ~MustQueue(s, l) /\ pool' = WithStarted(s, r)
            \/ ~refused /\ MustQueue(s, l) /\ pool' = WithQueued(s, r)
  /\ UNCHANGED <<configured, paused>>

\* The permit of a running run is released; "released" makes a second call a no-op.
Release(r) ==
  /\ pool.phase[r] = "running"
  /\ pool' = Drain(WithReleased(pool, r), limits, paused)
  /\ UNCHANGED <<limits, configured, paused>>

\* cancel, the abort listener, or release of a handle that has no permit yet.
Cancel(r) ==
  /\ pool.phase[r] = "queued"
  /\ pool' = WithCancelled(pool, r)
  /\ UNCHANGED <<limits, configured, paused>>

Configure(l) ==
  /\ configured' = TRUE
  /\ limits' = l
  /\ pool' = Drain(pool, l, paused)
  /\ UNCHANGED paused

SetPaused(p) ==
  /\ p # paused
  /\ paused' = p
  /\ pool' = Drain(pool, limits, p)
  /\ UNCHANGED <<limits, configured>>

Next ==
  \/ \E r \in Runs : (\E l \in Limits : Admit(r, l)) \/ Release(r) \/ Cancel(r)
  \/ \E l \in Limits : Configure(l)
  \/ \E p \in BOOLEAN : SetPaused(p)

Spec == Init /\ [][Next]_vars

-----------------------------------------------------------------------------
(* Properties *)

Running == {r \in Runs : pool.phase[r] = "running"}
Queued == {r \in Runs : pool.phase[r] = "queued"}

\* The two counters and the key set describe the runs that hold or await a permit,
\* each task has at most one such run, and no run is queued twice.
AccountingExact ==
  /\ TypeOK
  /\ pool.inFlight = Cardinality(Running)
  /\ pool.bytes = SumBytes(Queued)
  /\ ToSet(pool.queue) = Queued /\ Len(pool.queue) = Cardinality(Queued)
  /\ pool.keys = {Key[r] : r \in Running \cup Queued}
  /\ Cardinality(pool.keys) = Cardinality(Running \cup Queued)

\* Whatever happened to the limits, no run waits beside free capacity.
NothingWaitsInVain ==
  pool.queue # <<>> => paused \/ pool.inFlight >= limits.concurrent

\* After a limit was lowered the pool may be over it, but it never grows there.
GrowsOnlyWithinLimits ==
  [][/\ pool'.inFlight > pool.inFlight => pool'.inFlight <= limits'.concurrent
     /\ Len(pool'.queue) > Len(pool.queue) =>
          Len(pool'.queue) <= limits'.queued /\ pool'.bytes <= limits'.bytes]_vars

\* A paused scheduler starts nothing, and a run that starts passes no queued one.
StartsInTurn ==
  [][\A r \in Runs \ Running : pool'.phase[r] = "running" =>
       /\ ~paused'
       /\ \A i \in DOMAIN pool.queue :
            pool'.phase[pool.queue[i]] = "queued" => \E j \in 1 .. i : pool.queue[j] = r]_vars
=============================================================================
