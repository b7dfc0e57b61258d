------------------------------- MODULE ToolGate -------------------------------
(***************************************************************************)
(* packages/cli/src/tools/execution/ToolConcurrencyGate.ts: the gate every *)
(* call of a ToolExecutor passes before it reaches the scheduler. Each     *)
(* executor has a gate of its own: the state is a function of executors.   *)
(* Consecutive shared calls overlap; an exclusive call is a FIFO barrier.  *)
(* The drain loop starts a prefix of the queue, so a handler is one step.  *)
(***************************************************************************)
EXTENDS Integers, FiniteSets, SequencesExt

CONSTANTS Tasks, Executors, ExecutorOf, Shared, MaxPending

\* What the module that instantiates this one assumes.
GateAssumption ==
  /\ IsFiniteSet(Tasks) /\ ExecutorOf \in [Tasks -> Executors]
  /\ Shared \subseteq Tasks /\ MaxPending \in Nat \ {0}

VARIABLES queue, concurrentInFlight, exclusiveInFlight, closed, phase

vars == <<queue, concurrentInFlight, exclusiveInFlight, closed, phase>>

Phases == {"new", "queued", "running", "finished", "aborted", "rejected"}

TypeOK ==
  /\ DOMAIN queue = Executors /\ \A x \in Executors : queue[x] \in Seq(Tasks)
  /\ concurrentInFlight \in [Executors -> Nat]
  /\ exclusiveInFlight \in [Executors -> BOOLEAN]
  /\ closed \in [Executors -> BOOLEAN]
  /\ phase \in [Tasks -> Phases]

Init ==
  /\ queue = [x \in Executors |-> <<>>]
  /\ concurrentInFlight = [x \in Executors |-> 0]
  /\ exclusiveInFlight = [x \in Executors |-> FALSE]
  /\ closed = [x \in Executors |-> FALSE]
  /\ phase = [t \in Tasks |-> "new"]

-----------------------------------------------------------------------------

\* The longest prefix of shared calls: what the while loops shift off.
SharedPrefix(q) ==
  CHOOSE n \in 0 .. Len(q) :
    /\ \A i \in 1 .. n : q[i] \in Shared
    /\ n < Len(q) => q[n + 1] \notin Shared

StartCount_JoinAny(q, sharedNow, exclusiveNow) ==   \* mutant of StartCount
  IF q = <<>> THEN 0
  ELSE IF q[1] \in Shared THEN SharedPrefix(q)
  ELSE IF sharedNow = 0 /\ ~exclusiveNow THEN 1 ELSE 0

\* How many calls from the head of the queue a drain starts.
StartCount(q, sharedNow, exclusiveNow) ==
  IF exclusiveNow \/ q = <<>> THEN 0
  ELSE IF q[1] \in Shared THEN SharedPrefix(q)
  ELSE IF sharedNow = 0 THEN 1 ELSE 0

\* The drain every handler ends with, on the queue, the counters and the phases
\* the handler has left behind.
Drain(x, q, sharedNow, exclusiveNow, phaseNow) ==
  LET n == IF closed[x] THEN 0 ELSE StartCount(q, sharedNow, exclusiveNow)
      started == {q[i] : i \in 1 .. n}
  IN  /\ queue' = [queue EXCEPT ![x] = SubSeq(q, n + 1, Len(q))]
      /\ concurrentInFlight' =
           [concurrentInFlight EXCEPT ![x] = sharedNow + Cardinality(started \cap Shared)]
      /\ exclusiveInFlight' =
           [exclusiveInFlight EXCEPT ![x] = exclusiveNow \/ started \ Shared # {}]
      /\ phase' = [t \in Tasks |-> IF t \in started THEN "running" ELSE phaseNow[t]]

-----------------------------------------------------------------------------

\* run, when the gate is closed or full, or the signal has already fired.
Refuse(t) ==
  LET x == ExecutorOf[t] IN
  /\ phase[t] = "new"
  /\ \/ /\ closed[x] \/ Len(queue[x]) >= MaxPending
        /\ phase' = [phase EXCEPT ![t] = "rejected"]
     \/ /\ ~closed[x]
        /\ phase' = [phase EXCEPT ![t] = "aborted"]
  /\ UNCHANGED <<queue, concurrentInFlight, exclusiveInFlight, closed>>

Run_Direct(t) ==   \* mutant of Run: a shared call skips the queue
  LET x == ExecutorOf[t] IN
  /\ phase[t] = "new" /\ ~closed[x] /\ Len(queue[x]) < MaxPending
  /\ IF t \in Shared /\ ~exclusiveInFlight[x]
     THEN Drain(x, queue[x], concurrentInFlight[x] + 1, FALSE,
                [phase EXCEPT ![t] = "running"])
     ELSE Drain(x, Append(queue[x], t), concurrentInFlight[x], exclusiveInFlight[x],
                [phase EXCEPT ![t] = "queued"])
  /\ UNCHANGED closed

Run(t) ==
  LET x == ExecutorOf[t] IN
  /\ phase[t] = "new" /\ ~closed[x] /\ Len(queue[x]) < MaxPending
  /\ Drain(x, Append(queue[x], t), concurrentInFlight[x], exclusiveInFlight[x],
           [phase EXCEPT ![t] = "queued"])
  /\ UNCHANGED closed

\* The finally of start.
Finish(t) ==
  LET x == ExecutorOf[t] IN
  /\ phase[t] = "running"
  /\ IF t \in Shared
     THEN Drain(x, queue[x], concurrentInFlight[x] - 1, exclusiveInFlight[x],
                [phase EXCEPT ![t] = "finished"])
     ELSE Drain(x, queue[x], concurrentInFlight[x], FALSE,
                [phase EXCEPT ![t] = "finished"])
  /\ UNCHANGED closed

\* The abort listener of a call that has not started.
Abort(t) ==
  LET x == ExecutorOf[t] IN
  /\ phase[t] = "queued"
  /\ \E i \in DOMAIN queue[x] :
       /\ queue[x][i] = t
       /\ Drain(x, RemoveAt(queue[x], i), concurrentInFlight[x], exclusiveInFlight[x],
                [phase EXCEPT ![t] = "aborted"])
  /\ UNCHANGED closed

Close(x) ==
  /\ ~closed[x]
  /\ closed' = [closed EXCEPT ![x] = TRUE]
  /\ queue' = [queue EXCEPT ![x] = <<>>]
  /\ phase' = [t \in Tasks |-> IF phase[t] = "queued" /\ ExecutorOf[t] = x
                               THEN "aborted" ELSE phase[t]]
  /\ UNCHANGED <<concurrentInFlight, exclusiveInFlight>>

Next ==
  \/ \E t \in Tasks : Refuse(t) \/ Run(t) \/ Finish(t) \/ Abort(t)
  \/ \E x \in Executors : Close(x)

Spec == Init /\ [][Next]_vars

-----------------------------------------------------------------------------
(* Properties *)

Running(x) == {t \in Tasks : phase[t] = "running" /\ ExecutorOf[t] = x}

\* A call that is not concurrency-safe runs alone: no other call of the executor
\* runs beside it, and the gate's two counters say so.
ExclusiveRunsAlone ==
  /\ TypeOK
  /\ \A x \in Executors :
       /\ \A t \in Running(x) \ Shared : Running(x) = {t}
       /\ concurrentInFlight[x] = Cardinality(Running(x) \cap Shared)
       /\ exclusiveInFlight[x] <=> Running(x) \ Shared # {}

\* "later reads cannot overtake an earlier write": no call starts while an
\* earlier one, of either kind, stays in the queue of its executor.
NoOvertaking ==
  [][\A t \in Tasks : phase[t] # "running" /\ phase'[t] = "running" =>
       LET q == queue[ExecutorOf[t]]
       IN  \A i \in DOMAIN q :
             phase'[q[i]] = "queued" => \E j \in 1 .. i : q[j] = t]_vars
=============================================================================
