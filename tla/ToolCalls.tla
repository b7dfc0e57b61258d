------------------------------ MODULE ToolCalls ------------------------------
(***************************************************************************)
(* packages/cli/src/tools/execution/ToolExecutor.ts, runTool: what a tool  *)
(* call holds, layer by layer. It passes the gate of its executor, then    *)
(* the process-wide scheduler, then, if it edits files, the file locks; it *)
(* gives them back in the opposite order. A Task call runs a subagent with *)
(* an executor of its own, whose calls go through the same layers while    *)
(* the Task call keeps its place in the gate and its permit.               *)
(*                                                                         *)
(* The scheduler is taken by its abstract specification, PermitPool, which *)
(* ToolScheduler implements. Hooks, permission and approval only prolong   *)
(* the time between the gate and the scheduler, or end the call there.     *)
(***************************************************************************)
EXTENDS Integers, FiniteSets, SequencesExt, PathOrder

CONSTANTS Calls, Executors, ExecutorOf, Shared, MaxPending,   \* the gates
          Quotas,                                             \* the scheduler
          Editors, Paths,                                     \* the file locks
          Given,    \* the paths an editor passes to them, in its own order
          Parent, NoCall    \* the Task call whose subagent makes a call, if any

VARIABLES queue, concurrentInFlight, exclusiveInFlight, closed, phase,   \* the gates
          permit,                                                        \* the scheduler
          locks, made, resolved, mine, waits, editing                    \* the file locks

gateVars == <<queue, concurrentInFlight, exclusiveInFlight, closed, phase>>
lockVars == <<locks, made, resolved, mine, waits, editing>>
vars == <<gateVars, permit, lockVars>>

LockOrder_AsGiven == Given   \* mutant of LockOrder

\* acquireLocks: the paths without duplicates, in one order for everybody.
LockOrder == [o \in Editors |-> Ascending(ToSet(Given[o]))]

Gate == INSTANCE ToolGate WITH Tasks <- Calls
Pool == INSTANCE PermitPool WITH Tasks <- Calls, phase <- permit
Locks == INSTANCE FileLocks WITH Ops <- Editors, phase <- editing

ASSUME CallsAssumption ==
  /\ Gate!GateAssumption
  /\ Paths \subseteq Nat /\ \A o \in Editors : Given[o] \in Seq(Paths) /\ Given[o] # <<>>
  /\ Editors \subseteq Calls /\ NoCall \notin Calls
  /\ Parent \in [Calls -> Calls \cup {NoCall}]

Init == Gate!Init /\ Pool!Init /\ Locks!Init

-----------------------------------------------------------------------------

Children(t) == {c \in Calls : Parent[c] = t}

\* A turn issues its calls while it lasts: a subagent's, while the Task call is running.
Issued(t) == Parent[t] # NoCall => permit[Parent[t]] = "holding"

Execute(t) ==
  /\ Issued(t)
  /\ Gate!Run(t) \/ Gate!Refuse(t)
  /\ UNCHANGED <<permit, lockVars>>

\* Past the gate, the call asks for a permit: it gets one, waits, or is refused.
Schedule(t) ==
  /\ phase[t] = "running" /\ permit[t] = "outside"
  /\ Pool!Grant(t) \/ Pool!Wait(t) \/ Pool!Drop(t)
  /\ UNCHANGED <<gateVars, lockVars>>

Admit(t) ==
  /\ permit[t] = "waiting" /\ Pool!Grant(t)
  /\ UNCHANGED <<gateVars, lockVars>>

\* The wait timer fires, the signal aborts, or dispose cancels the executor's calls.
GiveUp(t) ==
  /\ permit[t] = "waiting" /\ Pool!Drop(t)
  /\ UNCHANGED <<gateVars, lockVars>>

\* The invocation of an editor runs under its locks.
Edit(t) ==
  /\ permit[t] = "holding"
  /\ Locks!Start(t) \/ Locks!Wake(t) \/ Locks!Finish(t) \/ Locks!Unlock(t)
  /\ UNCHANGED <<gateVars, permit>>

InvocationOver(t) ==
  /\ t \in Editors => editing[t] = "done"
  /\ \A c \in Children(t) : phase[c] \notin {"queued", "running"}

\* The invocation settles: the permit goes back.
Settle(t) ==
  /\ InvocationOver(t)
  /\ Pool!Return(t)
  /\ UNCHANGED <<gateVars, lockVars>>

\* The call leaves the gate, with its result, an error or a cancellation.
Leave(t) ==
  /\ permit[t] = "gone"
  /\ Gate!Finish(t)
  /\ UNCHANGED <<permit, lockVars>>

\* The signal of a call that waits at the gate.
Abort(t) ==
  /\ Gate!Abort(t)
  /\ UNCHANGED <<permit, lockVars>>

\* dispose, of an executor whose calls need not have ended.
Dispose(x) ==
  /\ Gate!Close(x)
  /\ UNCHANGED <<permit, lockVars>>

Progress(t) == Schedule(t) \/ Admit(t) \/ Settle(t) \/ Leave(t) \/ (t \in Editors /\ Edit(t))

Next ==
  \/ \E t \in Calls : Execute(t) \/ Progress(t) \/ GiveUp(t) \/ Abort(t)
  \/ \E x \in Executors : Dispose(x)

Spec == Init /\ [][Next]_vars

\* Promises settle and the scheduler grants what fits (no wake-up is lost there). Its wait
\* timer fires: without it a Task call and its own subagent's call can wait for each other,
\* the one holding the permit the other needs. No call goes back, so it is enough that
\* something happens as long as something can.
FairSpec == Spec /\ WF_vars(\E t \in Calls : Progress(t) \/ GiveUp(t))

-----------------------------------------------------------------------------
(* Properties *)

\* A call that is not concurrency-safe runs alone in its executor, and the lock map holds
\* the last reservation of exactly the paths that are in use.
LayersExclude == Gate!ExclusiveRunsAlone /\ Locks!MapHasLastReservation

\* No call of an executor starts while an earlier one waits at the gate.
NoOvertaking == Gate!NoOvertaking

\* Editors of a path take turns in the order in which they asked for it.
ImplementsFifo == Locks!ImplementsFifo

\* However gates, permits, locks and subagents are nested, every call that was issued
\* ends: nobody waits for ever on what somebody else holds.
EveryCallEnds == <>[](\A t \in Calls : phase[t] \notin {"queued", "running"})
=============================================================================
