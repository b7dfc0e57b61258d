----------------------------- MODULE Admission -----------------------------
(***************************************************************************)
(* Four admission controllers of one process, side by side: permits of     *)
(* tool calls, requests to providers, runs of tasks and resident runtimes. *)
(* They share no state, so a behaviour moves one of them, its "part", and  *)
(* the number of states is the sum over the four.                          *)
(***************************************************************************)
EXTENDS ToolScheduler, RuntimeResidency

CONSTANTS
  Requests, Impatient, Domains, DomainOf, ClassOf, MaxInFlight, MaxPending,
  RequestOwners, RequestOwner,   \* Owners and OwnerOf of ProviderAdmission
  Runs, RunKey, RunBytes,        \* Key and Bytes of TaskAdmission
  RunLimits, InitialLimits       \* Limits and Initial of TaskAdmission

VARIABLES
  part,
  requestPhase, requestQueue, order, nextOrder, cursor, age, requestsClosed, requestLoop,
  taskLimits, configured, paused, taskPool

toolVars == vars
requestVars ==
  <<requestPhase, requestQueue, order, nextOrder, cursor, age, requestsClosed, requestLoop>>
taskVars == <<taskLimits, configured, paused, taskPool>>
allVars == <<part, toolVars, residencyVars, requestVars, taskVars>>

Provider == INSTANCE ProviderAdmission
  WITH Owners <- RequestOwners, OwnerOf <- RequestOwner,
       phase <- requestPhase, queue <- requestQueue, closed <- requestsClosed,
       loop <- requestLoop

TaskRuns == INSTANCE TaskAdmission
  WITH Key <- RunKey, Bytes <- RunBytes, Limits <- RunLimits, Initial <- InitialLimits,
       limits <- taskLimits, pool <- taskPool

ASSUME RequestsAssumption == Provider!AdmissionAssumption

ASSUME RunsAssumption == TaskRuns!TaskAdmissionAssumption

ToolStep ==
  part = "tools" /\ Next /\ UNCHANGED <<part, residencyVars, requestVars, taskVars>>
RuntimeStep ==
  part = "runtimes" /\ ResidencyNext /\ UNCHANGED <<part, toolVars, requestVars, taskVars>>
RequestStep ==
  part = "requests" /\ Provider!Next /\ UNCHANGED <<part, toolVars, residencyVars, taskVars>>
TaskStep ==
  part = "tasks" /\ TaskRuns!Next /\ UNCHANGED <<part, toolVars, residencyVars, requestVars>>

AdmissionInit ==
  /\ part \in {"tools", "runtimes", "requests", "tasks"}
  /\ Init /\ ResidencyInit /\ Provider!Init /\ TaskRuns!Init

AdmissionNext == ToolStep \/ RuntimeStep \/ RequestStep \/ TaskStep

AdmissionSpec == AdmissionInit /\ [][AdmissionNext]_allVars

-----------------------------------------------------------------------------
(* Properties of the other controllers; those of the first two have their names *)

\* ProviderRequestAdmission and TaskRunScheduler: between handlers nothing that could start
\* waits, whatever happened to the limits. Exactly the owners with a request running or queued
\* have an order, each one of its own; counters, bytes and keys describe the task runs that
\* hold or await a permit, one per task.
WaitersAccounted ==
  /\ Provider!TypeOK /\ Provider!NothingWaitsInVain /\ Provider!OrdersAreOwners
  /\ TaskRuns!AccountingExact /\ TaskRuns!NothingWaitsInVain

\* Nobody is passed by his own kind. Of two waiting requests alike in owner, domain and
\* class, the drain serves the one that came first, however they have aged. A task run that
\* starts passes no queued one; after a limit was lowered the pool may be over it but never
\* grows there, and a paused scheduler starts nothing.
WaitersInTurn ==
  Provider!ServedInTurn /\ TaskRuns!StartsInTurn /\ TaskRuns!GrowsOnlyWithinLimits
=============================================================================
