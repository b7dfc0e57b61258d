----------------------------- MODULE PermitPool -----------------------------
(***************************************************************************)
(* What an admission controller promises, without its counters and queues: *)
(* a task holds a permit only while every quota it falls under has room.   *)
(* A quota is a pair <<set of tasks, how many of them may hold a permit>>; *)
(* "four in the process", "two per session" or "one write per session"    *)
(* are all quotas.                                                         *)
(***************************************************************************)
EXTENDS Integers, FiniteSets

CONSTANTS Tasks, Quotas

VARIABLE phase

PhaseOfTask == {"outside", "waiting", "holding", "gone"}

TypeOK == phase \in [Tasks -> PhaseOfTask]

Init == phase = [t \in Tasks |-> "outside"]

Holders == {t \in Tasks : phase[t] = "holding"}

HasRoom(t) ==
  \A q \in Quotas : t \in q[1] => Cardinality(Holders \cap q[1]) < q[2]

\* A task that finds no permit waits.
Wait(t) ==
  /\ phase[t] = "outside"
  /\ phase' = [phase EXCEPT ![t] = "waiting"]

\* A permit goes to a new or a waiting task, within every quota.
Grant(t) ==
  /\ phase[t] \in {"outside", "waiting"}
  /\ HasRoom(t)
  /\ phase' = [phase EXCEPT ![t] = "holding"]

\* A task that never held a permit is refused, aborted or timed out.
Drop(t) ==
  /\ phase[t] \in {"outside", "waiting"}
  /\ phase' = [phase EXCEPT ![t] = "gone"]

\* A holder gives its permit back, once and for good.
Return(t) ==
  /\ phase[t] = "holding"
  /\ phase' = [phase EXCEPT ![t] = "gone"]

Next == \E t \in Tasks : Wait(t) \/ Grant(t) \/ Drop(t) \/ Return(t)

Spec == Init /\ [][Next]_phase

\* No quota is ever exceeded.
WithinQuotas == \A q \in Quotas : Cardinality(Holders \cap q[1]) <= q[2]
=============================================================================
