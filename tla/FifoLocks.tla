------------------------------ MODULE FifoLocks ------------------------------
(***************************************************************************)
(* What path locks promise: per path one queue of operations in the order  *)
(* in which they asked, and an operation runs only at the head of all its  *)
(* paths. FileLocks implements it with a chain of promises.                *)
(***************************************************************************)
EXTENDS Sequences

CONSTANTS Ops, Paths, Want

VARIABLES queue, inside

fifoVars == <<queue, inside>>

FifoInit == queue = [p \in Paths |-> <<>>] /\ inside = {}

AtHead(o, q) == \A p \in Want[o] : q[p] # <<>> /\ Head(q[p]) = o

\* An operation queues on some of its paths; it may run once it heads them all.
Join(o) ==
  /\ o \notin inside
  /\ \E S \in SUBSET Want[o] :
       /\ \A p \in S : \A i \in DOMAIN queue[p] : queue[p][i] # o
       /\ queue' = [p \in Paths |-> IF p \in S THEN Append(queue[p], o) ELSE queue[p]]
  /\ \/ inside' = inside
     \/ inside' = inside \cup {o} /\ AtHead(o, queue')

Leave(o) == o \in inside /\ inside' = inside \ {o} /\ UNCHANGED queue

Free(o, p) ==
  /\ o \notin inside
  /\ queue[p] # <<>> /\ Head(queue[p]) = o
  /\ queue' = [queue EXCEPT ![p] = Tail(@)]
  /\ UNCHANGED inside

FifoNext == \E o \in Ops : Join(o) \/ Leave(o) \/ \E p \in Want[o] : Free(o, p)

FifoSpec == FifoInit /\ [][FifoNext]_fifoVars

\* Operations that run at the same time have no path in common.
Exclusive == \A o1, o2 \in inside : o1 # o2 => Want[o1] \cap Want[o2] = {}
=============================================================================
