------------------------------ MODULE FileLocks ------------------------------
(***************************************************************************)
(* packages/cli/src/tools/execution/FileLockManager.ts: acquireLock and    *)
(* acquireLocks. The map keeps, per path, the promise ("reservation") of   *)
(* the last operation that asked for it; an operation awaits the one it    *)
(* displaced. A reservation is a number, in the order they are created;    *)
(* 0 is "no entry".                                                        *)
(***************************************************************************)
EXTENDS Integers, FiniteSets, SequencesExt, PathOrder

CONSTANTS Ops, Paths,
          LockOrder     \* the paths an operation locks, each once, in the order it takes them

\* What the module that instantiates this one assumes.
FileLocksAssumption ==
  /\ Paths \subseteq Nat
  /\ \A o \in Ops : /\ LockOrder[o] \in Seq(Paths) /\ LockOrder[o] # <<>>
                    /\ IsInjective(LockOrder[o])

VARIABLES
  locks,      \* path -> the last reservation, or 0
  made,       \* how many reservations have been created
  resolved,   \* the reservations that were released
  mine,       \* per operation, its unreleased reservations, in lock order
  waits,      \* per operation, the reservation its last one displaced, or 0
  phase

vars == <<locks, made, resolved, mine, waits, phase>>

TypeOK ==
  /\ locks \in [Paths -> 0 .. made]
  /\ made \in Nat
  /\ resolved \subseteq 1 .. made
  /\ DOMAIN mine = Ops
  /\ \A o \in Ops : mine[o] \in Seq(1 .. made) /\ Len(mine[o]) <= Len(LockOrder[o])
  /\ waits \in [Ops -> 0 .. made]
  /\ phase \in [Ops -> {"new", "waiting", "inside", "leaving", "done"}]

Init ==
  /\ locks = [p \in Paths |-> 0]
  /\ made = 0
  /\ resolved = {}
  /\ mine = [o \in Ops |-> <<>>]
  /\ waits = [o \in Ops |-> 0]
  /\ phase = [o \in Ops |-> "new"]

-----------------------------------------------------------------------------

\* The path at which the synchronous run from path i on stops: the first one with
\* a previous lock to await, or the last one.
StopsAt(o, i) ==
  CHOOSE k \in i .. Len(LockOrder[o]) :
    /\ \A j \in i .. k - 1 : locks[LockOrder[o][j]] = 0
    /\ locks[LockOrder[o][k]] # 0 \/ k = Len(LockOrder[o])

\* acquire(i): reserve path i and, while nobody held the one before, the next. With
\* no path left the operation starts in the same step.
AcquireFrom(o, i) ==
  LET order == LockOrder[o]
      last == IF i > Len(order) THEN Len(order) ELSE StopsAt(o, i)
      taken == {order[j] : j \in i .. last}
      At(p) == CHOOSE j \in DOMAIN order : order[j] = p
      previous == IF i > Len(order) THEN 0 ELSE locks[order[last]]
  IN  /\ made' = made + last - i + 1
      /\ mine' = [mine EXCEPT ![o] = @ \o [j \in 1 .. last - i + 1 |-> made + j]]
      /\ locks' = [p \in Paths |-> IF p \in taken THEN made + At(p) - i + 1
                                                  ELSE locks[p]]
      /\ waits' = [waits EXCEPT ![o] = previous]
      /\ phase' = [phase EXCEPT ![o] = IF previous = 0 THEN "inside" ELSE "waiting"]

\* The synchronous part of acquireLocks.
Start(o) ==
  /\ phase[o] = "new"
  /\ AcquireFrom(o, 1)
  /\ UNCHANGED resolved

\* The continuation of "await previousLock".
Wake(o) ==
  /\ phase[o] = "waiting" /\ waits[o] \in resolved
  /\ AcquireFrom(o, Len(mine[o]) + 1)
  /\ UNCHANGED resolved

\* The operation settles, with a result or an error.
Finish(o) ==
  /\ phase[o] = "inside"
  /\ phase' = [phase EXCEPT ![o] = "leaving"]
  /\ UNCHANGED <<locks, made, resolved, mine, waits>>

Unlock_DropEntry(o) ==   \* mutant of Unlock: the entry goes whoever made it
  /\ phase[o] = "leaving"
  /\ LET n == Len(mine[o])
         p == LockOrder[o][n]
     IN  /\ resolved' = resolved \cup {mine[o][n]}
         /\ locks' = [locks EXCEPT ![p] = 0]
         /\ mine' = [mine EXCEPT ![o] = Front(@)]
         /\ phase' = [phase EXCEPT ![o] = IF n = 1 THEN "done" ELSE @]
  /\ UNCHANGED <<made, waits>>

\* One finally block, the innermost first; the next one runs some ticks later.
Unlock(o) ==
  /\ phase[o] = "leaving"
  /\ LET n == Len(mine[o])
         p == LockOrder[o][n]
     IN  /\ resolved' = resolved \cup {mine[o][n]}
         /\ locks' = [locks EXCEPT ![p] = IF @ = mine[o][n] THEN 0 ELSE @]
         /\ mine' = [mine EXCEPT ![o] = Front(@)]
         /\ phase' = [phase EXCEPT ![o] = IF n = 1 THEN "done" ELSE @]
  /\ UNCHANGED <<made, waits>>

Next == \E o \in Ops : Start(o) \/ Wake(o) \/ Finish(o) \/ Unlock(o)

Spec == Init /\ [][Next]_vars

-----------------------------------------------------------------------------
(* Properties *)

\* The unreleased reservations on p, and the operations they are of.
Pending(p) ==
  UNION {{mine[o][i] : i \in {k \in DOMAIN mine[o] : LockOrder[o][k] = p}} : o \in Ops}

OwnerOf(r) == CHOOSE o \in Ops : \E i \in DOMAIN mine[o] : mine[o][i] = r

LockQueue(p) ==
  LET order == Ascending(Pending(p))
  IN  [i \in DOMAIN order |-> OwnerOf(order[i])]

Fifo == INSTANCE FifoLocks WITH
  Want <- [o \in Ops |-> ToSet(LockOrder[o])],
  queue <- [p \in Paths |-> LockQueue(p)],
  inside <- {o \in Ops : phase[o] = "inside"}

\* The promise chain is a FIFO queue per path: an operation runs only at the head
\* of all its paths and a path is freed only by its head.
ImplementsFifo == Fifo!FifoSpec

\* The map has an entry for exactly the paths somebody holds or waits for, and it is
\* the last reservation made: no entry is leaked and none is dropped too early.
MapHasLastReservation ==
  /\ TypeOK
  /\ \A p \in Paths :
       IF Pending(p) = {} THEN locks[p] = 0
       ELSE locks[p] \in Pending(p) /\ \A r \in Pending(p) : r <= locks[p]
==============================================================================
