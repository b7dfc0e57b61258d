-------------------------- MODULE RuntimeResidency --------------------------
(***************************************************************************)
(* packages/cli/src/agent/runtime/SessionRuntimeResidency.ts: which        *)
(* session runtimes stay in memory. reserve, remove, forget, sweepIdle and *)
(* disposeAll run under one mutex; acquire, commit, cancel and the release *)
(* of a lease do not, and may run while one of those awaits a dispose().   *)
(* A generation (allocateGeneration) names a runtime. Least-recently-used  *)
(* order is left open: any evictable runtime may be the oldest.            *)
(***************************************************************************)
EXTENDS Integers, FiniteSets

CONSTANTS
  Keys, Clients,
  Web,                 \* keys on the web surface: only these are evicted
  MaxResident,
  MaxGeneration        \* bound of the model: how many runtimes are ever created

ASSUME ResidencyAssumption ==
  /\ IsFiniteSet(Keys) /\ Keys # {} /\ IsFiniteSet(Clients) /\ Clients # {} /\ Web \subseteq Keys
  /\ MaxResident \in Nat \ {0} /\ MaxGeneration \in Nat

VARIABLES
  residents,    \* key -> the resident runtime, or None
  reservations, \* key -> generation of the reservation, or 0
  generation,   \* nextGeneration - 1
  residencyClosed, \* "closed" of the class
  busy,         \* keys whose canEvict() answers no
  mutex,        \* what the mutex holder does while it awaits a dispose
  client        \* what a client holds: a reservation, a lease, or nothing

residencyVars == <<residents, reservations, generation, residencyClosed, busy, mutex, client>>

None == [gen |-> 0, pins |-> 0, poisoned |-> FALSE]
Runtimes == [gen : 0 .. MaxGeneration, pins : 0 .. Cardinality(Clients), poisoned : BOOLEAN]
Nothing == [kind |-> "none", key |-> CHOOSE k \in Keys : TRUE, gen |-> 0]
Holdings == [kind : {"none", "reservation", "lease"}, key : Keys, gen : 0 .. MaxGeneration]

Free == [op |-> "free"]
\* The holder of the mutex disposes runtime "victim" of "key" and then goes on with
\* "op"; "for" is the client and key of a reserve, "rest" what disposeAll has left.
Jobs == [op : {"reserve", "remove", "sweep", "disposeAll"}, key : Keys,
         victim : Runtimes, for : Clients \X Keys, rest : SUBSET Keys]

ResidencyTypeOK ==
  /\ residents \in [Keys -> Runtimes]
  /\ reservations \in [Keys -> 0 .. MaxGeneration]
  /\ generation \in 0 .. MaxGeneration
  /\ residencyClosed \in BOOLEAN
  /\ busy \subseteq Keys
  /\ mutex \in Jobs \cup {Free}
  /\ client \in [Clients -> Holdings]

ResidencyInit ==
  /\ residents = [k \in Keys |-> None]
  /\ reservations = [k \in Keys |-> 0]
  /\ generation = 0
  /\ residencyClosed = FALSE
  /\ busy = {}
  /\ mutex = Free
  /\ client = [c \in Clients |-> Nothing]

-----------------------------------------------------------------------------

Resident == {k \in Keys : residents[k] # None}
Reserved == {k \in Keys : reservations[k] # 0}

Retained_Residents == Cardinality(Resident)   \* mutant of Retained

\* retainedCount.
Retained == Cardinality(Resident) + Cardinality(Reserved)

\* canEvict, on the web surface.
Evictable(k) ==
  /\ k \in Resident \cap Web
  /\ residents[k].pins = 0 /\ ~residents[k].poisoned
  /\ k \notin busy

\* disposeResident up to its await: the runtime leaves the map first.
BeginDispose(op, k, for, rest) ==
  /\ residents' = [residents EXCEPT ![k] = None]
  /\ mutex' = [op |-> op, key |-> k, victim |-> residents[k], for |-> for, rest |-> rest]

Give(c, kind, k, gen) == client' = [client EXCEPT ![c] = [kind |-> kind, key |-> k, gen |-> gen]]

\* A reservation for client c, once there is room.
MakeReservation(c, k) ==
  /\ generation < MaxGeneration
  /\ generation' = generation + 1
  /\ reservations' = [reservations EXCEPT ![k] = generation + 1]
  /\ Give(c, "reservation", k, generation + 1)

\* One round of the loop of reserve: make the reservation, or evict one more runtime
\* and await it, or fail with the capacity error.
ReserveRound(c, k, mayEvict) ==
  \/ /\ Retained < MaxResident
     /\ MakeReservation(c, k)
     /\ mutex' = Free
     /\ UNCHANGED residents
  \/ /\ Retained >= MaxResident /\ mayEvict
     /\ \E v \in Keys : Evictable(v) /\ BeginDispose("reserve", v, <<c, k>>, {})
     /\ UNCHANGED <<generation, reservations, client>>
  \/ /\ Retained >= MaxResident
     /\ mayEvict => \A v \in Keys : ~Evictable(v)
     /\ mutex' = Free
     /\ UNCHANGED <<residents, generation, reservations, client>>

\* One round of the loop of sweepIdle: no runtime left that is idle for long enough,
\* or the oldest such one.
SweepRound ==
  \/ mutex' = Free /\ UNCHANGED residents
  \/ \E v \in Keys : Evictable(v) /\ BeginDispose("sweep", v, mutex.for, {})

\* One round of the loop of disposeAll over the runtimes it found, then the clear.
DisposeAllRound(for, rest) ==
  \/ rest = {} /\ mutex' = Free /\ residents' = [k \in Keys |-> None]
  \/ \E k \in rest : BeginDispose("disposeAll", k, for, rest \ {k})

-----------------------------------------------------------------------------
(* Operations that take the mutex *)

AnyRequest == <<CHOOSE c \in Clients : TRUE, CHOOSE k \in Keys : TRUE>>

Awaiting(c) == mutex # Free /\ mutex.op = "reserve" /\ mutex.for[1] = c

HasNothing(c) == client[c].kind = "none" /\ ~Awaiting(c)

\* The web server allows eviction, the ACP agent does not.
Reserve(c, k) ==
  /\ mutex = Free /\ ~residencyClosed /\ HasNothing(c)
  /\ k \notin Resident \cup Reserved
  /\ ReserveRound(c, k, k \in Web)
  /\ UNCHANGED <<residencyClosed, busy>>

RemoveResident(k) ==
  /\ mutex = Free
  /\ k \in Resident /\ residents[k].pins = 0
  /\ BeginDispose("remove", k, AnyRequest, {})
  /\ UNCHANGED <<reservations, generation, residencyClosed, busy, client>>

Forget(k) ==
  /\ mutex = Free
  /\ k \in Resident /\ residents[k].pins = 0
  /\ residents' = [residents EXCEPT ![k] = None]
  /\ UNCHANGED <<reservations, generation, residencyClosed, busy, mutex, client>>

SweepIdle ==
  /\ mutex = Free /\ ~residencyClosed
  /\ \E v \in Keys : Evictable(v) /\ BeginDispose("sweep", v, AnyRequest, {})
  /\ UNCHANGED <<reservations, generation, residencyClosed, busy, client>>

DisposeAll ==
  /\ mutex = Free /\ ~residencyClosed
  /\ residencyClosed' = TRUE
  /\ reservations' = [k \in Keys |-> 0]
  /\ DisposeAllRound(AnyRequest, Resident)
  /\ UNCHANGED <<generation, busy, client>>

\* dispose() resolves and the holder of the mutex goes on with its loop.
Disposed ==
  /\ mutex # Free
  /\ \/ /\ mutex.op = "reserve"
        /\ ReserveRound(mutex.for[1], mutex.for[2], TRUE)
     \/ /\ mutex.op = "remove"
        /\ mutex' = Free
        /\ UNCHANGED <<residents, reservations, generation, client>>
     \/ mutex.op = "sweep" /\ SweepRound /\ UNCHANGED <<reservations, generation, client>>
     \/ /\ mutex.op = "disposeAll" /\ DisposeAllRound(mutex.for, mutex.rest)
        /\ UNCHANGED <<reservations, generation, client>>
  /\ UNCHANGED <<residencyClosed, busy>>

\* dispose() rejects. The runtime comes back poisoned, except in disposeAll, and the
\* error ends the operation, except disposeAll, which goes on.
DisposeFails ==
  /\ mutex # Free
  /\ \/ /\ mutex.op = "disposeAll" /\ DisposeAllRound(mutex.for, mutex.rest)
     \/ /\ mutex.op # "disposeAll"
        /\ residents' = IF residencyClosed \/ mutex.key \in Resident THEN residents
                        ELSE [residents EXCEPT ![mutex.key] =
                                [mutex.victim EXCEPT !.poisoned = TRUE]]
        /\ mutex' = Free
  /\ UNCHANGED <<reservations, generation, residencyClosed, busy, client>>

-----------------------------------------------------------------------------
(* Operations that do not take the mutex *)

AcquireLease(c, k) ==
  /\ HasNothing(c) /\ k \in Resident /\ ~residents[k].poisoned
  /\ residents' = [residents EXCEPT ![k].pins = @ + 1]
  /\ Give(c, "lease", k, residents[k].gen)
  /\ UNCHANGED <<reservations, generation, residencyClosed, busy, mutex>>

\* commit: the reservation becomes a resident with one lease, or the call throws.
Commit(c) ==
  /\ client[c].kind = "reservation"
  /\ LET k == client[c].key IN
       /\ reservations' = [reservations EXCEPT ![k] = 0]
       /\ IF reservations[k] # client[c].gen \/ residencyClosed
          THEN client' = [client EXCEPT ![c] = Nothing] /\ UNCHANGED residents
          ELSE /\ residents' = [residents EXCEPT ![k] = [gen |-> client[c].gen, pins |-> 1,
                                                         poisoned |-> FALSE]]
               /\ Give(c, "lease", k, client[c].gen)
  /\ UNCHANGED <<generation, residencyClosed, busy, mutex>>

CancelReservation(c) ==
  /\ client[c].kind = "reservation"
  /\ LET k == client[c].key IN
       reservations' = IF reservations[k] = client[c].gen
                       THEN [reservations EXCEPT ![k] = 0] ELSE reservations
  /\ client' = [client EXCEPT ![c] = Nothing]
  /\ UNCHANGED <<residents, generation, residencyClosed, busy, mutex>>

ReleaseLease(c) ==
  /\ client[c].kind = "lease"
  /\ LET k == client[c].key IN
       residents' = IF residents[k].gen # client[c].gen THEN residents
                    ELSE [residents EXCEPT ![k].pins = IF @ = 0 THEN 0 ELSE @ - 1]
  /\ client' = [client EXCEPT ![c] = Nothing]
  /\ UNCHANGED <<reservations, generation, residencyClosed, busy, mutex>>

\* Runs, shell commands and reviews come and go in a runtime.
Work(k) ==
  /\ busy' = IF k \in busy THEN busy \ {k} ELSE busy \cup {k}
  /\ UNCHANGED <<residents, reservations, generation, residencyClosed, mutex, client>>

ResidencyNext ==
  \/ \E c \in Clients : \E k \in Keys : Reserve(c, k) \/ AcquireLease(c, k)
  \/ \E c \in Clients : Commit(c) \/ CancelReservation(c) \/ ReleaseLease(c)
  \/ \E k \in Keys : RemoveResident(k) \/ Forget(k) \/ Work(k)
  \/ SweepIdle \/ DisposeAll \/ Disposed \/ DisposeFails

ResidencySpec == ResidencyInit /\ [][ResidencyNext]_residencyVars

-----------------------------------------------------------------------------
(* Properties *)

\* Runtimes that exist: resident, promised to a reservation, or still disposing.
Existing == Retained + (IF mutex = Free THEN 0 ELSE 1)

\* No interleaving of commits with an eviction that awaits exceeds the limit, not
\* even while the evicted runtime is still being disposed or comes back.
WithinCapacity == Existing <= MaxResident

\* One key never has two runtimes, the one being disposed included.
OneRuntimePerKey ==
  /\ ResidencyTypeOK
  /\ Resident \cap Reserved = {}
  /\ mutex # Free => mutex.key \notin Resident \cup Reserved

Leases(k) == {c \in Clients : client[c] = [kind |-> "lease", key |-> k, gen |-> residents[k].gen]}

\* A lease keeps its runtime: until shutdown the leased generation is resident, and
\* the pins count exactly the leases, across disposals and re-creations of the key.
LeasedRuntimeStays ==
  /\ \A k \in Resident : residents[k].pins = Cardinality(Leases(k))
  /\ \A c \in Clients : client[c].kind = "lease" /\ ~residencyClosed =>
       residents[client[c].key].gen = client[c].gen

\* After disposeAll nothing is resident or reserved, and nothing becomes so again.
NothingAfterDisposeAll ==
  residencyClosed /\ mutex = Free => Resident = {} /\ Reserved = {}

\* Whatever interleaves with an eviction that awaits, the runtimes that exist stay within the
\* limit, a key never has two of them, the one being disposed included, a leased one stays
\* across disposals and re-creations of its key, and after disposeAll there is none.
ResidentsAccounted ==
  WithinCapacity /\ OneRuntimePerKey /\ LeasedRuntimeStays /\ NothingAfterDisposeAll
=============================================================================
