------------------------- MODULE ProviderAdmission -------------------------
(***************************************************************************)
(* packages/cli/src/services/pi/providerRequestAdmission.ts: the process-  *)
(* wide scheduler that gives model requests their permits. A request       *)
(* counts against its class (all, non-foreground, internal) in each scope  *)
(* (global, domain, owner); waiting raises its rank; owners of one rank    *)
(* take turns behind a cursor. The counters of the code, raised and        *)
(* lowered in pairs, are the sizes of sets here, and the byte budgets are  *)
(* left to the count limits. Drain is a loop of its own, as in             *)
(* ToolScheduler: nothing interleaves with it.                             *)
(***************************************************************************)
EXTENDS Integers, FiniteSets, SequencesExt

CONSTANTS Requests, Owners, Domains, OwnerOf, DomainOf, ClassOf,
          MaxInFlight, MaxPending,   \* limits by group and scope
          Impatient                  \* requests with maxWaitMs = 0

Classes == {"foreground", "background", "internal"}
Groups == {"all", "nonForeground", "internal"}
Scopes == {"global", "domain", "owner"}

AdmissionAssumption ==
  /\ IsFiniteSet(Requests) /\ Impatient \subseteq Requests
  /\ OwnerOf \in [Requests -> Owners] /\ DomainOf \in [Requests -> Domains]
  /\ ClassOf \in [Requests -> Classes]
  /\ MaxInFlight \in [Groups -> [Scopes -> Nat \ {0}]]
  /\ MaxPending \in [Groups -> [Scopes -> Nat \ {0}]]

VARIABLES
  phase,      \* where each request stands
  queue,      \* pending requests in arrival order
  order,      \* per owner: its order in the owner map, 0 if it has no entry
  nextOrder,
  cursor,     \* lastAdmittedOwnerOrder
  age,        \* per queued request: whole aging periods it has waited, up to 2
  closed,
  loop        \* "drain" or "close" while that loop runs

vars == <<phase, queue, order, nextOrder, cursor, age, closed, loop>>

Init ==
  /\ phase = [t \in Requests |-> "new"]
  /\ queue = <<>>
  /\ order = [o \in Owners |-> 0] /\ nextOrder = 1 /\ cursor = 0
  /\ age = [t \in Requests |-> 0]
  /\ closed = FALSE /\ loop = "idle"

-----------------------------------------------------------------------------
(* Limits *)

InGroup(t, g) ==
  \/ g = "all"
  \/ g = "nonForeground" /\ ClassOf[t] # "foreground"
  \/ g = "internal" /\ ClassOf[t] = "internal"

SameScope(t, u, s) ==
  /\ s = "owner" => OwnerOf[t] = OwnerOf[u]
  /\ s = "domain" => DomainOf[t] = DomainOf[u]

Peers(t, g, s) == {u \in Requests : InGroup(u, g) /\ SameScope(t, u, s)}
In(p) == {t \in Requests : phase[t] = p}

\* The groups and scopes that limit what runs: internal requests have no limit of their own
\* within an owner.
StartLimits == (Groups \X Scopes) \ {<<"internal", "owner">>}

\* One place in each domain is kept for the foreground.
InFlightLimit(g, s) ==
  IF <<g, s>> = <<"nonForeground", "domain">>
  THEN IF MaxInFlight["all"]["domain"] > 1 THEN MaxInFlight["all"]["domain"] - 1 ELSE 1
  ELSE MaxInFlight[g][s]

CanStart(t) ==
  \A g \in Groups, s \in Scopes :
    <<g, s>> \in StartLimits /\ InGroup(t, g) =>
      Cardinality(In("running") \cap Peers(t, g, s)) < InFlightLimit(g, s)

\* pendingConstraint
PendingFull(t) ==
  \E g \in Groups, s \in Scopes :
    InGroup(t, g) /\ Cardinality(In("queued") \cap Peers(t, g, s)) >= MaxPending[g][s]

-----------------------------------------------------------------------------
(* The owner map *)

Settle(t, p) == phase' = [phase EXCEPT ![t] = p]

\* Only the wait of a queued request is looked at.
Fresh(t) == age' = [age EXCEPT ![t] = 0]

\* An owner without an entry gets one with the next order.
Register(o) ==
  /\ order' = IF order[o] = 0 THEN [order EXCEPT ![o] = nextOrder] ELSE order
  /\ nextOrder' = IF order[o] = 0 THEN nextOrder + 1 ELSE nextOrder

\* deleteIdleState: an owner with nothing running or queued loses its entry.
Unregister(t) ==
  /\ order' = IF \E u \in (In("running") \cup In("queued")) \ {t} : OwnerOf[u] = OwnerOf[t]
              THEN order ELSE [order EXCEPT ![OwnerOf[t]] = 0]
  /\ UNCHANGED nextOrder

-----------------------------------------------------------------------------
(* admit *)

Refuse(t) ==
  /\ loop = "idle" /\ phase[t] = "new"
  /\ \/ closed
     \/ /\ ~(queue = <<>> /\ CanStart(t))
        /\ PendingFull(t) \/ t \in Impatient
  /\ Settle(t, "dropped")
  /\ UNCHANGED <<queue, order, nextOrder, cursor, age, closed, loop>>

StartNow(t) ==
  /\ loop = "idle" /\ phase[t] = "new" /\ ~closed
  /\ queue = <<>> /\ CanStart(t)
  /\ Register(OwnerOf[t]) /\ Settle(t, "running")
  /\ UNCHANGED <<queue, cursor, age, closed, loop>>

Enqueue(t) ==
  /\ loop = "idle" /\ phase[t] = "new" /\ ~closed
  /\ ~(queue = <<>> /\ CanStart(t)) /\ ~PendingFull(t) /\ t \notin Impatient
  /\ Register(OwnerOf[t]) /\ Settle(t, "queued")
  /\ queue' = Append(queue, t) /\ loop' = "drain"
  /\ UNCHANGED <<cursor, age, closed>>

-----------------------------------------------------------------------------
(* drain *)

BaseRank(t) ==
  CASE ClassOf[t] = "foreground" -> 0 [] ClassOf[t] = "background" -> 1 [] OTHER -> 2

\* effectiveRank
Rank(t) == IF BaseRank(t) > age[t] THEN BaseRank(t) - age[t] ELSE 0

Eligible == {i \in DOMAIN queue : CanStart(queue[i])}

Better_NewestFirst(i, j) ==   \* mutant of Better
  LET t == queue[i] u == queue[j]
  IN  \/ Rank(t) < Rank(u)
      \/ Rank(t) = Rank(u) /\ i > j

\* Within an owner: the better rank, then arrival.
Better(i, j) ==
  LET t == queue[i] u == queue[j]
  IN  \/ Rank(t) < Rank(u)
      \/ Rank(t) = Rank(u) /\ i < j

BestOfOwner ==
  {i \in Eligible : \A j \in Eligible \ {i} : OwnerOf[queue[i]] = OwnerOf[queue[j]] => Better(i, j)}

BestRanked == {i \in BestOfOwner : \A j \in BestOfOwner : Rank(queue[i]) <= Rank(queue[j])}

OrderAt(i) == order[OwnerOf[queue[i]]]

\* The smallest order after the cursor, else the smallest order.
IsNext(i) ==
  /\ i \in BestRanked
  /\ \A j \in BestRanked :
       IF OrderAt(i) > cursor THEN OrderAt(j) > cursor => OrderAt(i) <= OrderAt(j)
       ELSE OrderAt(j) <= cursor /\ OrderAt(i) <= OrderAt(j)

\* startPending keeps the owner's entry: it removes and starts in one go.
DrainAdmit ==
  /\ loop = "drain" /\ ~closed
  /\ \E i \in Eligible :
       /\ IsNext(i)
       /\ queue' = RemoveAt(queue, i)
       /\ cursor' = OrderAt(i)
       /\ Settle(queue[i], "running") /\ Fresh(queue[i])
  /\ UNCHANGED <<order, nextOrder, closed, loop>>

DrainStop_AfterOne ==   \* mutant of DrainStop: the loop may end early
  /\ loop = "drain" /\ loop' = "idle"
  /\ UNCHANGED <<phase, queue, order, nextOrder, cursor, age, closed>>

DrainStop ==
  /\ loop = "drain" /\ loop' = "idle"
  /\ closed \/ Eligible = {}
  /\ UNCHANGED <<phase, queue, order, nextOrder, cursor, age, closed>>

-----------------------------------------------------------------------------
(* Ends *)

Release(t) ==
  /\ loop = "idle" /\ phase[t] = "running"
  /\ Unregister(t) /\ Settle(t, "finished")
  /\ loop' = "drain"
  /\ UNCHANGED <<queue, cursor, age, closed>>

\* The signal fires, the ticket is cancelled, or its wait is over.
RejectPending(t) ==
  /\ loop = "idle" /\ phase[t] = "queued"
  /\ \E i \in DOMAIN queue : queue[i] = t /\ queue' = RemoveAt(queue, i)
  /\ Unregister(t) /\ Settle(t, "dropped") /\ Fresh(t)
  /\ loop' = "drain"
  /\ UNCHANGED <<cursor, closed>>

\* close rejects all that wait, one after the other; the drains in between do nothing.
Close ==
  /\ loop = "idle" /\ ~closed
  /\ closed' = TRUE /\ loop' = "close"
  /\ UNCHANGED <<phase, queue, order, nextOrder, cursor, age>>

CloseRejects ==
  /\ loop = "close" /\ queue # <<>>
  /\ queue' = Tail(queue)
  /\ Unregister(Head(queue)) /\ Settle(Head(queue), "dropped") /\ Fresh(Head(queue))
  /\ UNCHANGED <<cursor, closed, loop>>

CloseDone ==
  /\ loop = "close" /\ queue = <<>>
  /\ loop' = "idle"
  /\ UNCHANGED <<phase, queue, order, nextOrder, cursor, age, closed>>

\* An aging period ends for a request; those before it have waited longer.
Ages(i) ==
  /\ loop = "idle" /\ i \in DOMAIN queue /\ age[queue[i]] < 2
  /\ \A j \in 1 .. i - 1 : age[queue[j]] > age[queue[i]]
  /\ age' = [age EXCEPT ![queue[i]] = @ + 1]
  /\ UNCHANGED <<phase, queue, order, nextOrder, cursor, closed, loop>>

Next ==
  \/ \E t \in Requests : Refuse(t) \/ StartNow(t) \/ Enqueue(t) \/ Release(t) \/ RejectPending(t)
  \/ \E i \in DOMAIN queue : Ages(i)
  \/ DrainAdmit \/ DrainStop \/ Close \/ CloseRejects \/ CloseDone

Spec == Init /\ [][Next]_vars

-----------------------------------------------------------------------------
(* Properties *)

\* Every variable has its type, and the queue holds exactly the requests that wait.
TypeOK ==
  /\ phase \in [Requests -> {"new", "queued", "running", "finished", "dropped"}]
  /\ queue \in Seq(Requests) /\ IsInjective(queue) /\ ToSet(queue) = In("queued")
  /\ order \in [Owners -> Nat] /\ nextOrder \in Nat /\ cursor \in Nat
  /\ age \in [Requests -> 0 .. 2]
  /\ closed \in BOOLEAN /\ loop \in {"idle", "drain", "close"}

\* While no handler runs, nothing that could start is waiting: no wake-up is lost.
NothingWaitsInVain == loop = "idle" /\ ~closed => Eligible = {}

\* An owner has an order exactly while it has something running or queued, and no two
\* owners share one: the turns the cursor takes are well defined.
OrdersAreOwners ==
  /\ \A o \in Owners :
       order[o] # 0 <=> \E t \in In("running") \cup In("queued") : OwnerOf[t] = o
  /\ \A o, p \in Owners : order[o] = order[p] /\ order[o] # 0 => o = p

\* Of two waiting requests alike in owner, domain and class, the drain serves the one that
\* came first, however they have aged.
ServedInTurn ==
  [][\A i, j \in DOMAIN queue :
       /\ i < j /\ loop = "drain"
       /\ OwnerOf[queue[i]] = OwnerOf[queue[j]] /\ DomainOf[queue[i]] = DomainOf[queue[j]]
       /\ ClassOf[queue[i]] = ClassOf[queue[j]]
       => ~(phase[queue[j]] = "queued" /\ phase'[queue[j]] = "running")]_vars

\* The pool of permits that the running requests hold, with a quota for every limited
\* group and scope: the proof that no limit is exceeded goes by its steps.
PoolPhase ==
  [t \in Requests |->
     CASE phase[t] = "new" -> "outside" [] phase[t] = "queued" -> "waiting"
       [] phase[t] = "running" -> "holding" [] OTHER -> "gone"]

Pool == INSTANCE PermitPool
  WITH Tasks <- Requests, phase <- PoolPhase,
       Quotas <- {<<Peers(t, ls[1], ls[2]),
                    InFlightLimit(ls[1], ls[2])>> : t \in Requests, ls \in StartLimits}
=============================================================================
