--------------------------- MODULE CircuitBreaker ---------------------------
(***************************************************************************)
(* packages/cli/src/services/pi/providerCircuitBreaker.ts: the circuit of  *)
(* one failure domain, shared by all requests of the process. Every method *)
(* is synchronous; what interleaves are the requests between check() and   *)
(* the report of their outcome. Time is two flags: nextProbeAt has come,   *)
(* and the lease of the current probe has run out.                         *)
(***************************************************************************)
EXTENDS Integers, FiniteSets, SequencesExt

CONSTANTS
  Requests,
  MinSamples, ErrorPercent, MaxWindowEntries,
  MaxGeneration, MaxLeases    \* bounds of the model: transitions and probes

ASSUME CircuitAssumption ==
  /\ IsFiniteSet(Requests)
  /\ MinSamples \in Nat \ {0} /\ MaxWindowEntries \in Nat \ {0}
  /\ ErrorPercent \in 1 .. 100 /\ MaxGeneration \in Nat /\ MaxLeases \in Nat

VARIABLES
  circuit,     \* the CircuitEntry
  attempt      \* the token each request holds, if any

cvars == <<circuit, attempt>>

States == {"closed", "open", "half_open"}
NoAttempt == [kind |-> "none", generation |-> 0, lease |-> 0, settled |-> TRUE]
Attempts == [kind : {"none", "regular", "probe", "noop"}, generation : 0 .. MaxGeneration,
             lease : Nat, settled : BOOLEAN]
Outcomes == {"success", "failure", "neutral"}

\* samples: TRUE is a failure. lease: probeLeaseId, 0 if undefined; leases counts them.
Circuits == [state : States, samples : Seq(BOOLEAN), generation : 0 .. MaxGeneration,
             lease : Nat, leases : Nat, due : BOOLEAN, expired : BOOLEAN, detached : BOOLEAN]

CircuitTypeOK ==
  /\ circuit \in Circuits /\ Len(circuit.samples) <= MaxWindowEntries
  /\ attempt \in [Requests -> Attempts]

CircuitInit ==
  /\ circuit = [state |-> "closed", samples |-> <<>>, generation |-> 0,
                lease |-> 0, leases |-> 0, due |-> FALSE, expired |-> FALSE,
                detached |-> FALSE]
  /\ attempt = [r \in Requests |-> NoAttempt]

-----------------------------------------------------------------------------

Failures(samples) == Cardinality({i \in DOMAIN samples : samples[i]})

\* pushSample: the oldest sample leaves a full window.
WithSample(samples, failure) ==
  Append(IF Len(samples) >= MaxWindowEntries THEN Tail(samples) ELSE samples, failure)

Trips(samples) ==
  Len(samples) >= MinSamples /\ Failures(samples) * 100 >= Len(samples) * ErrorPercent

\* open, close and the step from open to half-open each start a new generation.
Opened(c) == [c EXCEPT !.state = "open", !.generation = @ + 1, !.lease = 0,
                       !.due = FALSE, !.expired = FALSE]

Closed_KeepSamples(c) ==   \* mutant of Closed
  [c EXCEPT !.state = "closed", !.generation = @ + 1, !.lease = 0,
            !.due = FALSE, !.expired = FALSE]

Closed(c) == [c EXCEPT !.state = "closed", !.generation = @ + 1, !.lease = 0,
                       !.due = FALSE, !.expired = FALSE, !.samples = <<>>]

HalfOpened(c) == [c EXCEPT !.state = "half_open", !.generation = @ + 1, !.lease = 0,
                           !.expired = FALSE]

CanAdvance == circuit.generation < MaxGeneration
CanProbe == circuit.leases < MaxLeases

Holds(r, kind, c) ==
  attempt' = [attempt EXCEPT ![r] = [kind |-> kind, generation |-> c.generation,
                                     lease |-> IF kind = "probe" THEN c.lease ELSE 0,
                                     settled |-> FALSE]]

\* preflight: what check would answer, without claiming anything.
Eligible ==
  \/ circuit.detached
  \/ circuit.state = "closed"
  \/ circuit.state = "open" /\ circuit.due
  \/ circuit.state = "half_open" /\ (circuit.lease = 0 \/ circuit.expired)

WithProbe(c) == [c EXCEPT !.lease = c.leases + 1, !.leases = @ + 1, !.expired = FALSE]

CheckAllowed_NoLease(r) ==   \* mutant of CheckAllowed: a half-open circuit admits anyone
  \/ circuit.detached /\ Holds(r, "noop", circuit) /\ UNCHANGED circuit
  \/ /\ ~circuit.detached /\ circuit.state = "closed"
     /\ Holds(r, "regular", circuit) /\ UNCHANGED circuit
  \/ /\ ~circuit.detached /\ circuit.state = "open" /\ circuit.due
     /\ CanAdvance /\ CanProbe
     /\ circuit' = WithProbe(HalfOpened(circuit))
     /\ Holds(r, "probe", circuit')
  \/ /\ ~circuit.detached /\ circuit.state = "half_open"
     /\ Holds(r, "probe", circuit) /\ UNCHANGED circuit

\* check, when it admits the request: as a regular attempt, or as the only probe.
CheckAllowed(r) ==
  \/ circuit.detached /\ Holds(r, "noop", circuit) /\ UNCHANGED circuit
  \/ /\ ~circuit.detached /\ circuit.state = "closed"
     /\ Holds(r, "regular", circuit) /\ UNCHANGED circuit
  \/ /\ ~circuit.detached /\ circuit.state = "open" /\ circuit.due
     /\ CanAdvance /\ CanProbe
     /\ circuit' = WithProbe(HalfOpened(circuit))
     /\ Holds(r, "probe", circuit')
  \/ /\ ~circuit.detached /\ circuit.state = "half_open"
     /\ circuit.lease = 0 \/ circuit.expired
     /\ CanProbe
     /\ circuit' = WithProbe(circuit)
     /\ Holds(r, "probe", circuit')

Relevant_AnyGeneration(a) ==   \* mutant of Relevant
  /\ a.kind \in {"regular", "probe"} /\ ~circuit.detached
  /\ a.kind = "regular" => circuit.state = "closed"
  /\ a.kind = "probe" => circuit.state = "half_open"

\* Whether the outcome of an attempt still concerns the circuit.
Relevant(a) ==
  /\ a.kind \in {"regular", "probe"} /\ ~circuit.detached
  /\ a.generation = circuit.generation
  /\ a.kind = "regular" => circuit.state = "closed"
  /\ a.kind = "probe" => circuit.state = "half_open" /\ a.lease = circuit.lease

\* record, for a token that is not settled.
Record(r, outcome) ==
  /\ ~attempt[r].settled
  /\ attempt' = [attempt EXCEPT ![r].settled = TRUE]
  /\ LET a == attempt[r]
         samples == WithSample(circuit.samples, outcome = "failure")
     IN  \/ ~Relevant(a) /\ UNCHANGED circuit
         \/ /\ Relevant(a) /\ a.kind = "probe" /\ CanAdvance
            /\ circuit' = IF outcome = "failure" THEN Opened(circuit) ELSE Closed(circuit)
         \/ /\ Relevant(a) /\ a.kind = "regular" /\ outcome = "neutral"
            /\ UNCHANGED circuit
         \/ /\ Relevant(a) /\ a.kind = "regular" /\ outcome # "neutral"
            /\ LET after == [circuit EXCEPT !.samples = samples]
               IN  IF outcome = "failure" /\ Trips(samples)
                   THEN CanAdvance /\ circuit' = Opened(after)
                   ELSE circuit' = after

\* abandon gives the probe's lease back and never counts as an outcome.
Abandoned(r) ==
  LET a == attempt[r]
  IN  IF /\ ~a.settled /\ a.kind = "probe" /\ ~circuit.detached
         /\ a.generation = circuit.generation /\ a.lease = circuit.lease
      THEN [circuit EXCEPT !.lease = 0, !.expired = FALSE]
      ELSE circuit

Abandon(r) ==
  /\ circuit' = Abandoned(r)
  /\ attempt' = [attempt EXCEPT ![r].settled = TRUE]

-----------------------------------------------------------------------------
(* Time and the registry *)

ProbeBecomesDue ==
  /\ circuit.state = "open" /\ ~circuit.due
  /\ circuit' = [circuit EXCEPT !.due = TRUE]
  /\ UNCHANGED attempt

LeaseExpires ==
  /\ circuit.state = "half_open" /\ circuit.lease # 0 /\ ~circuit.expired
  /\ circuit' = [circuit EXCEPT !.expired = TRUE]
  /\ UNCHANGED attempt

\* evictSamples: samples leave the window, the oldest first.
SampleAges ==
  /\ circuit.samples # <<>> /\ ~circuit.detached
  /\ circuit' = [circuit EXCEPT !.samples = Tail(@)]
  /\ UNCHANGED attempt

\* The registry drops an idle or least recently used entry, only while it is closed.
Detach ==
  /\ circuit.state = "closed" /\ ~circuit.detached
  /\ circuit' = [circuit EXCEPT !.detached = TRUE]
  /\ UNCHANGED attempt

Timers == ProbeBecomesDue \/ LeaseExpires \/ SampleAges \/ Detach
=============================================================================
