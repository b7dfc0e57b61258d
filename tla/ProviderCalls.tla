--------------------------- MODULE ProviderCalls ---------------------------
(***************************************************************************)
(* The requests of ProviderRequest on the circuit they share, with two     *)
(* history variables to state what the circuit owes them.                  *)
(***************************************************************************)
EXTENDS ProviderRequest

VARIABLES
  era,     \* per request, the generation and probe in force when it was admitted
  news     \* outcomes counted since the circuit last closed, up to MinSamples

hvars == <<vars, era, news>>

HInit ==
  /\ Init
  /\ era = [r \in Requests |-> <<0, 0>>]
  /\ news = 0

AdmittedNow(r) == attempt[r].settled /\ ~attempt'[r].settled
ReportedNow(r) == ~attempt[r].settled /\ attempt'[r].settled

History ==
  /\ era' = [r \in Requests |->
               IF AdmittedNow(r) THEN <<circuit'.generation, circuit'.leases>> ELSE era[r]]
  /\ news' = IF circuit'.state = "closed" /\ circuit.state # "closed" THEN 0
             ELSE IF /\ \E r \in Requests : ReportedNow(r)
                     /\ circuit' # circuit /\ news < MinSamples
             THEN news + 1 ELSE news

HNext == Next /\ History

HSpec == HInit /\ [][HNext]_hvars

-----------------------------------------------------------------------------
(* Properties *)

Claims(r) == ~attempt[r].settled /\ attempt[r].kind \in {"regular", "probe"}

\* A late result never moves the circuit: the step that settles an attempt leaves it
\* alone if it changed state, or took another probe, after the attempt was admitted.
LateResultsIgnored ==
  [][\A r \in Requests :
       ReportedNow(r) /\ Claims(r) /\ era[r] # <<circuit.generation, circuit.leases>>
         => circuit' = circuit]_hvars

\* While the circuit is half open, at most one attempt in flight can decide it.
OneDecidingProbe ==
  circuit.state = "half_open" =>
    Cardinality({r \in Requests : Claims(r) /\ Relevant(attempt[r])}) <= 1

\* Failures from before an outage that ended never help to open the circuit again:
\* after it closes, a circuit opens only on MinSamples new outcomes.
FreshEvidence ==
  [][circuit.state = "closed" /\ circuit'.state = "open" => news' = MinSamples]_hvars
=============================================================================
