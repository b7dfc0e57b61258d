----------------------- MODULE ProviderCalls_proofs -----------------------
(***************************************************************************)
(* Proofs about provider requests and their circuit, for any number of     *)
(* requests, permits, tries and samples: what a request holds and leaves   *)
(* behind, that one attempt decides a half-open circuit, that late results *)
(* do not move it and that it opens on fresh evidence only.                *)
(***************************************************************************)
EXTENDS ProviderCalls, FiniteSetTheorems, TLAPS

-----------------------------------------------------------------------------
(* The inductive invariant, part by part *)

\* Where a request stands decides whether it has a ticket, a permit or nothing, and whether
\* it may still have a token to settle.
PermitsInPlace ==
  /\ Cardinality(Holding(permit)) <= Capacity
  /\ \A r \in Requests :
       /\ permit[r] = "pending" => phase[r] = "queued" /\ r \notin aborted
       /\ phase[r] \in {"admitted", "checking", "probing"} \cup Calling => permit[r] = "held"
       /\ phase[r] \in {"idle", "preflight", "waiting", "retrying"} => permit[r] = "none"
       /\ phase[r] \in {"idle", "preflight", "waiting", "queued", "admitted", "checking"}
            => ~Unsettled(r)
       /\ phase[r] = "done" /\ r \notin aborted => permit[r] = "none" /\ ~Unsettled(r)
       /\ phase[r] = "retrying" => CanRetry(r)

Regular(r) == ~attempt[r].settled /\ attempt[r].kind = "regular"
Probe(r) == ~attempt[r].settled /\ attempt[r].kind = "probe"

\* The lease of the circuit is the last one it gave or none, and no lease is given twice.
LeasesAreNew ==
  /\ circuit.lease \in {0, circuit.leases}
  /\ \A r \in Requests : Probe(r) => attempt[r].lease \in 1 .. circuit.leases
  /\ \A r, s \in Requests :
       Probe(r) /\ Probe(s) /\ attempt[r].lease = attempt[s].lease => r = s

\* A regular attempt of the current generation is from the time since the circuit closed.
ErasAreTrue ==
  /\ era \in [Requests -> Nat \X Nat]
  /\ \A r \in Requests :
       /\ Claims(r) => era[r][1] = attempt[r].generation
       /\ Claims(r) => attempt[r].generation <= circuit.generation
       /\ Probe(r) => era[r][2] = attempt[r].lease
       /\ Regular(r) /\ attempt[r].generation = circuit.generation
            => circuit.state = "closed" /\ era[r][2] = circuit.leases

\* While the circuit is closed each of its samples was counted.
SamplesAreNews ==
  /\ news \in 0 .. MinSamples
  /\ circuit.state = "closed" => Len(circuit.samples) <= news \/ news = MinSamples

CallInv == TypeOK /\ PermitsInPlace /\ LeasesAreNew /\ ErasAreTrue /\ SamplesAreNews

-----------------------------------------------------------------------------
(* What a step does to the circuit *)

\* Every step admits, settles or abandons one attempt, is a timer, or leaves the circuit.
CircuitStep ==
  \/ \E r \in Requests : phase[r] = "checking" /\ CheckAllowed(r)
  \/ \E r \in Requests, o \in Outcomes : Record(r, o)
  \/ \E r \in Requests : Abandon(r)
  \/ Timers
  \/ UNCHANGED cvars

LEMMA StepsOfTheCircuit == Next => CircuitStep
BY DEF Next, Step, CircuitStep, Tick, Begin, Preflight, WaitEnds, WaitGivesUp, Admit,
  WaitTimesOut, TicketReady, TakeEvent, CheckBlocked, CheckPasses, FirstChunk, Finally, End,
  FailsRetryable, TimesOut, FailsForGood, Retry, Abort, cvars, Outcomes

LEMMA SampleLemma ==
  ASSUME NEW samples \in Seq(BOOLEAN), NEW failure \in BOOLEAN,
         Len(samples) <= MaxWindowEntries
  PROVE  /\ WithSample(samples, failure) \in Seq(BOOLEAN)
         /\ Len(WithSample(samples, failure)) <= MaxWindowEntries
         /\ Len(WithSample(samples, failure)) <= Len(samples) + 1
         /\ Len(samples) >= MaxWindowEntries =>
              Len(WithSample(samples, failure)) = Len(samples)
         /\ Len(samples) < MaxWindowEntries =>
              WithSample(samples, failure) # samples
<1>1. CASE Len(samples) >= MaxWindowEntries
  <2>1. samples # <<>> BY <1>1, CircuitAssumption
  <2>2. Tail(samples) \in Seq(BOOLEAN) /\ Len(Tail(samples)) = Len(samples) - 1 BY <2>1
  <2> QED BY <1>1, <2>1, <2>2, CircuitAssumption DEF WithSample
<1>2. CASE Len(samples) < MaxWindowEntries BY <1>2, CircuitAssumption DEF WithSample
<1> QED BY <1>1, <1>2, CircuitAssumption

\* The transitions of an entry, and what they leave in its fields.
LEMMA Transitions ==
  ASSUME NEW c \in Circuits
  PROVE  /\ WithProbe(c) \in Circuits /\ WithProbe(c).state = c.state
         /\ WithProbe(c).samples = c.samples /\ WithProbe(c).generation = c.generation
         /\ WithProbe(c).lease = c.leases + 1 /\ WithProbe(c).leases = c.leases + 1
<1>1. c.leases + 1 \in Nat BY DEF Circuits
<1>2. WithProbe(c) = [c EXCEPT !.lease = c.leases + 1, !.leases = c.leases + 1,
                               !.expired = FALSE]
  BY DEF Circuits, WithProbe
<1> QED BY <1>1, <1>2 DEF Circuits

LEMMA Generations ==
  ASSUME NEW c \in Circuits, c.generation < MaxGeneration,
         NEW d \in {Opened(c), Closed(c), HalfOpened(c)}
  PROVE  /\ d \in Circuits /\ d.lease = 0 /\ d.leases = c.leases
         /\ d.generation = c.generation + 1
         /\ d = Opened(c) => d.state = "open" /\ d.samples = c.samples
         /\ d = Closed(c) => d.state = "closed" /\ d.samples = <<>>
         /\ d = HalfOpened(c) => d.state = "half_open" /\ d.samples = c.samples
<1>0. /\ <<>> \in Seq(BOOLEAN) /\ c.generation + 1 \in 0 .. MaxGeneration
      /\ {"open", "closed", "half_open"} \subseteq States
  BY CircuitAssumption DEF Circuits, States
<1>1. /\ Opened(c) \in Circuits /\ Opened(c).lease = 0 /\ Opened(c).leases = c.leases
      /\ Opened(c).generation = c.generation + 1
      /\ Opened(c).state = "open" /\ Opened(c).samples = c.samples
  BY <1>0 DEF Circuits, Opened
<1>2. /\ Closed(c) \in Circuits /\ Closed(c).lease = 0 /\ Closed(c).leases = c.leases
      /\ Closed(c).generation = c.generation + 1
      /\ Closed(c).state = "closed" /\ Closed(c).samples = <<>>
  BY <1>0 DEF Circuits, Closed
<1>3. /\ HalfOpened(c) \in Circuits /\ HalfOpened(c).lease = 0 /\ HalfOpened(c).leases = c.leases
      /\ HalfOpened(c).generation = c.generation + 1
      /\ HalfOpened(c).state = "half_open" /\ HalfOpened(c).samples = c.samples
  BY <1>0 DEF Circuits, HalfOpened
<1> QED BY <1>1, <1>2, <1>3

CircuitInv == CircuitTypeOK /\ LeasesAreNew /\ ErasAreTrue /\ SamplesAreNews

LEMMA TokenOf ==
  ASSUME NEW kind \in {"regular", "probe", "noop"}, NEW c \in Circuits
  PROVE  [kind |-> kind, generation |-> c.generation,
          lease |-> IF kind = "probe" THEN c.lease ELSE 0, settled |-> FALSE] \in Attempts
BY DEF Attempts, Circuits

\* An attempt is admitted.
LEMMA CheckKeeps ==
  ASSUME CircuitInv, History, NEW r \in Requests, attempt[r].settled, CheckAllowed(r)
  PROVE  CircuitInv'
<1>0. circuit \in Circuits BY DEF CircuitInv, CircuitTypeOK
<1>1. \/ circuit' = circuit /\ Holds(r, "noop", circuit')
      \/ circuit' = circuit /\ circuit.state = "closed" /\ Holds(r, "regular", circuit')
      \/ /\ circuit.state # "closed" /\ Holds(r, "probe", circuit') /\ circuit' \in Circuits
         /\ circuit'.samples = circuit.samples /\ circuit'.state = "half_open"
         /\ circuit'.leases = circuit.leases + 1 /\ circuit'.lease = circuit'.leases
         /\ circuit'.generation >= circuit.generation
  <2>1. CASE circuit.state = "open" /\ CanAdvance /\ circuit' = WithProbe(HalfOpened(circuit))
             /\ Holds(r, "probe", circuit')
    <3>1. /\ HalfOpened(circuit) \in Circuits /\ HalfOpened(circuit).state = "half_open"
          /\ HalfOpened(circuit).samples = circuit.samples
          /\ HalfOpened(circuit).leases = circuit.leases
          /\ HalfOpened(circuit).generation = circuit.generation + 1
      BY <1>0, <2>1, Generations DEF CanAdvance
    <3>2. circuit' \in Circuits /\ circuit'.samples = circuit.samples /\ circuit'.state = "half_open"
          /\ circuit'.leases = circuit.leases + 1 /\ circuit'.lease = circuit'.leases
          /\ circuit'.generation = circuit.generation + 1
      BY <2>1, <3>1, Transitions
    <3> QED BY <1>0, <2>1, <3>2, CircuitAssumption DEF Circuits
  <2>2. CASE circuit.state = "half_open" /\ circuit' = WithProbe(circuit) /\ Holds(r, "probe", circuit')
    <3>1. circuit' \in Circuits /\ circuit'.samples = circuit.samples /\ circuit'.state = "half_open"
          /\ circuit'.leases = circuit.leases + 1 /\ circuit'.lease = circuit'.leases
          /\ circuit'.generation = circuit.generation
      BY <1>0, <2>2, Transitions
    <3> QED BY <1>0, <2>2, <3>1, CircuitAssumption DEF Circuits
  <2> QED BY <2>1, <2>2 DEF CheckAllowed
<1>2. /\ circuit' \in Circuits /\ circuit'.samples = circuit.samples /\ circuit.generation <= circuit'.generation
      /\ circuit'.generation \in Nat /\ circuit.leases <= circuit'.leases
  BY <1>0, <1>1, CircuitAssumption DEF Circuits
<1>3. PICK kind \in {"regular", "probe", "noop"} : Holds(r, kind, circuit') BY <1>1
<1>4. /\ attempt' \in [Requests -> Attempts]
      /\ \A s \in Requests \ {r} : attempt'[s] = attempt[s]
      /\ attempt'[r].settled = FALSE /\ attempt'[r].generation = circuit'.generation
      /\ attempt'[r].kind = kind /\ (kind = "probe" => attempt'[r].lease = circuit'.lease)
  BY <1>2, <1>3, TokenOf DEF CircuitInv, CircuitTypeOK, Holds
<1>5. \/ circuit' = circuit /\ kind = "noop"
      \/ circuit' = circuit /\ circuit.state = "closed" /\ kind = "regular"
      \/ /\ circuit.state # "closed" /\ kind = "probe" /\ circuit'.state = "half_open"
         /\ circuit'.leases = circuit.leases + 1 /\ circuit'.lease = circuit'.leases
         /\ circuit'.generation >= circuit.generation
  BY <1>1, <1>3, <1>4 DEF CircuitInv, CircuitTypeOK, Holds
<1>6. era' = [s \in Requests |->
                IF s = r THEN <<circuit'.generation, circuit'.leases>> ELSE era[s]]
  BY <1>4 DEF History, AdmittedNow
<1>7. CircuitTypeOK' BY <1>2, <1>4 DEF CircuitInv, CircuitTypeOK
<1>8. LeasesAreNew'
  <2>1. /\ circuit.lease \in {0, circuit.leases} /\ circuit.leases \in Nat
        /\ circuit'.leases \in Nat
    BY <1>0, <1>2 DEF CircuitInv, LeasesAreNew, Circuits
  <2>2. circuit'.lease \in {0, circuit'.leases} BY <1>5, <2>1
  <2>3. \A s \in Requests \ {r} : Probe(s)' => Probe(s) /\ attempt'[s].lease = attempt[s].lease
    BY <1>4 DEF Probe
  <2>4. Probe(r)' => /\ attempt'[r].lease = circuit.leases + 1
                     /\ circuit'.leases = circuit.leases + 1
    BY <1>4, <1>5 DEF Probe
  <2>5. \A s \in Requests \ {r} : Probe(s)' => attempt'[s].lease \in 1 .. circuit.leases
    BY <2>3 DEF CircuitInv, LeasesAreNew
  <2>6. \A s \in Requests : Probe(s)' => attempt'[s].lease \in 1 .. circuit'.leases
    BY <1>2, <2>1, <2>4, <2>5
  <2>7. ASSUME NEW s \in Requests, NEW q \in Requests, Probe(s)', Probe(q)',
               attempt'[s].lease = attempt'[q].lease
        PROVE  s = q
    BY <2>1, <2>3, <2>4, <2>5, <2>7 DEF CircuitInv, LeasesAreNew
  <2> QED BY <2>2, <2>6, <2>7 DEF LeasesAreNew
<1>9. ErasAreTrue'
  <2>1. era' \in [Requests -> Nat \X Nat]
    BY <1>2, <1>6 DEF CircuitInv, ErasAreTrue, Circuits
  <2>2. era'[r] = <<circuit'.generation, circuit'.leases>> BY <1>6
  <2>3. ASSUME NEW s \in Requests \ {r}
        PROVE  /\ Claims(s)' => /\ era'[s][1] = attempt'[s].generation
                                /\ attempt'[s].generation <= circuit'.generation
               /\ Probe(s)' => era'[s][2] = attempt'[s].lease
               /\ Regular(s)' /\ attempt'[s].generation = circuit'.generation
                    => circuit'.state = "closed" /\ era'[s][2] = circuit'.leases
    <3>1. attempt'[s] = attempt[s] /\ era'[s] = era[s] BY <1>4, <1>6
    <3>2. attempt[s].generation \in Nat /\ circuit.generation \in Nat
      BY <1>0, CircuitAssumption DEF CircuitInv, CircuitTypeOK, Attempts, Circuits
    <3>3. Claims(s)' => /\ era'[s][1] = attempt'[s].generation
                       /\ attempt'[s].generation <= circuit.generation
      BY <3>1 DEF CircuitInv, ErasAreTrue, Claims
    <3>4. Regular(s)' /\ attempt'[s].generation = circuit'.generation
            => attempt[s].generation = circuit.generation
      BY <1>2, <3>1, <3>2, <3>3 DEF Regular, Claims
    <3>5. Probe(s)' => era'[s][2] = attempt'[s].lease
      BY <3>1 DEF CircuitInv, ErasAreTrue, Probe
    <3>6. Regular(s)' /\ attempt'[s].generation = circuit'.generation
            => circuit.state = "closed" /\ era[s][2] = circuit.leases
      BY <3>1, <3>4 DEF CircuitInv, ErasAreTrue, Regular
    <3>7. circuit.state = "closed" => circuit' = circuit BY <1>5
    <3> QED BY <1>2, <3>1, <3>2, <3>3, <3>5, <3>6, <3>7
  <2>4. /\ Claims(r)' => /\ era'[r][1] = attempt'[r].generation
                         /\ attempt'[r].generation <= circuit'.generation
        /\ Probe(r)' => era'[r][2] = attempt'[r].lease
        /\ Regular(r)' /\ attempt'[r].generation = circuit'.generation
             => circuit'.state = "closed" /\ era'[r][2] = circuit'.leases
    BY <1>2, <1>4, <1>5, <2>2 DEF Claims, Probe, Regular
  <2> QED BY <2>1, <2>3, <2>4 DEF ErasAreTrue
<1>10. SamplesAreNews'
  <2>1. circuit'.state = "closed" => circuit.state = "closed" /\ circuit' = circuit BY <1>5
  <2>2. ~\E s \in Requests : ReportedNow(s) BY <1>4 DEF ReportedNow
  <2>3. news' = news BY <2>1, <2>2 DEF History
  <2> QED BY <2>1, <2>3 DEF CircuitInv, SamplesAreNews
<1> QED BY <1>7, <1>8, <1>9, <1>10 DEF CircuitInv

\* No other step admits an attempt: it settles some, and gives no lease.
LEMMA SettlingKeeps ==
  ASSUME CircuitInv, History, CircuitTypeOK',
         \A r \in Requests : attempt'[r] = attempt[r] \/ attempt'[r].settled,
         circuit'.leases = circuit.leases, circuit'.lease \in {0, circuit.lease},
         \/ circuit'.generation = circuit.generation /\ circuit'.state = circuit.state
         \/ circuit'.generation > circuit.generation,
         SamplesAreNews'
  PROVE  CircuitInv'
<1>1. \A r \in Requests : ~attempt'[r].settled => attempt'[r] = attempt[r] OBVIOUS
<1>2. era' = era
  <2>1. \A r \in Requests : ~AdmittedNow(r) BY <1>1 DEF AdmittedNow
  <2>2. era' = [r \in Requests |-> era[r]] BY <2>1 DEF History
  <2> QED BY <2>2 DEF CircuitInv, ErasAreTrue
<1>3. LeasesAreNew' BY <1>1 DEF CircuitInv, LeasesAreNew, Probe
<1>4. ErasAreTrue'
  <2>1. circuit \in Circuits /\ circuit' \in Circuits BY DEF CircuitInv, CircuitTypeOK
  <2>2. circuit.generation \in Nat /\ circuit'.generation \in Nat
    BY <2>1, CircuitAssumption DEF Circuits
  <2>3. \A r \in Requests : attempt[r].generation \in Nat
    BY CircuitAssumption DEF CircuitInv, CircuitTypeOK, Attempts
  <2>4. ASSUME NEW r \in Requests
        PROVE  /\ Claims(r)' => /\ era'[r][1] = attempt'[r].generation
                                /\ attempt'[r].generation <= circuit'.generation
               /\ Probe(r)' => era'[r][2] = attempt'[r].lease
               /\ Regular(r)' /\ attempt'[r].generation = circuit'.generation
                    => circuit'.state = "closed" /\ era'[r][2] = circuit'.leases
    <3>1. Claims(r)' => Claims(r) /\ attempt'[r] = attempt[r] BY <1>1 DEF Claims
    <3>2. Claims(r)' => /\ era'[r][1] = attempt'[r].generation
                       /\ attempt'[r].generation <= circuit.generation
      BY <1>2, <3>1 DEF CircuitInv, ErasAreTrue
    <3>3. Probe(r)' => era'[r][2] = attempt'[r].lease
      BY <1>1, <1>2 DEF CircuitInv, ErasAreTrue, Probe
    <3>4. Regular(r)' => Regular(r) /\ attempt'[r] = attempt[r] /\ Claims(r)'
      BY <1>1 DEF Regular, Claims
    <3>5. Regular(r)' /\ attempt'[r].generation = circuit'.generation
            => circuit'.generation = circuit.generation
      BY <2>2, <2>3, <3>2, <3>4
    <3>6. Regular(r)' /\ attempt'[r].generation = circuit'.generation
            => circuit'.state = circuit.state
      BY <2>2, <3>5
    <3>7. Regular(r)' /\ attempt'[r].generation = circuit'.generation
            => circuit.state = "closed" /\ era[r][2] = circuit.leases
      BY <3>4, <3>5 DEF CircuitInv, ErasAreTrue
    <3> QED BY <1>2, <2>2, <2>3, <3>1, <3>2, <3>3, <3>6, <3>7
  <2> QED BY <1>2, <2>4 DEF CircuitInv, ErasAreTrue
<1> QED BY <1>3, <1>4 DEF CircuitInv

\* How the count of outcomes follows the samples.
LEMMA NewsFollow ==
  ASSUME CircuitInv, History, circuit' \in Circuits
  PROVE  /\ news' \in 0 .. MinSamples
         /\ circuit'.samples = <<>> => SamplesAreNews'
         /\ circuit'.state # "closed" => SamplesAreNews'
         /\ circuit.state = "closed" /\ Len(circuit'.samples) <= Len(circuit.samples)
              => SamplesAreNews'
         /\ circuit.state = "closed" /\ circuit' # circuit /\ (\E r \in Requests : ReportedNow(r))
              => news' = IF news < MinSamples THEN news + 1 ELSE news
<1>1. /\ news \in 0 .. MinSamples /\ MinSamples \in Nat
      /\ circuit.state = "closed" => Len(circuit.samples) <= news \/ news = MinSamples
  BY CircuitAssumption DEF CircuitInv, SamplesAreNews
<1>2. news' \in 0 .. MinSamples BY <1>1 DEF History
<1>3. Len(circuit'.samples) \in Nat /\ Len(circuit.samples) \in Nat
  BY DEF CircuitInv, CircuitTypeOK, Circuits
<1>4. circuit'.samples = <<>> => SamplesAreNews' BY <1>2, <1>3 DEF SamplesAreNews
<1>5. circuit'.state # "closed" => SamplesAreNews' BY <1>2 DEF SamplesAreNews
<1>6. circuit.state = "closed" /\ Len(circuit'.samples) <= Len(circuit.samples)
        => SamplesAreNews'
  BY <1>1, <1>2, <1>3 DEF SamplesAreNews, History
<1>7. circuit.state = "closed" /\ circuit' # circuit /\ (\E r \in Requests : ReportedNow(r))
        => news' = IF news < MinSamples THEN news + 1 ELSE news
  <2>1. ASSUME circuit.state = "closed", circuit' # circuit,
               \E r \in Requests : ReportedNow(r)
        PROVE  news' = IF news < MinSamples THEN news + 1 ELSE news
    <3>1. CASE news < MinSamples BY ONLY <2>1, <3>1, History DEF History
    <3>2. CASE ~(news < MinSamples) BY ONLY <2>1, <3>2, History DEF History
    <3> QED BY <3>1, <3>2
  <2> QED BY <2>1
<1> QED BY <1>2, <1>4, <1>5, <1>6, <1>7

\* An outcome is recorded.
LEMMA RecordKeeps ==
  ASSUME CircuitInv, History, NEW r \in Requests, NEW o \in Outcomes, Record(r, o)
  PROVE  /\ CircuitInv'
         /\ circuit.state = "closed" /\ circuit'.state = "open" => news' = MinSamples
<1> DEFINE after == [circuit EXCEPT !.samples = WithSample(circuit.samples, o = "failure")]
<1>1. /\ circuit \in Circuits /\ circuit.samples \in Seq(BOOLEAN)
      /\ Len(circuit.samples) <= MaxWindowEntries /\ circuit.generation \in Nat
  BY CircuitAssumption DEF CircuitInv, CircuitTypeOK, Circuits
<1>2. /\ after \in Circuits /\ Len(after.samples) <= MaxWindowEntries
      /\ Len(after.samples) <= Len(circuit.samples) + 1
      /\ Len(circuit.samples) >= MaxWindowEntries => Len(after.samples) = Len(circuit.samples)
      /\ Len(circuit.samples) < MaxWindowEntries => after # circuit
      /\ after.generation = circuit.generation /\ after.state = circuit.state
      /\ after.lease = circuit.lease /\ after.leases = circuit.leases
      /\ after.samples = WithSample(circuit.samples, o = "failure")
  <2>1. (o = "failure") \in BOOLEAN OBVIOUS
  <2>2. /\ WithSample(circuit.samples, o = "failure") \in Seq(BOOLEAN)
        /\ after.samples = WithSample(circuit.samples, o = "failure")
    BY <1>1, <2>1, SampleLemma DEF Circuits
  <2>3. after \in Circuits BY <1>1, <2>2 DEF Circuits
  <2>4. /\ Len(after.samples) <= MaxWindowEntries
        /\ Len(after.samples) <= Len(circuit.samples) + 1
        /\ Len(circuit.samples) >= MaxWindowEntries => Len(after.samples) = Len(circuit.samples)
        /\ Len(circuit.samples) < MaxWindowEntries => after.samples # circuit.samples
    BY <1>1, <2>1, <2>2, SampleLemma
  <2> QED BY <1>1, <2>2, <2>3, <2>4 DEF Circuits
<1> HIDE DEF after
<1>3. /\ attempt' = [attempt EXCEPT ![r].settled = TRUE] /\ ~attempt[r].settled
      /\ attempt' \in [Requests -> Attempts] /\ attempt'[r].settled
      /\ \A s \in Requests : attempt'[s] = attempt[s] \/ attempt'[s].settled
  BY DEF Record, CircuitInv, CircuitTypeOK, Attempts
<1>4. \E s \in Requests : ReportedNow(s) BY <1>3 DEF ReportedNow
<1>5. CASE circuit' = circuit
  <2>1. CircuitTypeOK' BY <1>1, <1>3, <1>5 DEF CircuitInv, CircuitTypeOK
  <2>2. SamplesAreNews' BY <1>1, <1>5, NewsFollow
  <2> QED BY <1>1, <1>3, <1>5, <2>1, <2>2, SettlingKeeps
<1>6. CASE circuit' = after /\ circuit.state = "closed"
  <2>1. CircuitTypeOK' BY <1>2, <1>3, <1>6 DEF CircuitTypeOK
  <2>2. SamplesAreNews'
    <3>1. CASE Len(circuit.samples) >= MaxWindowEntries
      BY <1>1, <1>2, <1>6, <3>1, NewsFollow
    <3>2. CASE Len(circuit.samples) < MaxWindowEntries
      <4>1. /\ news' = IF news < MinSamples THEN news + 1 ELSE news
            /\ news' \in 0 .. MinSamples
        BY <1>2, <1>4, <1>6, <3>2, NewsFollow
      <4>2. /\ news \in 0 .. MinSamples /\ MinSamples \in Nat
            /\ Len(circuit.samples) <= news \/ news = MinSamples
        BY <1>6, CircuitAssumption DEF CircuitInv, SamplesAreNews
      <4>3. Len(after.samples) \in Nat /\ Len(circuit.samples) \in Nat
        BY <1>1, <1>2 DEF Circuits
      <4>4. Len(circuit'.samples) <= news' \/ news' = MinSamples
        BY <1>2, <1>6, <4>1, <4>2, <4>3
      <4> QED BY <4>1, <4>4 DEF SamplesAreNews
    <3>3. Len(circuit.samples) \in Nat /\ MaxWindowEntries \in Nat
      BY <1>1, CircuitAssumption
    <3> QED BY <3>1, <3>2, <3>3
  <2> QED BY <1>1, <1>2, <1>3, <1>6, <2>1, <2>2, SettlingKeeps
<1>7. CASE /\ CanAdvance /\ circuit.state = "half_open"
           /\ circuit' \in {Opened(circuit), Closed(circuit)}
  <2>1. /\ circuit' \in Circuits /\ circuit'.lease = 0 /\ circuit'.leases = circuit.leases
        /\ circuit'.generation = circuit.generation + 1
        /\ circuit'.samples = circuit.samples \/ circuit'.samples = <<>>
        /\ circuit'.state = "open" \/ circuit'.samples = <<>>
    BY <1>1, <1>7, Generations DEF CanAdvance
  <2>2. CircuitTypeOK' BY <1>1, <1>3, <2>1, CircuitAssumption DEF CircuitTypeOK
  <2>3. SamplesAreNews' BY <2>1, NewsFollow
  <2> QED BY <1>1, <1>3, <1>7, <2>1, <2>2, <2>3, SettlingKeeps
<1>8. CASE /\ CanAdvance /\ circuit.state = "closed" /\ Trips(after.samples)
           /\ circuit' = Opened(after)
  <2>1. /\ circuit' \in Circuits /\ circuit'.lease = 0 /\ circuit'.leases = circuit.leases
        /\ circuit'.generation = circuit.generation + 1
        /\ circuit'.samples = after.samples /\ circuit'.state = "open"
    BY <1>2, <1>8, Generations DEF CanAdvance
  <2>2. CircuitTypeOK' BY <1>2, <1>3, <2>1 DEF CircuitTypeOK
  <2>3. SamplesAreNews' BY <2>1, NewsFollow
  <2>4. CircuitInv' BY <1>1, <1>3, <2>1, <2>2, <2>3, SettlingKeeps
  <2>5. /\ news' = IF news < MinSamples THEN news + 1 ELSE news
        /\ news \in 0 .. MinSamples /\ MinSamples \in Nat
        /\ Len(circuit.samples) <= news \/ news = MinSamples
    BY <1>4, <1>8, <2>1, NewsFollow, CircuitAssumption DEF CircuitInv, SamplesAreNews
  <2>6. /\ Len(after.samples) >= MinSamples
        /\ Len(after.samples) \in Nat /\ Len(circuit.samples) \in Nat
    BY <1>1, <1>2, <1>8 DEF Trips, Circuits
  <2>7. news' = MinSamples BY <1>2, <2>5, <2>6
  <2> QED BY <2>4, <2>7
<1>9. \/ circuit' = circuit
      \/ circuit' = after /\ circuit.state = "closed"
      \/ /\ CanAdvance /\ circuit.state = "half_open"
         /\ circuit' \in {Opened(circuit), Closed(circuit)}
      \/ /\ CanAdvance /\ circuit.state = "closed" /\ Trips(after.samples)
         /\ circuit' = Opened(after)
  <2>1. CASE ~Relevant(attempt[r]) BY <2>1 DEF Record
  <2>2. CASE Relevant(attempt[r]) /\ attempt[r].kind = "probe"
    <3>1. circuit.state = "half_open" BY <2>2 DEF Relevant
    <3> QED BY <2>2, <3>1 DEF Record
  <2>3. CASE Relevant(attempt[r]) /\ attempt[r].kind = "regular"
    <3>1. circuit.state = "closed" BY <2>3 DEF Relevant
    <3> QED BY <1>2, <2>3, <3>1 DEF Record, after
  <2> QED BY <2>1, <2>2, <2>3 DEF Relevant
<1> QED BY <1>5, <1>6, <1>7, <1>8, <1>9

\* An attempt is abandoned.
LEMMA AbandonKeeps ==
  ASSUME CircuitInv, History, NEW r \in Requests, Abandon(r)
  PROVE  CircuitInv' /\ circuit'.state = circuit.state
<1>1. circuit \in Circuits /\ Len(circuit.samples) <= MaxWindowEntries
  BY DEF CircuitInv, CircuitTypeOK
<1>2. /\ circuit' \in Circuits /\ circuit'.samples = circuit.samples
      /\ circuit'.lease \in {0, circuit.lease} /\ circuit'.leases = circuit.leases
      /\ circuit'.generation = circuit.generation /\ circuit'.state = circuit.state
  <2>1. CASE circuit' = circuit BY <1>1, <2>1
  <2>2. CASE circuit' = [circuit EXCEPT !.lease = 0, !.expired = FALSE]
    BY <1>1, <2>2 DEF Circuits
  <2> QED BY <2>1, <2>2 DEF Abandon, Abandoned
<1>3. /\ attempt' \in [Requests -> Attempts]
      /\ \A s \in Requests : attempt'[s] = attempt[s] \/ attempt'[s].settled
  BY DEF Abandon, CircuitInv, CircuitTypeOK, Attempts
<1>4. CircuitTypeOK' BY <1>1, <1>2, <1>3 DEF CircuitTypeOK
<1>5. SamplesAreNews'
  <2>1. Len(circuit'.samples) <= Len(circuit.samples) BY <1>1, <1>2 DEF Circuits
  <2> QED BY <1>2, <2>1, NewsFollow
<1> QED BY <1>2, <1>3, <1>4, <1>5, SettlingKeeps

\* Time passes, or the registry drops the entry.
LEMMA TimersKeep ==
  ASSUME CircuitInv, History, Timers
  PROVE  CircuitInv' /\ circuit'.state = circuit.state
<1>1. circuit \in Circuits /\ Len(circuit.samples) <= MaxWindowEntries
  BY DEF CircuitInv, CircuitTypeOK
<1>2. /\ circuit' \in Circuits /\ Len(circuit'.samples) <= Len(circuit.samples)
      /\ circuit'.lease = circuit.lease /\ circuit'.leases = circuit.leases
      /\ circuit'.generation = circuit.generation /\ circuit'.state = circuit.state
  <2>1. CASE SampleAges
    <3>1. /\ Tail(circuit.samples) \in Seq(BOOLEAN)
          /\ Len(Tail(circuit.samples)) <= Len(circuit.samples)
      BY <1>1, <2>1 DEF SampleAges, Circuits
    <3> QED BY <1>1, <2>1, <3>1 DEF SampleAges, Circuits
  <2>0. Len(circuit.samples) <= Len(circuit.samples) BY <1>1 DEF Circuits
  <2>2. CASE ProbeBecomesDue
    <3>1. circuit' \in Circuits /\ circuit'.samples = circuit.samples
      BY <1>1, <2>2 DEF ProbeBecomesDue, Circuits
    <3> QED BY <1>1, <2>0, <2>2, <3>1 DEF ProbeBecomesDue, Circuits
  <2>3. CASE LeaseExpires
    <3>1. circuit' \in Circuits /\ circuit'.samples = circuit.samples
      BY <1>1, <2>3 DEF LeaseExpires, Circuits
    <3> QED BY <1>1, <2>0, <2>3, <3>1 DEF LeaseExpires, Circuits
  <2>4. CASE Detach
    <3>1. circuit' \in Circuits /\ circuit'.samples = circuit.samples
      BY <1>1, <2>4 DEF Detach, Circuits
    <3> QED BY <1>1, <2>0, <2>4, <3>1 DEF Detach, Circuits
  <2> QED BY <2>1, <2>2, <2>3, <2>4 DEF Timers
<1>3. attempt' = attempt BY DEF Timers, ProbeBecomesDue, LeaseExpires, SampleAges, Detach
<1>4. CircuitTypeOK'
  <2>1. /\ Len(circuit'.samples) \in Nat /\ Len(circuit.samples) \in Nat
        /\ MaxWindowEntries \in Nat
    BY <1>1, <1>2, CircuitAssumption DEF Circuits
  <2>2. Len(circuit'.samples) <= MaxWindowEntries BY <1>1, <1>2, <2>1
  <2> QED BY <1>2, <1>3, <2>2 DEF CircuitInv, CircuitTypeOK
<1>5. SamplesAreNews' BY <1>2, NewsFollow
<1> QED BY <1>2, <1>3, <1>4, <1>5, SettlingKeeps

LEMMA OtherStepsKeep ==
  ASSUME CircuitInv, History, UNCHANGED cvars
  PROVE  CircuitInv'
<1>1. circuit' = circuit /\ attempt' = attempt BY DEF cvars
<1>2. circuit \in Circuits BY DEF CircuitInv, CircuitTypeOK
<1>3. CircuitTypeOK' BY <1>1 DEF CircuitInv, CircuitTypeOK
<1>4. Len(circuit'.samples) <= Len(circuit.samples) BY <1>1, <1>2 DEF Circuits
<1>5. SamplesAreNews' BY <1>1, <1>2, <1>4, NewsFollow
<1>6. circuit'.lease \in {0, circuit.lease} BY <1>1
<1> QED BY <1>1, <1>3, <1>5, <1>6, SettlingKeeps

-----------------------------------------------------------------------------
(* What a step does to the permits *)

\* Giving a permit back, and the start of those who waited for it.
LEMMA ReleaseLemma ==
  ASSUME TypeOK, PermitsInPlace, NEW r \in Requests, permit[r] # "pending", Release(r)
  PROVE  /\ permit' \in [Requests -> {"none", "pending", "held"}]
         /\ Cardinality(Holding(permit')) <= Capacity
         /\ permit'[r] = "none"
         /\ \A s \in Requests \ {r} :
              permit'[s] = permit[s] \/ (permit[s] = "pending" /\ permit'[s] = "held")
<1>1. CASE permit[r] # "held" BY <1>1 DEF Release, TypeOK, PermitsInPlace
<1>2. CASE permit[r] = "held"
  <2> DEFINE freed == [permit EXCEPT ![r] = "none"]
  <2>1. freed \in [Requests -> {"none", "pending", "held"}] /\ freed[r] = "none"
        /\ \A s \in Requests \ {r} : freed[s] = permit[s]
    BY DEF TypeOK
  <2>2. permit' \in Drained(freed) BY <1>2 DEF Release
  <2> HIDE DEF freed
  <2>3. PICK S \in SUBSET Pending(freed) :
          /\ Cardinality(S) <= Capacity - Cardinality(Holding(freed))
          /\ permit' = [s \in Requests |-> IF s \in S THEN "held" ELSE freed[s]]
    BY <2>2 DEF Drained
  <2>4. Holding(permit') = Holding(freed) \cup S
    BY <2>1, <2>3 DEF Holding, Pending
  <2>5. IsFiniteSet(S) /\ IsFiniteSet(Holding(freed)) /\ Holding(freed) \cap S = {}
    <3>1. S \subseteq Requests /\ Holding(freed) \subseteq Requests
      BY DEF Holding, Pending
    <3> QED BY <2>3, <3>1, FS_Subset, CircuitAssumption DEF Holding, Pending
  <2>6. Cardinality(Holding(permit')) = Cardinality(Holding(freed)) + Cardinality(S)
    <3>1. Cardinality({}) = 0 BY FS_EmptySet
    <3>2. Cardinality(S) \in Nat /\ Cardinality(Holding(freed)) \in Nat
      BY <2>5, FS_CardinalityType
    <3>3. Cardinality(Holding(freed) \cup S) =
            Cardinality(Holding(freed)) + Cardinality(S) - Cardinality(Holding(freed) \cap S)
      BY <2>5, FS_Union
    <3> QED BY <2>4, <2>5, <3>1, <3>2, <3>3
  <2>7. Cardinality(Holding(permit')) <= Capacity
    <3>1. Cardinality(S) \in Nat /\ Cardinality(Holding(freed)) \in Nat
      BY <2>5, FS_CardinalityType
    <3> QED BY <2>3, <2>6, <3>1, RequestAssumption
  <2> QED BY <2>1, <2>3, <2>7 DEF Pending
<1> QED BY <1>1, <1>2

\* The part of the type invariant that is the requests' own.
RequestTypes ==
  /\ phase \in [Requests -> Phases]
  /\ permit \in [Requests -> {"none", "pending", "held"}]
  /\ tries \in [Requests -> 0 .. MaxAttempts]
  /\ aborted \subseteq Requests

\* What PermitsInPlace says of one request.
InPlace(r) ==
  /\ permit[r] = "pending" => phase[r] = "queued" /\ r \notin aborted
  /\ phase[r] \in {"admitted", "checking", "probing"} \cup Calling => permit[r] = "held"
  /\ phase[r] \in {"idle", "preflight", "waiting", "retrying"} => permit[r] = "none"
  /\ phase[r] \in {"idle", "preflight", "waiting", "queued", "admitted", "checking"}
       => ~Unsettled(r)
  /\ phase[r] = "done" /\ r \notin aborted => permit[r] = "none" /\ ~Unsettled(r)
  /\ phase[r] = "retrying" => CanRetry(r)

\* A step of one request: the others keep their place, though one that waited may have
\* been given its permit.
LEMMA OneRequestMoves ==
  ASSUME TypeOK, PermitsInPlace, NEW r \in Requests,
         NEW at \in Phases, phase' = [phase EXCEPT ![r] = at],
         RequestTypes', Cardinality(Holding(permit')) <= Capacity,
         \A s \in Requests \ {r} :
           /\ attempt'[s] = attempt[s] /\ tries'[s] = tries[s]
           /\ s \in aborted <=> s \in aborted'
           /\ permit'[s] = permit[s] \/ (permit[s] = "pending" /\ permit'[s] = "held"),
         InPlace(r)'
  PROVE  RequestTypes' /\ PermitsInPlace'
<1>1. phase'[r] = at /\ \A s \in Requests \ {r} : phase'[s] = phase[s] BY DEF TypeOK
<1>2. ASSUME NEW s \in Requests \ {r} PROVE InPlace(s)'
  <2>1. InPlace(s) BY DEF PermitsInPlace, InPlace
  <2>2. CASE permit'[s] = permit[s]
    BY <1>1, <2>1, <2>2 DEF InPlace, Unsettled, CanRetry
  <2>3. CASE permit[s] = "pending" /\ permit'[s] = "held"
    BY <1>1, <2>1, <2>3 DEF InPlace, Unsettled, CanRetry, Calling
  <2> QED BY <2>2, <2>3
<1> QED BY <1>2 DEF PermitsInPlace, InPlace

\* A token changes at the request that admits, settles or abandons it.
LEMMA OneTokenChanges ==
  ASSUME CircuitTypeOK, NEW r \in Requests
  PROVE  /\ CheckAllowed(r) => \A s \in Requests \ {r} : attempt'[s] = attempt[s]
         /\ \A o \in Outcomes : Record(r, o) =>
              /\ attempt'[r].settled
              /\ \A s \in Requests \ {r} : attempt'[s] = attempt[s]
         /\ Abandon(r) =>
              /\ attempt'[r].settled
              /\ \A s \in Requests \ {r} : attempt'[s] = attempt[s]
BY DEF CircuitTypeOK, Attempts, CheckAllowed, Holds, Record, Abandon

LEMMA RequestsKeepTheirPlace ==
  ASSUME TypeOK, PermitsInPlace, Next
  PROVE  RequestTypes' /\ PermitsInPlace'
<1> USE DEF Phases
<1>0. \A r \in Requests : InPlace(r) BY DEF PermitsInPlace, InPlace
<1>1. ASSUME NEW r \in Requests, Begin(r) PROVE RequestTypes' /\ PermitsInPlace'
  <2>1. attempt' = attempt /\ permit' = permit /\ aborted' = aborted
    BY <1>1 DEF Begin, cvars
  <2>2. tries' = [tries EXCEPT ![r] = 1] /\ phase' = [phase EXCEPT ![r] = "preflight"]
        /\ phase[r] = "idle"
    BY <1>1 DEF Begin, Goto
  <2>3. RequestTypes' BY <2>1, <2>2, RequestAssumption DEF TypeOK, RequestTypes
  <2>4. InPlace(r)' BY <1>0, <2>1, <2>2 DEF InPlace, TypeOK, Unsettled, Calling
  <2>5. \A s \in Requests \ {r} : tries'[s] = tries[s] BY <2>2 DEF TypeOK
  <2> QED BY <2>1, <2>2, <2>3, <2>4, <2>5, OneRequestMoves DEF PermitsInPlace
<1>2. ASSUME NEW r \in Requests, NEW at \in Phases,
             phase' = [phase EXCEPT ![r] = at], UNCHANGED <<attempt, permit, tries, aborted>>,
             InPlace(r)'
      PROVE  RequestTypes' /\ PermitsInPlace'
  <2>1. RequestTypes' BY <1>2 DEF TypeOK, RequestTypes
  <2> QED BY <1>2, <2>1, OneRequestMoves DEF PermitsInPlace
<1>3. ASSUME NEW r \in Requests,
             \/ Preflight(r) \/ WaitEnds(r) \/ WaitGivesUp(r) \/ TicketReady(r) \/ TakeEvent(r)
      PROVE  RequestTypes' /\ PermitsInPlace'
  <2>1. UNCHANGED <<attempt, permit, tries, aborted>>
    BY <1>3 DEF Preflight, WaitEnds, WaitGivesUp, TicketReady, TakeEvent, cvars
  <2>2. \/ /\ phase[r] \in {"preflight", "waiting"}
           /\ \/ phase' = [phase EXCEPT ![r] = "waiting"]
              \/ phase' = [phase EXCEPT ![r] = "done"]
              \/ phase' = [phase EXCEPT ![r] = "preflight"]
        \/ /\ phase[r] = "queued" /\ permit[r] = "held"
           /\ phase' = [phase EXCEPT ![r] = "admitted"]
        \/ /\ phase[r] \in {"queued", "admitted", "probing"} /\ r \in aborted
           /\ phase' = [phase EXCEPT ![r] = "done"]
        \/ phase[r] = "admitted" /\ phase' = [phase EXCEPT ![r] = "checking"]
        \/ phase[r] = "probing" /\ phase' = [phase EXCEPT ![r] = "streaming"]
    BY <1>3 DEF Preflight, WaitEnds, WaitGivesUp, TicketReady, TakeEvent, Goto
  <2>3. PICK at \in Phases :
          /\ phase' = [phase EXCEPT ![r] = at]
          /\ \/ phase[r] \in {"preflight", "waiting"} /\ at \in {"waiting", "done", "preflight"}
             \/ phase[r] = "queued" /\ permit[r] = "held" /\ at = "admitted"
             \/ r \in aborted /\ at = "done" /\ phase[r] \in {"queued", "admitted", "probing"}
             \/ phase[r] = "admitted" /\ at = "checking"
             \/ phase[r] = "probing" /\ at = "streaming"
    BY <2>2
  <2>4. phase'[r] = at /\ InPlace(r) BY <1>0, <2>3 DEF TypeOK
  <2>5. InPlace(r)'
    <3>1. /\ permit'[r] = permit[r] /\ (r \in aborted' <=> r \in aborted)
          /\ Unsettled(r)' <=> Unsettled(r)
      BY <2>1 DEF Unsettled
    <3>2. CASE phase[r] \in {"preflight", "waiting"} /\ at \in {"waiting", "done", "preflight"}
      BY <2>4, <3>1, <3>2 DEF InPlace, Calling
    <3>3. CASE phase[r] = "queued" /\ permit[r] = "held" /\ at = "admitted"
      BY <2>4, <3>1, <3>3 DEF InPlace, Calling
    <3>4. CASE r \in aborted /\ at = "done" /\ phase[r] \in {"queued", "admitted", "probing"}
      BY <2>4, <3>1, <3>4 DEF InPlace, Calling
    <3>5. CASE phase[r] \in {"admitted", "probing"} /\ at \in {"checking", "streaming"}
               /\ (at = "checking" => phase[r] = "admitted")
      BY <2>4, <3>1, <3>5 DEF InPlace, Calling
    <3> QED BY <2>3, <3>2, <3>3, <3>4, <3>5
  <2> QED BY <1>2, <2>1, <2>3, <2>5
<1>4. ASSUME NEW r \in Requests, Admit(r) PROVE RequestTypes' /\ PermitsInPlace'
  <2>1. /\ UNCHANGED <<attempt, tries, aborted>> /\ phase[r] = "preflight"
        /\ permit[r] = "none" /\ ~Unsettled(r)
    BY <1>0, <1>4 DEF Admit, cvars, InPlace
  <2>2. PICK at \in {"checking", "queued", "done"}, p \in {"none", "pending", "held"} :
          /\ phase' = [phase EXCEPT ![r] = at] /\ permit' = [permit EXCEPT ![r] = p]
          /\ at = "checking" => p = "held" /\ HasRoom
          /\ at = "queued" => p = "pending" /\ r \notin aborted
          /\ at # "queued" => p # "pending"
          /\ at = "done" => p = "none"
    <3>1. permit = [permit EXCEPT ![r] = "none"] BY <2>1 DEF TypeOK
    <3> QED BY <1>4, <3>1 DEF Admit, Goto, Permit
  <2>3. RequestTypes' BY <2>1, <2>2 DEF TypeOK, RequestTypes
  <2>4. InPlace(r)' BY <2>1, <2>2 DEF InPlace, TypeOK, Unsettled, Calling
  <2>5. Cardinality(Holding(permit')) <= Capacity
    <3>1. IsFiniteSet(Holding(permit)) BY FS_Subset, CircuitAssumption DEF Holding
    <3>2. CASE p = "held"
      <4>1. Holding(permit') = Holding(permit) \cup {r} /\ r \notin Holding(permit)
        BY <2>1, <2>2, <3>2 DEF Holding, TypeOK
      <4>2. Cardinality(Holding(permit')) = Cardinality(Holding(permit)) + 1
        BY <3>1, <4>1, FS_AddElement
      <4>3. Cardinality(Holding(permit)) < Capacity BY <2>2, <3>2 DEF HasRoom
      <4> QED BY <3>1, <4>2, <4>3, FS_CardinalityType, RequestAssumption
    <3>3. CASE p # "held"
      <4>1. Holding(permit') = Holding(permit) BY <2>1, <2>2, <3>3 DEF Holding, TypeOK
      <4> QED BY <4>1 DEF PermitsInPlace
    <3> QED BY <3>2, <3>3
  <2>6. at \in Phases /\ \A s \in Requests \ {r} : permit'[s] = permit[s]
    BY <2>2 DEF TypeOK
  <2> QED BY <2>1, <2>2, <2>3, <2>4, <2>5, <2>6, OneRequestMoves
<1>5. ASSUME NEW r \in Requests, WaitTimesOut(r) PROVE RequestTypes' /\ PermitsInPlace'
  <2>1. /\ UNCHANGED <<attempt, tries, aborted>> /\ permit[r] = "pending" /\ ~Unsettled(r)
        /\ permit' = [permit EXCEPT ![r] = "none"] /\ phase' = [phase EXCEPT ![r] = "done"]
    BY <1>0, <1>5 DEF WaitTimesOut, cvars, InPlace, Goto, Permit
  <2>2. RequestTypes' BY <2>1 DEF TypeOK, RequestTypes
  <2>3. InPlace(r)' BY <2>1 DEF InPlace, TypeOK, Unsettled, Calling
  <2>4. Holding(permit') = Holding(permit) BY <2>1 DEF Holding, TypeOK
  <2>5. \A s \in Requests \ {r} : permit'[s] = permit[s] BY <2>1 DEF TypeOK
  <2> QED BY <2>1, <2>2, <2>3, <2>4, <2>5, OneRequestMoves DEF PermitsInPlace
<1>6. ASSUME NEW r \in Requests, NEW at \in Phases,
             phase[r] \in {"checking", "streaming", "emitting", "retrying"}, Release(r),
             phase' = [phase EXCEPT ![r] = at], aborted' = aborted,
             tries' \in [Requests -> 0 .. MaxAttempts],
             \A s \in Requests \ {r} : attempt'[s] = attempt[s] /\ tries'[s] = tries[s],
             \/ at \in {"preflight", "done"} /\ ~Unsettled(r)'
             \/ at = "retrying" /\ tries'[r] < MaxAttempts
      PROVE  RequestTypes' /\ PermitsInPlace'
  <2>1. permit[r] # "pending" BY <1>0, <1>6 DEF InPlace
  <2>2. /\ permit' \in [Requests -> {"none", "pending", "held"}]
        /\ Cardinality(Holding(permit')) <= Capacity /\ permit'[r] = "none"
        /\ \A s \in Requests \ {r} :
             permit'[s] = permit[s] \/ (permit[s] = "pending" /\ permit'[s] = "held")
    BY <1>6, <2>1, ReleaseLemma
  <2>3. RequestTypes' BY <1>6, <2>2 DEF TypeOK, RequestTypes
  <2>4. InPlace(r)' BY <1>6, <2>2 DEF InPlace, TypeOK, Unsettled, Calling, CanRetry
  <2> QED BY <1>6, <2>2, <2>3, <2>4, OneRequestMoves
<1>7. ASSUME NEW r \in Requests, CheckBlocked(r) PROVE RequestTypes' /\ PermitsInPlace'
  BY <1>0, <1>6, <1>7 DEF CheckBlocked, Goto, cvars, InPlace, Unsettled, TypeOK
<1>8. ASSUME NEW r \in Requests, CheckPasses(r) PROVE RequestTypes' /\ PermitsInPlace'
  <2>1. /\ UNCHANGED <<permit, tries, aborted>> /\ permit[r] = "held"
        /\ \A s \in Requests \ {r} : attempt'[s] = attempt[s]
    BY <1>0, <1>8, OneTokenChanges DEF CheckPasses, InPlace, TypeOK
  <2>2. PICK at \in {"probing", "streaming"} : phase' = [phase EXCEPT ![r] = at]
    BY <1>8 DEF CheckPasses, Goto
  <2>3. RequestTypes' BY <2>1, <2>2 DEF TypeOK, RequestTypes
  <2>4. InPlace(r)' BY <2>1, <2>2 DEF InPlace, TypeOK
  <2> QED BY <2>1, <2>2, <2>3, <2>4, OneRequestMoves DEF PermitsInPlace
<1>9. ASSUME NEW r \in Requests, FirstChunk(r) PROVE RequestTypes' /\ PermitsInPlace'
  <2>1. /\ UNCHANGED <<permit, tries, aborted>> /\ permit[r] = "held"
        /\ phase' = [phase EXCEPT ![r] = "emitting"]
        /\ \A s \in Requests \ {r} : attempt'[s] = attempt[s]
    BY <1>0, <1>9, OneTokenChanges
    DEF FirstChunk, InPlace, TypeOK, Goto, Outcomes, Calling
  <2>3. RequestTypes' BY <2>1 DEF TypeOK, RequestTypes
  <2>4. InPlace(r)' BY <2>1 DEF InPlace, TypeOK
  <2> QED BY <2>1, <2>3, <2>4, OneRequestMoves DEF PermitsInPlace
<1>10. ASSUME NEW r \in Requests, End(r) PROVE RequestTypes' /\ PermitsInPlace'
  BY <1>6, <1>10, OneTokenChanges DEF End, Finally, Goto, Unsettled, TypeOK
<1>11. ASSUME NEW r \in Requests, Retry(r) PROVE RequestTypes' /\ PermitsInPlace'
  <2>1. tries[r] + 1 \in 0 .. MaxAttempts /\ tries' = [tries EXCEPT ![r] = tries[r] + 1]
    BY <1>0, <1>11, RequestAssumption DEF Retry, InPlace, CanRetry, TypeOK
  <2>2. /\ tries' \in [Requests -> 0 .. MaxAttempts]
        /\ \A s \in Requests \ {r} : tries'[s] = tries[s]
    BY <2>1 DEF TypeOK
  <2> QED BY <1>6, <1>11, <2>2, OneTokenChanges DEF Retry, Finally, Goto, Unsettled, TypeOK
<1>12. ASSUME NEW r \in Requests, NEW o \in {"failure", "neutral"},
              FailsRetryable(r, o) \/ FailsForGood(r, o)
       PROVE  RequestTypes' /\ PermitsInPlace'
  <2>1. /\ Record(r, o) /\ Release(r) /\ phase[r] = "streaming"
        /\ tries' = tries /\ aborted' = aborted
        /\ \/ phase' = [phase EXCEPT ![r] = "done"]
           \/ CanRetry(r) /\ phase' = [phase EXCEPT ![r] = "retrying"]
    BY <1>12 DEF FailsRetryable, FailsForGood, Goto
  <2>2. /\ attempt'[r].settled /\ \A s \in Requests \ {r} : attempt'[s] = attempt[s]
    BY <2>1, OneTokenChanges DEF TypeOK, Outcomes
  <2> QED BY <1>6, <2>1, <2>2 DEF Unsettled, CanRetry, TypeOK
<1>13. ASSUME NEW r \in Requests, TimesOut(r) PROVE RequestTypes' /\ PermitsInPlace'
  BY <1>6, <1>13 DEF TimesOut, Goto, cvars, CanRetry, TypeOK
<1>14. ASSUME NEW r \in Requests, Abort(r) PROVE RequestTypes' /\ PermitsInPlace'
  <2>1. /\ UNCHANGED <<attempt, phase, tries>> /\ aborted' = aborted \cup {r}
        /\ permit' = [permit EXCEPT ![r] = IF permit[r] = "pending" THEN "none" ELSE permit[r]]
        /\ phase[r] # "done"
    BY <1>14 DEF Abort, cvars
  <2>2. RequestTypes' BY <2>1 DEF TypeOK, RequestTypes
  <2>3. InPlace(r)' BY <1>0, <2>1 DEF InPlace, TypeOK, Unsettled, Calling, CanRetry
  <2>4. Holding(permit') = Holding(permit) BY <2>1 DEF Holding, TypeOK
  <2>5. \A s \in Requests \ {r} : permit'[s] = permit[s] BY <2>1 DEF TypeOK
  <2>6. phase' = [phase EXCEPT ![r] = phase[r]] /\ phase[r] \in Phases
    BY <2>1 DEF TypeOK
  <2> QED BY <2>1, <2>2, <2>3, <2>4, <2>5, <2>6, OneRequestMoves DEF PermitsInPlace
<1>15. ASSUME Tick PROVE RequestTypes' /\ PermitsInPlace'
  BY <1>15 DEF Tick, rvars, Timers, ProbeBecomesDue, LeaseExpires, SampleAges, Detach,
    RequestTypes, PermitsInPlace, TypeOK, Unsettled, CanRetry
<1> QED BY <1>1, <1>3, <1>4, <1>5, <1>7, <1>8, <1>9, <1>10, <1>11, <1>12, <1>13, <1>14, <1>15
        DEF Next, Step

-----------------------------------------------------------------------------
(* The invariant, and what follows from it *)

LEMMA CallsStart == HInit => CallInv
<1> SUFFICES ASSUME HInit PROVE CallInv OBVIOUS
<1>1. /\ circuit = [state |-> "closed", samples |-> <<>>, generation |-> 0, lease |-> 0,
                    leases |-> 0, due |-> FALSE, expired |-> FALSE, detached |-> FALSE]
      /\ attempt = [r \in Requests |-> NoAttempt] /\ phase = [r \in Requests |-> "idle"]
      /\ permit = [r \in Requests |-> "none"] /\ tries = [r \in Requests |-> 0]
      /\ aborted = {} /\ era = [r \in Requests |-> <<0, 0>>] /\ news = 0
  BY DEF HInit, Init, CircuitInit
<1>2. <<>> \in Seq(BOOLEAN) /\ Len(<<>>) = 0 /\ 0 \in 0 .. MaxGeneration /\ 0 \in 0 .. MaxAttempts
      /\ 0 <= MaxWindowEntries /\ 0 \in 0 .. MinSamples
  BY CircuitAssumption, RequestAssumption
<1>3. circuit \in Circuits BY <1>1, <1>2 DEF Circuits, States
<1>4. NoAttempt \in Attempts BY <1>2 DEF NoAttempt, Attempts
<1>5. TypeOK BY <1>1, <1>2, <1>3, <1>4 DEF TypeOK, CircuitTypeOK, Phases
<1>6. \A r \in Requests : attempt[r].settled BY <1>1 DEF NoAttempt
<1>7. PermitsInPlace
  <2>1. Holding(permit) = {} BY <1>1 DEF Holding
  <2>2. Cardinality(Holding(permit)) <= Capacity BY <2>1, FS_EmptySet, RequestAssumption
  <2> QED BY <1>1, <1>6, <2>2 DEF PermitsInPlace, Unsettled, Calling
<1>8. LeasesAreNew BY <1>1, <1>6 DEF LeasesAreNew, Probe
<1>9. ErasAreTrue BY <1>1, <1>6 DEF ErasAreTrue, Claims, Probe, Regular
<1>10. SamplesAreNews BY <1>1, <1>2 DEF SamplesAreNews
<1> QED BY <1>5, <1>7, <1>8, <1>9, <1>10 DEF CallInv

\* A step keeps the invariant, and opens a closed circuit on fresh evidence only.
LEMMA CallsStep ==
  ASSUME CallInv, HNext
  PROVE  /\ CallInv'
         /\ circuit.state = "closed" /\ circuit'.state = "open" => news' = MinSamples
<1>1. CircuitInv /\ TypeOK /\ PermitsInPlace BY DEF CallInv, CircuitInv, TypeOK
<1>2. Next /\ History BY DEF HNext
<1>3. RequestTypes' /\ PermitsInPlace' BY <1>1, <1>2, RequestsKeepTheirPlace
<1>4. /\ CircuitInv'
      /\ circuit.state = "closed" /\ circuit'.state = "open" => news' = MinSamples
  <2>1. ASSUME NEW r \in Requests, phase[r] = "checking", CheckAllowed(r)
        PROVE  CircuitInv' /\ (circuit'.state = "open" => circuit.state = "open")
    <3>1. attempt[r].settled BY <1>1, <2>1 DEF PermitsInPlace, Unsettled
    <3>2. CircuitInv' BY <1>1, <1>2, <2>1, <3>1, CheckKeeps
    <3>3. circuit.state = "closed" => circuit' = circuit BY <2>1 DEF CheckAllowed
    <3>4. circuit.state \in {"closed", "open", "half_open"} /\ circuit \in Circuits
      BY <1>1 DEF TypeOK, CircuitTypeOK, Circuits, States
    <3>5. CASE circuit.state = "half_open"
      <4>1. circuit' = circuit \/ circuit' = WithProbe(circuit)
        BY <2>1, <3>5 DEF CheckAllowed
      <4> QED BY <3>2, <3>4, <3>5, <4>1, Transitions
    <3> QED BY <3>2, <3>3, <3>4, <3>5
  <2>2. ASSUME NEW r \in Requests, NEW o \in Outcomes, Record(r, o)
        PROVE  /\ CircuitInv'
               /\ circuit.state = "closed" /\ circuit'.state = "open" => news' = MinSamples
    BY <1>1, <1>2, <2>2, RecordKeeps
  <2>3. ASSUME NEW r \in Requests, Abandon(r)
        PROVE  CircuitInv' /\ circuit'.state = circuit.state
    BY <1>1, <1>2, <2>3, AbandonKeeps
  <2>4. ASSUME Timers PROVE CircuitInv' /\ circuit'.state = circuit.state
    BY <1>1, <1>2, <2>4, TimersKeep
  <2>5. ASSUME UNCHANGED cvars PROVE CircuitInv' /\ circuit'.state = circuit.state
    BY <1>1, <1>2, <2>5, OtherStepsKeep DEF cvars
  <2>6. CircuitStep BY <1>2, StepsOfTheCircuit
  <2> QED BY <2>1, <2>2, <2>3, <2>4, <2>5, <2>6 DEF CircuitStep
<1>5. CallInv' BY <1>3, <1>4 DEF CallInv, CircuitInv, TypeOK, RequestTypes
<1> QED BY <1>4, <1>5

LEMMA CallsStutter == CallInv /\ UNCHANGED hvars => CallInv'
<1> SUFFICES ASSUME CallInv, UNCHANGED hvars PROVE CallInv' OBVIOUS
<1>1. /\ circuit' = circuit /\ attempt' = attempt /\ phase' = phase /\ permit' = permit
      /\ tries' = tries /\ aborted' = aborted /\ era' = era /\ news' = news
  BY DEF hvars, vars
<1> QED BY <1>1 DEF CallInv, TypeOK, CircuitTypeOK, PermitsInPlace, LeasesAreNew, ErasAreTrue,
  SamplesAreNews, Unsettled, CanRetry, Probe, Regular, Claims

\* CallInv holds in every state, whatever the requests, permits, tries and samples.
THEOREM CallInvariant == HSpec => []CallInv
<1>1. CallInv /\ [HNext]_hvars => CallInv' BY CallsStep, CallsStutter
<1> QED BY CallsStart, <1>1, PTL DEF HSpec

\* A request calls the provider under a permit, the domain never admits more than its
\* capacity, and no request keeps what it does not use (streamWithRetries).
THEOREM HeldInUse == HSpec => []HeldWhileInUse
<1>1. CallInv => HeldWhileInUse
  BY DEF CallInv, PermitsInPlace, HeldWhileInUse, Calling
<1> QED BY <1>1, CallInvariant, PTL

\* At most one attempt in flight decides a half-open circuit: leases are never given twice.
THEOREM OneProbeDecides == HSpec => []OneDecidingProbe
<1>1. CallInv => OneDecidingProbe
  <2> SUFFICES ASSUME CallInv, circuit.state = "half_open"
               PROVE  Cardinality({r \in Requests : Claims(r) /\ Relevant(attempt[r])}) <= 1
    BY DEF OneDecidingProbe
  <2> DEFINE Deciding == {r \in Requests : Claims(r) /\ Relevant(attempt[r])}
  <2>1. \A r, s \in Deciding : r = s
    BY DEF CallInv, LeasesAreNew, Probe, Claims, Relevant
  <2>2. CASE Deciding = {} BY <2>2, FS_EmptySet
  <2>3. CASE Deciding # {}
    <3>1. PICK r : Deciding = {r} BY <2>1, <2>3
    <3>2. Cardinality({r}) = 1 BY FS_Singleton
    <3> QED BY <3>1, <3>2
  <2> QED BY <2>2, <2>3
<1> QED BY <1>1, CallInvariant, PTL

\* What settles an attempt moves the circuit only if neither its state nor its probe has
\* changed since the attempt was admitted (record and abandon).
THEOREM LateResultsAreIgnored == HSpec => LateResultsIgnored
<1>1. ASSUME CallInv, HNext, NEW r \in Requests, ReportedNow(r), Claims(r),
             era[r] # <<circuit.generation, circuit.leases>>
      PROVE  circuit' = circuit
  <2>1. CircuitTypeOK /\ LeasesAreNew /\ ErasAreTrue BY <1>1 DEF CallInv, TypeOK
  <2>2. era[r] = <<era[r][1], era[r][2]>> BY <2>1 DEF ErasAreTrue
  <2>3. ~(attempt[r].generation = circuit.generation /\ Regular(r))
    BY <1>1, <2>1, <2>2 DEF ErasAreTrue
  <2>4. ~ /\ attempt[r].generation = circuit.generation /\ Probe(r)
          /\ attempt[r].lease = circuit.lease
    BY <1>1, <2>1, <2>2 DEF ErasAreTrue, LeasesAreNew
  <2>5. ASSUME NEW s \in Requests, CheckAllowed(s) PROVE FALSE
    <3>1. s # r => attempt'[r] = attempt[r] BY <2>1, <2>5, OneTokenChanges
    <3>2. attempt'[s].settled = FALSE
      BY <2>1, <2>5 DEF CheckAllowed, Holds, CircuitTypeOK, Attempts
    <3> QED BY <1>1, <3>1, <3>2 DEF ReportedNow
  <2>6. ASSUME NEW s \in Requests, NEW o \in Outcomes, Record(s, o) PROVE circuit' = circuit
    <3>1. s = r BY <1>1, <2>1, <2>6, OneTokenChanges DEF ReportedNow
    <3>2. ~Relevant(attempt[r])
      BY <1>1, <2>3, <2>4 DEF Relevant, Regular, Probe, ReportedNow
    <3> QED BY <2>6, <3>1, <3>2 DEF Record
  <2>7. ASSUME NEW s \in Requests, Abandon(s) PROVE circuit' = circuit
    <3>1. s = r BY <1>1, <2>1, <2>7, OneTokenChanges DEF ReportedNow
    <3>2. Abandoned(r) = circuit BY <2>4 DEF Abandoned, Probe
    <3> QED BY <2>7, <3>1, <3>2 DEF Abandon
  <2>8. ~Timers
    BY <1>1 DEF ReportedNow, Timers, ProbeBecomesDue, LeaseExpires, SampleAges, Detach
  <2>9. CircuitStep BY <1>1, StepsOfTheCircuit DEF HNext
  <2> QED BY <2>5, <2>6, <2>7, <2>8, <2>9 DEF CircuitStep, cvars
<1>2. CallInv /\ [HNext]_hvars =>
        [\A r \in Requests :
           ReportedNow(r) /\ Claims(r) /\ era[r] # <<circuit.generation, circuit.leases>>
             => circuit' = circuit]_hvars
  BY <1>1
<1> QED BY CallInvariant, <1>2, PTL DEF HSpec, LateResultsIgnored

\* A circuit that has closed opens only on MinSamples outcomes reported since: its window is
\* emptied when it closes, and each sample was counted.
THEOREM EvidenceIsFresh == HSpec => FreshEvidence
<1>1. CallInv /\ [HNext]_hvars =>
        [circuit.state = "closed" /\ circuit'.state = "open" => news' = MinSamples]_hvars
  BY CallsStep
<1> QED BY CallInvariant, <1>1, PTL DEF HSpec, FreshEvidence
=============================================================================
