-------------------------- MODULE ProviderRequest --------------------------
(***************************************************************************)
(* packages/cli/src/services/PiAIChatService.ts, streamWithRetries: a      *)
(* request passes the circuit's preflight, waits for a permit of the       *)
(* admission scheduler, checks the circuit, streams, and retries. It is an *)
(* async generator: at a yield it is suspended until its consumer          *)
(* (processStreamResponse) asks for more or, when the turn was aborted,    *)
(* leaves the loop, which runs only the finally blocks around that yield.  *)
(* Which pending tickets get the next permits is the admission scheduler's *)
(* choice and left open here.                                              *)
(***************************************************************************)
EXTENDS CircuitBreaker

CONSTANTS
  Capacity,     \* permits of the failure domain
  Patient,      \* requests that wait for the circuit: bounded recovery, last candidate
  MaxAttempts   \* candidateMaxRetries + 1

ASSUME RequestAssumption ==
  Capacity \in Nat \ {0} /\ Patient \subseteq Requests /\ MaxAttempts \in Nat \ {0}

VARIABLES
  phase,      \* where each generator is
  permit,     \* providerPermit and its ticket
  tries,      \* attempts begun
  aborted     \* requests whose signal has fired

vars == <<circuit, attempt, phase, permit, tries, aborted>>
rvars == <<phase, permit, tries, aborted>>

\* "queued", "admitted", "probing" and "waiting" sit at a yield or between yields.
Phases == {"idle", "preflight", "waiting", "queued", "admitted", "checking", "probing",
           "streaming", "emitting", "retrying", "done"}

TypeOK ==
  /\ CircuitTypeOK
  /\ phase \in [Requests -> Phases]
  /\ permit \in [Requests -> {"none", "pending", "held"}]
  /\ tries \in [Requests -> 0 .. MaxAttempts]
  /\ aborted \subseteq Requests

Init ==
  /\ CircuitInit
  /\ phase = [r \in Requests |-> "idle"]
  /\ permit = [r \in Requests |-> "none"]
  /\ tries = [r \in Requests |-> 0]
  /\ aborted = {}

Holding(p) == {r \in Requests : p[r] = "held"}
HasRoom == Cardinality(Holding(permit)) < Capacity

Pending(p) == {r \in Requests : p[r] = "pending"}

\* drain: pending tickets start as long as there is room.
Drained(p) ==
  LET room == Capacity - Cardinality(Holding(p))
      started == {S \in SUBSET Pending(p) :
                    /\ Cardinality(S) <= room
                    /\ Cardinality(S) = room \/ S = Pending(p)}
  IN  {[r \in Requests |-> IF r \in S THEN "held" ELSE p[r]] : S \in started}

Goto(r, p) == phase' = [phase EXCEPT ![r] = p]
Permit(r, p) == permit' = [permit EXCEPT ![r] = p]

\* release, which drains; a permit that is not held, or was released, changes nothing.
Release(r) ==
  IF permit[r] = "held" THEN permit' \in Drained([permit EXCEPT ![r] = "none"])
  ELSE UNCHANGED permit

-----------------------------------------------------------------------------
(* Up to the stream *)

\* The request looks its circuit up once; one that comes after the registry has dropped
\* this circuit gets another, and is not followed here.
Begin(r) ==
  /\ phase[r] = "idle" /\ r \notin aborted /\ ~circuit.detached
  /\ Goto(r, "preflight") /\ tries' = [tries EXCEPT ![r] = 1]
  /\ UNCHANGED <<cvars, permit, aborted>>

\* A blocked preflight waits for the circuit, or rejects the request.
Preflight(r) ==
  /\ phase[r] = "preflight" /\ ~Eligible
  /\ Goto(r, IF r \in Patient THEN "waiting" ELSE "done")
  /\ UNCHANGED <<cvars, permit, tries, aborted>>

WaitEnds(r) ==
  /\ phase[r] = "waiting" /\ r \notin aborted
  /\ Goto(r, "preflight")
  /\ UNCHANGED <<cvars, permit, tries, aborted>>

\* The signal ends the sleep, or the recovery budget is found spent after it.
WaitGivesUp(r) ==
  /\ phase[r] = "waiting"
  /\ Goto(r, "done")
  /\ UNCHANGED <<cvars, permit, tries, aborted>>

\* admit: a permit at once, a ticket, or an admission error.
Admit(r) ==
  /\ phase[r] = "preflight" /\ Eligible
  /\ \/ r \notin aborted /\ HasRoom /\ Permit(r, "held") /\ Goto(r, "checking")
     \/ r \notin aborted /\ ~HasRoom /\ Permit(r, "pending") /\ Goto(r, "queued")
     \/ Goto(r, "done") /\ UNCHANGED permit
  /\ UNCHANGED <<cvars, tries, aborted>>

\* The wait for the permit ran out: the ticket leaves the queue and the request fails.
WaitTimesOut(r) ==
  /\ permit[r] = "pending"
  /\ Permit(r, "none") /\ Goto(r, "done")
  /\ UNCHANGED <<cvars, tries, aborted>>

\* The ticket is ready: the generator yields 'admitted', the permit not yet returned.
TicketReady(r) ==
  /\ phase[r] = "queued" /\ permit[r] = "held"
  /\ Goto(r, "admitted")
  /\ UNCHANGED <<cvars, permit, tries, aborted>>

\* The consumer takes an event yielded outside the try block. If the turn was aborted
\* it leaves, and no finally block around that yield knows the permit or the token.
TakeEvent(r) ==
  /\ phase[r] \in {"queued", "admitted", "probing"}
  /\ IF r \in aborted THEN Goto(r, "done")
     ELSE \/ phase[r] = "admitted" /\ Goto(r, "checking")
          \/ phase[r] = "probing" /\ Goto(r, "streaming")
  /\ UNCHANGED <<cvars, permit, tries, aborted>>

\* The circuit has closed the way since preflight: give the permit back, start over.
CheckBlocked(r) ==
  /\ phase[r] = "checking" /\ ~Eligible
  /\ Release(r) /\ Goto(r, "preflight")
  /\ UNCHANGED <<cvars, tries, aborted>>

CheckPasses(r) ==
  /\ phase[r] = "checking" /\ CheckAllowed(r)
  /\ Goto(r, IF attempt'[r].kind = "probe" THEN "probing" ELSE "streaming")
  /\ UNCHANGED <<permit, tries, aborted>>

-----------------------------------------------------------------------------
(* The stream *)

FirstChunk(r) ==
  /\ phase[r] = "streaming" /\ Record(r, "success")
  /\ Goto(r, "emitting")
  /\ UNCHANGED <<permit, tries, aborted>>

Finally_KeepLease(r) ==    \* mutant of Finally
  /\ UNCHANGED cvars /\ Release(r)

\* finally: the token is abandoned (nothing, if it was recorded), the permit released.
Finally(r) == Abandon(r) /\ Release(r)

\* End of the stream, an error after the first chunk, an abort, a final error, or the
\* consumer leaving at a yield inside the try block.
End(r) ==
  /\ phase[r] \in {"streaming", "emitting", "retrying"}
  /\ Finally(r) /\ Goto(r, "done")
  /\ UNCHANGED <<tries, aborted>>

CanRetry(r) == tries[r] < MaxAttempts

\* The circuit has just opened on this failure.
Tripped == circuit.state # "open" /\ circuit'.state = "open"

\* A retryable error before the first chunk: the permit goes back before the outcome is
\* recorded. Unless it waits out the circuit, a request that tripped it gives up.
FailsRetryable(r, outcome) ==
  /\ phase[r] = "streaming" /\ r \notin aborted
  /\ Record(r, outcome) /\ Release(r)
  /\ Goto(r, IF CanRetry(r) /\ (Tripped => r \in Patient) THEN "retrying" ELSE "done")
  /\ UNCHANGED <<tries, aborted>>

\* A timeout is retryable but no evidence against the provider: nothing is recorded, and
\* a probe keeps its lease through the delay.
TimesOut(r) ==
  /\ phase[r] = "streaming" /\ r \notin aborted /\ CanRetry(r)
  /\ Release(r) /\ Goto(r, "retrying")
  /\ UNCHANGED <<cvars, tries, aborted>>

FailsForGood(r, outcome) ==
  /\ phase[r] = "streaming" /\ r \notin aborted
  /\ Record(r, outcome) /\ Release(r) /\ Goto(r, "done")
  /\ UNCHANGED <<tries, aborted>>

\* The delay is over: finally, then the next round of the loop.
Retry(r) ==
  /\ phase[r] = "retrying" /\ r \notin aborted
  /\ Finally(r) /\ Goto(r, "preflight")
  /\ tries' = [tries EXCEPT ![r] = @ + 1]
  /\ UNCHANGED aborted

-----------------------------------------------------------------------------

\* The signal fires: a pending ticket leaves the queue at once.
Abort(r) ==
  /\ r \notin aborted /\ phase[r] # "done"
  /\ aborted' = aborted \cup {r}
  /\ permit' = [permit EXCEPT ![r] = IF @ = "pending" THEN "none" ELSE @]
  /\ UNCHANGED <<cvars, phase, tries>>

Tick == Timers /\ UNCHANGED rvars

Step(r) ==
  \/ Begin(r) \/ Preflight(r) \/ WaitEnds(r) \/ Admit(r) \/ TicketReady(r) \/ TakeEvent(r)
  \/ WaitGivesUp(r) \/ CheckBlocked(r) \/ CheckPasses(r) \/ FirstChunk(r) \/ End(r) \/ Retry(r)
  \/ TimesOut(r)
  \/ \E o \in {"failure", "neutral"} : FailsRetryable(r, o) \/ FailsForGood(r, o)

Next ==
  \/ \E r \in Requests : Step(r) \/ WaitTimesOut(r) \/ Abort(r)
  \/ Tick

Spec == Init /\ [][Next]_vars

-----------------------------------------------------------------------------
(* Properties *)

Unsettled(r) == ~attempt[r].settled
Calling == {"streaming", "emitting"}

\* A call to the provider is made under a permit, never by more requests than the domain
\* admits. And a request uses what it holds: while it sleeps before a retry, waits for the
\* circuit or is about to ask for another permit it holds none, it keeps no probe once it
\* starts over, and when it ends unaborted it leaves nothing behind, whichever way it ended.
HeldWhileInUse ==
  /\ TypeOK
  /\ Cardinality(Holding(permit)) <= Capacity
  /\ \A r \in Requests :
       /\ phase[r] \in Calling => permit[r] = "held"
       /\ phase[r] \in {"preflight", "waiting", "retrying"} => permit[r] = "none"
       /\ phase[r] \in {"preflight", "waiting", "queued"} => ~Unsettled(r)
       /\ phase[r] = "done" /\ r \notin aborted => permit[r] = "none" /\ ~Unsettled(r)
=============================================================================
