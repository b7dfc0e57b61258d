-------------------------- MODULE WebRuns_proofs --------------------------
(***************************************************************************)
(* The runs of a session of the web server, for any number of messages,    *)
(* resumers, runs, follow-up rounds and mishaps: a run in its turn owns it *)
(* on a runtime it pins, a turn has somebody who will end it, and a        *)
(* shutdown that is done leaves nothing behind.                            *)
(***************************************************************************)
EXTENDS WebRuns, TLAPS

-----------------------------------------------------------------------------
(* The inductive invariant, part by part *)

RequestSteps == {"idle", "waiting", "steer", "open", "steering", "opening", "steerWrites",
                 "openWrites", "prepared", "answering", "done"}
Answers == {"none", "steered", "queued", "started", "refused", "failed"}
Statuses == {"none", "queued", "running", "waiting_permission", "completed", "failed",
             "cancelled"}
RunSteps == {"none", "queued", "setup", "begin", "turn", "followUp", "closing", "catch",
             "finalizing", "discarding", "ending", "disposing", "settled"}

RequestRecords == [step : RequestSteps, asked : Runs \cup {Nobody}, answer : Answers]
RunRecords ==
  [status : Statuses, step : RunSteps, key : BOOLEAN, prepared : Messages \cup {Nobody},
   wants : BOOLEAN, reason : {"none", "user", "shutdown"}, rounds : 0 .. MaxFollowUps,
   dropping : SUBSET Messages]
TurnRecords == [owner : Messages \cup Runs \cup {Nobody}, sealed : BOOLEAN, lost : BOOLEAN]
WriteRecords == [m : Messages \cup {Nobody}, direct : BOOLEAN, next : BOOLEAN]

\* The records in full: TypeOK says it of their fields.
Types ==
  /\ isolated \in BOOLEAN /\ gate \in BOOLEAN /\ lock \in Messages \cup {Nobody}
  /\ req \in [Messages -> RequestRecords] /\ run \in [Runs -> RunRecords]
  /\ leases \subseteq Messages \cup Runs \cup Resumers
  /\ runtime \in {"none", "resident", "disposing"}
  /\ turn \in TurnRecords /\ writing \in WriteRecords
  /\ inbox \subseteq Messages /\ claimed \subseteq Messages
  /\ handled \subseteq Messages /\ discarded \subseteq Messages
  /\ current \in Runs \cup {Nobody}
  /\ task \in {"none", "queued", "running", "completed", "failed", "cancelled"}
  /\ waking \in [Resumers -> {"idle", "asked", "leased"}]
  /\ down \in {"no", "closing", "draining", "done"} /\ observed \subseteq Runs

\* A run that has begun and not released its runtime.
Working == {"queued", "setup", "begin", "turn", "followUp", "closing", "catch", "finalizing",
            "discarding", "ending"}
Pinning == {"steering", "opening", "steerWrites", "openWrites", "prepared", "answering"}

\* Who is in the middle of something pins the runtime, nobody else does, and a pinned
\* runtime stays; one run at a time disposes it.
LeasesAreHeld ==
  /\ \A r \in Runs : r \in leases <=> run[r].step \in Working
  /\ \A m \in Messages : m \in leases <=> req[m].step \in Pinning
  /\ \A w \in Resumers : w \in leases <=> waking[w] = "leased"
  /\ runtime # "resident" => leases = {}
  /\ \A r \in Runs : run[r].step = "disposing" => runtime = "disposing"
  /\ \A r, s \in Runs : run[r].step = "disposing" /\ run[s].step = "disposing" => r = s

\* The enqueue that writes holds the mailbox: no turn begins meanwhile.
OneWrites ==
  \A m \in Messages :
    /\ req[m].step \in {"steerWrites", "openWrites"} <=> writing.m = m
    /\ req[m].step = "openWrites" => turn = NoTurn

\* A prepared turn is handed to one run, once its request is done.
HandedOnce ==
  /\ \A r \in Runs : run[r].prepared # Nobody => req[run[r].prepared].step = "done"
  /\ \A r, s \in Runs : run[r].prepared = run[s].prepared /\ r # s => run[r].prepared = Nobody

\* A run that has yet to begin the turn that was prepared for it.
BeforeTurn(r) ==
  run[r].step \in {"queued", "setup"} \/ (run[r].step = "begin" /\ run[r].rounds = 0)

\* Whose turn it is.
TurnsAreOwned ==
  /\ \A m \in Messages : req[m].step = "prepared" => turn.owner = m
  /\ \A r \in Runs :
       /\ run[r].step \in {"queued", "setup"} => run[r].rounds = 0
       /\ run[r].step = "queued" => isolated
       /\ BeforeTurn(r) /\ run[r].prepared # Nobody => turn.owner = run[r].prepared
       /\ run[r].step = "turn" => Owns(r)

\* A run that is over with its turns, ended or left behind.
Cleaning == {"catch", "finalizing", "discarding", "ending", "disposing", "settled"}
Passed(r) == run[r].step = "followUp" \/ (run[r].step = "begin" /\ run[r].rounds # 0)

\* A turn is lost exactly when nobody is left who would end it: not the run whose own it is
\* or for which it was prepared, not the request that prepared it. A run that goes on has
\* not left its prepared turn behind.
OwnersKeep ==
  /\ turn.owner = Nobody => turn = NoTurn
  /\ turn.owner \in Runs =>
       /\ ~turn.lost => run[turn.owner].step = "turn"
       /\ turn.lost => run[turn.owner].step \in Cleaning
  /\ turn.owner \in Messages => (turn.lost <=> ~Holder(turn.owner))
  /\ \A r \in Runs : Passed(r) /\ run[r].prepared # Nobody => turn.owner # run[r].prepared

\* The gate is closed for good; what the shutdown waits for only gets less.
GateIsClosed ==
  /\ down # "no" => ~gate
  /\ down \in {"draining", "done"} => AllAnswered /\ Live \subseteq observed
  /\ down = "done" => Live = {}

RunsInv ==
  /\ Types /\ LeasesAreHeld /\ OneWrites /\ HandedOnce /\ TurnsAreOwned /\ OwnersKeep
  /\ GateIsClosed

-----------------------------------------------------------------------------
(* What a step does to the records *)

\* At most run r has changed, but not the message that was prepared for it.
Moved(r) ==
  /\ run' \in [Runs -> RunRecords]
  /\ \A s \in Runs \ {r} : run'[s] = run[s]
  /\ run'[r].prepared = run[r].prepared

\* At most the request of m has changed.
Requested(m) ==
  /\ req' \in [Messages -> RequestRecords]
  /\ \A n \in Messages \ {m} : req'[n] = req[n]

LEMMA RunUpdated ==
  ASSUME Types, NEW r \in Runs, NEW x \in RunRecords, run' = [run EXCEPT ![r] = x],
         x.prepared = run[r].prepared
  PROVE  Moved(r) /\ run'[r] = x
BY DEF Types, Moved

LEMMA RequestUpdated ==
  ASSUME Types, NEW m \in Messages, NEW x \in RequestRecords, req' = [req EXCEPT ![m] = x]
  PROVE  Requested(m) /\ req'[m] = x
BY DEF Types, Requested

LEMMA StepTo ==
  ASSUME Types, NEW r \in Runs, NEW to \in RunSteps, To(r, to)
  PROVE  Moved(r) /\ run'[r].step = to /\ run'[r].rounds = run[r].rounds
<1> DEFINE x == [run[r] EXCEPT !.step = to]
<1>1. run[r] \in RunRecords
  BY DEF Types
<1>2. /\ x \in RunRecords /\ x.step = to
      /\ x.prepared = run[r].prepared /\ x.rounds = run[r].rounds
  BY <1>1 DEF RunRecords
<1>3. run' = [run EXCEPT ![r] = x]
  BY DEF To, Types
<1> HIDE DEF x
<1> QED  BY <1>2, <1>3, RunUpdated

LEMMA StepAndStatusTo ==
  ASSUME Types, NEW r \in Runs, NEW to \in RunSteps, NEW st \in Statuses,
         run' = [run EXCEPT ![r].step = to, ![r].status = st]
  PROVE  Moved(r) /\ run'[r].step = to /\ run'[r].rounds = run[r].rounds
<1> DEFINE x == [run[r] EXCEPT !.step = to, !.status = st]
<1>1. run[r] \in RunRecords
  BY DEF Types
<1>2. /\ x \in RunRecords /\ x.step = to
      /\ x.prepared = run[r].prepared /\ x.rounds = run[r].rounds
  BY <1>1 DEF RunRecords
<1>3. run' = [run EXCEPT ![r] = x]
  BY DEF Types
<1> HIDE DEF x
<1> QED  BY <1>2, <1>3, RunUpdated

LEMMA SettleTo ==
  ASSUME Types, NEW r \in Runs, Settle(r)
  PROVE  Moved(r) /\ run'[r].step = "settled"
<1> DEFINE x == [run[r] EXCEPT !.step = "settled", !.wants = FALSE, !.rounds = 0, !.dropping = {}]
<1>1. run[r] \in RunRecords /\ 0 \in 0 .. MaxFollowUps
  BY WebRunsAssumption DEF Types
<1>2. /\ x \in RunRecords /\ x.step = "settled"
      /\ x.prepared = run[r].prepared
  BY <1>1 DEF RunRecords, RunSteps
<1>3. run' = [run EXCEPT ![r] = x]
  BY DEF Settle, Types
<1> HIDE DEF x
<1> QED  BY <1>2, <1>3, RunUpdated

LEMMA GoesTo ==
  ASSUME Types, NEW m \in Messages, NEW to \in RequestSteps, Goes(m, to)
  PROVE  Requested(m) /\ req'[m].step = to /\ req'[m].answer = req[m].answer
<1> DEFINE x == [req[m] EXCEPT !.step = to]
<1>1. req[m] \in RequestRecords
  BY DEF Types
<1>2. x \in RequestRecords /\ x.step = to /\ x.answer = req[m].answer
  BY <1>1 DEF RequestRecords
<1>3. req' = [req EXCEPT ![m] = x]
  BY DEF Goes, Types
<1> HIDE DEF x
<1> QED  BY <1>2, <1>3, RequestUpdated

LEMMA AnswerTo ==
  ASSUME Types, NEW m \in Messages, NEW what \in Answers, Answer(m, what)
  PROVE  Requested(m) /\ req'[m].step = "done" /\ req'[m].answer = what
<1> DEFINE x == [NoRequest EXCEPT !.step = "done", !.answer = what]
<1>1. x \in RequestRecords /\ x.step = "done" /\ x.answer = what
  BY DEF NoRequest, RequestRecords, RequestSteps
<1>2. req' = [req EXCEPT ![m] = x]
  BY DEF Answer
<1> HIDE DEF x
<1> QED  BY <1>1, <1>2, RequestUpdated

-----------------------------------------------------------------------------
(* A run goes on *)

\* The frame of the steps of a run that keeps its lease: what they may do to the turn,
\* and to whom it belongs.
RunGoes(r) ==
  /\ Moved(r) /\ run[r].step \in Working /\ run'[r].step \in Working
  /\ run'[r].step = "queued" => isolated
  /\ run'[r].step \in {"queued", "setup"} => run'[r].rounds = 0
  /\ UNCHANGED <<isolated, req, leases, runtime, writing, waking, gate, down, observed>>
  /\ turn' # turn => Owns(r) \/ turn = NoTurn
  /\ writing # NoWrite /\ turn = NoTurn => turn' = NoTurn
  /\ run'[r].step = "turn" => Owns(r)'
  /\ BeforeTurn(r)' => BeforeTurn(r) /\ turn' = turn
  /\ turn'.owner \notin {r, run[r].prepared} \ {Nobody} => turn' \in {turn, NoTurn}
  /\ turn'.owner = r => /\ ~turn'.lost => run'[r].step = "turn"
                        /\ turn'.lost => run'[r].step \in Cleaning
  /\ turn'.owner = run[r].prepared /\ run[r].prepared # Nobody =>
       (turn'.lost <=> ~Keeps(r)') /\ ~Passed(r)'

LEMMA Distinct ==
  /\ \A m \in Messages, r \in Runs : m # r
  /\ \A r \in Runs : r # Nobody
  /\ \A m \in Messages : m # Nobody
  /\ \A w \in Resumers : w \notin Messages /\ w \notin Runs /\ w # Nobody
BY WebRunsAssumption

LEMMA NoRecords ==
  NoTurn \in TurnRecords /\ NoWrite \in WriteRecords
BY DEF NoTurn, TurnOf, TurnRecords, NoWrite, WriteRecords

LEMMA TurnRecord ==
  ASSUME NEW x \in Messages \cup Runs \cup {Nobody}
  PROVE  TurnOf(x) \in TurnRecords /\ TurnOf(x).owner = x /\ ~TurnOf(x).lost
BY DEF TurnRecords, TurnOf

\* A turn that is left behind is otherwise the same.
LEMMA LostTurn ==
  ASSUME NEW x \in TurnRecords, NEW y, y = [x EXCEPT !.lost = TRUE]
  PROVE  y \in TurnRecords /\ y.owner = x.owner /\ y.lost
BY DEF TurnRecords

LEMMA NobodysTurn == NoTurn.owner = Nobody /\ ~NoTurn.lost
BY TurnRecord DEF NoTurn

LEMMA WriteRecord ==
  ASSUME NEW m \in Messages, NEW a \in BOOLEAN, NEW b \in BOOLEAN
  PROVE  /\ [m |-> m, direct |-> a, next |-> b] \in WriteRecords
         /\ [m |-> m, direct |-> a, next |-> b].m = m
BY DEF WriteRecords

\* The one run for which a turn was prepared knows whether it is lost.
LEMMA OwnerKnows ==
  ASSUME RunsInv, NEW r \in Runs, turn.owner = run[r].prepared, run[r].prepared # Nobody
  PROVE  (turn.lost <=> ~Keeps(r)) /\ ~Passed(r)
<1>1. run[r].prepared \in Messages
  BY DEF RunsInv, Types, RunRecords
<1>2. req[run[r].prepared].step # "prepared"
  BY DEF RunsInv, HandedOnce
<1>3. \A s \in Runs : run[s].prepared = run[r].prepared => s = r
  BY DEF RunsInv, HandedOnce
<1>4. Holder(run[r].prepared) <=> Keeps(r)
  BY <1>1, <1>2, <1>3, Distinct DEF Holder
<1> QED  BY <1>1, <1>4 DEF RunsInv, OwnersKeep

LEMMA RunGoesOn ==
  ASSUME RunsInv, Types', NEW r \in Runs, RunGoes(r)
  PROVE  RunsInv'
<1> USE Distinct, NobodysTurn
<1> USE DEF RunGoes
<1>1. /\ run'[r].step \in Working /\ run[r].step \in Working
      /\ \A s \in Runs \ {r} : run'[s] = run[s]
      /\ \A s \in Runs : run'[s].prepared = run[s].prepared
      /\ \A s \in Runs : run[s].prepared \in Messages \cup {Nobody}
  BY DEF Moved, RunsInv, Types, RunRecords
<1>2. LeasesAreHeld'
  BY <1>1 DEF RunsInv, LeasesAreHeld, Working
<1>3. OneWrites'
  <2>1. ASSUME NEW m \in Messages, req[m].step = "openWrites" PROVE turn' = NoTurn
    <3>1. writing.m = m /\ turn = NoTurn
      BY <2>1 DEF RunsInv, OneWrites
    <3> QED  BY <3>1 DEF NoWrite
  <2> QED  BY <2>1 DEF RunsInv, OneWrites
<1>4. HandedOnce'
  BY <1>1 DEF RunsInv, HandedOnce
\* Another run's prepared turn, or a request's, is none of r's business.
<1>5. ASSUME NEW x \in Messages, x # run[r].prepared, turn.owner = x PROVE turn' = turn
  BY <1>5 DEF Owns
<1>6. \A s \in Runs \ {r} : run[s].prepared # Nobody => run[s].prepared # run[r].prepared
  BY DEF RunsInv, HandedOnce
<1>7. TurnsAreOwned'
  <2>1. ASSUME NEW m \in Messages, req[m].step = "prepared" PROVE turn'.owner = m
    BY <1>5, <2>1 DEF RunsInv, TurnsAreOwned, HandedOnce
  <2>2. ASSUME NEW s \in Runs, s # r, Owns(s) PROVE turn' = turn
    BY <1>1, <1>5, <1>6, <2>2 DEF Owns
  <2>3. ASSUME NEW s \in Runs, s # r
        PROVE  /\ run'[s].step \in {"queued", "setup"} => run'[s].rounds = 0
               /\ run'[s].step = "queued" => isolated'
               /\ BeforeTurn(s)' /\ run'[s].prepared # Nobody => turn'.owner = run'[s].prepared
               /\ run'[s].step = "turn" => Owns(s)'
    <3>1. run'[s] = run[s]
      BY <1>1, <2>3
    <3>2. (run[s].step = "turn" \/ (BeforeTurn(s) /\ run[s].prepared # Nobody)) => Owns(s)
      BY DEF RunsInv, TurnsAreOwned, Owns
    <3> QED  BY <2>2, <2>3, <3>1, <3>2 DEF RunsInv, TurnsAreOwned, Owns, BeforeTurn
  <2>4. /\ run'[r].step \in {"queued", "setup"} => run'[r].rounds = 0
        /\ run'[r].step = "queued" => isolated'
        /\ BeforeTurn(r)' /\ run'[r].prepared # Nobody => turn'.owner = run'[r].prepared
        /\ run'[r].step = "turn" => Owns(r)'
    BY <1>1 DEF RunsInv, TurnsAreOwned
  <2> QED  BY <2>1, <2>3, <2>4 DEF TurnsAreOwned
<1>8. OwnersKeep'
  <2>1. turn'.owner = Nobody => turn' = NoTurn
    BY DEF RunsInv, OwnersKeep
  <2>2. ASSUME turn'.owner \in Runs
        PROVE  /\ ~turn'.lost => run'[turn'.owner].step = "turn"
               /\ turn'.lost => run'[turn'.owner].step \in Cleaning
    <3>1. CASE turn'.owner = r
      BY <3>1
    <3>2. CASE turn'.owner # r
      <4>1. turn' = turn
        BY <1>1, <2>2, <3>2
      <4> QED  BY <1>1, <2>2, <3>2, <4>1 DEF RunsInv, OwnersKeep
    <3> QED  BY <3>1, <3>2
  <2>3. ASSUME NEW x \in Messages, turn'.owner = x PROVE turn'.lost <=> ~Holder(x)'
    <3>1. CASE x = run[r].prepared
      <4>1. req[x].step # "prepared"
        BY <3>1 DEF RunsInv, HandedOnce
      <4>2. Holder(x)' <=> Keeps(r)'
        BY <1>1, <1>6, <3>1, <4>1 DEF Holder
      <4> QED  BY <2>3, <3>1, <4>2
    <3>2. CASE x # run[r].prepared
      <4>1. turn' = turn
        BY <2>3, <3>2
      <4>2. \A s \in Runs \ {r} : Keeps(s)' <=> Keeps(s)
        BY <1>1 DEF Keeps
      <4>3. Holder(x)' <=> Holder(x)
        BY <1>1, <3>2, <4>2 DEF Holder
      <4> QED  BY <2>3, <4>1, <4>3 DEF RunsInv, OwnersKeep
    <3> QED  BY <3>1, <3>2
  <2>4. ASSUME NEW s \in Runs, Passed(s)', run'[s].prepared # Nobody
        PROVE  turn'.owner # run'[s].prepared
    <3>1. CASE s = r
      BY <1>1, <2>4, <3>1
    <3>2. CASE s # r
      <4>1. Passed(s) /\ turn.owner # run[s].prepared
        BY <1>1, <2>4, <3>2 DEF Passed, RunsInv, OwnersKeep
      <4>2. run[s].prepared \in Messages /\ run[s].prepared # run[r].prepared
        BY <1>1, <1>6, <2>4, <3>2
      <4> QED  BY <1>1, <4>1, <4>2
    <3> QED  BY <3>1, <3>2
  <2> QED  BY <2>1, <2>2, <2>3, <2>4 DEF OwnersKeep
<1>9. GateIsClosed'
  <2>1. \A s \in Runs : s \in Live' <=> s \in Live
    BY <1>1 DEF Live, Started, NoRun, Working
  <2> QED  BY <2>1 DEF RunsInv, GateIsClosed, AllAnswered, Live, Started
<1> QED  BY <1>2, <1>3, <1>4, <1>7, <1>8, <1>9 DEF RunsInv
-----------------------------------------------------------------------------
(* The steps of a run that keeps its lease *)

LEMMA StatusTo ==
  ASSUME Types, NEW r \in Runs, NEW st \in Statuses, run' = [run EXCEPT ![r].status = st]
  PROVE  Moved(r) /\ run'[r].step = run[r].step /\ run'[r].rounds = run[r].rounds
<1> DEFINE x == [run[r] EXCEPT !.status = st]
<1>1. run[r] \in RunRecords
  BY DEF Types
<1>2. /\ x \in RunRecords /\ x.step = run[r].step
      /\ x.prepared = run[r].prepared /\ x.rounds = run[r].rounds
  BY <1>1 DEF RunRecords
<1>3. run' = [run EXCEPT ![r] = x]
  BY DEF Types
<1> HIDE DEF x
<1> QED  BY <1>2, <1>3, RunUpdated

\* What a run that stays where it is knows of the turn, it knows afterwards.
LEMMA StaysKeeps ==
  ASSUME RunsInv, Types', NEW r \in Runs, Moved(r), run'[r].step = run[r].step,
         run'[r].rounds = run[r].rounds, run[r].step \in Working,
         UNCHANGED <<isolated, req, leases, runtime, turn, writing, waking, gate, down, observed>>
  PROVE  RunsInv'
<1>1. (Keeps(r)' <=> Keeps(r)) /\ (Passed(r)' <=> Passed(r)) /\ (BeforeTurn(r)' <=> BeforeTurn(r))
  BY DEF Keeps, Passed, BeforeTurn
<1>2. run'[r].prepared = run[r].prepared
  BY DEF Moved
<1>3. RunGoes(r)
  BY <1>1, <1>2, OwnerKnows DEF RunGoes, RunsInv, TurnsAreOwned, OwnersKeep, Owns
<1> QED  BY <1>3, RunGoesOn

LEMMA PermitKeeps ==
  ASSUME RunsInv, NEW r \in Runs, Permit(r)
  PROVE  RunsInv'
<1> USE DEF Permit, others, mailbox, downVars
<1>1. Moved(r) /\ run'[r].step = run[r].step /\ run'[r].rounds = run[r].rounds
  BY StatusTo DEF RunsInv, Statuses
<1>2. Types'
  BY <1>1 DEF Types, RunsInv, Moved
<1> QED  BY <1>1, <1>2, StaysKeeps DEF At, Working

LEMMA AskPermissionKeeps ==
  ASSUME RunsInv, NEW r \in Runs, AskPermission(r)
  PROVE  RunsInv'
<1> USE DEF AskPermission, others, mailbox, downVars
<1>1. Moved(r) /\ run'[r].step = run[r].step /\ run'[r].rounds = run[r].rounds
  BY StatusTo DEF RunsInv, Statuses
<1>2. Types'
  BY <1>1 DEF Types, RunsInv, Moved
<1> QED  BY <1>1, <1>2, StaysKeeps DEF At, Working

LEMMA AnsweredKeeps ==
  ASSUME RunsInv, NEW r \in Runs, Answered(r)
  PROVE  RunsInv'
<1> USE DEF Answered, others, mailbox, downVars
<1>1. Moved(r) /\ run'[r].step = run[r].step /\ run'[r].rounds = run[r].rounds
  BY StatusTo DEF RunsInv, Statuses
<1>2. Types'
  BY <1>1 DEF Types, RunsInv, Moved
<1> QED  BY <1>1, <1>2, StaysKeeps DEF At, Working

LEMMA ReleaseKeeps ==
  ASSUME RunsInv, NEW r \in Runs, Release(r)
  PROVE  RunsInv'
<1> USE DEF Release, others, mailbox, downVars
<1> DEFINE x == [run[r] EXCEPT !.key = FALSE]
<1>1. run[r] \in RunRecords /\ run' = [run EXCEPT ![r] = x]
  BY DEF RunsInv, Types
<1>2. /\ x \in RunRecords /\ x.step = run[r].step
      /\ x.prepared = run[r].prepared /\ x.rounds = run[r].rounds
  BY <1>1 DEF RunRecords
<1> HIDE DEF x
<1>3. Moved(r) /\ run'[r].step = run[r].step /\ run'[r].rounds = run[r].rounds
  BY <1>1, <1>2, RunUpdated DEF RunsInv
<1>4. Types'
  BY <1>3 DEF Types, RunsInv, Moved
<1> QED  BY <1>3, <1>4, StaysKeeps DEF At, Working

\* Nor does a run that goes to its cleanup and leaves its prepared turn behind.
LEMMA LeavesBehind ==
  ASSUME RunsInv, Types', NEW r \in Runs, Moved(r), HoldsPrepared(r), Lose,
         run[r].step \in Working, run'[r].step \in {"finalizing", "ending"},
         UNCHANGED <<isolated, req, leases, runtime, writing, waking, gate, down, observed>>
  PROVE  RunsInv'
<1> USE Distinct
<1>1. /\ turn'.owner = turn.owner /\ turn'.lost /\ turn # NoTurn
      /\ run[r].prepared \in Messages \cup {Nobody} /\ run'[r].prepared = run[r].prepared
  BY LostTurn DEF Lose, RunsInv, Types, RunRecords, HoldsPrepared, Moved
<1>2. turn.owner = run[r].prepared /\ run[r].prepared # Nobody /\ turn.owner # r
  BY <1>1 DEF HoldsPrepared, RunsInv, OwnersKeep
<1>3. Owns(r)
  BY <1>2 DEF Owns
<1>4. ~Keeps(r)' /\ ~Passed(r)' /\ ~BeforeTurn(r)' /\ run'[r].step \in Working
  BY DEF Keeps, Passed, BeforeTurn, Working
<1>5. RunGoes(r)
  BY <1>1, <1>2, <1>3, <1>4 DEF RunGoes
<1> QED  BY <1>5, RunGoesOn

\* An aborted task leaves the turn that was prepared for it behind.
LEMMA AdmittedKeeps ==
  ASSUME RunsInv, NEW r \in Runs, Admitted(r)
  PROVE  RunsInv'
<1> USE Distinct
<1> USE DEF Admitted, others, downVars
<1>1. Moved(r) /\ run[r].step = "queued" /\ run'[r].rounds = run[r].rounds
  BY StepTo DEF At, RunsInv, RunSteps
<1>2. run[r].rounds = 0 /\ turn.owner # r /\ run'[r].prepared = run[r].prepared
  BY <1>1 DEF RunsInv, TurnsAreOwned, OwnersKeep, Cleaning, Moved
<1>3. run[r].prepared # Nobody => turn.owner = run[r].prepared /\ HoldsPrepared(r) /\ ~turn.lost
  BY <1>1, <1>2, OwnerKnows DEF RunsInv, TurnsAreOwned, BeforeTurn, HoldsPrepared, NoTurn, Keeps,
     TurnOf
<1>4. \/ run'[r].step = "setup" /\ turn' = turn
      \/ run'[r].step = "finalizing" /\ ~HoldsPrepared(r) /\ turn' = turn
      \/ run'[r].step = "finalizing" /\ HoldsPrepared(r) /\ Lose
  BY StepTo DEF RunsInv, RunSteps
<1>5. turn \in TurnRecords
  BY DEF RunsInv, Types
<1>6. turn' \in TurnRecords /\ turn'.owner = turn.owner /\ (Lose => turn'.lost)
  BY <1>4, <1>5, LostTurn DEF Lose
<1>7. Types'
  BY <1>1, <1>6 DEF Types, RunsInv, Moved
<1>8. CASE run'[r].step = "setup" /\ turn' = turn
  <2>1. RunGoes(r)
    BY <1>1, <1>2, <1>3, <1>8 DEF RunGoes, Working, BeforeTurn, Keeps, Passed
  <2> QED  BY <1>7, <2>1, RunGoesOn
<1>9. CASE run'[r].step = "finalizing" /\ ~HoldsPrepared(r) /\ turn' = turn
  <2>1. RunGoes(r)
    BY <1>1, <1>2, <1>3, <1>9 DEF RunGoes, Working, BeforeTurn, Keeps, Passed
  <2> QED  BY <1>7, <2>1, RunGoesOn
<1>10. CASE run'[r].step = "finalizing" /\ HoldsPrepared(r) /\ Lose
  BY <1>1, <1>7, <1>10, LeavesBehind DEF Working
<1> QED  BY <1>4, <1>8, <1>9, <1>10

LEMMA SetUpKeeps ==
  ASSUME RunsInv, NEW r \in Runs, SetUp(r)
  PROVE  RunsInv'
<1> USE DEF SetUp, others, mailbox, downVars
<1>1. Moved(r) /\ run[r].step = "setup" /\ run'[r].rounds = run[r].rounds
  BY StepTo DEF At, RunsInv, RunSteps
<1>2. run'[r].step \in {"begin", "catch"}
  BY StepTo DEF At, RunsInv, RunSteps
<1>3. Types'
  BY <1>1 DEF Types, RunsInv, Moved
<1>4. run[r].rounds = 0 /\ turn.owner # r
  BY <1>1, Distinct DEF RunsInv, TurnsAreOwned, OwnersKeep, Cleaning
<1>5. turn.owner = run[r].prepared /\ run[r].prepared # Nobody => ~turn.lost
  BY <1>1, OwnerKnows DEF Keeps
<1>6. RunGoes(r)
  BY <1>1, <1>2, <1>4, <1>5 DEF RunGoes, Working, BeforeTurn, Keeps, Passed, Moved
<1> QED  BY <1>3, <1>6, RunGoesOn

\* Only the agent's own beginning takes a turn, and only when nobody has one.
LEMMA BeginKeeps ==
  ASSUME RunsInv, NEW r \in Runs, Begin(r)
  PROVE  RunsInv'
<1> USE Distinct
<1> USE DEF Begin, others, downVars
<1> DEFINE mine == TurnOf(r)
<1>1. /\ Moved(r) /\ run[r].step = "begin" /\ run'[r].rounds = run[r].rounds
      /\ run'[r].prepared = run[r].prepared
  BY StepTo DEF At, RunsInv, RunSteps, Moved
<1>2. turn.owner # r /\ turn \in TurnRecords
  BY <1>1 DEF RunsInv, OwnersKeep, Cleaning, Types
<1>3. \/ /\ run[r].rounds = 0 /\ run[r].prepared # Nobody
         /\ turn' = turn /\ run'[r].step = "turn"
      \/ /\ run[r].rounds # 0 \/ run[r].prepared = Nobody
         /\ turn = NoTurn /\ writing = NoWrite
         /\ \/ turn' = mine /\ run'[r].step = "turn"
            \/ turn' = [mine EXCEPT !.lost = TRUE] /\ run'[r].step = "catch"
      \/ /\ run[r].rounds # 0 \/ run[r].prepared = Nobody
         /\ turn' = turn /\ run'[r].step = "followUp"
      \/ turn' = turn /\ run'[r].step = "catch"
  BY StepTo DEF At, RunsInv, RunSteps
<1>4. mine \in TurnRecords /\ mine.owner = r /\ ~mine.lost
  BY TurnRecord
<1> HIDE DEF mine
<1>5. run[r].prepared # Nobody =>
        IF run[r].rounds = 0 THEN turn.owner = run[r].prepared /\ ~turn.lost
        ELSE turn.owner # run[r].prepared
  BY <1>1, OwnerKnows DEF RunsInv, TurnsAreOwned, BeforeTurn, OwnersKeep, Passed, Keeps
<1>6. CASE /\ run[r].rounds = 0 /\ run[r].prepared # Nobody
           /\ turn' = turn /\ run'[r].step = "turn"
  <2>1. Types'
    BY <1>1, <1>6 DEF Types, RunsInv, Moved
  <2>2. RunGoes(r)
    BY <1>1, <1>2, <1>5, <1>6 DEF RunGoes, Working, BeforeTurn, Keeps, Passed, Owns
  <2> QED  BY <2>1, <2>2, RunGoesOn
<1>7. CASE /\ run[r].rounds # 0 \/ run[r].prepared = Nobody
           /\ turn = NoTurn /\ writing = NoWrite
           /\ \/ turn' = mine /\ run'[r].step = "turn"
              \/ turn' = [mine EXCEPT !.lost = TRUE] /\ run'[r].step = "catch"
  <2>1. /\ turn' \in TurnRecords /\ turn'.owner = r
        /\ ~turn'.lost => run'[r].step = "turn"
        /\ turn'.lost => run'[r].step = "catch"
        /\ run'[r].step \in {"turn", "catch"}
    BY <1>4, <1>7, LostTurn
  <2>2. Types'
    BY <1>1, <2>1 DEF Types, RunsInv, Moved
  <2>3. run[r].prepared # r
    BY DEF RunsInv, Types, RunRecords
  <2>4. RunGoes(r)
    BY <1>1, <1>7, <2>1, <2>3 DEF RunGoes, Working, BeforeTurn, Owns, Cleaning
  <2> QED  BY <2>2, <2>4, RunGoesOn
<1>8. CASE /\ run[r].rounds # 0 \/ run[r].prepared = Nobody
           /\ turn' = turn /\ run'[r].step = "followUp"
  <2>1. Types'
    BY <1>1, <1>8 DEF Types, RunsInv, Moved
  <2>2. RunGoes(r)
    BY <1>1, <1>2, <1>5, <1>8 DEF RunGoes, Working, BeforeTurn
  <2> QED  BY <2>1, <2>2, RunGoesOn
<1>9. CASE turn' = turn /\ run'[r].step = "catch"
  <2>1. Types'
    BY <1>1, <1>9 DEF Types, RunsInv, Moved
  <2>2. RunGoes(r)
    BY <1>1, <1>2, <1>5, <1>9 DEF RunGoes, Working, BeforeTurn, Keeps, Passed
  <2> QED  BY <2>1, <2>2, RunGoesOn
<1> QED  BY <1>3, <1>6, <1>7, <1>8, <1>9

\* The turn stays with its owner until it ends.
LEMMA DrainKeeps ==
  ASSUME RunsInv, NEW r \in Runs, Drain(r)
  PROVE  RunsInv'
<1> USE DEF Drain, others, downVars, runVars
<1>1. Moved(r) /\ run' = run /\ run[r].step = "turn" /\ Owns(r) /\ writing = NoWrite
  BY DEF At, Moved, RunsInv, Types
<1>2. turn \in TurnRecords
  BY DEF RunsInv, Types
<1>3. turn' \in TurnRecords /\ turn'.owner = turn.owner /\ turn'.lost = turn.lost
  <2>1. CASE turn' = [turn EXCEPT !.sealed = TRUE]
    BY <1>2, <2>1 DEF TurnRecords
  <2> QED  BY <1>2, <2>1
<1>4. Types'
  BY <1>1, <1>3 DEF Types, RunsInv
<1>5. Owns(r)' /\ turn.owner # Nobody
  BY <1>1, <1>3 DEF Owns
<1>6. /\ turn.owner = r => ~turn.lost
      /\ turn.owner = run[r].prepared => ~turn.lost
  BY <1>1, <1>5, OwnerKnows DEF RunsInv, OwnersKeep, Cleaning, Keeps
<1>7. RunGoes(r)
  BY <1>1, <1>3, <1>5, <1>6 DEF RunGoes, Working, BeforeTurn, Keeps, Passed, Owns
<1> QED  BY <1>4, <1>7, RunGoesOn

LEMMA EndTurnKeeps ==
  ASSUME RunsInv, NEW r \in Runs, EndTurn(r)
  PROVE  RunsInv'
<1> USE Distinct, NobodysTurn
<1> USE DEF EndTurn, others, downVars
<1>1. run[r].step = "turn" /\ Owns(r) /\ writing = NoWrite /\ turn \in TurnRecords
  BY DEF At, RunsInv, Types
<1>2. /\ Moved(r)
      /\ \/ turn' = NoTurn /\ run'[r].step \in {"followUp", "catch"}
         \/ turn' = TurnOf(r) /\ run' = run
         \/ /\ run'[r].step = "catch"
            /\ IF HoldsPrepared(r) THEN turn' = turn ELSE Lose
  <2>1. CASE To(r, "followUp") /\ turn' = NoTurn
    BY <2>1, StepTo DEF RunsInv, RunSteps
  <2>2. CASE To(r, "catch") /\ turn' = NoTurn
    BY <2>2, StepTo DEF RunsInv, RunSteps
  <2>3. CASE UNCHANGED run /\ turn' = TurnOf(r)
    BY <2>3 DEF Moved, RunsInv, Types
  <2>4. CASE To(r, "catch") /\ IF HoldsPrepared(r) THEN UNCHANGED turn ELSE Lose
    BY <2>4, StepTo DEF RunsInv, RunSteps
  <2> QED  BY <2>1, <2>2, <2>3, <2>4
<1>3. run'[r].prepared = run[r].prepared /\ run[r].prepared # r
  BY <1>2 DEF Moved, RunsInv, Types, RunRecords
<1>4. inbox' \subseteq Messages /\ handled' \subseteq Messages /\ claimed' \subseteq Messages
  BY DEF RunsInv, Types
<1>5. CASE turn' = NoTurn /\ run'[r].step \in {"followUp", "catch"}
  <2>1. Types'
    BY <1>2, <1>4, <1>5, NoRecords DEF Types, RunsInv, Moved
  <2>2. RunGoes(r)
    BY <1>1, <1>2, <1>3, <1>5 DEF RunGoes, Working, BeforeTurn
  <2> QED  BY <2>1, <2>2, RunGoesOn
<1>6. CASE turn' = TurnOf(r) /\ run' = run
  <2>1. turn' \in TurnRecords /\ turn'.owner = r /\ ~turn'.lost
    BY <1>6, TurnRecord
  <2>2. Types'
    BY <1>4, <1>6, <2>1 DEF Types, RunsInv
  <2>3. RunGoes(r)
    BY <1>1, <1>2, <1>3, <1>6, <2>1 DEF RunGoes, Working, BeforeTurn, Owns
  <2> QED  BY <2>2, <2>3, RunGoesOn
<1>7. CASE run'[r].step = "catch" /\ HoldsPrepared(r) /\ turn' = turn
  <2>1. Types'
    BY <1>1, <1>2, <1>4, <1>7 DEF Types, RunsInv, Moved
  <2>2. turn.owner = run[r].prepared /\ run[r].prepared # Nobody /\ ~turn.lost
    <3>1. turn.owner = run[r].prepared /\ run[r].prepared # Nobody
      BY <1>7 DEF HoldsPrepared, RunsInv, OwnersKeep
    <3> QED  BY <1>1, <3>1, OwnerKnows DEF Keeps
  <2>3. RunGoes(r)
    BY <1>1, <1>2, <1>3, <1>7, <2>2 DEF RunGoes, Working, BeforeTurn, Keeps, Passed
  <2> QED  BY <2>1, <2>3, RunGoesOn
<1>8. CASE run'[r].step = "catch" /\ ~HoldsPrepared(r) /\ Lose
  <2>1. turn' \in TurnRecords /\ turn'.owner = turn.owner /\ turn'.lost
    BY <1>1, <1>8, LostTurn DEF Lose
  <2>2. turn.owner = r
    BY <1>1, <1>8 DEF HoldsPrepared, Owns
  <2>3. Types'
    BY <1>2, <1>4, <2>1 DEF Types, RunsInv, Moved
  <2>4. RunGoes(r)
    BY <1>1, <1>2, <1>3, <1>8, <2>1, <2>2 DEF RunGoes, Working, BeforeTurn, Cleaning
  <2> QED  BY <2>3, <2>4, RunGoesOn
<1> QED  BY <1>2, <1>5, <1>6, <1>7, <1>8

LEMMA FollowUpKeeps ==
  ASSUME RunsInv, NEW r \in Runs, FollowUp(r)
  PROVE  RunsInv'
<1> USE DEF FollowUp, others, mailbox, downVars
<1>1. /\ run[r] \in RunRecords /\ run[r].step = "followUp" /\ turn.owner # r
      /\ run[r].prepared # Nobody => turn.owner # run[r].prepared
  BY DEF At, RunsInv, Types, OwnersKeep, Cleaning, Passed
<1>2. /\ Moved(r) /\ run'[r].step \in {"followUp", "closing", "begin"}
      /\ run'[r].step = "begin" => run'[r].rounds # 0
  <2>1. CASE run' = [run EXCEPT ![r].step = "closing"]
    BY <2>1, StepTo DEF To, RunsInv, RunSteps
  <2>2. CASE ~(run' = [run EXCEPT ![r].step = "closing"])
    <3> DEFINE to == CASE inbox = {} -> run[r].step
                       [] inbox # {} /\ Stopped(r) -> "closing"
                       [] OTHER -> "begin"
               x == [run[r] EXCEPT !.wants = FALSE, !.rounds = @ + 1, !.step = to]
    <3>1. run[r].rounds # MaxFollowUps /\ run[r].rounds \in 0 .. MaxFollowUps
      BY <1>1, <2>2 DEF RunRecords
    <3>2. run[r].rounds + 1 \in 0 .. MaxFollowUps /\ run[r].rounds + 1 # 0
      BY <3>1, WebRunsAssumption
    <3>3. to \in {"followUp", "closing", "begin"}
      BY <1>1
    <3>4. run' = [run EXCEPT ![r] = x]
      BY <2>2 DEF RunsInv, Types
    <3> HIDE DEF to
    <3>5. /\ x \in RunRecords /\ x.step = to /\ x.rounds = run[r].rounds + 1
          /\ x.prepared = run[r].prepared
      BY <1>1, <3>2, <3>3 DEF RunRecords, RunSteps
    <3> HIDE DEF x
    <3>6. Moved(r) /\ run'[r] = x
      BY <3>4, <3>5, RunUpdated DEF RunsInv
    <3> QED  BY <3>2, <3>3, <3>5, <3>6
  <2> QED  BY <2>1, <2>2
<1>3. Types'
  BY <1>2 DEF Types, RunsInv, Moved
<1>4. RunGoes(r)
  BY <1>1, <1>2 DEF RunGoes, Working, BeforeTurn, Moved
<1> QED  BY <1>3, <1>4, RunGoesOn

\* Once a run cleans up it knows nothing of its turn any more, but that it may have lost it.
LEMMA CleansUp ==
  ASSUME RunsInv, Types', NEW r \in Runs, Moved(r),
         run[r].step \in {"closing", "finalizing", "discarding"},
         run'[r].step \in {"finalizing", "discarding", "ending"},
         UNCHANGED <<isolated, req, leases, runtime, turn, writing, waking, gate, down, observed>>
  PROVE  RunsInv'
<1>1. turn.owner = r => turn.lost
  BY DEF RunsInv, OwnersKeep
<1>2. turn.owner = run[r].prepared /\ run[r].prepared # Nobody => turn.lost
  BY OwnerKnows DEF Keeps
<1>3. RunGoes(r)
  BY <1>1, <1>2 DEF RunGoes, Working, BeforeTurn, Keeps, Passed, Cleaning, Moved
<1> QED  BY <1>3, RunGoesOn

LEMMA CloseKeeps ==
  ASSUME RunsInv, NEW r \in Runs, Close(r)
  PROVE  RunsInv'
<1> USE DEF Close, others, mailbox, downVars
<1>1. Moved(r) /\ run[r].step = "closing" /\ run'[r].step \in {"finalizing", "ending"}
  BY StepTo, StepAndStatusTo DEF At, Over, RunsInv, RunSteps, Statuses
<1>2. Types'
  BY <1>1 DEF Types, RunsInv, Moved
<1> QED  BY <1>1, <1>2, CleansUp

\* A failed run gives back the turn that was prepared for it, or loses it.
LEMMA CatchKeeps ==
  ASSUME RunsInv, NEW r \in Runs, Catch(r)
  PROVE  RunsInv'
<1> USE Distinct, NobodysTurn
<1> USE DEF Catch, others, downVars
<1>1. /\ Moved(r) /\ run[r].step = "catch" /\ run'[r].step \in {"finalizing", "ending"}
      /\ run'[r].prepared = run[r].prepared /\ turn \in TurnRecords
  BY StepAndStatusTo DEF At, Over, RunsInv, RunSteps, Statuses, Moved, Types
<1>2. claimed' \subseteq Messages
  BY DEF RunsInv, Types
<1>3. turn.owner = r => turn.lost
  BY <1>1 DEF RunsInv, OwnersKeep
<1>4. CASE HoldsPrepared(r) /\ writing = NoWrite /\ turn' = NoTurn
  <2>1. Owns(r)
    BY <1>4 DEF HoldsPrepared, Owns, RunsInv, OwnersKeep
  <2>2. Types'
    BY <1>1, <1>2, <1>4, NoRecords DEF Types, RunsInv, Moved
  <2>3. RunGoes(r)
    BY <1>1, <1>4, <2>1 DEF RunGoes, Working, BeforeTurn
  <2> QED  BY <2>2, <2>3, RunGoesOn
<1>5. CASE HoldsPrepared(r) /\ writing = NoWrite /\ Lose
  <2>1. turn' \in TurnRecords /\ turn'.owner = turn.owner /\ turn'.lost
    BY <1>1, <1>5, LostTurn DEF Lose
  <2>2. Types'
    BY <1>1, <1>2, <2>1 DEF Types, RunsInv, Moved
  <2> QED  BY <1>1, <1>5, <2>2, LeavesBehind DEF Working
<1>6. CASE ~HoldsPrepared(r) /\ turn' = turn
  <2>1. run[r].prepared # Nobody => turn.owner # run[r].prepared
    BY <1>6 DEF HoldsPrepared
  <2>2. Types'
    BY <1>1, <1>2, <1>6 DEF Types, RunsInv, Moved
  <2>3. RunGoes(r)
    BY <1>1, <1>3, <1>6, <2>1 DEF RunGoes, Working, BeforeTurn, Cleaning
  <2> QED  BY <2>2, <2>3, RunGoesOn
<1> QED  BY <1>4, <1>5, <1>6

LEMMA FinalizeKeeps ==
  ASSUME RunsInv, NEW r \in Runs, Finalize(r)
  PROVE  RunsInv'
<1> USE DEF Finalize, others, mailbox, downVars
<1>1. run[r] \in RunRecords /\ run[r].step = "finalizing"
  BY DEF At, RunsInv, Types
<1>2. Moved(r) /\ run'[r].step \in {"discarding", "ending"}
  <2>1. CASE To(r, "ending")
    BY <2>1, StepTo DEF RunsInv, RunSteps
  <2>2. CASE run' = [run EXCEPT ![r].step = "discarding", ![r].dropping = inbox]
    <3> DEFINE x == [run[r] EXCEPT !.step = "discarding", !.dropping = inbox]
    <3>1. run' = [run EXCEPT ![r] = x] /\ inbox \in SUBSET Messages
      BY <2>2 DEF RunsInv, Types
    <3>2. /\ x \in RunRecords /\ x.step = "discarding"
          /\ x.prepared = run[r].prepared
      BY <1>1, <3>1 DEF RunRecords, RunSteps
    <3> HIDE DEF x
    <3> QED  BY <3>1, <3>2, RunUpdated DEF RunsInv
  <2> QED  BY <2>1, <2>2
<1>3. Types'
  BY <1>2 DEF Types, RunsInv, Moved
<1> QED  BY <1>1, <1>2, <1>3, CleansUp

LEMMA DiscardKeeps ==
  ASSUME RunsInv, NEW r \in Runs, Discard(r)
  PROVE  RunsInv'
<1> USE DEF Discard, others, downVars
<1>1. Moved(r) /\ run[r].step = "discarding" /\ run'[r].step = "ending"
  BY StepTo DEF At, RunsInv, RunSteps
<1>2. Types'
  BY <1>1 DEF Types, RunsInv, Moved
<1> QED  BY <1>1, <1>2, CleansUp
-----------------------------------------------------------------------------
(* The steps of a request *)

\* The frame of the steps of a request before its answer is out: a turn begins only with
\* its own write and is lost only when it fails with one, and it has no part in the runs
\* but to tell one to look.
RequestGoes(m) ==
  /\ Requested(m) /\ req[m].step # "done"
  /\ gate \/ req[m].step # "idle"
  /\ UNCHANGED <<isolated, gate, down, observed>>
  /\ \A r \in Runs : /\ run'[r].step = run[r].step /\ run'[r].prepared = run[r].prepared
                     /\ run'[r].rounds = run[r].rounds
  /\ \A w \in Resumers : waking'[w] = "leased" <=> waking[w] = "leased"
  /\ leases' \ {m} = leases \ {m} /\ (m \in leases' <=> req'[m].step \in Pinning)
  /\ \/ runtime' = "resident" /\ runtime # "disposing"
     \/ runtime' = runtime /\ (leases' = leases \/ m \in leases)
  /\ \A n \in Messages \ {m} : writing'.m = n <=> writing.m = n
  /\ req'[m].step \in {"steerWrites", "openWrites"} <=> writing'.m = m
  /\ req'[m].step = "openWrites" => turn' = NoTurn
  /\ \/ turn' = turn /\ req[m].step # "prepared" /\ req'[m].step # "prepared"
     \/ /\ turn = NoTurn /\ writing.m = m /\ req'[m].step = "prepared"
        /\ turn'.owner = m /\ ~turn'.lost
     \/ /\ req[m].step = "prepared" /\ req'[m].step = "done"
        /\ turn'.owner = turn.owner /\ turn'.lost

LEMMA RequestGoesOn ==
  ASSUME RunsInv, Types', NEW m \in Messages, RequestGoes(m)
  PROVE  RunsInv'
<1> USE Distinct, NobodysTurn
<1> USE DEF RequestGoes
<1>1. \A n \in Messages \ {m} : req'[n] = req[n]
  BY DEF Requested
<1>2. LeasesAreHeld'
  <2>1. \A r \in Runs : (r \in leases' <=> r \in leases) /\ run'[r].step = run[r].step
    OBVIOUS
  <2>2. \A n \in Messages \ {m} : n \in leases' <=> n \in leases
    OBVIOUS
  <2>3. \A w \in Resumers : w \in leases' <=> w \in leases
    OBVIOUS
  <2>4. runtime' # "resident" => leases' = {}
    BY DEF RunsInv, LeasesAreHeld
  <2>5. \A r \in Runs : run'[r].step = "disposing" => runtime' = "disposing"
    BY DEF RunsInv, LeasesAreHeld
  <2> QED  BY <1>1, <2>1, <2>2, <2>3, <2>4, <2>5 DEF RunsInv, LeasesAreHeld
<1>3. OneWrites'
  <2>1. ASSUME NEW n \in Messages \ {m}, req[n].step = "openWrites" PROVE turn' = NoTurn
    BY <2>1 DEF RunsInv, OneWrites, TurnsAreOwned
  <2> QED  BY <1>1, <2>1 DEF RunsInv, OneWrites
<1>4. HandedOnce'
  <2>1. ASSUME NEW s \in Runs, run[s].prepared # Nobody PROVE req'[run[s].prepared].step = "done"
    <3>1. run[s].prepared \in Messages \ {m} /\ req[run[s].prepared].step = "done"
      BY <2>1 DEF RunsInv, HandedOnce, Types, RunRecords
    <3> QED  BY <1>1, <3>1
  <2> QED  BY <2>1 DEF RunsInv, HandedOnce
<1>5. TurnsAreOwned'
  <2>1. ASSUME NEW n \in Messages, req'[n].step = "prepared" PROVE turn'.owner = n
    BY <1>1, <2>1 DEF RunsInv, TurnsAreOwned
  <2>2. ASSUME NEW r \in Runs, BeforeTurn(r), run[r].prepared # Nobody
        PROVE  turn'.owner = run[r].prepared
    BY <2>2 DEF RunsInv, TurnsAreOwned
  <2>3. ASSUME NEW r \in Runs, run[r].step = "turn" PROVE Owns(r)'
    BY <2>3 DEF RunsInv, TurnsAreOwned, Owns
  <2> QED  BY <1>1, <2>1, <2>2, <2>3 DEF RunsInv, TurnsAreOwned, BeforeTurn
<1>6. OwnersKeep'
  <2>1. \A s \in Runs : (Keeps(s)' <=> Keeps(s)) /\ (Passed(s)' <=> Passed(s))
    BY DEF Keeps, Passed
  <2>2. turn'.owner = Nobody => turn' = NoTurn
    BY DEF RunsInv, OwnersKeep, TurnsAreOwned
  <2>3. ASSUME turn'.owner \in Runs PROVE turn' = turn
    BY <2>3 DEF RunsInv, TurnsAreOwned
  <2>4. \A n \in Messages \ {m} : Holder(n)' <=> Holder(n)
    BY <1>1, <2>1 DEF Holder
  <2>5. ASSUME NEW n \in Messages, turn'.owner = n PROVE turn'.lost <=> ~Holder(n)'
    <3>1. CASE turn' = turn /\ req[m].step # "prepared" /\ req'[m].step # "prepared"
      <4>1. Holder(n)' <=> Holder(n)
        BY <1>1, <2>1, <3>1 DEF Holder
      <4> QED  BY <2>5, <3>1, <4>1 DEF RunsInv, OwnersKeep
    <3>2. CASE turn'.owner = m /\ ~turn'.lost /\ req'[m].step = "prepared"
      BY <2>5, <3>2 DEF Holder
    <3>3. CASE /\ req[m].step = "prepared" /\ req'[m].step = "done"
               /\ turn'.owner = turn.owner /\ turn'.lost
      <4>1. n = m /\ \A s \in Runs : run[s].prepared # m
        BY <2>5, <3>3 DEF RunsInv, TurnsAreOwned, HandedOnce
      <4> QED  BY <3>3, <4>1 DEF Holder
    <3> QED  BY <3>1, <3>2, <3>3
  <2>6. ASSUME NEW s \in Runs, Passed(s)', run'[s].prepared # Nobody
        PROVE  turn'.owner # run'[s].prepared
    <3>1. turn.owner # run[s].prepared /\ req[run[s].prepared].step = "done"
      BY <2>1, <2>6 DEF RunsInv, OwnersKeep, HandedOnce
    <3>2. turn'.owner = turn.owner \/ (turn'.owner = m /\ req[m].step # "done")
      OBVIOUS
    <3> QED  BY <3>1, <3>2
  <2> QED  BY <2>2, <2>3, <2>5, <2>6 DEF RunsInv, OwnersKeep
<1>7. GateIsClosed'
  BY DEF RunsInv, GateIsClosed, AllAnswered
<1> QED  BY <1>2, <1>3, <1>4, <1>5, <1>6, <1>7 DEF RunsInv

\* A request that is answered and goes, or fails before it holds the runtime.
LEMMA AnswerGoes ==
  ASSUME RunsInv, NEW m \in Messages, NEW what \in Answers, Answer(m, what),
         leases' = leases \ {m}, req[m].step \notin {"steerWrites", "openWrites", "done", "idle"},
         \/ turn' = turn /\ req[m].step # "prepared"
         \/ /\ req[m].step = "prepared" /\ turn' \in TurnRecords
            /\ turn'.owner = turn.owner /\ turn'.lost,
         UNCHANGED <<isolated, runtime, writing, inbox, claimed, handled, discarded, gate, down,
                     observed, current, task>>,
         run' \in [Runs -> RunRecords],
         \A r \in Runs : /\ run'[r].step = run[r].step /\ run'[r].prepared = run[r].prepared
                         /\ run'[r].rounds = run[r].rounds,
         waking' \in [Resumers -> {"idle", "asked", "leased"}],
         \A w \in Resumers : waking'[w] = "leased" <=> waking[w] = "leased"
  PROVE  RunsInv'
<1>1. Requested(m) /\ req'[m].step = "done" /\ req'[m].answer = what
  BY AnswerTo DEF RunsInv
<1>2. Types'
  BY <1>1 DEF Types, RunsInv, Requested, Answer
<1>3. writing.m # m /\ (m \in leases => runtime = "resident")
  BY DEF RunsInv, OneWrites, LeasesAreHeld
<1>4. RequestGoes(m)
  BY <1>1, <1>3 DEF RequestGoes, Pinning
<1> QED  BY <1>2, <1>4, RequestGoesOn

LEMMA PostKeeps ==
  ASSUME RunsInv, NEW m \in Messages, Post(m)
  PROVE  RunsInv'
<1> USE DEF Post, mailbox, runVars, downVars
<1>1. /\ Requested(m) /\ req'[m].step = "waiting" /\ req'[m].answer = req[m].answer
      /\ req[m].step = "idle"
  BY GoesTo DEF RunsInv, RequestSteps
<1>2. Types'
  BY <1>1 DEF Types, RunsInv, Requested
<1>3. writing.m # m /\ m \notin leases
  BY <1>1 DEF RunsInv, OneWrites, LeasesAreHeld, Pinning
<1>4. RequestGoes(m)
  BY <1>1, <1>3 DEF RequestGoes, Pinning
<1> QED  BY <1>2, <1>4, RequestGoesOn

LEMMA TakeLockKeeps ==
  ASSUME RunsInv, NEW m \in Messages, TakeLock(m)
  PROVE  RunsInv'
<1> USE DEF TakeLock, mailbox, runVars, downVars
<1> DEFINE x == [req[m] EXCEPT !.asked = current,
                               !.step = IF Active(current) THEN "steer" ELSE "open"]
<1>1. req[m] \in RequestRecords /\ req[m].step = "waiting" /\ current \in Runs \cup {Nobody}
  BY DEF RunsInv, Types
<1>2. x \in RequestRecords /\ x.step \in {"steer", "open"} /\ x.answer = req[m].answer
  BY <1>1 DEF RequestRecords, RequestSteps
<1>3. req' = [req EXCEPT ![m] = x]
  BY DEF RunsInv, Types
<1> HIDE DEF x
<1>4. Requested(m) /\ req'[m] = x
  BY <1>2, <1>3, RequestUpdated DEF RunsInv
<1>5. Types'
  BY <1>4 DEF Types, RunsInv, Requested
<1>6. writing.m # m /\ m \notin leases
  BY <1>1 DEF RunsInv, OneWrites, LeasesAreHeld, Pinning
<1>7. RequestGoes(m)
  BY <1>1, <1>2, <1>4, <1>6 DEF RequestGoes, Pinning
<1> QED  BY <1>5, <1>7, RequestGoesOn

LEMMA LeaseKeeps ==
  ASSUME RunsInv, NEW m \in Messages, Lease(m)
  PROVE  RunsInv'
<1> USE DEF Lease, mailbox, runVars, downVars
<1>1. req[m].step \in {"steer", "open"} /\ m \notin leases /\ writing.m # m
  BY DEF RunsInv, OneWrites, LeasesAreHeld, Pinning
<1>2. CASE Acquire(m) /\ Goes(m, IF req[m].step = "steer" THEN "steering" ELSE "opening")
           /\ UNCHANGED lock
  <2> USE DEF Acquire
  <2>1. /\ Requested(m) /\ req'[m].step \in {"steering", "opening"}
        /\ req'[m].answer = req[m].answer
    BY <1>2, GoesTo DEF RunsInv, RequestSteps
  <2>2. Types'
    BY <1>2, <2>1 DEF Types, RunsInv, Requested
  <2>3. RequestGoes(m)
    BY <1>1, <1>2, <2>1 DEF RequestGoes, Pinning
  <2> QED  BY <2>2, <2>3, RequestGoesOn
<1>3. CASE Answer(m, "failed") /\ UNCHANGED <<leases, runtime>>
  <2>1. leases' = leases \ {m} /\ run' \in [Runs -> RunRecords]
        /\ waking' \in [Resumers -> {"idle", "asked", "leased"}]
    BY <1>1, <1>3 DEF RunsInv, Types
  <2> QED  BY <1>1, <1>3, <2>1, AnswerGoes DEF Answers
<1> QED  BY <1>2, <1>3

LEMMA BeginEnqueueKeeps ==
  ASSUME RunsInv, NEW m \in Messages, BeginEnqueue(m)
  PROVE  RunsInv'
<1> USE DEF BeginEnqueue, mailbox, runVars, downVars
<1>1. req[m].step \in {"steering", "opening"} /\ m \in leases /\ writing = NoWrite
  BY DEF RunsInv, LeasesAreHeld, Pinning
<1>2. CASE req[m].step = "opening" /\ turn # NoTurn
  <2>1. run' \in [Runs -> RunRecords] /\ waking' \in [Resumers -> {"idle", "asked", "leased"}]
    BY <1>2 DEF RunsInv, Types
  <2> QED  BY <1>1, <1>2, <2>1, AnswerGoes DEF Answers
<1>3. CASE ~(req[m].step = "opening" /\ turn # NoTurn)
  <2>1. /\ Requested(m) /\ req'[m].answer = req[m].answer
        /\ req'[m].step \in {"openWrites", "steerWrites"}
        /\ req'[m].step = "openWrites" => req[m].step = "opening"
    BY <1>1, <1>3, GoesTo DEF RunsInv, RequestSteps
  <2>2. writing' \in WriteRecords /\ writing'.m = m
    BY <1>3, WriteRecord
  <2>3. Types'
    BY <1>3, <2>1, <2>2 DEF Types, RunsInv, Requested
  <2>4. \A n \in Messages \ {m} : writing'.m # n /\ writing.m # n
    BY <1>1, <2>2, Distinct DEF NoWrite
  <2>5. RequestGoes(m)
    BY <1>1, <1>3, <2>1, <2>2, <2>4 DEF RequestGoes, Pinning
  <2> QED  BY <2>3, <2>5, RequestGoesOn
<1> QED  BY <1>2, <1>3

\* The write ends before another turn can begin.
LEMMA EndEnqueueKeeps ==
  ASSUME RunsInv, NEW m \in Messages, EndEnqueue(m)
  PROVE  RunsInv'
<1> USE DEF EndEnqueue, mailbox, runVars, downVars
<1>1. /\ req[m].step \in {"steerWrites", "openWrites"} /\ m \in leases /\ writing.m = m
      /\ req[m].step = "openWrites" => turn = NoTurn
  BY DEF RunsInv, LeasesAreHeld, OneWrites, Pinning
<1>2. /\ writing' = NoWrite /\ inbox' \subseteq Messages
      /\ \A n \in Messages : writing'.m # n /\ (n # m => writing.m # n)
  BY <1>1, Distinct DEF NoWrite, RunsInv, Types
<1>3. CASE req[m].step = "openWrites"
  <2>1. Requested(m) /\ req'[m].answer = req[m].answer /\ req'[m].step = "prepared"
    BY <1>3, GoesTo DEF RunsInv, RequestSteps
  <2>2. turn' \in TurnRecords /\ turn'.owner = m /\ ~turn'.lost
    BY <1>3, TurnRecord
  <2>3. Types'
    BY <1>2, <1>3, <2>1, <2>2, NoRecords DEF Types, RunsInv, Requested
  <2>4. RequestGoes(m)
    BY <1>1, <1>2, <1>3, <2>1, <2>2 DEF RequestGoes, Pinning
  <2> QED  BY <2>3, <2>4, RequestGoesOn
<1>4. CASE req[m].step = "steerWrites"
  <2> DEFINE x == [req[m] EXCEPT !.step = "answering",
                                 !.answer = IF writing.next THEN "queued" ELSE "steered"]
  <2>1. req[m] \in RequestRecords /\ req' = [req EXCEPT ![m] = x]
    BY <1>4 DEF RunsInv, Types
  <2>2. x \in RequestRecords /\ x.step = "answering"
    BY <2>1 DEF RequestRecords, RequestSteps, Answers
  <2> HIDE DEF x
  <2>3. Requested(m) /\ req'[m] = x
    BY <2>1, <2>2, RequestUpdated DEF RunsInv
  <2>4. Types'
    BY <1>2, <1>4, <2>3, NoRecords DEF Types, RunsInv, Requested
  <2>5. RequestGoes(m)
    BY <1>1, <1>2, <1>4, <2>2, <2>3 DEF RequestGoes, Pinning
  <2> QED  BY <2>4, <2>5, RequestGoesOn
<1> QED  BY <1>1, <1>3, <1>4

LEMMA WakeLeasesNothing ==
  ASSUME Types, Wake
  PROVE  /\ waking' \in [Resumers -> {"idle", "asked", "leased"}]
         /\ \A w \in Resumers : waking'[w] = "leased" <=> waking[w] = "leased"
         /\ waking' # waking => gate
BY DEF Types, Wake

LEMMA AnswerSteeringKeeps ==
  ASSUME RunsInv, NEW m \in Messages, AnswerSteering(m)
  PROVE  RunsInv'
<1> USE DEF AnswerSteering, mailbox, runVars, downVars
<1>1. req[m].step = "answering" /\ req[m].answer \in Answers /\ leases' = leases \ {m}
  BY DEF RunsInv, Types, RequestRecords
<1>2. /\ waking' \in [Resumers -> {"idle", "asked", "leased"}]
      /\ \A w \in Resumers : waking'[w] = "leased" <=> waking[w] = "leased"
  BY WakeLeasesNothing DEF RunsInv, Types
<1>3. /\ run' \in [Runs -> RunRecords]
      /\ \A r \in Runs : /\ run'[r].step = run[r].step /\ run'[r].prepared = run[r].prepared
                         /\ run'[r].rounds = run[r].rounds
  <2> DEFINE s == req[m].asked
  <2>1. CASE run' = run
    BY <2>1 DEF RunsInv, Types
  <2>2. CASE run' = [run EXCEPT ![s].wants = TRUE] /\ s \in Runs
    <3> DEFINE x == [run[s] EXCEPT !.wants = TRUE]
    <3>1. run[s] \in RunRecords /\ run' = [run EXCEPT ![s] = x]
      BY <2>2 DEF RunsInv, Types
    <3>2. /\ x \in RunRecords /\ x.step = run[s].step /\ x.prepared = run[s].prepared
          /\ x.rounds = run[s].rounds
      BY <3>1 DEF RunRecords
    <3> HIDE DEF x
    <3>3. Moved(s) /\ run'[s] = x
      BY <2>2, <3>1, <3>2, RunUpdated DEF RunsInv
    <3> QED  BY <3>2, <3>3 DEF Moved
  <2>3. CASE run' = [run EXCEPT ![s].wants = TRUE] /\ s \notin Runs
    BY <2>3 DEF RunsInv, Types
  <2> QED  BY <2>1, <2>2, <2>3
<1> QED  BY <1>1, <1>2, <1>3, AnswerGoes
-----------------------------------------------------------------------------
(* A run starts *)

\* The frame of the two starts: a request hands its prepared turn over, or a resumer
\* starts a run that has none.
Starts(who, message, r) ==
  /\ gate /\ run[r] = NoRun /\ run' \in [Runs -> RunRecords]
  /\ \A s \in Runs \ {r} : run'[s] = run[s]
  /\ run'[r].step \in {"queued", "setup"} /\ (run'[r].step = "queued" => isolated)
  /\ run'[r].rounds = 0 /\ run'[r].prepared = message
  /\ leases' = (leases \ {who}) \cup {r} /\ who \in leases /\ who \notin Runs
  /\ UNCHANGED <<isolated, gate, down, observed, turn, writing, runtime>>
  /\ message # Nobody => /\ message \in Messages /\ req[message].step = "prepared"
                         /\ req'[message].step = "done"
  /\ \A m \in Messages : /\ m # message => req'[m] = req[m]
                         /\ m # who => (req'[m].step \in Pinning <=> req[m].step \in Pinning)
                         /\ m = who => req'[m].step \notin Pinning
  /\ \A w \in Resumers : /\ w # who => (waking'[w] = "leased" <=> waking[w] = "leased")
                         /\ w = who => waking'[w] # "leased"

LEMMA StartRunStarts ==
  ASSUME RunsInv, NEW who, NEW message \in Messages \cup {Nobody}, StartRun(who, message)
  PROVE  \E r \in Runs :
           /\ gate /\ run[r] = NoRun /\ run' \in [Runs -> RunRecords]
           /\ \A s \in Runs \ {r} : run'[s] = run[s]
           /\ run'[r].step \in {"queued", "setup"} /\ (run'[r].step = "queued" => isolated)
           /\ run'[r].rounds = 0 /\ run'[r].prepared = message
           /\ leases' = (leases \ {who}) \cup {r}
           /\ current' \in Runs /\ task' \in {task, "queued", "running"}
<1>1. PICK r \in Runs \ Started, first \in {"queued", "running"} :
        /\ gate /\ (first = "queued" => isolated)
        /\ run' = [run EXCEPT ![r] = [NoRun EXCEPT !.status = first, !.prepared = message,
                                      !.key = isolated,
                                      !.step = IF isolated THEN "queued" ELSE "setup"]]
        /\ current' = r /\ leases' = (leases \ {who}) \cup {r}
        /\ task' = IF isolated THEN first ELSE task
  BY DEF StartRun
<1> DEFINE x == [NoRun EXCEPT !.status = first, !.prepared = message, !.key = isolated,
                              !.step = IF isolated THEN "queued" ELSE "setup"]
<1>2. 0 \in 0 .. MaxFollowUps /\ isolated \in BOOLEAN
  BY WebRunsAssumption DEF RunsInv, Types
<1>3. /\ x \in RunRecords /\ x.step \in {"queued", "setup"} /\ x.rounds = 0
      /\ x.prepared = message /\ (x.step = "queued" => isolated)
  BY <1>1, <1>2 DEF NoRun, RunRecords, RunSteps, Statuses
<1>4. run' = [run EXCEPT ![r] = x]
  BY <1>1
<1> HIDE DEF x
<1>5. /\ run' \in [Runs -> RunRecords] /\ run'[r] = x
      /\ \A s \in Runs \ {r} : run'[s] = run[s]
  BY <1>3, <1>4 DEF RunsInv, Types
<1>6. run[r] = NoRun
  BY DEF Started
<1>7. WITNESS r \in Runs
<1> QED  BY <1>1, <1>3, <1>5, <1>6

LEMMA RunStarts ==
  ASSUME RunsInv, Types', NEW who, NEW message \in Messages \cup {Nobody}, NEW r \in Runs,
         Starts(who, message, r)
  PROVE  RunsInv'
<1> USE Distinct
<1> USE DEF Starts
<1>1. /\ run[r].step = "none" /\ run[r].prepared = Nobody
      /\ r \notin leases
  BY DEF NoRun, RunsInv, LeasesAreHeld, Working
<1>2. LeasesAreHeld'
  <2>1. runtime = "resident"
    BY DEF RunsInv, LeasesAreHeld
  <2>2. \A s \in Runs : s \in leases' <=> run'[s].step \in Working
    BY DEF RunsInv, LeasesAreHeld, Working
  <2>3. \A m \in Messages : m \in leases' <=> req'[m].step \in Pinning
    BY DEF RunsInv, LeasesAreHeld
  <2>4. \A w \in Resumers : w \in leases' <=> waking'[w] = "leased"
    BY DEF RunsInv, LeasesAreHeld
  <2>5. \A s \in Runs : run'[s].step # "disposing"
    BY <2>1 DEF RunsInv, LeasesAreHeld
  <2> QED  BY <2>1, <2>2, <2>3, <2>4, <2>5 DEF LeasesAreHeld
<1>3. OneWrites'
  <2>1. \A m \in Messages : m = message => writing.m # m /\ req'[m].step = "done"
    BY DEF RunsInv, OneWrites
  <2> QED  BY <2>1 DEF RunsInv, OneWrites
<1>4. HandedOnce'
  <2>1. \A s \in Runs \ {r} : run'[s].prepared = Nobody \/ run'[s].prepared # message
    BY DEF RunsInv, HandedOnce
  <2>2. \A s \in Runs \ {r} : run[s].prepared # Nobody => req'[run[s].prepared].step = "done"
    BY <2>1 DEF RunsInv, HandedOnce, Types, RunRecords
  <2> QED  BY <2>1, <2>2 DEF RunsInv, HandedOnce
<1>5. TurnsAreOwned'
  <2>1. \A m \in Messages : req'[m].step = "prepared" => turn'.owner = m
    BY DEF RunsInv, TurnsAreOwned
  <2>2. ASSUME NEW s \in Runs \ {r}
        PROVE  /\ run'[s].step \in {"queued", "setup"} => run'[s].rounds = 0
               /\ run'[s].step = "queued" => isolated'
               /\ BeforeTurn(s)' /\ run'[s].prepared # Nobody => turn'.owner = run'[s].prepared
               /\ run'[s].step = "turn" => Owns(s)'
    <3>1. run'[s] = run[s]
      OBVIOUS
    <3> QED  BY <3>1 DEF RunsInv, TurnsAreOwned, BeforeTurn, Owns
  <2>3. message # Nobody => turn.owner = message
    BY DEF RunsInv, TurnsAreOwned
  <2> QED  BY <2>1, <2>2, <2>3 DEF TurnsAreOwned
<1>6. OwnersKeep'
  <2>1. Keeps(r)' /\ ~Passed(r)' /\ ~Keeps(r)
    BY <1>1 DEF Keeps, Passed
  <2>2. \A s \in Runs \ {r} : (Keeps(s)' <=> Keeps(s)) /\ (Passed(s)' <=> Passed(s))
    BY DEF Keeps, Passed
  <2>3. ASSUME NEW x \in Messages PROVE Holder(x)' <=> Holder(x)
    <3>1. CASE x = message
      BY <2>1, <3>1 DEF Holder
    <3>2. CASE x # message
      BY <1>1, <2>1, <2>2, <3>2 DEF Holder
    <3> QED  BY <3>1, <3>2
  <2>4. turn.owner # r
    BY <1>1 DEF RunsInv, OwnersKeep, Cleaning
  <2> QED  BY <2>1, <2>2, <2>3, <2>4 DEF RunsInv, OwnersKeep
<1>7. GateIsClosed'
  BY DEF RunsInv, GateIsClosed
<1> QED  BY <1>2, <1>3, <1>4, <1>5, <1>6, <1>7 DEF RunsInv

LEMMA StartPreparedKeeps ==
  ASSUME RunsInv, NEW m \in Messages, StartPrepared(m)
  PROVE  RunsInv'
<1> USE DEF StartPrepared, downVars, runVars
<1>1. req[m].step = "prepared" /\ m \in leases
  BY DEF RunsInv, LeasesAreHeld, Pinning
<1>2. CASE StartRun(m, m) /\ Answer(m, "started") /\ UNCHANGED turn
  <2>1. Requested(m) /\ req'[m].step = "done" /\ req'[m].answer = "started"
    BY <1>2, AnswerTo DEF RunsInv, Answers
  <2>2. PICK r \in Runs :
           /\ gate /\ run[r] = NoRun /\ run' \in [Runs -> RunRecords]
           /\ \A s \in Runs \ {r} : run'[s] = run[s]
           /\ run'[r].step \in {"queued", "setup"} /\ (run'[r].step = "queued" => isolated)
           /\ run'[r].rounds = 0 /\ run'[r].prepared = m
           /\ leases' = (leases \ {m}) \cup {r}
           /\ current' \in Runs /\ task' \in {task, "queued", "running"}
    BY <1>2, StartRunStarts
  <2>3. Types'
    BY <1>2, <2>1, <2>2 DEF Types, RunsInv, Requested, Answer
  <2>4. m \notin Runs /\ m \notin Resumers
    BY Distinct
  <2>5. m \in leases /\ req'[m].step = "done" /\ \A n \in Messages \ {m} : req'[n] = req[n]
    BY <1>1, <2>1 DEF RunsInv, LeasesAreHeld, Pinning, Requested
  <2>6. UNCHANGED <<isolated, gate, down, observed, turn, writing, runtime, waking>>
    BY <1>2
  <2>7. Starts(m, m, r)
    BY <1>1, <2>2, <2>4, <2>5, <2>6 DEF Starts, Pinning
  <2> QED  BY <2>3, <2>7, RunStarts
<1>3. CASE Answer(m, "failed") /\ Lose /\ leases' = leases \ {m} /\ UNCHANGED runVars
  <2>1. /\ run' \in [Runs -> RunRecords] /\ waking' \in [Resumers -> {"idle", "asked", "leased"}]
        /\ turn \in TurnRecords
    BY <1>3 DEF RunsInv, Types
  <2>2. turn' \in TurnRecords /\ turn'.owner = turn.owner /\ turn'.lost
    BY <1>3, <2>1, LostTurn DEF Lose
  <2> QED  BY <1>1, <1>3, <2>1, <2>2, AnswerGoes DEF Answers
<1> QED  BY <1>2, <1>3

-----------------------------------------------------------------------------
(* The calls of resumePendingSession that start nothing *)

LEMMA WakingKeeps ==
  ASSUME RunsInv, waking' \in [Resumers -> {"idle", "asked", "leased"}],
         leases' \subseteq leases \cup Resumers,
         \A m \in Messages \cup Runs : m \in leases => m \in leases',
         \A w \in Resumers : w \in leases' <=> waking'[w] = "leased",
         \/ runtime' = runtime /\ (runtime # "resident" => leases' = leases)
         \/ runtime' = "resident" /\ runtime # "disposing",
         waking' # waking => gate \/ ~AllAnswered,
         UNCHANGED <<isolated, req, lock, mailbox, runVars, downVars>>
  PROVE  RunsInv'
<1> USE DEF mailbox, runVars, downVars
<1>1. Types'
  BY DEF RunsInv, Types
<1>2. LeasesAreHeld'
  BY Distinct DEF RunsInv, LeasesAreHeld
<1>3. OneWrites' /\ HandedOnce' /\ TurnsAreOwned' /\ OwnersKeep'
  BY DEF RunsInv, OneWrites, HandedOnce, TurnsAreOwned, BeforeTurn, Owns, OwnersKeep, Passed,
         Holder, Keeps
<1>4. GateIsClosed'
  BY DEF RunsInv, GateIsClosed, AllAnswered, Live, Started
<1> QED  BY <1>1, <1>2, <1>3, <1>4 DEF RunsInv

LEMMA ReconnectKeeps ==
  ASSUME RunsInv, Reconnect
  PROVE  RunsInv'
<1>1. Wake /\ UNCHANGED <<isolated, req, lock, leases, runtime, mailbox, runVars, downVars>>
  BY DEF Reconnect
<1>2. \A w \in Resumers : w \in leases' <=> waking'[w] = "leased"
  BY <1>1, WakeLeasesNothing DEF RunsInv, LeasesAreHeld
<1> QED  BY <1>1, <1>2, WakeLeasesNothing, WakingKeeps DEF RunsInv

LEMMA ResumeLeasesKeeps ==
  ASSUME RunsInv, NEW w \in Resumers, ResumeLeases(w)
  PROVE  RunsInv'
<1> USE DEF ResumeLeases
<1>1. waking[w] = "asked" /\ w \notin leases /\ ~AllAnswered
  BY DEF RunsInv, LeasesAreHeld, AllAnswered
<1>2. waking' \in [Resumers -> {"idle", "asked", "leased"}]
  BY DEF RunsInv, Types
<1>3. \A v \in Resumers : v \in leases' <=> waking'[v] = "leased"
  BY <1>1 DEF RunsInv, LeasesAreHeld, Acquire, Types
<1> QED  BY <1>1, <1>2, <1>3, WakingKeeps DEF Acquire

LEMMA ResumeStartsKeeps ==
  ASSUME RunsInv, NEW w \in Resumers, ResumeStarts(w)
  PROVE  RunsInv'
<1> USE DEF ResumeStarts
<1>1. waking[w] = "leased" /\ w \in leases /\ ~AllAnswered /\ runtime = "resident"
  BY DEF RunsInv, LeasesAreHeld, AllAnswered
<1>2. /\ waking' \in [Resumers -> {"idle", "asked", "leased"}] /\ waking'[w] = "idle"
      /\ \A v \in Resumers \ {w} : waking'[v] = waking[v]
  BY DEF RunsInv, Types
<1>3. CASE StartRun(w, Nobody)
  <2> USE DEF mailbox, downVars
  <2>1. PICK r \in Runs :
           /\ gate /\ run[r] = NoRun /\ run' \in [Runs -> RunRecords]
           /\ \A s \in Runs \ {r} : run'[s] = run[s]
           /\ run'[r].step \in {"queued", "setup"} /\ (run'[r].step = "queued" => isolated)
           /\ run'[r].rounds = 0 /\ run'[r].prepared = Nobody
           /\ leases' = (leases \ {w}) \cup {r}
           /\ current' \in Runs /\ task' \in {task, "queued", "running"}
    BY <1>3, StartRunStarts
  <2>2. Types'
    BY <1>2, <2>1 DEF Types, RunsInv
  <2>3. Starts(w, Nobody, r)
    BY <1>1, <1>2, <2>1, Distinct DEF Starts
  <2> QED  BY <2>2, <2>3, RunStarts
<1>4. CASE leases' = leases \ {w} /\ UNCHANGED runVars
  <2>1. \A v \in Resumers : v \in leases' <=> waking'[v] = "leased"
    BY <1>2, <1>4 DEF RunsInv, LeasesAreHeld
  <2>2. \A m \in Messages \cup Runs : m \in leases => m \in leases'
    BY <1>4, Distinct
  <2> QED  BY <1>1, <1>2, <1>4, <2>1, <2>2, WakingKeeps
<1> QED  BY <1>3, <1>4
-----------------------------------------------------------------------------
(* A run ends *)

LEMMA EndKeeps ==
  ASSUME RunsInv, NEW r \in Runs, End(r)
  PROVE  RunsInv'
<1> USE Distinct
<1> USE DEF End, others, mailbox, downVars
<1>1. /\ run[r].step = "ending" /\ r \in leases /\ runtime = "resident"
      /\ \A s \in Runs : run[s].step # "disposing"
  BY DEF At, RunsInv, LeasesAreHeld, Working
<1>2. /\ Moved(r)
      /\ \/ run'[r].step = "disposing" /\ leases' = {} /\ runtime' = "disposing"
         \/ run'[r].step = "settled" /\ runtime' = runtime
  BY StepTo, SettleTo DEF RunsInv, RunSteps
<1>3. /\ leases' = leases \ {r} /\ \A s \in Runs \ {r} : run'[s] = run[s]
      /\ \A s \in Runs : run'[s].prepared = run[s].prepared
  BY <1>2 DEF Moved
<1>4. Types'
  BY <1>2, <1>3 DEF Types, RunsInv, Moved
<1>5. LeasesAreHeld'
  BY <1>1, <1>2, <1>3 DEF RunsInv, LeasesAreHeld, Working
<1>6. OneWrites' /\ HandedOnce'
  BY <1>3 DEF RunsInv, OneWrites, HandedOnce
<1>7. TurnsAreOwned'
  <2>1. ASSUME NEW s \in Runs \ {r}
        PROVE  (BeforeTurn(s)' <=> BeforeTurn(s)) /\ (Owns(s)' <=> Owns(s))
    BY <1>3 DEF BeforeTurn, Owns
  <2> QED  BY <1>2, <1>3, <2>1 DEF RunsInv, TurnsAreOwned, BeforeTurn
<1>8. OwnersKeep'
  <2>1. \A s \in Runs : (Keeps(s)' <=> Keeps(s)) /\ (Passed(s)' <=> Passed(s))
    <3>1. ASSUME NEW s \in Runs, s # r PROVE (Keeps(s)' <=> Keeps(s)) /\ (Passed(s)' <=> Passed(s))
      BY <1>3, <3>1 DEF Keeps, Passed
    <3>2. (Keeps(r)' <=> Keeps(r)) /\ (Passed(r)' <=> Passed(r))
      BY <1>1, <1>2 DEF Keeps, Passed
    <3> QED  BY <3>1, <3>2
  <2>2. \A x \in Messages : Holder(x)' <=> Holder(x)
    BY <1>3, <2>1 DEF Holder
  <2>3. ASSUME turn.owner \in Runs
        PROVE  /\ ~turn.lost => run'[turn.owner].step = "turn"
               /\ turn.lost => run'[turn.owner].step \in Cleaning
    BY <1>1, <1>2, <1>3, <2>3 DEF RunsInv, OwnersKeep, Cleaning
  <2> QED  BY <1>3, <2>1, <2>2, <2>3 DEF RunsInv, OwnersKeep
<1>9. GateIsClosed'
  <2>1. Live' \subseteq Live
    BY <1>1, <1>3 DEF Live, Started, NoRun
  <2> QED  BY <2>1 DEF RunsInv, GateIsClosed, AllAnswered
<1> QED  BY <1>4, <1>5, <1>6, <1>7, <1>8, <1>9 DEF RunsInv

\* With the runtime goes its mailbox: without a lease nobody is in the middle of a turn.
LEMMA NobodyLeases ==
  ASSUME RunsInv, leases = {}
  PROVE  /\ \A r \in Runs : ~BeforeTurn(r) /\ run[r].step # "turn"
         /\ \A m \in Messages : req[m].step \notin {"prepared", "openWrites", "steerWrites"}
BY DEF RunsInv, LeasesAreHeld, BeforeTurn, Working, Pinning

LEMMA MailboxGoes ==
  ASSUME RunsInv, leases = {}, turn' = NoTurn, claimed' = {},
         UNCHANGED <<isolated, req, lock, leases, writing, inbox, handled, discarded, waking,
                     current, task, gate>>,
         run' \in [Runs -> RunRecords],
         \A s \in Runs : \/ run'[s] = run[s]
                         \/ /\ run'[s].step = "settled"
                            /\ run'[s].prepared = run[s].prepared,
         runtime' = "none", \A s \in Runs : run'[s].step # "disposing",
         down' \in {"no", "closing", "draining", "done"}, observed' = observed,
         GateIsClosed'
  PROVE  RunsInv'
<1> USE Distinct
<1>1. Types'
  BY NoRecords DEF RunsInv, Types
<1>2. LeasesAreHeld'
  <2>1. \A r \in Runs : run'[r].step \notin Working
    BY DEF RunsInv, LeasesAreHeld, Working
  <2> QED  BY <2>1 DEF RunsInv, LeasesAreHeld
<1>3. OneWrites' /\ HandedOnce'
  BY DEF RunsInv, OneWrites, HandedOnce
<1>4. TurnsAreOwned'
  BY NobodyLeases DEF TurnsAreOwned, BeforeTurn
<1>5. OwnersKeep'
  <2>1. turn'.owner = Nobody
    BY NobodysTurn
  <2>2. \A r \in Runs : run'[r].prepared # Nobody => turn'.owner # run'[r].prepared
    BY <2>1
  <2> QED  BY <2>1, <2>2 DEF OwnersKeep
<1> QED  BY <1>1, <1>2, <1>3, <1>4, <1>5 DEF RunsInv

LEMMA DisposedKeeps ==
  ASSUME RunsInv, NEW r \in Runs, Disposed(r)
  PROVE  RunsInv'
<1> USE DEF Disposed, others, mailbox, downVars
<1>1. run[r].step = "disposing" /\ leases = {}
  BY DEF At, RunsInv, LeasesAreHeld
<1>2. Moved(r) /\ run'[r].step = "settled"
  BY SettleTo DEF RunsInv
<1>3. GateIsClosed'
  <2>1. Live' \subseteq Live
    BY <1>1, <1>2 DEF Live, Started, NoRun, Moved
  <2> QED  BY <2>1 DEF RunsInv, GateIsClosed, AllAnswered
<1>4. \A s \in Runs : run'[s].step # "disposing"
  BY <1>1, <1>2 DEF Moved, RunsInv, LeasesAreHeld
<1>5. down \in {"no", "closing", "draining", "done"}
  BY DEF RunsInv, Types
<1> QED  BY <1>1, <1>2, <1>3, <1>4, <1>5, MailboxGoes DEF Moved

LEMMA DrainedKeeps ==
  ASSUME RunsInv, Drained
  PROVE  RunsInv'
<1> USE DEF Drained, runVars
<1>1. Live = {} /\ AllAnswered
  BY DEF RunsInv, GateIsClosed
<1>2. \A r \in Runs : run[r].step \notin Working /\ run[r].step # "disposing"
  BY <1>1 DEF Live, Started, NoRun, Working
<1>3. leases = {}
  <2>1. \A m \in Messages : m \notin leases
    BY <1>1 DEF RunsInv, LeasesAreHeld, AllAnswered, Pinning
  <2>2. \A w \in Resumers : w \notin leases
    BY <1>1 DEF RunsInv, LeasesAreHeld, AllAnswered
  <2>3. \A r \in Runs : r \notin leases
    BY <1>2 DEF RunsInv, LeasesAreHeld
  <2> QED  BY <2>1, <2>2, <2>3 DEF RunsInv, Types
<1>4. GateIsClosed'
  BY <1>1 DEF RunsInv, GateIsClosed, AllAnswered, Live, Started
<1>5. run' \in [Runs -> RunRecords]
  BY DEF RunsInv, Types
<1> QED  BY <1>2, <1>3, <1>4, <1>5, MailboxGoes

-----------------------------------------------------------------------------
(* Cancelling, and the shutdown *)

\* Where runs are and what was prepared for them decides about the turn.
LEMMA TurnStays ==
  ASSUME RunsInv, UNCHANGED <<isolated, req, turn>>,
         \A r \in Runs : /\ run'[r].step = run[r].step /\ run'[r].rounds = run[r].rounds
                         /\ run'[r].prepared = run[r].prepared
  PROVE  TurnsAreOwned' /\ OwnersKeep'
<1>1. \A r \in Runs : /\ BeforeTurn(r)' <=> BeforeTurn(r)
                      /\ Owns(r)' <=> Owns(r)
                      /\ Keeps(r)' <=> Keeps(r)
                      /\ Passed(r)' <=> Passed(r)
  BY DEF BeforeTurn, Owns, Keeps, Passed
<1>2. \A x \in Messages : Holder(x)' <=> Holder(x)
  BY <1>1, Distinct DEF Holder
<1>3. TurnsAreOwned'
  BY <1>1 DEF RunsInv, TurnsAreOwned
<1>4. OwnersKeep'
  BY <1>1, <1>2 DEF RunsInv, OwnersKeep
<1> QED  BY <1>3, <1>4

\* A cancellation only says why: it starts nothing and ends nothing.
LEMMA CancelledKeeps ==
  ASSUME RunsInv, NEW set, NEW why \in {"user", "shutdown"}, Cancelled(set, why),
         UNCHANGED <<isolated, req, lock, leases, runtime, mailbox, current, task, waking, gate>>,
         down' \in {"no", "closing", "draining", "done"}, observed' \subseteq Runs,
         Live' = Live => GateIsClosed'
  PROVE  RunsInv'
<1> USE DEF mailbox
<1>1. ASSUME NEW r \in Runs
      PROVE  /\ run'[r] \in RunRecords /\ run'[r].step = run[r].step
             /\ run'[r].prepared = run[r].prepared /\ run'[r].rounds = run[r].rounds
             /\ run'[r] = NoRun <=> run[r] = NoRun
  <2>1. run[r] \in RunRecords
    BY DEF RunsInv, Types
  <2>2. CASE r \in set /\ Active(r)
    <3>1. run'[r] = CancelRun(r, why)
      BY <2>2 DEF Cancelled
    <3>2. run[r] # NoRun
      BY <2>2 DEF Active, NoRun
    <3> DEFINE x == CancelRun(r, why)
    <3>3. /\ x \in RunRecords /\ x.step = run[r].step /\ x.prepared = run[r].prepared
          /\ x.rounds = run[r].rounds /\ x.status = "cancelled"
      BY <2>1 DEF CancelRun, RunRecords, Statuses
    <3>4. x # NoRun
      BY <3>3 DEF NoRun
    <3> HIDE DEF x
    <3> QED  BY <3>1, <3>2, <3>3, <3>4 DEF x
  <2>3. CASE ~(r \in set /\ Active(r))
    BY <2>1, <2>3 DEF Cancelled
  <2> QED  BY <2>2, <2>3
<1>2. run' \in [Runs -> RunRecords]
  BY <1>1 DEF Cancelled
<1>3. Types'
  BY <1>2 DEF RunsInv, Types
<1>4. LeasesAreHeld' /\ OneWrites' /\ HandedOnce'
  BY <1>1 DEF RunsInv, LeasesAreHeld, OneWrites, HandedOnce
<1>6. TurnsAreOwned' /\ OwnersKeep'
  BY <1>1, TurnStays
<1>7. Live' = Live
  BY <1>1 DEF Live, Started
<1> QED  BY <1>3, <1>4, <1>6, <1>7 DEF RunsInv

LEMMA AbortKeeps ==
  ASSUME RunsInv, Abort
  PROVE  RunsInv'
<1> USE DEF Abort, others, downVars
<1>1. Live' = Live => GateIsClosed'
  BY DEF RunsInv, GateIsClosed, AllAnswered
<1>2. down' \in {"no", "closing", "draining", "done"} /\ observed' \subseteq Runs
  BY DEF RunsInv, Types
<1> QED  BY <1>1, <1>2, CancelledKeeps

\* What the last signal does not observe is over: the gate is closed, and nothing is
\* left in flight that could start a run.
LEMMA SignalKeeps ==
  ASSUME RunsInv, Signal
  PROVE  RunsInv'
<1> USE DEF Signal, ToObserve
<1>1. Live' = Live => GateIsClosed'
  BY DEF RunsInv, GateIsClosed, AllAnswered
<1>2. down' \in {"no", "closing", "draining", "done"} /\ observed' \subseteq Runs
  BY DEF RunsInv, Types, Live, Started
<1> QED  BY <1>1, <1>2, CancelledKeeps

LEMMA CloseGateKeeps ==
  ASSUME RunsInv, CloseGate
  PROVE  RunsInv'
<1> USE DEF CloseGate, mailbox, runVars
<1>1. Types'
  BY DEF RunsInv, Types
<1>2. LeasesAreHeld' /\ OneWrites' /\ HandedOnce' /\ TurnsAreOwned' /\ OwnersKeep'
  BY TurnStays DEF RunsInv, LeasesAreHeld, OneWrites, HandedOnce
<1>3. GateIsClosed'
  BY DEF GateIsClosed
<1> QED  BY <1>1, <1>2, <1>3 DEF RunsInv

-----------------------------------------------------------------------------
(* The invariant holds *)

LEMMA InitEstablishes == Init => RunsInv
<1> SUFFICES ASSUME Init PROVE RunsInv
  OBVIOUS
<1> USE Distinct
<1> USE DEF Init
<1>1. NoRequest \in RequestRecords
  BY DEF NoRequest, RequestRecords, RequestSteps, Answers
<1>2. NoRun \in RunRecords
  <2>1. 0 \in 0 .. MaxFollowUps
    BY WebRunsAssumption
  <2> QED  BY <2>1 DEF NoRun, RunRecords, RunSteps, Statuses
<1>3. Types
  BY <1>1, <1>2, NoRecords DEF Types
<1>4. /\ \A r \in Runs : run[r].step = "none" /\ run[r].prepared = Nobody
      /\ \A m \in Messages : req[m].step = "idle" /\ req[m].answer = "none"
  BY DEF NoRun, NoRequest
<1>5. LeasesAreHeld /\ OneWrites /\ HandedOnce
  BY <1>4 DEF LeasesAreHeld, OneWrites, HandedOnce, Working, Pinning, NoWrite
<1>6. TurnsAreOwned /\ OwnersKeep
  BY <1>4, NobodysTurn DEF TurnsAreOwned, OwnersKeep, BeforeTurn
<1>7. GateIsClosed
  BY DEF GateIsClosed
<1> QED  BY <1>3, <1>5, <1>6, <1>7 DEF RunsInv

LEMMA StutterKeeps ==
  ASSUME RunsInv, UNCHANGED vars
  PROVE  RunsInv'
<1> USE DEF vars, mailbox, runVars, downVars
<1>1. Types' /\ LeasesAreHeld' /\ OneWrites' /\ HandedOnce'
  BY DEF RunsInv, Types, LeasesAreHeld, OneWrites, HandedOnce
<1>2. TurnsAreOwned' /\ OwnersKeep'
  BY TurnStays
<1>3. GateIsClosed'
  BY DEF RunsInv, GateIsClosed, AllAnswered, Live, Started
<1> QED  BY <1>1, <1>2, <1>3 DEF RunsInv

LEMMA StepsKeep == RunsInv /\ [Next]_vars => RunsInv'
<1> SUFFICES ASSUME RunsInv, [Next]_vars PROVE RunsInv'
  OBVIOUS
<1>1. ASSUME NEW m \in Messages, Post(m) \/ Request(m) PROVE RunsInv'
  BY <1>1, PostKeeps, TakeLockKeeps, LeaseKeeps, BeginEnqueueKeeps, EndEnqueueKeeps,
     AnswerSteeringKeeps, StartPreparedKeeps DEF Request
<1>2. ASSUME NEW w \in Resumers, Resume(w) PROVE RunsInv'
  BY <1>2, ResumeLeasesKeeps, ResumeStartsKeeps DEF Resume
<1>3. ASSUME NEW r \in Runs, Execute(r) PROVE RunsInv'
  BY <1>3, PermitKeeps, AdmittedKeeps, AskPermissionKeeps, AnsweredKeeps, ReleaseKeeps,
     DrainKeeps, EndTurnKeeps, SetUpKeeps, BeginKeeps, FollowUpKeeps,
     CloseKeeps, CatchKeeps, FinalizeKeeps, DiscardKeeps, EndKeeps, DisposedKeeps
     DEF Execute, Proceed
<1>4. CASE Reconnect \/ Abort \/ CloseGate \/ Signal \/ Drained
  BY <1>4, ReconnectKeeps, AbortKeeps, CloseGateKeeps, SignalKeeps, DrainedKeeps
<1>5. CASE UNCHANGED vars
  BY <1>5, StutterKeeps
<1> QED  BY <1>1, <1>2, <1>3, <1>4, <1>5 DEF Next

LEMMA RunsInvHolds == Spec => []RunsInv
BY InitEstablishes, StepsKeep, PTL DEF Spec

-----------------------------------------------------------------------------
(* The theorems *)

\* While a run is in its turn the turn of the session is its own and the runtime is one it
\* pins: neither a run that still settles, a message that prepares the next turn, nor a
\* client that wakes the session ever takes it from executeRunAsync.
THEOREM RunsOwnTheirTurn == Spec => []OneTurnOneRun
<1>1. Types => TypeOK
  BY DEF Types, TypeOK, RequestRecords, RequestSteps, Answers, RunRecords, RunSteps, Statuses,
         TurnRecords, WriteRecords
<1>2. RunsInv => OneTurnOneRun
  BY <1>1 DEF RunsInv, OneTurnOneRun, TurnsAreOwned, LeasesAreHeld, Working, At
<1> QED  BY <1>2, RunsInvHolds, PTL

\* A turn that is open has a request or a run that will end it, unless its last holder left
\* it behind on one of the error paths of startRun, executeRunAsync and chatStream; and then
\* there is nobody who would still end it.
THEOREM TurnsAreHeld == Spec => []TurnHasAHolder
<1>1. RunsInv => TurnHasAHolder
  <2> SUFFICES ASSUME RunsInv, turn # NoTurn
               PROVE  turn.lost <=> ~Holder(turn.owner)
    BY DEF TurnHasAHolder
  <2>1. turn.owner \in Messages \cup Runs
    BY DEF RunsInv, Types, TurnRecords, OwnersKeep
  <2>2. CASE turn.owner \in Runs
    <3>1. Holder(turn.owner) <=> run[turn.owner].step = "turn"
      BY <2>2, Distinct DEF Holder
    <3> QED  BY <2>2, <3>1 DEF RunsInv, OwnersKeep, Cleaning, Types, TurnRecords
  <2>3. CASE turn.owner \in Messages
    BY <2>3 DEF RunsInv, OwnersKeep
  <2> QED  BY <2>1, <2>2, <2>3
<1> QED  BY <1>1, RunsInvHolds, PTL

\* When the shutdown is done no run is alive, no request or wake-up is in flight, and
\* nobody pins the runtime.
THEOREM ShutdownsLeaveNothing == Spec => []ShutdownDrains
<1>1. RunsInv => ShutdownDrains
  <2> SUFFICES ASSUME RunsInv, down = "done" PROVE Live = {} /\ AllAnswered /\ leases = {}
    BY DEF ShutdownDrains
  <2>1. Live = {} /\ AllAnswered
    BY DEF RunsInv, GateIsClosed
  <2>2. \A r \in Runs : run[r].step \notin Working
    BY <2>1 DEF Live, Started, NoRun, Working
  <2>3. \A m \in Messages : req[m].step \notin Pinning
    BY <2>1 DEF AllAnswered, Pinning
  <2>4. \A w \in Resumers : waking[w] # "leased"
    BY <2>1 DEF AllAnswered
  <2>5. leases = {}
    BY <2>2, <2>3, <2>4 DEF RunsInv, LeasesAreHeld, Types
  <2> QED  BY <2>1, <2>5
<1> QED  BY <1>1, RunsInvHolds, PTL
=============================================================================
