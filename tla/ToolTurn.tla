------------------------------ MODULE ToolTurn ------------------------------
(***************************************************************************)
(* packages/cli/src/agent/loop/StreamingToolExecutor.ts and the part of    *)
(* executeLoopGenerator.ts around it: the tool calls of one model answer.  *)
(* Calls are added while the answer streams; harmless ones start at once,  *)
(* the others wait for the stream to end; results are collected and        *)
(* recorded in call order. The stream may fall back to another model,      *)
(* whose calls may reuse the ids of the first one's.                       *)
(***************************************************************************)
EXTENDS Naturals, Sequences, SequencesExt, FiniteSets

CONSTANTS
  MaxCalls,     \* bound: calls of one answer
  Limit,        \* TOOL_TURN_MAX_CALLS
  Kinds,        \* kinds of calls; see Kind
  MaxEpochs,    \* bound: models that answer
  MaxDiscarded, \* bound: calls an answer has announced when it is discarded
  MaxFailures   \* bound: writes to the transcript that fail

\* "read" is on the prelaunch list; "shared" and "exclusive" are not, and only the last
\* makes a barrier; the arguments of a "malformed" call do not parse.
Kind == {"read", "shared", "exclusive", "malformed"}
Ids == 1 .. MaxCalls
Epochs == 1 .. MaxEpochs
Runs == Epochs \X Ids

ASSUME ToolTurnAssumption ==
  /\ MaxCalls \in Nat \ {0} /\ Limit \in Nat /\ Kinds \subseteq Kind
  /\ MaxEpochs \in Nat \ {0} /\ MaxDiscarded \in Nat /\ MaxFailures \in Nat

VARIABLES
  phase,      \* where the loop is in this turn
  epoch,      \* the executor's generation, one per model that streams
  calls,      \* kinds of the calls the current answer has announced, by id
  order,      \* ids the executor has taken, in order
  queued,     \* ids that wait for the stream to end
  barrier,    \* hasExclusiveBarrier
  st,         \* per run of a call: none, chained, ready, running, done
  res,        \* per run: its result
  chain,      \* per epoch: ids whose use is not recorded yet (toolUsePersistenceTail)
  pending,    \* ids whose promise is pending
  completed,  \* per id: the epoch of the run whose result is in completed, or 0
  next,       \* position in order of the next result to collect
  got,        \* runs whose results were collected, in order
  handled,    \* how many of them the loop has handled
  log,        \* the transcript: uses and results of runs
  appended,   \* the assistant message with the calls is in the history
  answered,   \* ids with a tool message in the history
  ended,      \* why the turn is over
  aborted, failures

exec == <<epoch, order, queued, barrier, st, res, chain, pending, completed>>
loop == <<phase, calls, next, got, handled, appended, answered, ended>>
vars == <<exec, loop, log, aborted, failures>>

Results == {"none", "ok", "error", "rejected", "blocked", "notLaunched"}

TypeOK ==
  /\ phase \in {"streaming", "streamed", "appended", "announcing", "collecting", "handling", "over"}
  /\ epoch \in Epochs /\ calls \in Seq(Kind) /\ order \in Seq(Ids) /\ queued \in Seq(Ids)
  /\ barrier \in BOOLEAN /\ aborted \in BOOLEAN /\ appended \in BOOLEAN
  /\ st \in [Runs -> {"none", "chained", "ready", "running", "done"}]
  /\ res \in [Runs -> Results]
  /\ chain \in [Epochs -> Seq(Ids)] /\ pending \subseteq Ids
  /\ completed \in [Ids -> 0 .. MaxEpochs]
  /\ next \in 1 .. MaxCalls + 1 /\ got \in Seq(Runs) /\ handled \in 0 .. MaxCalls
  /\ log \in Seq({"use", "result"} \X Runs) /\ answered \subseteq Ids
  /\ ended \in {"no", "goes on", "resumes", "truncated", "interrupted", "failed", "not recorded"}
  /\ failures \in 0 .. MaxFailures

Init ==
  /\ phase = "streaming" /\ epoch = 1 /\ calls = <<>> /\ order = <<>>
  /\ queued = <<>> /\ barrier = FALSE
  /\ st = [r \in Runs |-> "none"] /\ res = [r \in Runs |-> "none"]
  /\ chain = [e \in Epochs |-> <<>>]
  /\ pending = {} /\ completed = [i \in Ids |-> 0]
  /\ next = 1 /\ got = <<>> /\ handled = 0 /\ log = <<>>
  /\ appended = FALSE /\ answered = {} /\ ended = "no"
  /\ aborted = FALSE /\ failures = 0

Now(i) == <<epoch, i>>
Recorded(r) == Contains(log, <<"use", r>>)
Over(how) == phase' = "over" /\ ended' = how
WriteFails == failures < MaxFailures /\ failures' = failures + 1

-----------------------------------------------------------------------------
(* addTool *)

\* executeOne up to its first await: the use joins the chain of records.
Launch(S) ==
  /\ st' = [r \in Runs |-> IF r[1] = epoch /\ r[2] \in Range(S) THEN "chained" ELSE st[r]]
  /\ chain' = [chain EXCEPT ![epoch] = @ \o S]

Prelaunched_NoBarrier(kind) ==   \* mutant of Prelaunched: queued calls are no barrier
  kind = "read"

Prelaunched(kind) == kind = "read" /\ ~barrier

\* One call of the answer; its arguments, or the limit on calls, may keep it out.
AddTool(kind) ==
  LET i == Len(calls) + 1 IN
  /\ phase = "streaming" /\ ~aborted /\ i <= MaxCalls
  /\ calls' = Append(calls, kind)
  /\ IF kind = "malformed"
     THEN UNCHANGED exec
     ELSE /\ order' = Append(order, i)
          /\ UNCHANGED epoch
          /\ CASE Len(order) >= Limit ->
                    /\ completed' = [completed EXCEPT ![i] = epoch]
                    /\ st' = [st EXCEPT ![Now(i)] = "done"]
                    /\ res' = [res EXCEPT ![Now(i)] = "rejected"]
                    /\ UNCHANGED <<queued, barrier, chain, pending>>
               [] Len(order) < Limit /\ Prelaunched(kind) ->
                    /\ Launch(<<i>>) /\ pending' = pending \cup {i}
                    /\ UNCHANGED <<queued, barrier, res, completed>>
               [] OTHER ->
                    /\ queued' = Append(queued, i)
                    /\ barrier' = (barrier \/ kind = "exclusive")
                    /\ UNCHANGED <<st, res, chain, pending, completed>>
  /\ UNCHANGED <<phase, next, got, handled, appended, answered, ended, log, aborted, failures>>

-----------------------------------------------------------------------------
(* executeOne: any generation's, each on its own *)

Settle_AnyEpoch(r, result) ==   \* mutant of Settle: no epoch guard
  /\ st' = [st EXCEPT ![r] = "done"] /\ res' = [res EXCEPT ![r] = result]
  /\ IF r[2] \in pending
     THEN /\ pending' = pending \ {r[2]}
          /\ completed' = [completed EXCEPT ![r[2]] = r[1]]
     ELSE UNCHANGED <<pending, completed>>

\* The result of a run: a discarded generation's goes nowhere.
Settle(r, result) ==
  /\ st' = [st EXCEPT ![r] = "done"] /\ res' = [res EXCEPT ![r] = result]
  /\ IF r[1] = epoch /\ r[2] \in pending
     THEN /\ pending' = pending \ {r[2]}
          /\ completed' = [completed EXCEPT ![r[2]] = r[1]]
     ELSE UNCHANGED <<pending, completed>>

\* The head of a chain is recorded; the next one waits for that.
RecordUse(e) ==
  LET r == <<e, Head(chain[e])>> IN
  /\ chain[e] # <<>>
  /\ chain' = [chain EXCEPT ![e] = Tail(@)]
  /\ \/ /\ log' = Append(log, <<"use", r>>)
        /\ st' = [st EXCEPT ![r] = "ready"]
        /\ UNCHANGED <<res, failures>>
     \/ /\ WriteFails
        /\ st' = [st EXCEPT ![r] = "done"] /\ res' = [res EXCEPT ![r] = "blocked"]
        /\ UNCHANGED log
  /\ UNCHANGED <<epoch, order, queued, barrier, pending, completed, loop, aborted>>

\* The tool executor admits the call when it can, unless its signal was aborted.
Cancelled(r) == aborted \/ r[1] # epoch

Start(r) ==
  /\ st[r] = "ready" /\ ~Cancelled(r)
  /\ st' = [st EXCEPT ![r] = "running"]
  /\ UNCHANGED <<epoch, order, queued, barrier, res, chain, pending, completed,
                 loop, log, aborted, failures>>

Skip(r) ==
  /\ st[r] = "ready" /\ Cancelled(r)
  /\ Settle(r, "notLaunched")
  /\ UNCHANGED <<epoch, order, queued, barrier, chain, loop, log, aborted, failures>>

Finish(r) ==
  /\ st[r] = "running"
  /\ \E result \in {"ok", "error"} : Settle(r, result)
  /\ UNCHANGED <<epoch, order, queued, barrier, chain, loop, log, aborted, failures>>

-----------------------------------------------------------------------------
(* The stream *)

\* discard: everything of this generation is forgotten, what runs goes on by itself.
Discard ==
  /\ Len(calls) <= MaxDiscarded /\ epoch' = epoch + 1
  /\ order' = <<>> /\ queued' = <<>> /\ barrier' = FALSE
  /\ pending' = {} /\ completed' = [i \in Ids |-> 0]
  /\ UNCHANGED <<st, res, chain>>

ModelFallback ==
  /\ phase = "streaming" /\ ~aborted /\ epoch < MaxEpochs
  /\ Discard /\ calls' = <<>>
  /\ UNCHANGED <<phase, next, got, handled, appended, answered, ended, log, aborted, failures>>

\* Streaming is not supported: the answer comes whole, past the executor.
ChatInstead ==
  /\ phase = "streaming" /\ ~aborted /\ epoch < MaxEpochs
  /\ Discard /\ phase' = "streamed"
  /\ \E n \in Ids : calls' \in [1 .. n -> Kinds]
  /\ UNCHANGED <<next, got, handled, appended, answered, ended, log, aborted, failures>>

\* The provider failed for good: the executor is dropped as it is.
StreamFails ==
  /\ phase = "streaming" /\ Over("failed")
  /\ UNCHANGED <<exec, calls, next, got, handled, appended, answered, log, aborted, failures>>

StreamEnds ==
  /\ phase = "streaming" /\ (calls # <<>> \/ aborted)
  /\ IF aborted THEN Over("interrupted") ELSE phase' = "streamed" /\ UNCHANGED ended
  /\ UNCHANGED <<exec, calls, next, got, handled, appended, answered, log, aborted, failures>>

\* The answer was cut off at the output limit: no call of it is looked at any more. The loop
\* asks for the rest, or ends the turn, which fails when there is no text. The message, calls
\* and all, stays in the history, and the executor is left to itself.
CutOff ==
  /\ phase = "streamed"
  /\ \E how \in {"resumes", "truncated", "failed"} : Over(how) /\ appended' = (how # "failed")
  /\ UNCHANGED <<exec, calls, next, got, handled, answered, log, aborted, failures>>

AppendAssistant ==
  /\ phase = "streamed"
  /\ phase' = "appended" /\ appended' = TRUE
  /\ UNCHANGED <<exec, calls, next, got, handled, answered, ended, log, aborted, failures>>

-----------------------------------------------------------------------------
(* Execution and results *)

\* The signal is looked at before the calls are announced; the consumer may abort then.
Announce ==
  /\ phase = "appended"
  /\ IF aborted THEN Over("interrupted") ELSE phase' = "announcing" /\ UNCHANGED ended
  /\ UNCHANGED <<exec, calls, next, got, handled, appended, answered, log, aborted, failures>>

\* dispatchQueuedTools, when the executor has taken any call of the answer: what is
\* queued starts, or after an abort completes without.
Dispatch ==
  /\ phase = "announcing" /\ order # <<>>
  /\ IF ~aborted
     THEN /\ Launch(queued) /\ pending' = pending \cup Range(queued)
          /\ UNCHANGED <<res, completed>>
     ELSE /\ st' = [r \in Runs |-> IF r[1] = epoch /\ r[2] \in Range(queued) THEN "done" ELSE st[r]]
          /\ res' = [r \in Runs |->
                       IF r[1] = epoch /\ r[2] \in Range(queued) THEN "notLaunched" ELSE res[r]]
          /\ completed' = [i \in Ids |-> IF i \in Range(queued) THEN epoch ELSE completed[i]]
          /\ UNCHANGED <<chain, pending>>
  /\ queued' = <<>> /\ barrier' = FALSE
  /\ phase' = "collecting"
  /\ UNCHANGED <<epoch, order, calls, next, got, handled, appended, answered, ended, log,
                 aborted, failures>>

\* The members of a set of numbers, in order.
Ascending(S) ==
  {s \in [1 .. Cardinality(S) -> S] : \A j, k \in DOMAIN s : j < k => s[j] < s[k]}

\* Otherwise the loop runs the calls itself, and answers for those that do not parse.
DispatchWhole ==
  LET all == 1 .. Len(calls)
      kept == {i \in all : i <= Limit /\ calls[i] # "malformed"}
      Kept(r) == r[1] = epoch /\ r[2] \in kept
      Refused(r) == r[1] = epoch /\ r[2] \in all \ kept IN
  /\ phase = "announcing" /\ order = <<>>
  /\ st' = [r \in Runs |-> IF Kept(r) THEN "chained" ELSE IF Refused(r) THEN "done" ELSE st[r]]
  /\ res' = [r \in Runs |-> IF Refused(r) THEN "rejected" ELSE res[r]]
  /\ \E keptInOrder \in Ascending(kept) : chain' = [chain EXCEPT ![epoch] = keptInOrder]
  /\ order' = [k \in all |-> k] /\ pending' = all
  /\ phase' = "collecting"
  /\ UNCHANGED <<epoch, queued, barrier, completed, calls, next, got, handled, appended,
                 answered, ended, log, aborted, failures>>

\* getRemainingResults: the next call's result, from the map or once its promise ends;
\* a call that is in neither is passed over.
Collect ==
  LET i == order[next] IN
  /\ phase = "collecting" /\ next <= Len(order)
  /\ completed[i] = 0 /\ i \in pending => st[Now(i)] = "done"
  /\ got' = CASE completed[i] # 0 -> Append(got, <<completed[i], i>>)
              [] completed[i] = 0 /\ i \in pending -> Append(got, Now(i))
              [] OTHER -> got
  /\ next' = next + 1
  /\ pending' = pending \ {i} /\ completed' = [completed EXCEPT ![i] = 0]
  /\ UNCHANGED <<epoch, order, queued, barrier, st, res, chain,
                 phase, calls, handled, appended, answered, ended, log, aborted, failures>>

Collected ==
  /\ phase = "collecting" /\ next > Len(order)
  /\ phase' = "handling"
  /\ UNCHANGED <<exec, calls, next, got, handled, appended, answered, ended, log, aborted, failures>>

Handle_Successful(r, recorded) ==   \* mutant of Handle: failures are not recorded
  recorded /\ Recorded(r) /\ res[r] = "ok"

\* Which results the transcript gets: those of calls whose use it has.
Handle(r, recorded) == recorded /\ Recorded(r)

\* One result: recorded, then put into the history. A failed record, a call that never
\* started and an abort end the turn there and then.
HandleResult ==
  LET r == got[handled + 1] i == r[2] IN
  /\ phase = "handling" /\ handled < Len(got)
  /\ \/ /\ log' = IF Handle(r, res[r] # "blocked") THEN Append(log, <<"result", r>>) ELSE log
        /\ handled' = handled + 1 /\ answered' = answered \cup {i}
        /\ CASE res[r] = "notLaunched" -> Over("interrupted")
             [] res[r] = "blocked" -> Over("not recorded")
             [] OTHER -> IF aborted THEN Over("interrupted") ELSE UNCHANGED <<phase, ended>>
        /\ UNCHANGED failures
     \/ /\ Handle(r, res[r] # "blocked") /\ WriteFails
        /\ Over("not recorded")
        /\ UNCHANGED <<log, handled, answered>>
  /\ UNCHANGED <<exec, calls, next, got, appended, aborted>>

GoesOn ==
  /\ phase = "handling" /\ handled = Len(got)
  /\ Over(IF aborted THEN "interrupted" ELSE "goes on")
  /\ UNCHANGED <<exec, calls, next, got, handled, appended, answered, log, aborted, failures>>

Abort ==
  /\ phase # "over" /\ ~aborted /\ aborted' = TRUE
  /\ UNCHANGED <<exec, loop, log, failures>>

-----------------------------------------------------------------------------

Loop ==
  \/ StreamEnds \/ CutOff \/ AppendAssistant \/ Announce \/ Dispatch \/ DispatchWhole
  \/ Collect \/ Collected \/ HandleResult \/ GoesOn

Next ==
  \/ \E kind \in Kinds : AddTool(kind)
  \/ \E e \in Epochs : RecordUse(e)
  \/ \E r \in Runs : Start(r) \/ Skip(r) \/ Finish(r)
  \/ ModelFallback \/ ChatInstead \/ StreamFails \/ Loop \/ Abort

Spec == Init /\ [][Next]_vars

-----------------------------------------------------------------------------
(* Properties *)

Ran(r) == st[r] = "running" \/ res[r] \in {"ok", "error"}

\* What has side effects never runs for an answer that is not complete: a run the stream could
\* still take back is of a harmless call that no earlier exclusive call of its answer holds up.
\* And a crash leaves a record of each side effect: whatever runs has its use in the transcript,
\* every result there follows its use, and neither is written twice.
RunsAreSafeAndRecorded ==
  /\ TypeOK
  /\ \A r \in Runs : Ran(r) => Recorded(r)
  /\ phase = "streaming" =>
       \A i \in 1 .. Len(calls) : Ran(Now(i)) =>
         /\ calls[i] = "read"
         /\ \A j \in 1 .. i - 1 : calls[j] # "exclusive"
  /\ \A k \in 1 .. Len(log) :
       /\ log[k][1] = "result" => \E j \in 1 .. k - 1 : log[j] = <<"use", log[k][2]>>
       /\ \A j \in 1 .. k - 1 : log[j] # log[k]

\* The loop gets one result for each call it took, in their order, and each of them from
\* the run of this answer, also when a discarded run with the same id ends meanwhile.
ResultsOfThisAnswerInOrder ==
  /\ \A k \in 1 .. Len(got) : got[k] = Now(order[k])
  /\ phase = "handling" => Len(got) = Len(order)

\* A turn that went on with the results has closed every call it took: each has its answer
\* in the history, and each recorded use its result in the transcript. A turn that goes on,
\* or ends, after an answer that was cut off leaves all of its calls open, but whatever the
\* abandoned executor still does, none of them acts on anything: only harmless ones ever run.
TurnIsClosed ==
  /\ ended = "goes on" =>
       /\ Range(order) \subseteq answered
       /\ \A i \in Range(order) : Recorded(Now(i)) => Contains(log, <<"result", Now(i)>>)
  /\ ended \in {"resumes", "truncated"} =>
       \A i \in 1 .. Len(calls) : Ran(Now(i)) => calls[i] = "read"

\* Stated where the calls are added: one whose arguments do not parse is dealt with once
\* the stream has ended. (A turn that goes on answers every call its message shows.)
MalformedIsAnswered ==
  ended = "goes on" => 1 .. Len(calls) \subseteq answered
=============================================================================
