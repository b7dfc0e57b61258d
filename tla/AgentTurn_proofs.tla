--------------------------- MODULE AgentTurn_proofs ---------------------------
(***************************************************************************)
(* Proofs about the two halves of a turn. The tool calls of one answer,    *)
(* for any number of calls, models and failures: what runs early is        *)
(* harmless and whatever runs is recorded; results come in the order of    *)
(* the calls and from this answer; a turn that goes on has closed its      *)
(* calls, unless their answer was cut off. All three rest on one inductive invariant, TurnInv. And the      *)
(* questions its tools ask, for any number of calls, answers, streams and  *)
(* crashes: a tool acts only on its own recorded answer, an answer that is *)
(* recovered reaches a turn, and a recovery closes no running call; these  *)
(* rest on QuestionsInv.                                                   *)
(***************************************************************************)
EXTENDS ToolTurn, Interactions, FiniteSetTheorems, SequenceTheorems, TLAPS

-----------------------------------------------------------------------------
(* The tool calls of an answer *)

\* The executor takes calls of the answer in its order.
OrderIsTheAnswers ==
  /\ Len(order) <= Len(calls) /\ Len(calls) <= MaxCalls
  /\ \A k \in 1 .. Len(order) : order[k] <= Len(calls)
  /\ \A j, k \in 1 .. Len(order) : j < k => order[j] < order[k]

\* Only calls that were taken have begun, in this epoch or an earlier one.
BegunWereTaken ==
  \A r \in Runs : st[r] # "none" => r[1] < epoch \/ (r[1] = epoch /\ r[2] \in Range(order))

\* What is queued was taken and has not begun.
QueuedWait ==
  /\ \A k \in 1 .. Len(queued) : queued[k] \in Range(order) /\ st[Now(queued[k])] = "none"
  /\ \A j, k \in 1 .. Len(queued) : queued[j] = queued[k] => j = k
  /\ phase \in {"collecting", "handling"} => queued = <<>>

\* What is chained has begun, and once.
ChainedOnce ==
  \A e \in Epochs :
    /\ \A k \in 1 .. Len(chain[e]) : st[<<e, chain[e][k]>>] = "chained"
    /\ \A j, k \in 1 .. Len(chain[e]) : chain[e][j] = chain[e][k] => j = k

\* A run has a result when it is done, and a record from its start; a record that failed
\* is never made up for.
RunsFollowTheirRecord ==
  \A r \in Runs :
    /\ st[r] # "done" => res[r] = "none"
    /\ st[r] \in {"ready", "running"} \/ res[r] \in {"ok", "error"} => Recorded(r)
    /\ Recorded(r) => st[r] \in {"ready", "running", "done"} /\ res[r] # "blocked"

\* A result in the map is this epoch's.
CompletedAreNow ==
  \A i \in Ids : completed[i] # 0 => completed[i] = epoch /\ st[Now(i)] = "done"

\* A call that was taken waits to start, has a promise or a result, or was collected.
NoneIsForgotten ==
  \A k \in 1 .. Len(order) :
    \/ k < next
    \/ order[k] \in pending \/ completed[order[k]] # 0 \/ order[k] \in Range(queued)

\* Results are collected from the first to the last.
CollectedInOrder ==
  /\ next = Len(got) + 1 /\ Len(got) <= Len(order)
  /\ phase \notin {"collecting", "handling", "over"} => got = <<>>
  /\ phase = "handling" => Len(got) = Len(order)
  /\ \A k \in 1 .. Len(got) : got[k] = Now(order[k]) /\ st[got[k]] = "done"

\* The transcript has a use before its result, each once, and results of what was handled.
LogIsOrdered ==
  /\ \A k \in 1 .. Len(log) :
       /\ log[k][1] = "result" => \E j \in 1 .. k - 1 : log[j] = <<"use", log[k][2]>>
       /\ \A j \in 1 .. k - 1 : log[j] # log[k]
  /\ \A r \in Runs : Contains(log, <<"result", r>>) => \E k \in 1 .. handled : got[k] = r

\* What was handled is answered, and closed if it is open in the transcript.
HandledAreClosed ==
  /\ handled <= Len(got)
  /\ \A k \in 1 .. handled :
       /\ order[k] \in answered
       /\ Recorded(got[k]) => Contains(log, <<"result", got[k]>>)
  /\ phase = "over" <=> ended # "no"
  /\ ended = "goes on" => handled = Len(order)

\* While the answer streams, and after it was cut off, what has begun is harmless and not
\* behind a barrier.
EarlyAreHarmless ==
  /\ phase = "streaming" =>
       \A j \in 1 .. Len(calls) : calls[j] = "exclusive" => barrier \/ Len(order) >= Limit
  /\ phase \in {"streaming", "streamed"} \/ ended \in {"resumes", "truncated"} =>
       \A i \in 1 .. Len(calls) : st[Now(i)] # "none" /\ res[Now(i)] # "rejected" =>
            calls[i] = "read" /\ \A j \in 1 .. i - 1 : calls[j] # "exclusive"

TurnInv ==
  /\ TypeOK /\ OrderIsTheAnswers /\ BegunWereTaken /\ QueuedWait /\ ChainedOnce
  /\ RunsFollowTheirRecord /\ CompletedAreNow /\ NoneIsForgotten /\ CollectedInOrder
  /\ LogIsOrdered /\ HandledAreClosed /\ EarlyAreHarmless
-----------------------------------------------------------------------------
(* Every step preserves the invariant *)

\* What an entry at the end of the transcript changes.
LEMMA AppendingToLog ==
  ASSUME NEW x \in {"use", "result"} \X Runs, log \in Seq({"use", "result"} \X Runs),
         log' = Append(log, x)
  PROVE  /\ log' \in Seq({"use", "result"} \X Runs) /\ Len(log') = Len(log) + 1
         /\ \A k \in 1 .. Len(log) : log'[k] = log[k]
         /\ log'[Len(log) + 1] = x
         /\ \A y : Contains(log', y) <=> Contains(log, y) \/ y = x
BY DEF Contains

LEMMA Lengths ==
  ASSUME TypeOK
  PROVE  /\ Len(calls) \in Nat /\ Len(order) \in Nat /\ Len(queued) \in Nat
         /\ Len(got) \in Nat /\ handled \in Nat /\ next \in Nat
         /\ Range(order) = {order[k] : k \in 1 .. Len(order)}
         /\ Range(queued) = {queued[k] : k \in 1 .. Len(queued)}
<1>1. /\ calls \in Seq(Kind) /\ order \in Seq(Ids) /\ queued \in Seq(Ids) /\ got \in Seq(Runs)
      /\ handled \in 0 .. MaxCalls /\ next \in 1 .. MaxCalls + 1
  BY DEF TypeOK
<1>2. handled \in Nat /\ next \in Nat
  BY <1>1, ToolTurnAssumption, SMT
<1>3. DOMAIN order = 1 .. Len(order) /\ DOMAIN queued = 1 .. Len(queued)
  BY <1>1, LenProperties, Zenon
<1> QED  BY <1>1, <1>2, <1>3, LenProperties, Zenon DEF Range

LEMMA Members ==
  ASSUME TypeOK
  PROVE  /\ \A k \in 1 .. Len(order) : order[k] \in Ids /\ Now(order[k]) \in Runs
         /\ \A k \in 1 .. Len(queued) : queued[k] \in Ids /\ Now(queued[k]) \in Runs
         /\ \A k \in 1 .. Len(got) : got[k] \in Runs
         /\ \A e \in Epochs : \A k \in 1 .. Len(chain[e]) :
              chain[e][k] \in Ids /\ <<e, chain[e][k]>> \in Runs
         /\ \A i \in Ids : Now(i) \in Runs
<1>1. /\ order \in Seq(Ids) /\ queued \in Seq(Ids) /\ got \in Seq(Runs) /\ epoch \in Epochs
      /\ \A e \in Epochs : chain[e] \in Seq(Ids)
  BY DEF TypeOK
<1>2. /\ \A k \in 1 .. Len(order) : order[k] \in Ids
      /\ \A k \in 1 .. Len(queued) : queued[k] \in Ids
      /\ \A k \in 1 .. Len(got) : got[k] \in Runs
      /\ \A e \in Epochs : \A k \in 1 .. Len(chain[e]) : chain[e][k] \in Ids
  BY <1>1, ElementOfSeq
<1> QED  BY <1>1, <1>2 DEF Now, Runs

LEMMA CallsAreIds ==
  ASSUME TypeOK, OrderIsTheAnswers
  PROVE  \A i \in 1 .. Len(calls) : i \in Ids /\ Now(i) \in Runs
<1>1. Len(calls) \in Nat /\ Len(calls) <= MaxCalls
  BY Lengths DEF OrderIsTheAnswers
<1>2. \A i \in 1 .. Len(calls) : i \in Ids
  BY <1>1, ToolTurnAssumption DEF Ids
<1> QED  BY <1>2, Members

LEMMA HandledWereGot ==
  ASSUME TypeOK, HandledAreClosed
  PROVE  \A k \in 1 .. handled : k \in 1 .. Len(got)
<1>1. handled \in Nat /\ Len(got) \in Nat
  BY Lengths
<1>2. handled <= Len(got)
  BY DEF HandledAreClosed
<1> QED  BY <1>1, <1>2

\* A call that comes next has not begun.
LEMMA NotTakenYet ==
  ASSUME TypeOK, OrderIsTheAnswers, BegunWereTaken, Len(calls) + 1 <= MaxCalls
  PROVE  /\ Len(calls) + 1 \in Ids /\ Now(Len(calls) + 1) \in Runs
         /\ Len(calls) + 1 \notin Range(order) /\ st[Now(Len(calls) + 1)] = "none"
<1>1. Len(calls) \in Nat /\ epoch \in Nat /\ Len(calls) + 1 \in Ids
  <2>1. epoch \in Epochs
    BY DEF TypeOK
  <2> QED  BY <2>1, Lengths, ToolTurnAssumption DEF Ids, Epochs
<1>2. Now(Len(calls) + 1) \in Runs
  BY <1>1, Members
<1>3. Range(order) = {order[k] : k \in 1 .. Len(order)}
  BY Lengths
<1>4. Len(calls) + 1 \notin Range(order)
  BY <1>1, <1>3, Members DEF OrderIsTheAnswers, Ids
<1> QED  BY <1>1, <1>2, <1>4 DEF BegunWereTaken, Now

\* The loop goes from one phase to the next, or ends; the user aborts.
LEMMA PhasesKeep ==
  ASSUME TurnInv, StreamFails \/ StreamEnds \/ CutOff \/ AppendAssistant \/ Announce \/ Collected
                    \/ GoesOn \/ Abort
  PROVE  TurnInv'
<1> USE DEF TurnInv
<1>1. UNCHANGED <<exec, calls, next, got, handled, answered, log, failures>>
  BY DEF StreamFails, StreamEnds, CutOff, AppendAssistant, Announce, Collected, GoesOn, Abort, Over, loop
<1>2. TypeOK'
  <2>1. phase' \in {"streaming", "streamed", "appended", "announcing", "collecting", "handling", "over"}
    BY DEF StreamFails, StreamEnds, CutOff, AppendAssistant, Announce, Collected, GoesOn, Abort, Over,
           loop, TypeOK
  <2>2. ended' \in {"no", "goes on", "resumes", "truncated", "interrupted", "failed", "not recorded"}
    BY DEF StreamFails, StreamEnds, CutOff, AppendAssistant, Announce, Collected, GoesOn, Abort, Over,
           loop, TypeOK
  <2>3. aborted' \in BOOLEAN /\ appended' \in BOOLEAN
    BY DEF StreamFails, StreamEnds, CutOff, AppendAssistant, Announce, Collected, GoesOn, Abort, loop, TypeOK
  <2> QED  BY <1>1, <2>1, <2>2, <2>3 DEF exec, TypeOK
<1>3. OrderIsTheAnswers' /\ NoneIsForgotten'
  BY <1>1 DEF exec, OrderIsTheAnswers, NoneIsForgotten
<1>4. BegunWereTaken'
  BY <1>1 DEF exec, BegunWereTaken
<1>5. QueuedWait'
  <2>1. phase' \in {"collecting", "handling"} => phase \in {"collecting", "handling"}
    BY DEF StreamFails, StreamEnds, CutOff, AppendAssistant, Announce, Collected, GoesOn, Abort, Over, loop
  <2>2. UNCHANGED <<order, queued, st, epoch>>
    BY <1>1 DEF exec
  <2> QED  BY <2>1, <2>2 DEF QueuedWait, Now
<1>6. ChainedOnce'
  BY <1>1 DEF exec, ChainedOnce
<1>7. RunsFollowTheirRecord'
  BY <1>1 DEF exec, RunsFollowTheirRecord, Recorded
<1>8. CompletedAreNow'
  BY <1>1 DEF exec, CompletedAreNow, Now
<1>9. CollectedInOrder'
  <2>1. Len(got) \in Nat /\ Len(order) \in Nat
    BY Lengths
  <2>2. phase' = "handling" => Len(got) = Len(order)
    BY <2>1 DEF StreamFails, StreamEnds, CutOff, AppendAssistant, Announce, Collected, GoesOn, Abort, Over,
                loop, CollectedInOrder
  <2>3. phase' \notin {"collecting", "handling", "over"} => got = <<>>
    BY DEF StreamFails, StreamEnds, CutOff, AppendAssistant, Announce, Collected, GoesOn, Abort, Over,
           loop, CollectedInOrder
  <2> QED  BY <1>1, <2>2, <2>3 DEF exec, CollectedInOrder, Now
<1>10. LogIsOrdered'
  BY <1>1 DEF exec, LogIsOrdered
<1>11. HandledAreClosed'
  BY <1>1 DEF StreamFails, StreamEnds, CutOff, AppendAssistant, Announce, Collected, GoesOn, Abort, Over,
              exec, loop, TypeOK, CollectedInOrder, HandledAreClosed, Now, Recorded
<1>12. EarlyAreHarmless'
  BY <1>1 DEF StreamFails, StreamEnds, CutOff, AppendAssistant, Announce, Collected, GoesOn, Abort, Over,
              exec, loop, EarlyAreHarmless, Now
<1> QED  BY <1>2, <1>3, <1>4, <1>5, <1>6, <1>7, <1>8, <1>9, <1>10, <1>11, <1>12

\* The answer starts over with another model, or comes whole.
LEMMA DiscardingKeeps ==
  ASSUME TurnInv, ModelFallback \/ ChatInstead
  PROVE  TurnInv'
<1> USE DEF TurnInv
<1>1. /\ epoch' = epoch + 1 /\ epoch \in Epochs /\ epoch' \in Epochs
      /\ order' = <<>> /\ queued' = <<>> /\ barrier' = FALSE
      /\ pending' = {} /\ completed' = [i \in Ids |-> 0] /\ phase' \in {"streaming", "streamed"}
      /\ phase = "streaming"
      /\ UNCHANGED <<st, res, chain, next, got, handled, appended, answered, ended, log,
                     aborted, failures>>
  <2>1. epoch \in Epochs
    BY DEF TypeOK
  <2> QED  BY <2>1, ToolTurnAssumption DEF ModelFallback, ChatInstead, Discard, Epochs
<1> got = <<>> /\ handled = 0
  <2>1. got = <<>>
    BY <1>1 DEF CollectedInOrder
  <2>2. handled \in Nat /\ Len(got) = 0
    BY <2>1, Lengths, EmptySeq, Zenon
  <2>3. handled <= Len(got)
    BY DEF HandledAreClosed
  <2> QED  BY <2>1, <2>2, <2>3
<1>2. calls' \in Seq(Kind) /\ Len(calls') <= MaxCalls /\ (phase' = "streaming" => calls' = <<>>)
  <2>1. CASE ModelFallback
    BY <2>1, ToolTurnAssumption DEF ModelFallback, loop
  <2>2. CASE ChatInstead
    <3>1. PICK n \in Ids : calls' \in [1 .. n -> Kinds]
      BY <2>2 DEF ChatInstead
    <3>2. calls' \in Seq(Kind) /\ Len(calls') = n
      BY <3>1, ToolTurnAssumption DEF Ids
    <3> QED  BY <2>2, <3>2, ToolTurnAssumption DEF Ids, ChatInstead
  <2> QED  BY <2>1, <2>2
<1>3. TypeOK'
  <2>1. order' \in Seq(Ids) /\ queued' \in Seq(Ids) /\ completed' \in [Ids -> 0 .. MaxEpochs]
    BY <1>1, ToolTurnAssumption
  <2> QED  BY <1>1, <1>2, <2>1 DEF TypeOK
<1>4. OrderIsTheAnswers' /\ NoneIsForgotten' /\ CompletedAreNow' /\ QueuedWait'
  BY <1>1, <1>2 DEF OrderIsTheAnswers, NoneIsForgotten, CompletedAreNow, QueuedWait
<1>5. BegunWereTaken'
  BY <1>1 DEF BegunWereTaken, Runs, Epochs
<1>6. ChainedOnce' /\ RunsFollowTheirRecord'
  BY <1>1 DEF ChainedOnce, RunsFollowTheirRecord, Recorded
<1>7. CollectedInOrder'
  BY <1>1 DEF CollectedInOrder
<1>8. LogIsOrdered'
  BY <1>1 DEF LogIsOrdered
<1>9. HandledAreClosed'
  BY <1>1 DEF HandledAreClosed, TypeOK
<1>10. EarlyAreHarmless'
  <2>1. \A j \in Ids : <<epoch', j>> \in Runs /\ st[<<epoch', j>>] = "none"
    BY <1>1 DEF BegunWereTaken, Runs, Epochs
  <2>2. \A j \in 1 .. Len(calls') : j \in Ids
    BY <1>2, ToolTurnAssumption DEF Ids
  <2>3. ended \notin {"resumes", "truncated"}
    BY <1>1 DEF HandledAreClosed
  <2> QED  BY <1>1, <1>2, <2>1, <2>2, <2>3 DEF EarlyAreHarmless, Now
<1> QED  BY <1>3, <1>4, <1>5, <1>6, <1>7, <1>8, <1>9, <1>10

\* A use is recorded, or its record fails.
LEMMA RecordingKeeps ==
  ASSUME TurnInv, NEW e \in Epochs, RecordUse(e)
  PROVE  TurnInv'
<1> DEFINE r == <<e, Head(chain[e])>>
<1> USE DEF TurnInv
<1>1. /\ chain[e] \in Seq(Ids) /\ chain[e] # <<>> /\ chain \in [Epochs -> Seq(Ids)]
      /\ st \in [Runs -> {"none", "chained", "ready", "running", "done"}]
      /\ res \in [Runs -> Results] /\ log \in Seq({"use", "result"} \X Runs)
  BY DEF RecordUse, TypeOK
<1>2. /\ Head(chain[e]) \in Ids /\ Tail(chain[e]) \in Seq(Ids) /\ Head(chain[e]) = chain[e][1]
      /\ Len(chain[e]) \in Nat /\ Len(chain[e]) >= 1 /\ Len(Tail(chain[e])) = Len(chain[e]) - 1
      /\ \A k \in 1 .. Len(chain[e]) - 1 : Tail(chain[e])[k] = chain[e][k + 1]
  BY <1>1, HeadTailProperties, EmptySeq
<1>3. r \in Runs /\ st[r] = "chained" /\ res[r] = "none" /\ ~Recorded(r)
  <2>1. r \in Runs
    BY <1>2 DEF Runs
  <2>2. st[r] = "chained"
    BY <1>2 DEF ChainedOnce
  <2> QED  BY <2>1, <2>2 DEF RunsFollowTheirRecord
<1>4. /\ chain' = [chain EXCEPT ![e] = Tail(@)]
      /\ UNCHANGED <<epoch, order, queued, barrier, pending, completed, loop, aborted>>
      /\ \/ /\ log' = Append(log, <<"use", r>>) /\ st' = [st EXCEPT ![r] = "ready"]
            /\ UNCHANGED <<res, failures>>
         \/ /\ WriteFails /\ UNCHANGED log
            /\ st' = [st EXCEPT ![r] = "done"] /\ res' = [res EXCEPT ![r] = "blocked"]
  BY DEF RecordUse
<1>5. /\ log' \in Seq({"use", "result"} \X Runs)
      /\ \A q \in Runs : Contains(log', <<"result", q>>) <=> Contains(log, <<"result", q>>)
      /\ \A q \in Runs : q # r => (Contains(log', <<"use", q>>) <=> Contains(log, <<"use", q>>))
      /\ st'[r] = "ready" <=> Contains(log', <<"use", r>>)
  <2>1. CASE log' = Append(log, <<"use", r>>) /\ st' = [st EXCEPT ![r] = "ready"]
    <3>1. <<"use", r>> \in {"use", "result"} \X Runs
      BY <1>3
    <3>2. /\ log' \in Seq({"use", "result"} \X Runs)
          /\ \A y : Contains(log', y) <=> Contains(log, y) \/ y = <<"use", r>>
      BY <1>1, <2>1, <3>1, AppendingToLog
    <3>3. st'[r] = "ready"
      BY <1>1, <1>3, <2>1
    <3> HIDE DEF r
    <3> QED  BY <3>2, <3>3
  <2>2. CASE UNCHANGED log /\ st' = [st EXCEPT ![r] = "done"]
    <3>1. st'[r] = "done"
      BY <1>1, <1>3, <2>2
    <3> HIDE DEF r
    <3> QED  BY <1>1, <1>3, <2>2, <3>1 DEF Recorded
  <2> QED  BY <1>4, <2>1, <2>2
<1>6. /\ \A q \in Runs : q # r => st'[q] = st[q] /\ res'[q] = res[q]
      /\ st'[r] \in {"ready", "done"} /\ res'[r] \in {"none", "blocked"}
      /\ st'[r] = "ready" <=> res'[r] = "none"
  BY <1>1, <1>3, <1>4
<1>7. TypeOK'
  <2>1. chain' \in [Epochs -> Seq(Ids)]
    BY <1>1, <1>2, <1>4
  <2>2. st' \in [Runs -> {"none", "chained", "ready", "running", "done"}]
    BY <1>1, <1>3, <1>4
  <2>3. res' \in [Runs -> Results]
    BY <1>1, <1>3, <1>4 DEF Results
  <2>4. failures' \in 0 .. MaxFailures
    <3>1. failures \in 0 .. MaxFailures
      BY DEF TypeOK
    <3>2. failures' = failures \/ (failures < MaxFailures /\ failures' = failures + 1)
      BY <1>4 DEF WriteFails
    <3> QED  BY <3>1, <3>2, ToolTurnAssumption
  <2> QED  BY <1>4, <1>5, <2>1, <2>2, <2>3, <2>4 DEF TypeOK, loop
<1> HIDE DEF r
<1>8. OrderIsTheAnswers' /\ NoneIsForgotten'
  BY <1>4 DEF OrderIsTheAnswers, NoneIsForgotten, loop
<1>9. BegunWereTaken'
  BY <1>3, <1>4, <1>6 DEF BegunWereTaken
<1>10. QueuedWait'
  <2>1. \A k \in 1 .. Len(queued) : Now(queued[k]) # r /\ Now(queued[k]) \in Runs
    BY <1>3, Members DEF QueuedWait
  <2>2. \A k \in 1 .. Len(queued) : st'[Now(queued[k])] = "none"
    BY <1>6, <2>1 DEF QueuedWait
  <2>3. UNCHANGED <<epoch, order, queued, phase>>
    BY <1>4 DEF loop
  <2> QED  BY <2>2, <2>3 DEF QueuedWait, Now
<1>11. ChainedOnce'
  <2>1. \A k \in 1 .. Len(chain'[e]) :
          <<e, chain'[e][k]>> # r /\ chain'[e][k] = chain[e][k + 1] /\ k + 1 \in 1 .. Len(chain[e])
    BY <1>1, <1>2, <1>4 DEF ChainedOnce, r
  <2>2. ASSUME NEW d \in Epochs, d # e
        PROVE  chain'[d] = chain[d] /\ \A k \in 1 .. Len(chain[d]) : <<d, chain[d][k]>> # r
    BY <1>1, <1>4, <2>2 DEF r
  <2>3. \A d \in Epochs : \A k \in 1 .. Len(chain[d]) : <<d, chain[d][k]>> \in Runs
    BY Members
  <2>4. /\ \A k \in 1 .. Len(chain'[e]) : st'[<<e, chain'[e][k]>>] = "chained"
        /\ \A j, k \in 1 .. Len(chain'[e]) : chain'[e][j] = chain'[e][k] => j = k
    <3>1. \A k \in 1 .. Len(chain'[e]) :
            <<e, chain'[e][k]>> = <<e, chain[e][k + 1]>> /\ k \in Nat /\ k + 1 \in 1 .. Len(chain[e])
      BY <2>1
    <3>2. \A k \in 1 .. Len(chain'[e]) : st'[<<e, chain'[e][k]>>] = st[<<e, chain[e][k + 1]>>]
      BY <1>6, <2>1, <2>3, <3>1
    <3>3. \A j, k \in 1 .. Len(chain'[e]) : chain'[e][j] = chain'[e][k] => j + 1 = k + 1
      <4>1. \A j, k \in 1 .. Len(chain[e]) : chain[e][j] = chain[e][k] => j = k
        BY DEF ChainedOnce
      <4> QED  BY <2>1, <4>1
    <3>4. \A k \in 1 .. Len(chain'[e]) : st[<<e, chain[e][k + 1]>>] = "chained"
      BY <3>1 DEF ChainedOnce
    <3>5. \A j, k \in 1 .. Len(chain'[e]) : chain'[e][j] = chain'[e][k] => j = k
      BY <3>1, <3>3
    <3> QED  BY <3>2, <3>4, <3>5
  <2>5. ASSUME NEW d \in Epochs, d # e
        PROVE  /\ \A k \in 1 .. Len(chain'[d]) : st'[<<d, chain'[d][k]>>] = "chained"
               /\ \A j, k \in 1 .. Len(chain'[d]) : chain'[d][j] = chain'[d][k] => j = k
    <3>1. /\ chain'[d] = chain[d]
          /\ \A k \in 1 .. Len(chain[d]) : <<d, chain[d][k]>> # r
      BY <2>2, <2>5
    <3>2. \A k \in 1 .. Len(chain[d]) : st[<<d, chain[d][k]>>] = "chained"
      BY DEF ChainedOnce
    <3>3. \A k \in 1 .. Len(chain[d]) : st'[<<d, chain[d][k]>>] = st[<<d, chain[d][k]>>]
      BY <1>6, <2>3, <3>1
    <3>4. \A j, k \in 1 .. Len(chain[d]) : chain[d][j] = chain[d][k] => j = k
      BY DEF ChainedOnce
    <3> QED  BY <3>1, <3>2, <3>3, <3>4
  <2> QED  BY <2>4, <2>5 DEF ChainedOnce
<1>12. RunsFollowTheirRecord'
  BY <1>5, <1>6 DEF RunsFollowTheirRecord, Recorded
<1>13. CompletedAreNow'
  BY <1>3, <1>4, <1>6, Members DEF CompletedAreNow, Now
<1>14. CollectedInOrder'
  BY <1>3, <1>4, <1>6, Members DEF CollectedInOrder, Now, loop
<1>15. LogIsOrdered'
  <2>1. CASE UNCHANGED log
    BY <1>4, <2>1 DEF LogIsOrdered, loop
  <2>2. CASE log' = Append(log, <<"use", r>>)
    <3>1. <<"use", r>> \in {"use", "result"} \X Runs /\ Len(log) \in Nat
      BY <1>1, <1>3
    <3>2. /\ Len(log') = Len(log) + 1 /\ log'[Len(log) + 1] = <<"use", r>>
          /\ \A k \in 1 .. Len(log) : log'[k] = log[k]
      BY <1>1, <2>2, <3>1, AppendingToLog
    <3>3. \A k \in 1 .. Len(log) : log[k] # <<"use", r>>
      BY <1>3 DEF Recorded, Contains
    <3>4. \A k \in 1 .. Len(log') :
            /\ log'[k][1] = "result" => \E j \in 1 .. k - 1 : log'[j] = <<"use", log'[k][2]>>
            /\ \A j \in 1 .. k - 1 : log'[j] # log'[k]
      <4>1. \A k \in 1 .. Len(log') : k \in 1 .. Len(log) \/ k = Len(log) + 1
        BY <3>1, <3>2
      <4>2. \A k \in 1 .. Len(log) : \A j \in 1 .. k - 1 : j \in 1 .. Len(log)
        BY <3>1
      <4>3. \A k \in 1 .. Len(log) :
              /\ log'[k][1] = "result" => \E j \in 1 .. k - 1 : log'[j] = <<"use", log'[k][2]>>
              /\ \A j \in 1 .. k - 1 : log'[j] # log'[k]
        BY <3>2, <4>2 DEF LogIsOrdered
      <4>4. \A j \in 1 .. (Len(log) + 1) - 1 : log'[j] # log'[Len(log) + 1]
        BY <3>1, <3>2, <3>3
      <4>5. log'[Len(log) + 1][1] # "result"
        BY <3>2
      <4> QED  BY <4>1, <4>3, <4>4, <4>5
    <3> QED  BY <1>4, <1>5, <3>4 DEF LogIsOrdered, loop
  <2> QED  BY <1>4, <2>1, <2>2
<1>16. HandledAreClosed'
  <2>1. \A k \in 1 .. handled : got[k] \in Runs /\ got[k] # r
    <3>1. \A k \in 1 .. handled : k \in 1 .. Len(got)
      BY HandledWereGot
    <3> QED  BY <1>3, <3>1, Members DEF CollectedInOrder
  <2> QED  BY <1>4, <1>5, <2>1 DEF HandledAreClosed, loop, Recorded
<1>17. EarlyAreHarmless'
  <2>1. \A i \in 1 .. Len(calls) : Now(i) \in Runs
    BY CallsAreIds
  <2> QED  BY <1>3, <1>4, <1>6, <2>1 DEF EarlyAreHarmless, Now, loop
<1> QED  BY <1>7, <1>8, <1>9, <1>10, <1>11, <1>12, <1>13, <1>14, <1>15, <1>16, <1>17


\* The tool executor starts a call whose use is recorded.
LEMMA StartingKeeps ==
  ASSUME TurnInv, NEW r \in Runs, Start(r)
  PROVE  TurnInv'
<1> USE DEF TurnInv
<1>1. /\ st[r] = "ready" /\ st' = [st EXCEPT ![r] = "running"]
      /\ st \in [Runs -> {"none", "chained", "ready", "running", "done"}]
      /\ UNCHANGED <<epoch, order, queued, barrier, res, chain, pending, completed,
                     loop, log, aborted, failures>>
  BY DEF Start, TypeOK
<1>2. st'[r] = "running" /\ \A q \in Runs : q # r => st'[q] = st[q]
  BY <1>1
<1>3. TypeOK'
  BY <1>1 DEF TypeOK, loop
<1>4. OrderIsTheAnswers' /\ NoneIsForgotten'
  BY <1>1 DEF OrderIsTheAnswers, NoneIsForgotten, loop
<1>5. BegunWereTaken'
  BY <1>1, <1>2 DEF BegunWereTaken
<1>6. QueuedWait'
  BY <1>1, <1>2, Members DEF QueuedWait, Now, loop
<1>7. ChainedOnce'
  BY <1>1, <1>2, Members DEF ChainedOnce
<1>8. RunsFollowTheirRecord'
  BY <1>1, <1>2 DEF RunsFollowTheirRecord, Recorded
<1>9. CompletedAreNow'
  BY <1>1, <1>2, Members DEF CompletedAreNow, Now
<1>10. CollectedInOrder'
  BY <1>1, <1>2, Members DEF CollectedInOrder, Now, loop
<1>11. LogIsOrdered'
  BY <1>1 DEF LogIsOrdered, loop
<1>12. HandledAreClosed'
  BY <1>1 DEF HandledAreClosed, loop, Recorded
<1>13. EarlyAreHarmless'
  BY <1>1, <1>2, CallsAreIds DEF EarlyAreHarmless, Now, loop
<1> QED  BY <1>3, <1>4, <1>5, <1>6, <1>7, <1>8, <1>9, <1>10, <1>11, <1>12, <1>13

\* A run ends, or is kept from starting.
LEMMA SettlingKeeps ==
  ASSUME TurnInv, NEW r \in Runs, Skip(r) \/ Finish(r)
  PROVE  TurnInv'
<1> USE DEF TurnInv
<1>1. PICK result \in {"ok", "error", "notLaunched"} :
        /\ st[r] \in {"ready", "running"} /\ Settle(r, result)
        /\ UNCHANGED <<epoch, order, queued, barrier, chain, loop, log, aborted, failures>>
  BY DEF Skip, Finish
<1>2. /\ st \in [Runs -> {"none", "chained", "ready", "running", "done"}]
      /\ res \in [Runs -> Results] /\ completed \in [Ids -> 0 .. MaxEpochs]
      /\ pending \subseteq Ids /\ epoch \in 1 .. MaxEpochs
      /\ r[1] \in Epochs /\ r[2] \in Ids /\ r = <<r[1], r[2]>>
  <2>1. r[1] \in Epochs /\ r[2] \in Ids /\ r = <<r[1], r[2]>>
    BY DEF Runs
  <2> QED  BY <2>1 DEF TypeOK, Epochs
<1>3. /\ st'[r] = "done" /\ res'[r] = result
      /\ \A q \in Runs : q # r => st'[q] = st[q] /\ res'[q] = res[q]
      /\ st' \in [Runs -> {"none", "chained", "ready", "running", "done"}]
      /\ res' \in [Runs -> Results]
  BY <1>1, <1>2 DEF Settle, Results
<1>4. \/ UNCHANGED <<pending, completed>>
      \/ /\ r = Now(r[2]) /\ pending' = pending \ {r[2]} /\ completed'[r[2]] = epoch
         /\ \A i \in Ids : i # r[2] => completed'[i] = completed[i]
  BY <1>1, <1>2 DEF Settle, Now
<1>5. pending' \subseteq Ids /\ completed' \in [Ids -> 0 .. MaxEpochs]
  <2>1. r[1] = epoch => r[1] \in 0 .. MaxEpochs
    BY <1>2, ToolTurnAssumption
  <2> QED  BY <1>1, <1>2, <2>1 DEF Settle
<1>6. TypeOK'
  BY <1>1, <1>3, <1>5 DEF TypeOK, loop
<1>7. OrderIsTheAnswers'
  BY <1>1 DEF OrderIsTheAnswers, loop
<1>8. BegunWereTaken'
  BY <1>1, <1>3 DEF BegunWereTaken
<1>9. QueuedWait'
  <2>1. \A k \in 1 .. Len(queued) : Now(queued[k]) # r /\ Now(queued[k]) \in Runs
    BY <1>1, Members DEF QueuedWait
  <2>2. \A k \in 1 .. Len(queued) : st'[Now(queued[k])] = "none"
    BY <1>3, <2>1 DEF QueuedWait
  <2>3. UNCHANGED <<epoch, order, queued, phase>>
    BY <1>1 DEF loop
  <2> QED  BY <2>2, <2>3 DEF QueuedWait, Now
<1>10. ChainedOnce'
  BY <1>1, <1>3, Members DEF ChainedOnce
<1>11. RunsFollowTheirRecord'
  BY <1>1, <1>3 DEF RunsFollowTheirRecord, Recorded
<1>12. CompletedAreNow'
  BY <1>1, <1>2, <1>3, <1>4, Members DEF CompletedAreNow, Now
<1>13. NoneIsForgotten'
  <2>1. epoch # 0
    BY <1>2, ToolTurnAssumption
  <2> QED  BY <1>1, <1>4, <2>1, Members DEF NoneIsForgotten, loop
<1>14. CollectedInOrder'
  BY <1>1, <1>3, Members DEF CollectedInOrder, Now, loop
<1>15. LogIsOrdered'
  BY <1>1 DEF LogIsOrdered, loop
<1>16. HandledAreClosed'
  BY <1>1 DEF HandledAreClosed, loop, Recorded
<1>17. EarlyAreHarmless'
  <2>1. res[r] = "none"
    BY <1>1 DEF RunsFollowTheirRecord
  <2> QED  BY <1>1, <1>3, <2>1, CallsAreIds DEF EarlyAreHarmless, Now, loop
<1> QED  BY <1>6, <1>7, <1>8, <1>9, <1>10, <1>11, <1>12, <1>13, <1>14, <1>15, <1>16, <1>17


\* Calls that have not begun join the chain.
LEMMA Launching ==
  ASSUME TypeOK, ChainedOnce, NEW S \in Seq(Ids), Launch(S),
         \A k \in 1 .. Len(S) : st[Now(S[k])] = "none",
         \A j, k \in 1 .. Len(S) : S[j] = S[k] => j = k
  PROVE  /\ st' \in [Runs -> {"none", "chained", "ready", "running", "done"}]
         /\ \A r \in Runs :
              \/ st'[r] = st[r] /\ ~(r[1] = epoch /\ r[2] \in Range(S))
              \/ st'[r] = "chained" /\ st[r] = "none" /\ r[1] = epoch /\ r[2] \in Range(S)
         /\ chain' \in [Epochs -> Seq(Ids)]
         /\ ChainedOnce'
<1>1. /\ st \in [Runs -> {"none", "chained", "ready", "running", "done"}]
      /\ chain \in [Epochs -> Seq(Ids)] /\ epoch \in Epochs /\ chain[epoch] \in Seq(Ids)
  BY DEF TypeOK
<1>2. Len(S) \in Nat /\ Range(S) = {S[k] : k \in 1 .. Len(S)} /\ \A k \in 1 .. Len(S) : S[k] \in Ids
  BY DEF Range
<1>3. \A r \in Runs : r = <<r[1], r[2]>>
  BY DEF Runs
<1>4. /\ st' \in [Runs -> {"none", "chained", "ready", "running", "done"}]
      /\ \A r \in Runs : st'[r] = IF r[1] = epoch /\ r[2] \in Range(S) THEN "chained" ELSE st[r]
  BY <1>1 DEF Launch
<1>5. \A r \in Runs : r[1] = epoch /\ r[2] \in Range(S) => st[r] = "none"
  BY <1>2, <1>3 DEF Now
<1>6. chain' = [chain EXCEPT ![epoch] = @ \o S]
  BY DEF Launch
<1>7. /\ chain[epoch] \o S \in Seq(Ids) /\ Len(chain[epoch]) \in Nat
      /\ Len(chain[epoch] \o S) = Len(chain[epoch]) + Len(S)
      /\ \A k \in 1 .. Len(chain[epoch]) + Len(S) : (chain[epoch] \o S)[k] =
           IF k <= Len(chain[epoch]) THEN chain[epoch][k] ELSE S[k - Len(chain[epoch])]
  BY <1>1, ConcatProperties, LenProperties
<1>8. /\ chain' \in [Epochs -> Seq(Ids)] /\ chain'[epoch] = chain[epoch] \o S
      /\ \A e \in Epochs : e # epoch => chain'[e] = chain[e]
  BY <1>1, <1>6, <1>7
<1>9. \A e \in Epochs : \A k \in 1 .. Len(chain[e]) :
         /\ st[<<e, chain[e][k]>>] = "chained" /\ st'[<<e, chain[e][k]>>] = "chained"
         /\ <<e, chain[e][k]>> \in Runs
  BY <1>4, Members DEF ChainedOnce
<1>10. \A k \in 1 .. Len(S) : /\ Now(S[k]) = <<epoch, S[k]>> /\ Now(S[k]) \in Runs
                             /\ st'[<<epoch, S[k]>>] = "chained"
  BY <1>1, <1>2, <1>4 DEF Now, Runs
<1>11. \A k \in 1 .. Len(chain'[epoch]) :
         \/ k \in 1 .. Len(chain[epoch]) /\ chain'[epoch][k] = chain[epoch][k]
         \/ /\ k - Len(chain[epoch]) \in 1 .. Len(S) /\ chain'[epoch][k] = S[k - Len(chain[epoch])]
            /\ k \notin 1 .. Len(chain[epoch])
  BY <1>2, <1>7, <1>8
<1>12. \A j \in 1 .. Len(chain[epoch]), k \in 1 .. Len(S) : chain[epoch][j] # S[k]
  BY <1>1, <1>9, <1>10
<1>13. /\ \A k \in 1 .. Len(chain'[epoch]) : st'[<<epoch, chain'[epoch][k]>>] = "chained"
       /\ \A j, k \in 1 .. Len(chain'[epoch]) : chain'[epoch][j] = chain'[epoch][k] => j = k
  <2>1. ASSUME NEW k \in 1 .. Len(chain'[epoch])
        PROVE  st'[<<epoch, chain'[epoch][k]>>] = "chained"
    <3>1. CASE k \in 1 .. Len(chain[epoch]) /\ chain'[epoch][k] = chain[epoch][k]
      BY <1>1, <1>9, <3>1
    <3>2. CASE k - Len(chain[epoch]) \in 1 .. Len(S) /\ chain'[epoch][k] = S[k - Len(chain[epoch])]
      BY <1>10, <3>2
    <3> QED  BY <1>11, <3>1, <3>2
  <2>2. ASSUME NEW j \in 1 .. Len(chain'[epoch]), NEW k \in 1 .. Len(chain'[epoch]),
               chain'[epoch][j] = chain'[epoch][k]
        PROVE  j = k
    <3>1. \A m, n \in 1 .. Len(chain[epoch]) : chain[epoch][m] = chain[epoch][n] => m = n
      BY <1>1 DEF ChainedOnce
    <3>2. j \in Int /\ k \in Int
      BY <1>2, <1>7, <1>8
    <3>3. CASE j \in 1 .. Len(chain[epoch]) /\ k \in 1 .. Len(chain[epoch])
      <4>1. chain'[epoch][j] = chain[epoch][j] /\ chain'[epoch][k] = chain[epoch][k]
        BY <1>11, <3>3
      <4> QED  BY <2>2, <3>1, <3>3, <4>1
    <3>4. CASE j \notin 1 .. Len(chain[epoch]) /\ k \notin 1 .. Len(chain[epoch])
      <4>1. /\ j - Len(chain[epoch]) \in 1 .. Len(S) /\ k - Len(chain[epoch]) \in 1 .. Len(S)
            /\ S[j - Len(chain[epoch])] = S[k - Len(chain[epoch])]
        <5>1. \A n \in {j, k} :
                n - Len(chain[epoch]) \in 1 .. Len(S) /\ chain'[epoch][n] = S[n - Len(chain[epoch])]
          BY <1>11, <3>4
        <5> QED  BY <2>2, <5>1
      <4>2. j - Len(chain[epoch]) = k - Len(chain[epoch])
        BY <4>1
      <4> QED  BY <1>7, <3>2, <4>2
    <3>5. CASE ~(j \in 1 .. Len(chain[epoch]) <=> k \in 1 .. Len(chain[epoch]))
      <4>1. CASE j \in 1 .. Len(chain[epoch]) /\ k \notin 1 .. Len(chain[epoch])
        <5>1. chain'[epoch][j] = chain[epoch][j]
          BY <1>11, <4>1
        <5>2. /\ k - Len(chain[epoch]) \in 1 .. Len(S)
              /\ chain'[epoch][k] = S[k - Len(chain[epoch])]
          BY <1>11, <4>1
        <5> QED  BY <1>12, <2>2, <4>1, <5>1, <5>2
      <4>2. CASE j \notin 1 .. Len(chain[epoch]) /\ k \in 1 .. Len(chain[epoch])
        <5>1. chain'[epoch][k] = chain[epoch][k]
          BY <1>11, <4>2
        <5>2. /\ j - Len(chain[epoch]) \in 1 .. Len(S)
              /\ chain'[epoch][j] = S[j - Len(chain[epoch])]
          BY <1>11, <4>2
        <5> QED  BY <1>12, <2>2, <4>2, <5>1, <5>2
      <4> QED  BY <3>5, <4>1, <4>2
    <3> QED  BY <3>3, <3>4, <3>5
  <2> QED  BY <2>1, <2>2
<1>14. ChainedOnce'
  <2>1. ASSUME NEW e \in Epochs, e # epoch
        PROVE  /\ \A k \in 1 .. Len(chain'[e]) : st'[<<e, chain'[e][k]>>] = "chained"
               /\ \A j, k \in 1 .. Len(chain'[e]) : chain'[e][j] = chain'[e][k] => j = k
    <3>1. chain'[e] = chain[e]
      BY <1>8, <2>1
    <3>2. \A k \in 1 .. Len(chain[e]) : st'[<<e, chain[e][k]>>] = "chained"
      BY <1>9
    <3>3. \A j, k \in 1 .. Len(chain[e]) : chain[e][j] = chain[e][k] => j = k
      BY DEF ChainedOnce
    <3> QED  BY <3>1, <3>2, <3>3
  <2> QED  BY <1>13, <2>1 DEF ChainedOnce
<1> QED  BY <1>4, <1>5, <1>8, <1>14


LEMMA AppendedRange ==
  ASSUME NEW S, NEW s \in Seq(S), NEW x \in S
  PROVE  Range(Append(s, x)) = Range(s) \cup {x}
<1>1. /\ Len(s) \in Nat /\ Append(s, x) \in Seq(S) /\ Len(Append(s, x)) = Len(s) + 1
      /\ Append(s, x)[Len(s) + 1] = x /\ \A k \in 1 .. Len(s) : Append(s, x)[k] = s[k]
  OBVIOUS
<1>2. DOMAIN s = 1 .. Len(s) /\ DOMAIN Append(s, x) = 1 .. Len(s) + 1
  BY <1>1, LenProperties
<1>3. \A k \in 1 .. Len(s) + 1 : k \in 1 .. Len(s) \/ k = Len(s) + 1
  BY <1>1
<1>4. \A k \in 1 .. Len(s) : k \in 1 .. Len(s) + 1
  BY <1>1
<1>5. Len(s) + 1 \in 1 .. Len(s) + 1
  BY <1>1
<1>6. Range(Append(s, x)) \subseteq Range(s) \cup {x}
  BY <1>1, <1>2, <1>3 DEF Range
<1>7. Range(s) \cup {x} \subseteq Range(Append(s, x))
  BY <1>1, <1>2, <1>4, <1>5 DEF Range
<1> QED  BY <1>6, <1>7

\* One call that starts at once.
LEMMA LaunchingOne ==
  ASSUME TypeOK, ChainedOnce, NEW i \in Ids, Launch(<<i>>), st[Now(i)] = "none"
  PROVE  /\ st' \in [Runs -> {"none", "chained", "ready", "running", "done"}]
         /\ st'[Now(i)] = "chained" /\ \A q \in Runs : q # Now(i) => st'[q] = st[q]
         /\ chain' \in [Epochs -> Seq(Ids)] /\ ChainedOnce'
<1>1. <<i>> \in Seq(Ids) /\ Len(<<i>>) = 1 /\ <<i>>[1] = i
  OBVIOUS
<1>2. Range(<<i>>) = {i}
  BY DEF Range
<1>3. /\ \A k \in 1 .. Len(<<i>>) : st[Now(<<i>>[k])] = "none"
      /\ \A j, k \in 1 .. Len(<<i>>) : <<i>>[j] = <<i>>[k] => j = k
  BY <1>1
<1>4. /\ st' \in [Runs -> {"none", "chained", "ready", "running", "done"}]
      /\ \A r \in Runs :
           \/ st'[r] = st[r] /\ ~(r[1] = epoch /\ r[2] \in Range(<<i>>))
           \/ st'[r] = "chained" /\ st[r] = "none" /\ r[1] = epoch /\ r[2] \in Range(<<i>>)
      /\ chain' \in [Epochs -> Seq(Ids)] /\ ChainedOnce'
  BY <1>1, <1>3, Launching
<1>5. Now(i) \in Runs /\ Now(i)[1] = epoch /\ Now(i)[2] = i
  BY Members DEF Now
<1>6. \A q \in Runs : q = <<q[1], q[2]>>
  BY DEF Runs
<1> QED  BY <1>2, <1>4, <1>5, <1>6 DEF Now

\* Before results are collected there are none.
LEMMA NothingCollectedYet ==
  ASSUME TypeOK, CollectedInOrder, HandledAreClosed,
         phase \notin {"collecting", "handling", "over"}
  PROVE  got = <<>> /\ Len(got) = 0 /\ handled = 0 /\ next = 1
<1>1. got = <<>> /\ Len(got) = 0
  BY EmptySeq DEF CollectedInOrder
<1>2. handled <= Len(got) /\ next = Len(got) + 1
  BY DEF HandledAreClosed, CollectedInOrder
<1> QED  BY <1>1, <1>2, Lengths

\* A call whose arguments do not parse is not taken.
LEMMA MalformedKeeps ==
  ASSUME TurnInv, AddTool("malformed")
  PROVE  TurnInv'
<1> USE DEF TurnInv
<1>1. /\ calls \in Seq(Kind) /\ Len(calls) \in Nat /\ Len(order) \in Nat /\ "malformed" \in Kind
  BY Lengths DEF TypeOK, Kind
<1>2. /\ calls' = Append(calls, "malformed") /\ phase = "streaming" /\ Len(calls) + 1 <= MaxCalls
      /\ UNCHANGED <<exec, phase, next, got, handled, appended, answered, ended, log, aborted,
                     failures>>
  BY DEF AddTool
<1>3. /\ calls' \in Seq(Kind) /\ Len(calls') = Len(calls) + 1
      /\ calls'[Len(calls) + 1] = "malformed"
      /\ \A k \in 1 .. Len(calls) : calls'[k] = calls[k]
  BY <1>1, <1>2
<1>4. TypeOK'
  BY <1>2, <1>3 DEF TypeOK, exec
<1>5. OrderIsTheAnswers'
  <2>1. \A k \in 1 .. Len(order) : order[k] \in Nat
    BY Members DEF Ids
  <2>2. Len(order) <= Len(calls') /\ Len(calls') <= MaxCalls
    BY <1>1, <1>2, <1>3, ToolTurnAssumption DEF OrderIsTheAnswers
  <2>3. \A k \in 1 .. Len(order) : order[k] <= Len(calls')
    BY <1>1, <1>3, <2>1 DEF OrderIsTheAnswers
  <2> QED  BY <1>2, <2>2, <2>3 DEF OrderIsTheAnswers, exec
<1>6. BegunWereTaken' /\ NoneIsForgotten'
  BY <1>2 DEF BegunWereTaken, NoneIsForgotten, exec
<1>7. QueuedWait'
  BY <1>2 DEF QueuedWait, exec, Now
<1>8. ChainedOnce'
  BY <1>2 DEF ChainedOnce, exec
<1>9. RunsFollowTheirRecord'
  BY <1>2 DEF RunsFollowTheirRecord, exec, Recorded
<1>10. CompletedAreNow'
  BY <1>2 DEF CompletedAreNow, exec, Now
<1>11. CollectedInOrder'
  BY <1>2 DEF CollectedInOrder, exec, Now
<1>12. LogIsOrdered'
  BY <1>2 DEF LogIsOrdered
<1>13. HandledAreClosed'
  BY <1>2 DEF HandledAreClosed, exec, Recorded
<1>14. EarlyAreHarmless'
  <2>1. st[Now(Len(calls) + 1)] = "none"
    BY <1>1, <1>2, NotTakenYet
  <2>2. ASSUME NEW j \in 1 .. Len(calls'), calls'[j] = "exclusive"
        PROVE  barrier' \/ Len(order') >= Limit
    BY <1>1, <1>2, <1>3, <2>2 DEF EarlyAreHarmless, exec
  <2>3. ASSUME NEW k \in 1 .. Len(calls'), st[Now(k)] # "none", res[Now(k)] # "rejected"
        PROVE  calls'[k] = "read" /\ \A j \in 1 .. k - 1 : calls'[j] # "exclusive"
    <3>1. k \in 1 .. Len(calls)
      BY <1>1, <1>3, <2>1, <2>3
    <3>2. \A j \in 1 .. k - 1 : j \in 1 .. Len(calls)
      BY <1>1, <3>1
    <3> QED  BY <1>2, <1>3, <2>3, <3>1, <3>2 DEF EarlyAreHarmless
  <2> QED  BY <1>2, <2>2, <2>3 DEF EarlyAreHarmless, exec, Now
<1> QED  BY <1>4, <1>5, <1>6, <1>7, <1>8, <1>9, <1>10, <1>11, <1>12, <1>13, <1>14


\* The start of a run that is not chained leaves the chains as they are.
LEMMA NoneIsChained ==
  ASSUME TypeOK, ChainedOnce, NEW r \in Runs, st[r] = "none", UNCHANGED chain,
         \A q \in Runs : q # r => st'[q] = st[q]
  PROVE  ChainedOnce'
<1>1. \A e \in Epochs : \A k \in 1 .. Len(chain[e]) : st'[<<e, chain[e][k]>>] = "chained"
  <2> TAKE e \in Epochs
  <2> TAKE k \in 1 .. Len(chain[e])
  <2>1. st[<<e, chain[e][k]>>] = "chained" /\ <<e, chain[e][k]>> \in Runs
    BY Members DEF ChainedOnce
  <2>2. <<e, chain[e][k]>> # r
    BY <2>1
  <2> QED  BY <2>1, <2>2
<1>2. \A e \in Epochs : \A j, k \in 1 .. Len(chain[e]) : chain[e][j] = chain[e][k] => j = k
  BY DEF ChainedOnce
<1> QED  BY <1>1, <1>2 DEF ChainedOnce

\* Any other call is taken: refused by the limit, started, or queued.
LEMMA TakingKeeps ==
  ASSUME TurnInv, NEW kind \in Kind \ {"malformed"}, AddTool(kind)
  PROVE  TurnInv'
<1> DEFINE i == Len(calls) + 1
<1> DEFINE Now_i == Now(i)
<1> USE DEF TurnInv
<1>1. /\ calls \in Seq(Kind) /\ order \in Seq(Ids) /\ queued \in Seq(Ids) /\ barrier \in BOOLEAN
      /\ st \in [Runs -> {"none", "chained", "ready", "running", "done"}]
      /\ res \in [Runs -> Results] /\ chain \in [Epochs -> Seq(Ids)] /\ pending \subseteq Ids
      /\ completed \in [Ids -> 0 .. MaxEpochs] /\ epoch \in 1 .. MaxEpochs /\ Limit \in Nat
      /\ Len(calls) \in Nat /\ Len(order) \in Nat /\ Len(queued) \in Nat
  BY Lengths, ToolTurnAssumption DEF TypeOK, Epochs
<1>2. /\ phase = "streaming" /\ i <= MaxCalls /\ calls' = Append(calls, kind)
      /\ order' = Append(order, i) /\ UNCHANGED epoch
      /\ UNCHANGED <<phase, next, got, handled, appended, answered, ended, log, aborted, failures>>
  BY DEF AddTool
<1>3. /\ i \in Ids /\ Now_i \in Runs /\ st[Now_i] = "none" /\ Now_i = <<epoch, i>>
      /\ i \notin Range(order) /\ res[Now_i] = "none" /\ i \in Nat
  BY <1>1, <1>2, NotTakenYet DEF RunsFollowTheirRecord, Now
<1>4. /\ calls' \in Seq(Kind) /\ Len(calls') = i /\ calls'[i] = kind
      /\ \A k \in 1 .. Len(calls) : calls'[k] = calls[k]
  BY <1>1, <1>2
<1>5. /\ order' \in Seq(Ids) /\ Len(order') = Len(order) + 1 /\ order'[Len(order) + 1] = i
      /\ \A k \in 1 .. Len(order) : order'[k] = order[k]
  BY <1>1, <1>2, <1>3
<1>6. Range(order') = Range(order) \cup {i}
  BY <1>1, <1>2, <1>3, AppendedRange
<1>7. \/ /\ Len(order) >= Limit /\ completed' = [completed EXCEPT ![i] = epoch]
         /\ st' = [st EXCEPT ![Now_i] = "done"] /\ res' = [res EXCEPT ![Now_i] = "rejected"]
         /\ UNCHANGED <<queued, barrier, chain, pending>>
      \/ /\ Len(order) < Limit /\ kind = "read" /\ ~barrier
         /\ Launch(<<i>>) /\ pending' = pending \cup {i}
         /\ UNCHANGED <<queued, barrier, res, completed>>
      \/ /\ queued' = Append(queued, i) /\ barrier' = (barrier \/ kind = "exclusive")
         /\ UNCHANGED <<st, res, chain, pending, completed>>
  BY <1>1, <1>2 DEF AddTool, Prelaunched
<1> HIDE DEF i, Now_i
<1>8. /\ st' \in [Runs -> {"none", "chained", "ready", "running", "done"}] /\ res' \in [Runs -> Results]
      /\ \A q \in Runs : q # Now_i => st'[q] = st[q] /\ res'[q] = res[q]
      /\ \/ st'[Now_i] \in {"none", "chained"} /\ res'[Now_i] = "none"
         \/ st'[Now_i] = "done" /\ res'[Now_i] = "rejected"
      /\ st'[Now_i] = "chained" => kind = "read" /\ ~barrier /\ Len(order) < Limit
  <2>1. CASE Len(order) >= Limit /\ st' = [st EXCEPT ![Now_i] = "done"]
                                 /\ res' = [res EXCEPT ![Now_i] = "rejected"]
    BY <1>1, <1>3, <2>1 DEF Results
  <2>2. CASE Len(order) < Limit /\ kind = "read" /\ ~barrier /\ Launch(<<i>>) /\ UNCHANGED res
    BY <1>1, <1>3, <2>2, LaunchingOne DEF Now_i
  <2>3. CASE UNCHANGED <<st, res>>
    BY <1>1, <1>3, <2>3
  <2> QED  BY <1>7, <2>1, <2>2, <2>3
<1>9. /\ chain' \in [Epochs -> Seq(Ids)] /\ ChainedOnce'
  <2>1. CASE Launch(<<i>>)
    BY <1>3, <2>1, LaunchingOne DEF Now_i
  <2>2. CASE UNCHANGED chain
    BY <1>1, <1>3, <1>8, <2>2, NoneIsChained
  <2>3. Launch(<<i>>) \/ UNCHANGED chain
    BY <1>7
  <2> QED  BY <2>1, <2>2, <2>3
<1>10. /\ pending' \subseteq Ids /\ pending \subseteq pending'
       /\ completed' \in [Ids -> 0 .. MaxEpochs]
       /\ \A j \in Ids : j # i => completed'[j] = completed[j]
       /\ completed'[i] # 0 => completed'[i] = epoch /\ st'[Now_i] = "done"
  <2>1. completed[i] = 0
    BY <1>3 DEF CompletedAreNow, Now
  <2>2. epoch \in 0 .. MaxEpochs
    BY <1>1
  <2>3. CASE completed' = [completed EXCEPT ![i] = epoch] /\ UNCHANGED pending
                                 /\ st' = [st EXCEPT ![Now_i] = "done"]
    <3>1. st'[Now_i] = "done"
      BY <1>1, <1>3, <2>3
    <3> QED  BY <1>1, <1>3, <2>2, <2>3, <3>1
  <2>4. CASE UNCHANGED completed /\ (pending' = pending \cup {i} \/ UNCHANGED pending)
    BY <1>1, <1>3, <2>1, <2>4
  <2> QED  BY <1>7, <2>3, <2>4
<1>11. /\ queued' \in Seq(Ids) /\ Range(queued) \subseteq Range(queued')
       /\ \A k \in 1 .. Len(queued') :
            \/ k \in 1 .. Len(queued) /\ queued'[k] = queued[k]
            \/ k = Len(queued) + 1 /\ queued'[k] = i /\ st'[Now_i] = "none"
  <2>1. CASE UNCHANGED queued
    BY <1>1, <2>1
  <2>2. CASE queued' = Append(queued, i) /\ UNCHANGED st
    BY <1>1, <1>3, <2>2, AppendedRange
  <2> QED  BY <1>7, <2>1, <2>2
<1>12. i \in pending' \/ completed'[i] # 0 \/ i \in Range(queued')
  <2>1. completed' = [completed EXCEPT ![i] = epoch] => completed'[i] # 0
    BY <1>1, <1>3
  <2>2. queued' = Append(queued, i) => i \in Range(queued')
    BY <1>1, <1>3, AppendedRange
  <2> QED  BY <1>7, <2>1, <2>2
<1>13. /\ barrier' \in BOOLEAN /\ (barrier => barrier')
       /\ kind = "exclusive" => barrier' \/ Len(order) >= Limit
  BY <1>1, <1>7
<1>14. TypeOK'
  BY <1>2, <1>4, <1>5, <1>8, <1>9, <1>10, <1>11, <1>13 DEF TypeOK
<1>15. OrderIsTheAnswers'
  <2>1. /\ \A k \in 1 .. Len(order) : order[k] \in Nat /\ order[k] < i
        /\ \A k \in 1 .. Len(order') : k \in 1 .. Len(order) \/ k = Len(order) + 1
    BY <1>1, <1>5, Members DEF OrderIsTheAnswers, Ids, i
  <2>2. Len(order') <= Len(calls') /\ Len(calls') <= MaxCalls
    BY <1>1, <1>2, <1>4, <1>5 DEF OrderIsTheAnswers, i
  <2>3. \A k \in 1 .. Len(order') : order'[k] <= Len(calls')
    <3>1. \A k \in 1 .. Len(order) : order'[k] < Len(calls')
      BY <1>4, <1>5, <2>1
    <3>2. order'[Len(order) + 1] = Len(calls') /\ Len(calls') \in Nat
      BY <1>3, <1>4, <1>5
    <3>3. \A k \in 1 .. Len(order) : order'[k] \in Nat
      BY <1>5, <2>1
    <3> QED  BY <2>1, <3>1, <3>2, <3>3
  <2>4. \A j, k \in 1 .. Len(order') : j < k => order'[j] < order'[k]
    <3>1. \A j \in 1 .. Len(order') : \A k \in 1 .. Len(order) :
            j < k => j \in 1 .. Len(order) /\ order'[j] < order'[k]
      <4>1. \A j \in 1 .. Len(order') : \A k \in 1 .. Len(order) : j < k => j \in 1 .. Len(order)
        BY <1>1, <2>1
      <4>2. \A j, k \in 1 .. Len(order) : j < k => order[j] < order[k]
        BY DEF OrderIsTheAnswers
      <4> QED  BY <1>5, <4>1, <4>2
    <3>2. \A j \in 1 .. Len(order') : j < Len(order) + 1 => order'[j] < order'[Len(order) + 1]
      <4>1. \A j \in 1 .. Len(order') : j < Len(order) + 1 => j \in 1 .. Len(order)
        BY <1>1, <2>1
      <4> QED  BY <1>5, <2>1, <4>1
    <3> QED  BY <2>1, <3>1, <3>2
  <2> QED  BY <2>2, <2>3, <2>4 DEF OrderIsTheAnswers
<1>16. BegunWereTaken'
  BY <1>2, <1>3, <1>6, <1>8 DEF BegunWereTaken
<1>17. QueuedWait'
  <2>1. \A k \in 1 .. Len(queued) : Now(queued[k]) \in Runs /\ queued[k] # i /\ Now(queued[k]) # Now_i
    BY <1>3, Members DEF QueuedWait, Now
  <2>2. ASSUME NEW k \in 1 .. Len(queued')
        PROVE  queued'[k] \in Range(order') /\ st'[Now(queued'[k])] = "none"
    BY <1>6, <1>8, <1>11, <2>1 DEF QueuedWait, Now_i
  <2>3. \A j, k \in 1 .. Len(queued') : queued'[j] = queued'[k] => j = k
    BY <1>11, <2>1 DEF QueuedWait
  <2> QED  BY <1>2, <2>2, <2>3 DEF QueuedWait, Now
<1>18. RunsFollowTheirRecord'
  BY <1>2, <1>3, <1>8 DEF RunsFollowTheirRecord, Recorded
<1>19. CompletedAreNow'
  BY <1>2, <1>3, <1>8, <1>10, Members DEF CompletedAreNow, Now
<1>20. NoneIsForgotten'
  <2>1. \A k \in 1 .. Len(order') : k \in 1 .. Len(order) \/ k = Len(order) + 1
    BY <1>1, <1>5
  <2>2. \A k \in 1 .. Len(order) : order[k] \in Ids /\ order[k] # i
    BY <1>1, <1>3, Lengths, Members
  <2>3. ASSUME NEW k \in 1 .. Len(order)
        PROVE  \/ k < next'
               \/ order'[k] \in pending' \/ completed'[order'[k]] # 0 \/ order'[k] \in Range(queued')
    <3>1. order'[k] = order[k] /\ next' = next /\ completed'[order[k]] = completed[order[k]]
      BY <1>2, <1>5, <1>10, <2>2
    <3>2. \/ k < next
          \/ order[k] \in pending \/ completed[order[k]] # 0 \/ order[k] \in Range(queued)
      BY DEF NoneIsForgotten
    <3> QED  BY <1>10, <1>11, <3>1, <3>2
  <2> QED  BY <1>5, <1>12, <2>1, <2>3 DEF NoneIsForgotten
<1>21. CollectedInOrder' /\ HandledAreClosed'
  BY <1>1, <1>2, <1>5, NothingCollectedYet DEF CollectedInOrder, HandledAreClosed
<1>22. LogIsOrdered'
  BY <1>2 DEF LogIsOrdered
<1>23. EarlyAreHarmless'
  <2>1. \A k \in 1 .. Len(calls') : k \in 1 .. Len(calls) \/ k = i
    BY <1>1, <1>4 DEF i
  <2>2. ASSUME NEW j \in 1 .. Len(calls'), calls'[j] = "exclusive"
        PROVE  barrier' \/ Len(order') >= Limit
    BY <1>1, <1>2, <1>4, <1>5, <1>13, <2>1, <2>2 DEF EarlyAreHarmless
  <2>3. ASSUME NEW k \in 1 .. Len(calls'), st'[Now(k)] # "none", res'[Now(k)] # "rejected"
        PROVE  calls'[k] = "read" /\ \A j \in 1 .. k - 1 : calls'[j] # "exclusive"
    <3>1. \A j \in 1 .. k - 1 : j \in 1 .. Len(calls)
      BY <1>1, <1>4 DEF i
    <3>2. CASE k \in 1 .. Len(calls)
      <4>1. Now(k) \in Runs /\ Now(k) # Now_i
        BY <1>1, <1>3, <3>2, CallsAreIds DEF Now, i
      <4> QED  BY <1>2, <1>4, <1>8, <2>3, <3>1, <3>2, <4>1 DEF EarlyAreHarmless
    <3>3. CASE k = i
      <4>1. kind = "read" /\ ~barrier /\ Len(order) < Limit
        BY <1>8, <2>3, <3>3 DEF Now_i
      <4> QED  BY <1>1, <1>2, <1>4, <3>1, <3>3, <4>1 DEF EarlyAreHarmless
    <3> QED  BY <2>1, <3>2, <3>3
  <2> QED  BY <1>2, <2>2, <2>3 DEF EarlyAreHarmless, Now
<1> QED  BY <1>9, <1>14, <1>15, <1>16, <1>17, <1>18, <1>19, <1>20, <1>21, <1>22, <1>23


\* What waited for the end of the stream starts, or after an abort ends unlaunched.
LEMMA DispatchKeeps ==
  ASSUME TurnInv, Dispatch
  PROVE  TurnInv'
<1> USE DEF TurnInv
<1>1. /\ queued \in Seq(Ids) /\ epoch \in 1 .. MaxEpochs
      /\ st \in [Runs -> {"none", "chained", "ready", "running", "done"}]
      /\ res \in [Runs -> Results] /\ chain \in [Epochs -> Seq(Ids)] /\ pending \subseteq Ids
      /\ completed \in [Ids -> 0 .. MaxEpochs] /\ epoch \in 0 .. MaxEpochs /\ epoch # 0
  <2>1. epoch \in 1 .. MaxEpochs
    BY DEF TypeOK, Epochs
  <2>2. epoch \in 0 .. MaxEpochs /\ epoch # 0
    BY <2>1, ToolTurnAssumption
  <2> QED  BY <2>1, <2>2 DEF TypeOK
<1>2. /\ phase = "announcing" /\ phase' = "collecting" /\ queued' = <<>> /\ barrier' = FALSE
      /\ UNCHANGED <<epoch, order, calls, next, got, handled, appended, answered, ended, log,
                     aborted, failures>>
      /\ got = <<>> /\ Len(got) = 0 /\ handled = 0 /\ next = 1
  BY NothingCollectedYet DEF Dispatch
<1>3. \A r \in Runs : r[1] = epoch /\ r[2] \in Range(queued) =>
        st[r] = "none" /\ res[r] = "none" /\ ~Recorded(r) /\ r[2] \in Range(order)
  <2>1. \A r \in Runs : r[1] = epoch => r = Now(r[2])
    BY DEF Runs, Now
  <2>2. \A i \in Range(queued) : st[Now(i)] = "none" /\ i \in Range(order)
    BY Lengths DEF QueuedWait
  <2> QED  BY <2>1, <2>2 DEF RunsFollowTheirRecord
<1>4. Range(queued) \subseteq Ids
  BY <1>1, RangeOfSeq
<1>5. \/ /\ Launch(queued) /\ pending' = pending \cup Range(queued) /\ UNCHANGED <<res, completed>>
      \/ /\ st' = [r \in Runs |-> IF r[1] = epoch /\ r[2] \in Range(queued) THEN "done" ELSE st[r]]
         /\ res' = [r \in Runs |->
                      IF r[1] = epoch /\ r[2] \in Range(queued) THEN "notLaunched" ELSE res[r]]
         /\ completed' = [i \in Ids |-> IF i \in Range(queued) THEN epoch ELSE completed[i]]
         /\ UNCHANGED <<chain, pending>>
  BY DEF Dispatch
<1>6. /\ st' \in [Runs -> {"none", "chained", "ready", "running", "done"}] /\ res' \in [Runs -> Results]
      /\ \A r \in Runs :
           \/ st'[r] = st[r] /\ res'[r] = res[r]
           \/ /\ r[1] = epoch /\ r[2] \in Range(queued)
              /\ \/ st'[r] = "chained" /\ res'[r] = "none"
                 \/ st'[r] = "done" /\ res'[r] = "notLaunched"
      /\ chain' \in [Epochs -> Seq(Ids)] /\ ChainedOnce'
      /\ pending' \subseteq Ids /\ completed' \in [Ids -> 0 .. MaxEpochs]
      /\ \A i \in Ids : \/ completed'[i] = completed[i] /\ (i \in Range(queued) => i \in pending')
                        \/ completed'[i] = epoch /\ st'[Now(i)] = "done"
      /\ pending \subseteq pending'
  <2>1. CASE Launch(queued) /\ pending' = pending \cup Range(queued) /\ UNCHANGED <<res, completed>>
    <3>1. /\ \A k \in 1 .. Len(queued) : st[Now(queued[k])] = "none"
          /\ \A j, k \in 1 .. Len(queued) : queued[j] = queued[k] => j = k
      BY DEF QueuedWait
    <3>2. /\ st' \in [Runs -> {"none", "chained", "ready", "running", "done"}]
          /\ \A r \in Runs :
               \/ st'[r] = st[r] /\ ~(r[1] = epoch /\ r[2] \in Range(queued))
               \/ st'[r] = "chained" /\ st[r] = "none" /\ r[1] = epoch /\ r[2] \in Range(queued)
          /\ chain' \in [Epochs -> Seq(Ids)] /\ ChainedOnce'
      BY <1>1, <2>1, <3>1, Launching
    <3> QED  BY <1>1, <1>3, <1>4, <2>1, <3>2
  <2>2. CASE /\ st' = [r \in Runs |-> IF r[1] = epoch /\ r[2] \in Range(queued) THEN "done" ELSE st[r]]
             /\ res' = [r \in Runs |->
                          IF r[1] = epoch /\ r[2] \in Range(queued) THEN "notLaunched" ELSE res[r]]
             /\ completed' = [i \in Ids |-> IF i \in Range(queued) THEN epoch ELSE completed[i]]
             /\ UNCHANGED <<chain, pending>>
    <3>1. /\ st' \in [Runs -> {"none", "chained", "ready", "running", "done"}] /\ res' \in [Runs -> Results]
          /\ completed' \in [Ids -> 0 .. MaxEpochs]
      BY <1>1, <2>2 DEF Results
    <3>2. \A r \in Runs :
           \/ st'[r] = st[r] /\ res'[r] = res[r]
           \/ /\ r[1] = epoch /\ r[2] \in Range(queued)
              /\ st'[r] = "done" /\ res'[r] = "notLaunched"
      BY <2>2
    <3>3. \A i \in Ids : Now(i) \in Runs /\ Now(i)[1] = epoch /\ Now(i)[2] = i
      BY Members DEF Now
    <3>4. \A i \in Ids : \/ completed'[i] = completed[i] /\ i \notin Range(queued)
                         \/ completed'[i] = epoch /\ st'[Now(i)] = "done"
      BY <2>2, <3>3
    <3>5. \A r \in Runs : st[r] = "chained" => st'[r] = "chained"
      BY <1>3, <2>2
    <3>6. ChainedOnce'
      BY <2>2, <3>5, Members DEF ChainedOnce
    <3> QED  BY <1>1, <2>2, <3>1, <3>2, <3>4, <3>6
  <2> QED  BY <1>5, <2>1, <2>2
<1>7. TypeOK'
  <2>1. <<>> \in Seq(Ids)
    BY EmptySeq
  <2> QED  BY <1>2, <1>6, <2>1 DEF TypeOK
<1>8. OrderIsTheAnswers'
  BY <1>2 DEF OrderIsTheAnswers
<1>9. BegunWereTaken'
  BY <1>2, <1>3, <1>6 DEF BegunWereTaken
<1>10. QueuedWait'
  BY <1>2, EmptySeq DEF QueuedWait
<1>11. RunsFollowTheirRecord'
  BY <1>2, <1>3, <1>6 DEF RunsFollowTheirRecord, Recorded
<1>12. CompletedAreNow'
  <2>1. \A i \in Ids : st[Now(i)] = "done" => st'[Now(i)] = "done"
    BY <1>3, <1>6, Members
  <2> QED  BY <1>2, <1>6, <2>1 DEF CompletedAreNow, Now
<1>13. NoneIsForgotten'
  <2>1. \A k \in 1 .. Len(order) : order[k] \in Ids
    BY Members
  <2> QED  BY <1>1, <1>2, <1>6, <2>1 DEF NoneIsForgotten
<1>14. CollectedInOrder' /\ HandledAreClosed'
  BY <1>2 DEF CollectedInOrder, HandledAreClosed
<1>15. LogIsOrdered'
  <2>1. UNCHANGED <<log, got, handled>>
    BY <1>2
  <2> QED  BY <2>1 DEF LogIsOrdered
<1>16. EarlyAreHarmless'
  BY <1>2 DEF EarlyAreHarmless, HandledAreClosed
<1> QED  BY <1>6, <1>7, <1>8, <1>9, <1>10, <1>11, <1>12, <1>13, <1>14, <1>15, <1>16


\* The loop runs the calls of a whole answer.
LEMMA DispatchWholeKeeps ==
  ASSUME TurnInv, DispatchWhole
  PROVE  TurnInv'
<1> DEFINE all == 1 .. Len(calls)
<1> DEFINE kept == {i \in all : i <= Limit /\ calls[i] # "malformed"}
<1> USE DEF TurnInv
<1>1. /\ epoch \in Epochs /\ st \in [Runs -> {"none", "chained", "ready", "running", "done"}]
      /\ res \in [Runs -> Results] /\ chain \in [Epochs -> Seq(Ids)]
      /\ Len(calls) \in Nat /\ Len(calls) <= MaxCalls /\ all \subseteq Ids
  BY Lengths, CallsAreIds DEF TypeOK, OrderIsTheAnswers
<1>2. /\ phase = "announcing" /\ phase' = "collecting" /\ order = <<>>
      /\ order' = [k \in all |-> k] /\ pending' = all
      /\ UNCHANGED <<epoch, queued, barrier, completed, calls, next, got, handled, appended,
                     answered, ended, log, aborted, failures>>
      /\ st' = [r \in Runs |-> IF r[1] = epoch /\ r[2] \in kept THEN "chained"
                               ELSE IF r[1] = epoch /\ r[2] \in all \ kept THEN "done" ELSE st[r]]
      /\ res' = [r \in Runs |-> IF r[1] = epoch /\ r[2] \in all \ kept THEN "rejected" ELSE res[r]]
  BY DEF DispatchWhole
<1>3. PICK s \in Ascending(kept) : chain' = [chain EXCEPT ![epoch] = s]
  BY DEF DispatchWhole
<1>4. got = <<>> /\ Len(got) = 0 /\ handled = 0 /\ next = 1
  BY <1>2, NothingCollectedYet
<1>5. \A r \in Runs : r[1] = epoch => st[r] = "none" /\ res[r] = "none" /\ ~Recorded(r)
  <2>1. Range(order) = {}
    BY <1>2, Lengths, EmptySeq
  <2>2. epoch \in Nat
    BY <1>1, ToolTurnAssumption DEF Epochs
  <2> QED  BY <2>1, <2>2 DEF BegunWereTaken, RunsFollowTheirRecord
<1>6. queued = <<>>
  <2>1. Len(queued) = 0
    BY <1>2, Lengths, EmptySeq DEF QueuedWait
  <2> QED  BY <2>1, EmptySeq DEF TypeOK
<1>7. /\ order' \in Seq(Ids) /\ Len(order') = Len(calls) /\ \A k \in all : order'[k] = k
      /\ Range(order') = all
  <2>1. order' \in [1 .. Len(calls) -> Ids]
    BY <1>1, <1>2
  <2>2. order' \in Seq(Ids) /\ Len(order') = Len(calls)
    BY <1>1, <2>1
  <2> QED  BY <1>2, <2>2 DEF Range
<1>8. /\ s \in Seq(Ids) /\ \A k \in 1 .. Len(s) : s[k] \in kept
      /\ \A j, k \in 1 .. Len(s) : s[j] = s[k] => j = k
  <2>1. /\ s \in [1 .. Cardinality(kept) -> kept]
        /\ \A j, k \in 1 .. Cardinality(kept) : j < k => s[j] < s[k]
    BY <1>3 DEF Ascending
  <2>2. Cardinality(kept) \in Nat
    <3>1. IsFiniteSet(all)
      BY <1>1, FS_Interval
    <3>2. kept \in SUBSET all
      OBVIOUS
    <3> HIDE DEF kept, all
    <3>3. IsFiniteSet(kept)
      BY <3>1, <3>2, FS_Subset
    <3> QED  BY <3>3, FS_CardinalityType
  <2>3. kept \subseteq Ids /\ \A i \in kept : i \in Nat
    BY <1>1 DEF Ids
  <2> HIDE DEF kept
  <2>4. s \in Seq(Ids) /\ Len(s) = Cardinality(kept)
    BY <2>1, <2>2, <2>3
  <2> QED  BY <2>1, <2>2, <2>3, <2>4
<1> HIDE DEF kept, all
<1>9. /\ st' \in [Runs -> {"none", "chained", "ready", "running", "done"}] /\ res' \in [Runs -> Results]
      /\ \A r \in Runs :
           \/ st'[r] = st[r] /\ res'[r] = res[r] /\ ~(r[1] = epoch /\ r[2] \in kept)
           \/ /\ r[1] = epoch /\ r[2] \in all
              /\ \/ st'[r] = "chained" /\ res'[r] = "none"
                 \/ st'[r] = "done" /\ res'[r] = "rejected" /\ r[2] \notin kept
  <2>1. kept \subseteq all
    BY DEF kept
  <2> QED  BY <1>1, <1>2, <1>5, <2>1 DEF Results
<1>10. chain' \in [Epochs -> Seq(Ids)] /\ chain'[epoch] = s
       /\ \A e \in Epochs : e # epoch => chain'[e] = chain[e]
  BY <1>1, <1>3, <1>8
<1>11. TypeOK'
  <2>1. all \subseteq Ids
    BY <1>1
  <2> QED  BY <1>2, <1>7, <1>9, <1>10, <2>1 DEF TypeOK
<1>12. OrderIsTheAnswers'
  BY <1>1, <1>2, <1>7 DEF OrderIsTheAnswers, all
<1>13. BegunWereTaken'
  BY <1>2, <1>5, <1>7, <1>9 DEF BegunWereTaken
<1>14. QueuedWait'
  BY <1>2, <1>6, EmptySeq DEF QueuedWait
<1>15. ChainedOnce'
  <2>1. ASSUME NEW k \in 1 .. Len(s)
        PROVE  st'[<<epoch, s[k]>>] = "chained"
    <3>1. <<epoch, s[k]>> \in Runs /\ s[k] \in kept
      BY <1>1, <1>8, ElementOfSeq DEF Runs
    <3> QED  BY <1>9, <3>1
  <2>2. ASSUME NEW e \in Epochs, e # epoch, NEW k \in 1 .. Len(chain[e])
        PROVE  st'[<<e, chain[e][k]>>] = "chained"
    BY <1>9, <2>2, Members DEF ChainedOnce
  <2> QED  BY <1>8, <1>10, <2>1, <2>2 DEF ChainedOnce
<1>16. RunsFollowTheirRecord'
  BY <1>2, <1>5, <1>9 DEF RunsFollowTheirRecord, Recorded
<1>17. CompletedAreNow'
  <2>1. \A i \in Ids : Now(i)[1] = epoch
    BY DEF Now
  <2> QED  BY <1>2, <1>5, <2>1, Members DEF CompletedAreNow, Now
<1>18. NoneIsForgotten'
  BY <1>1, <1>2, <1>7 DEF NoneIsForgotten, all
<1>19. CollectedInOrder' /\ HandledAreClosed'
  BY <1>1, <1>2, <1>4, <1>7 DEF CollectedInOrder, HandledAreClosed
<1>20. LogIsOrdered'
  <2>1. UNCHANGED <<log, got, handled>>
    BY <1>2
  <2> QED  BY <2>1 DEF LogIsOrdered
<1>21. EarlyAreHarmless'
  BY <1>2 DEF EarlyAreHarmless, HandledAreClosed
<1> QED  BY <1>11, <1>12, <1>13, <1>14, <1>15, <1>16, <1>17, <1>18, <1>19, <1>20, <1>21


\* The next result is collected.
LEMMA CollectKeeps ==
  ASSUME TurnInv, Collect
  PROVE  TurnInv'
<1> DEFINE i == order[next]
<1> USE DEF TurnInv
<1>1. /\ phase = "collecting" /\ next <= Len(order) /\ next' = next + 1
      /\ (completed[i] = 0 /\ i \in pending => st[Now(i)] = "done")
      /\ \/ completed[i] # 0 /\ got' = Append(got, <<completed[i], i>>)
         \/ completed[i] = 0 /\ i \in pending /\ got' = Append(got, Now(i))
         \/ completed[i] = 0 /\ i \notin pending /\ got' = got
      /\ pending' = pending \ {i} /\ completed' = [completed EXCEPT ![i] = 0]
      /\ UNCHANGED <<epoch, order, queued, barrier, st, res, chain,
                     phase, calls, handled, appended, answered, ended, log, aborted, failures>>
  BY DEF Collect
<1>2. /\ next = Len(got) + 1 /\ next \in 1 .. Len(order) /\ i \in Ids /\ Now(i) \in Runs
      /\ Len(got) \in Nat /\ Len(order) \in Nat /\ Len(order) <= MaxCalls
  <2>1. next = Len(got) + 1 /\ Len(order) <= Len(calls) /\ Len(calls) <= MaxCalls
    BY DEF CollectedInOrder, OrderIsTheAnswers
  <2>2. next \in 1 .. Len(order) /\ Len(order) <= MaxCalls
    BY <1>1, <2>1, Lengths, ToolTurnAssumption
  <2> QED  BY <2>1, <2>2, Lengths, Members
<1>3. i \in pending \/ completed[i] # 0
  <2>1. Range(queued) = {}
    BY <1>1, Lengths, EmptySeq DEF QueuedWait
  <2>2. ~(next < next)
    BY <1>2
  <2> QED  BY <1>2, <2>1, <2>2 DEF NoneIsForgotten
<1>4. got' = Append(got, Now(i)) /\ st[Now(i)] = "done"
  BY <1>1, <1>2, <1>3 DEF CompletedAreNow, Now
<1>5. /\ got \in Seq(Runs) /\ got' \in Seq(Runs) /\ Len(got') = Len(got) + 1
      /\ got'[Len(got) + 1] = Now(i) /\ \A k \in 1 .. Len(got) : got'[k] = got[k]
  <2>1. got \in Seq(Runs)
    BY DEF TypeOK
  <2> HIDE DEF i
  <2> QED  BY <1>2, <1>4, <2>1
<1>6. completed' \in [Ids -> 0 .. MaxEpochs] /\ \A j \in Ids : completed'[j] \in {0, completed[j]}
  <2>1. completed \in [Ids -> 0 .. MaxEpochs]
    BY DEF TypeOK
  <2>2. 0 \in 0 .. MaxEpochs
    BY ToolTurnAssumption
  <2> QED  BY <1>1, <1>2, <2>1, <2>2
<1>7. TypeOK'
  <2>1. next' \in 1 .. MaxCalls + 1
    BY <1>1, <1>2, ToolTurnAssumption
  <2>2. pending' \subseteq Ids
    BY <1>1 DEF TypeOK
  <2> QED  BY <1>1, <1>5, <1>6, <2>1, <2>2 DEF TypeOK
<1>8. OrderIsTheAnswers'
  BY <1>1 DEF OrderIsTheAnswers
<1>9. BegunWereTaken'
  BY <1>1 DEF BegunWereTaken
<1>10. QueuedWait'
  BY <1>1 DEF QueuedWait, Now
<1>11. ChainedOnce'
  BY <1>1 DEF ChainedOnce
<1>12. RunsFollowTheirRecord'
  BY <1>1 DEF RunsFollowTheirRecord, Recorded
<1>13. CompletedAreNow'
  BY <1>1, <1>6 DEF CompletedAreNow, Now
<1>14. NoneIsForgotten'
  <2>1. ASSUME NEW k \in 1 .. Len(order), k # next
        PROVE  order[k] # i /\ order[k] \in Ids
    BY <1>2, <2>1, Members DEF OrderIsTheAnswers, Ids
  <2>2. next < next'
    BY <1>1, <1>2
  <2>3. \A k \in 1 .. Len(order) : k < next => k < next'
    BY <1>1, <1>2
  <2>4. \A j \in Ids : j # i => completed'[j] = completed[j] /\ (j \in pending => j \in pending')
    BY <1>1, <1>2 DEF TypeOK
  <2> QED  BY <1>1, <2>1, <2>2, <2>3, <2>4 DEF NoneIsForgotten
<1>15. CollectedInOrder'
  <2>1. next' = Len(got') + 1 /\ Len(got') <= Len(order)
    BY <1>1, <1>2, <1>5
  <2>2. \A k \in 1 .. Len(got') : k \in 1 .. Len(got) \/ k = Len(got) + 1
    BY <1>2, <1>5
  <2>3. \A k \in 1 .. Len(got') : got'[k] = Now(order[k]) /\ st[got'[k]] = "done"
    BY <1>2, <1>4, <1>5, <2>2 DEF CollectedInOrder
  <2> QED  BY <1>1, <2>1, <2>3 DEF CollectedInOrder, Now
<1>16. \A k \in 1 .. handled : got'[k] = got[k]
  BY <1>5, HandledWereGot
<1>17. LogIsOrdered'
  BY <1>1, <1>16 DEF LogIsOrdered
<1>18. HandledAreClosed'
  <2>1. handled' <= Len(got')
    BY <1>1, <1>5, Lengths DEF HandledAreClosed
  <2> QED  BY <1>1, <1>16, <2>1 DEF HandledAreClosed, Recorded
<1>19. EarlyAreHarmless'
  BY <1>1 DEF EarlyAreHarmless, HandledAreClosed
<1> QED  BY <1>7, <1>8, <1>9, <1>10, <1>11, <1>12, <1>13, <1>14, <1>15, <1>17, <1>18, <1>19


\* A result is handled, or the transcript refuses it.
LEMMA HandleKeeps ==
  ASSUME TurnInv, HandleResult
  PROVE  TurnInv'
<1> DEFINE r == got[handled + 1]
<1> USE DEF TurnInv
<1>1. /\ phase = "handling" /\ handled < Len(got) /\ handled \in Nat /\ Len(got) \in Nat
      /\ Len(got) <= MaxCalls /\ Len(order) = Len(got) /\ handled + 1 \in 1 .. Len(got)
  <2>1. phase = "handling" /\ handled < Len(got)
    BY DEF HandleResult
  <2>2. Len(got) = Len(order) /\ Len(order) <= Len(calls) /\ Len(calls) <= MaxCalls
    BY <2>1 DEF CollectedInOrder, OrderIsTheAnswers
  <2> QED  BY <2>1, <2>2, Lengths, ToolTurnAssumption
<1>2. /\ r \in Runs /\ r = Now(order[handled + 1]) /\ r[2] = order[handled + 1] /\ r[2] \in Ids
      /\ st[r] = "done"
  <2>1. r = Now(order[handled + 1]) /\ st[r] = "done"
    BY <1>1 DEF CollectedInOrder
  <2>2. r \in Runs /\ order[handled + 1] \in Ids
    BY <1>1, Members
  <2> QED  BY <2>1, <2>2 DEF Now
<1>3. /\ UNCHANGED <<exec, calls, next, got, appended, aborted>>
      /\ (phase' = "over" /\ ended' \in {"interrupted", "not recorded"}) \/ UNCHANGED <<phase, ended>>
      /\ \/ /\ log' = IF Recorded(r) /\ res[r] # "blocked" THEN Append(log, <<"result", r>>) ELSE log
            /\ handled' = handled + 1 /\ answered' = answered \cup {r[2]} /\ UNCHANGED failures
         \/ /\ failures < MaxFailures /\ failures' = failures + 1
            /\ phase' = "over" /\ UNCHANGED <<log, handled, answered>>
  <2>1. UNCHANGED <<exec, calls, next, got, appended, aborted>>
    BY DEF HandleResult
  <2> QED  BY <2>1 DEF HandleResult, Handle, Over, WriteFails
<1>4. ended = "no" /\ (phase' = "over" <=> ended' # "no") /\ ended' # "goes on"
  BY <1>1, <1>3 DEF HandledAreClosed
<1>5. /\ log \in Seq({"use", "result"} \X Runs) /\ <<"result", r>> \in {"use", "result"} \X Runs
      /\ Len(log) \in Nat
  <2>1. log \in Seq({"use", "result"} \X Runs)
    BY DEF TypeOK
  <2> HIDE DEF r
  <2> QED  BY <1>2, <2>1
<1>6. ~Contains(log, <<"result", r>>)
  <2>1. ASSUME NEW k \in 1 .. handled, got[k] = r
        PROVE  FALSE
    <3>1. k \in 1 .. Len(order) /\ handled + 1 \in 1 .. Len(order) /\ k < handled + 1
      BY <1>1
    <3>2. order[k] < order[handled + 1] /\ order[k] \in Int /\ order[handled + 1] \in Int
      BY <3>1, Members DEF OrderIsTheAnswers, Ids
    <3>3. got[k] = Now(order[k])
      BY <1>1, <3>1 DEF CollectedInOrder
    <3> QED  BY <1>2, <2>1, <3>2, <3>3 DEF Now
  <2> QED  BY <1>2, <2>1 DEF LogIsOrdered
<1> HIDE DEF r
<1>7. \/ /\ log' = Append(log, <<"result", r>>) /\ Recorded(r)
         /\ handled' = handled + 1 /\ answered' = answered \cup {r[2]} /\ UNCHANGED failures
      \/ /\ log' = log /\ ~Recorded(r)
         /\ handled' = handled + 1 /\ answered' = answered \cup {r[2]} /\ UNCHANGED failures
      \/ /\ failures < MaxFailures /\ failures' = failures + 1
         /\ phase' = "over" /\ UNCHANGED <<log, handled, answered>>
  BY <1>2, <1>3 DEF RunsFollowTheirRecord
<1>8. /\ log' \in Seq({"use", "result"} \X Runs)
      /\ \A q \in Runs : Contains(log', <<"use", q>>) <=> Contains(log, <<"use", q>>)
      /\ \A q \in Runs : Contains(log, <<"result", q>>) => Contains(log', <<"result", q>>)
      /\ \A q \in Runs : Contains(log', <<"result", q>>) =>
           Contains(log, <<"result", q>>) \/ (q = r /\ handled' = handled + 1)
      /\ handled' = handled + 1 /\ Recorded(r) => Contains(log', <<"result", r>>)
  <2>1. CASE log' = Append(log, <<"result", r>>) /\ handled' = handled + 1
    <3>1. /\ log' \in Seq({"use", "result"} \X Runs)
          /\ \A y : Contains(log', y) <=> Contains(log, y) \/ y = <<"result", r>>
      BY <1>5, <2>1, AppendingToLog
    <3> QED  BY <2>1, <3>1
  <2>2. CASE log' = log /\ (handled' = handled + 1 => ~Recorded(r))
    BY <1>5, <2>2
  <2> QED  BY <1>1, <1>7, <2>1, <2>2
<1>9. TypeOK'
  <2>1. handled' \in 0 .. MaxCalls
    BY <1>1, <1>7, ToolTurnAssumption
  <2>2. failures' \in 0 .. MaxFailures
    <3>1. failures \in 0 .. MaxFailures
      BY DEF TypeOK
    <3> QED  BY <1>7, <3>1, ToolTurnAssumption
  <2>3. answered' \subseteq Ids
    BY <1>2, <1>7 DEF TypeOK
  <2>4. ended' \in {"no", "goes on", "resumes", "truncated", "interrupted", "failed", "not recorded"}
    BY <1>3, <1>4
  <2> QED  BY <1>3, <1>8, <2>1, <2>2, <2>3, <2>4 DEF TypeOK, exec
<1>10. OrderIsTheAnswers' /\ NoneIsForgotten'
  BY <1>3 DEF OrderIsTheAnswers, NoneIsForgotten, exec
<1>11. BegunWereTaken'
  BY <1>3 DEF BegunWereTaken, exec
<1>12. QueuedWait'
  <2>1. UNCHANGED <<order, queued, st, epoch>> /\ queued = <<>>
    BY <1>1, <1>3 DEF QueuedWait, exec
  <2> QED  BY <2>1 DEF QueuedWait, Now
<1>13. ChainedOnce'
  BY <1>3 DEF ChainedOnce, exec
<1>14. RunsFollowTheirRecord'
  BY <1>3, <1>8 DEF RunsFollowTheirRecord, exec, Recorded
<1>15. CompletedAreNow'
  BY <1>3 DEF CompletedAreNow, exec, Now
<1>16. CollectedInOrder'
  BY <1>1, <1>3 DEF CollectedInOrder, exec, Now
<1>17. LogIsOrdered'
  <2>1. \A k \in 1 .. Len(log') :
          /\ log'[k][1] = "result" => \E j \in 1 .. k - 1 : log'[j] = <<"use", log'[k][2]>>
          /\ \A j \in 1 .. k - 1 : log'[j] # log'[k]
    <3>1. CASE log' = log
      BY <3>1 DEF LogIsOrdered
    <3>2. CASE log' = Append(log, <<"result", r>>) /\ Recorded(r)
      <4>1. /\ Len(log') = Len(log) + 1 /\ log'[Len(log) + 1] = <<"result", r>>
            /\ \A k \in 1 .. Len(log) : log'[k] = log[k]
        BY <1>5, <3>2, AppendingToLog
      <4>2. \A k \in 1 .. Len(log') : k \in 1 .. Len(log) \/ k = Len(log) + 1
        BY <1>5, <4>1
      <4>3. \A k \in 1 .. Len(log) : \A j \in 1 .. k - 1 : j \in 1 .. Len(log)
        BY <1>5
      <4>4. \A k \in 1 .. Len(log) :
              /\ log'[k][1] = "result" => \E j \in 1 .. k - 1 : log'[j] = <<"use", log'[k][2]>>
              /\ \A j \in 1 .. k - 1 : log'[j] # log'[k]
        BY <4>1, <4>3 DEF LogIsOrdered
      <4>5. \A j \in 1 .. (Len(log) + 1) - 1 : log'[j] # log'[Len(log) + 1]
        <5>1. \A j \in 1 .. Len(log) : log[j] # <<"result", r>>
          BY <1>6 DEF Contains
        <5>2. (Len(log) + 1) - 1 = Len(log)
          BY <1>5
        <5> QED  BY <4>1, <5>1, <5>2
      <4>6. \E j \in 1 .. (Len(log) + 1) - 1 : log'[j] = <<"use", log'[Len(log) + 1][2]>>
        BY <1>5, <3>2, <4>1 DEF Recorded, Contains
      <4> QED  BY <4>2, <4>4, <4>5, <4>6
    <3> QED  BY <1>7, <3>1, <3>2
  <2>2. ASSUME NEW q \in Runs, Contains(log', <<"result", q>>)
        PROVE  \E k \in 1 .. handled' : got[k] = q
    <3>1. CASE Contains(log, <<"result", q>>)
      <4>1. PICK k \in 1 .. handled : got[k] = q
        BY <3>1 DEF LogIsOrdered
      <4>2. k \in 1 .. handled'
        BY <1>1, <1>7
      <4> QED  BY <4>1, <4>2
    <3>2. CASE q = r /\ handled' = handled + 1
      BY <1>1, <3>2 DEF r
    <3> QED  BY <1>8, <2>2, <3>1, <3>2
  <2> QED  BY <1>3, <2>1, <2>2 DEF LogIsOrdered
<1>18. HandledAreClosed'
  <2>1. handled' <= Len(got)
    BY <1>1, <1>7
  <2>2. ASSUME NEW k \in 1 .. handled'
        PROVE  /\ order[k] \in answered'
               /\ Recorded(got[k])' => Contains(log', <<"result", got[k]>>)
    <3>1. got' = got /\ got[k] \in Runs
      <4>1. k \in 1 .. Len(got)
        BY <1>1, <1>7, <2>1
      <4> QED  BY <1>3, <4>1, Members
    <3>2. CASE k \in 1 .. handled
      <4>1. order[k] \in answered /\ (Recorded(got[k]) => Contains(log, <<"result", got[k]>>))
        BY <3>2 DEF HandledAreClosed
      <4> QED  BY <1>7, <1>8, <3>1, <4>1 DEF Recorded
    <3>3. CASE k = handled + 1 /\ handled' = handled + 1
      <4>1. order[k] \in answered'
        BY <1>1, <1>2, <1>7, <3>3
      <4>2. got[k] = r
        BY <3>3 DEF r
      <4> QED  BY <1>2, <1>8, <3>1, <3>3, <4>1, <4>2 DEF Recorded
    <3> QED  BY <1>1, <1>7, <3>2, <3>3
  <2> QED  BY <1>3, <1>4, <2>1, <2>2 DEF HandledAreClosed, exec, Recorded
<1>19. EarlyAreHarmless'
  BY <1>1, <1>3 DEF EarlyAreHarmless, HandledAreClosed, Now, exec
<1> QED  BY <1>9, <1>10, <1>11, <1>12, <1>13, <1>14, <1>15, <1>16, <1>17, <1>18, <1>19

-----------------------------------------------------------------------------
(* Theorems *)

\* The invariant holds from the first call of a turn to its last result.
THEOREM TurnInvariant == Spec => []TurnInv
<1>1. Init => TurnInv
  <2> SUFFICES ASSUME Init PROVE TurnInv
    OBVIOUS
  <2>1. /\ <<>> \in Seq(Kind) /\ <<>> \in Seq(Ids) /\ <<>> \in Seq(Runs)
        /\ <<>> \in Seq({"use", "result"} \X Runs) /\ Len(<<>>) = 0
    BY EmptySeq
  <2>2. TypeOK
    <3>1. /\ 1 \in Epochs /\ 0 \in 0 .. MaxEpochs /\ 1 \in 1 .. MaxCalls + 1 /\ 0 \in 0 .. MaxCalls
          /\ 0 \in 0 .. MaxFailures
      BY ToolTurnAssumption DEF Epochs
    <3>2. /\ st \in [Runs -> {"none", "chained", "ready", "running", "done"}] /\ res \in [Runs -> Results]
          /\ chain \in [Epochs -> Seq(Ids)] /\ completed \in [Ids -> 0 .. MaxEpochs]
      BY <2>1, <3>1 DEF Init, Results
    <3> QED  BY <2>1, <3>1, <3>2 DEF Init, TypeOK
  <2>3. OrderIsTheAnswers /\ QueuedWait /\ NoneIsForgotten
    BY <2>1, ToolTurnAssumption DEF Init, OrderIsTheAnswers, QueuedWait, NoneIsForgotten
  <2>4. BegunWereTaken /\ CompletedAreNow
    BY DEF Init, BegunWereTaken, CompletedAreNow
  <2>5. ChainedOnce
    BY <2>1 DEF Init, ChainedOnce
  <2>6. RunsFollowTheirRecord
    BY <2>1 DEF Init, RunsFollowTheirRecord, Recorded, Contains
  <2>7. CollectedInOrder /\ HandledAreClosed
    BY <2>1 DEF Init, CollectedInOrder, HandledAreClosed
  <2>8. LogIsOrdered
    BY <2>1 DEF Init, LogIsOrdered, Contains
  <2>9. EarlyAreHarmless
    BY <2>1 DEF Init, EarlyAreHarmless
  <2> QED  BY <2>2, <2>3, <2>4, <2>5, <2>6, <2>7, <2>8, <2>9 DEF TurnInv
<1>2. TurnInv /\ [Next]_vars => TurnInv'
  <2> SUFFICES ASSUME TurnInv, [Next]_vars PROVE TurnInv'
    OBVIOUS
  <2>1. ASSUME NEW kind \in Kinds, AddTool(kind) PROVE TurnInv'
    BY <2>1, MalformedKeeps, TakingKeeps, ToolTurnAssumption
  <2>2. ASSUME NEW e \in Epochs, RecordUse(e) PROVE TurnInv'
    BY <2>2, RecordingKeeps
  <2>3. ASSUME NEW r \in Runs, Start(r) \/ Skip(r) \/ Finish(r) PROVE TurnInv'
    BY <2>3, StartingKeeps, SettlingKeeps
  <2>4. CASE ModelFallback \/ ChatInstead
    BY <2>4, DiscardingKeeps
  <2>5. CASE StreamFails \/ Loop \/ Abort
    BY <2>5, PhasesKeep, DispatchKeeps, DispatchWholeKeeps, CollectKeeps, HandleKeeps DEF Loop
  <2>6. CASE UNCHANGED vars
    <3> USE <2>6 DEF TurnInv, vars, exec, loop
    <3>1. TypeOK'
      BY DEF TypeOK
    <3>2. OrderIsTheAnswers' /\ NoneIsForgotten' /\ BegunWereTaken'
      BY DEF OrderIsTheAnswers, NoneIsForgotten, BegunWereTaken
    <3>3. QueuedWait'
      BY DEF QueuedWait, Now
    <3>4. ChainedOnce'
      BY DEF ChainedOnce
    <3>5. RunsFollowTheirRecord'
      BY DEF RunsFollowTheirRecord, Recorded
    <3>6. CompletedAreNow'
      BY DEF CompletedAreNow, Now
    <3>7. CollectedInOrder'
      BY DEF CollectedInOrder, Now
    <3>8. LogIsOrdered'
      BY DEF LogIsOrdered
    <3>9. HandledAreClosed'
      BY DEF HandledAreClosed, Recorded
    <3>10. EarlyAreHarmless'
      BY DEF EarlyAreHarmless, Now
    <3> QED  BY <3>1, <3>2, <3>3, <3>4, <3>5, <3>6, <3>7, <3>8, <3>9, <3>10
  <2> QED  BY <2>1, <2>2, <2>3, <2>4, <2>5, <2>6 DEF Next
<1> QED  BY <1>1, <1>2, PTL DEF Spec

\* No call with side effects runs for an answer that may be taken back, and whatever runs has
\* its use in the transcript, however many calls, models and failed writes there are.
THEOREM RunsAreSafe == Spec => []RunsAreSafeAndRecorded
<1>1. TurnInv => RunsAreSafeAndRecorded
  <2> SUFFICES ASSUME TurnInv PROVE RunsAreSafeAndRecorded
    OBVIOUS
  <2> USE DEF TurnInv
  <2>1. \A r \in Runs : Ran(r) => Recorded(r)
    BY DEF RunsFollowTheirRecord, Ran
  <2>2. \A r \in Runs : Ran(r) => st[r] # "none" /\ res[r] # "rejected"
    BY DEF RunsFollowTheirRecord, Ran
  <2>3. phase = "streaming" =>
          \A i \in 1 .. Len(calls) : Ran(Now(i)) =>
            calls[i] = "read" /\ \A j \in 1 .. i - 1 : calls[j] # "exclusive"
    BY <2>2, CallsAreIds DEF EarlyAreHarmless
  <2> QED  BY <2>1, <2>3 DEF RunsAreSafeAndRecorded, LogIsOrdered
<1> QED  BY <1>1, TurnInvariant, PTL

\* The results that the loop handles are those of this answer, one per call, in order.
THEOREM ResultsInOrder == Spec => []ResultsOfThisAnswerInOrder
<1>1. TurnInv => ResultsOfThisAnswerInOrder
  BY DEF TurnInv, CollectedInOrder, ResultsOfThisAnswerInOrder
<1> QED  BY <1>1, TurnInvariant, PTL

\* A turn that goes on with the results has answered every call it took, and closed those it
\* recorded; one whose answer was cut off leaves calls open, and only harmless ones have run.
THEOREM TurnsAreClosed == Spec => []TurnIsClosed
<1>1. TurnInv => TurnIsClosed
  <2> SUFFICES ASSUME TurnInv PROVE TurnIsClosed
    OBVIOUS
  <2> USE DEF TurnInv
  <2>1. ASSUME ended = "goes on"
        PROVE  /\ Range(order) \subseteq answered
               /\ \A i \in Range(order) : Recorded(Now(i)) => Contains(log, <<"result", Now(i)>>)
    <3>1. handled = Len(order) /\ Range(order) = {order[k] : k \in 1 .. Len(order)}
      BY <2>1, Lengths DEF HandledAreClosed
    <3>2. \A k \in 1 .. Len(order) : got[k] = Now(order[k])
      BY <3>1, HandledWereGot DEF CollectedInOrder
    <3> QED  BY <3>1, <3>2 DEF HandledAreClosed
  <2>2. ASSUME ended \in {"resumes", "truncated"}
        PROVE  \A i \in 1 .. Len(calls) : Ran(Now(i)) => calls[i] = "read"
    <3>1. \A r \in Runs : Ran(r) => st[r] # "none" /\ res[r] # "rejected"
      BY DEF RunsFollowTheirRecord, Ran
    <3> QED  BY <2>2, <3>1, CallsAreIds DEF EarlyAreHarmless
  <2> QED  BY <2>1, <2>2 DEF TurnIsClosed
<1> QED  BY <1>1, TurnInvariant, PTL

-----------------------------------------------------------------------------
(* The questions of tools *)

\* The runtime's inbox, or anything while there is none to overwrite the file.
Held == IF runtime.on THEN runtime.inbox ELSE Messages

\* Messages that no acknowledgement and no other inbox over the file takes away unseen.
Safe(S) == S \subseteq acked \cup behind \cup (file \cap Held)

AnswersAreSafe ==
  /\ Safe(recovered) /\ Safe(recovery.inbox) /\ file \subseteq acked \cup behind \cup Held
  /\ recovery.step = "enqueue" => recovered \subseteq acked \cup behind \cup recovery.inbox
  /\ recovery.step = "record" => Safe({Doing})
  /\ run.stage = "ending" => run.taken \subseteq acked
  /\ run.stage # "none" => runtime.on

\* One question is open at a time, and the clients are asked the open one.
OneIsOpen == \A c, d \in Pending : c = d

\* How far a call is, against what the transcript says of its question.
CallsAndRecord ==
  \A c \in Calls :
    /\ call[c] \in {"new", "asking"} => c \notin ToSet(asked)
    /\ said[c] # None \/ c \in recovered => c \in ToSet(asked)
    /\ call[c] \in {"allowed", "answered", "done"} => c \notin Pending
    /\ call[c] = "allowed" => said[c] = "allow"
    /\ call[c] = "waiting" => slot = c
    /\ results[c] \notin {<<>>, <<"recovery">>} => call[c] = "done"

SlotIsOpen == slot # None => call[slot] = "waiting" /\ slot \in Pending

\* A recovery holds the lock, and does answers whose calls it has not closed twice.
RecoveryHasTheLock ==
  /\ recovery.step = "read" => recovery = NoRecovery
  /\ recovery.step # "read" => Holds("recover") /\ Doing \in recovery.todo
  /\ \A d \in recovery.todo :
       /\ said[d] # None
       /\ results[d] = <<"tool", "recovery">> => d = Doing /\ recovery.step # "close"

OpAt(i, do, c) == lock[i].do = do /\ lock[i].call = c

\* What waits for the lock fits how far its call is, and nothing waits twice.
LockFits ==
  \A i \in 1 .. Len(lock) :
    /\ lock[i].do # "recover" => lock[i].call \in Calls
    /\ lock[i].do = "recover" => lock[i].reply \in {None, "stream"}
    /\ lock[i].do = "request" => call[lock[i].call] = "asking"
    /\ lock[i].do = "settle" => call[lock[i].call] = "settling" /\ lock[i].reply \in Replies
    /\ lock[i].do \in {"answer", "late"} => lock[i].reply \in {"allow", "deny"}
    /\ lock[i].do = "late" =>
         /\ lock[i].call \in ToSet(asked) /\ lock[i].call # slot
         /\ call[lock[i].call] = "settling" => \E j \in 1 .. i - 1 : OpAt(j, "settle", lock[i].call)
    /\ lock[i].do \in {"request", "settle"} =>
         \A j \in 1 .. i - 1 : ~OpAt(j, lock[i].do, lock[i].call)

SettlingIsQueued ==
  \A c \in Calls : call[c] = "settling" => \E i \in 1 .. Len(lock) : OpAt(i, "settle", c)

\* Answers that wait for the lock, and those that are recorded or about to be.
Posted(i, c, reply) == (OpAt(i, "answer", c) \/ OpAt(i, "late", c)) /\ lock[i].reply = reply

Given(c, reply) ==
  said[c] = reply \/ \E i \in 1 .. Len(lock) : OpAt(i, "settle", c) /\ lock[i].reply = reply

\* Without repeated answers, each one waits, or is recorded, once and was posted.
EachAnswerOnce ==
  \A c \in Calls : \A reply \in {"allow", "deny"} :
    /\ \A i \in 1 .. Len(lock) : Posted(i, c, reply) =>
         <<c, reply>> \in ToSet(answers) /\ \A j \in 1 .. i - 1 : ~Posted(j, c, reply)
    /\ Given(c, reply) =>
         <<c, reply>> \in ToSet(answers) /\ \A i \in 1 .. Len(lock) : ~Posted(i, c, reply)

Gone(c) == call[c] \in {"lost", "done"}

\* While the question of a lost call is open, no other call of the transcript is alive.
OrphansAreAlone ==
  \A e \in Pending : call[e] = "lost" =>
    /\ \A c \in ToSet(asked) : Gone(c)
    /\ \A i \in 1 .. Len(lock) : lock[i].do \notin {"answer", "settle"}

OwnRecovery(i) == lock[i].do = "recover" /\ lock[i].reply = None

\* A recovery that a late answer queued closes only calls that are over.
RecoverTheLost ==
  /\ \A i \in 1 .. Len(lock) : OwnRecovery(i) =>
       /\ \A j \in 1 .. i - 1 : lock[j].do \in {"request", "late", "recover"}
       /\ \A c \in Calls : Recoverable(c) => Gone(c)
  /\ recovery.step # "read" /\ lock[1].reply = None => \A c \in recovery.todo : Gone(c)

RecordInv ==
  /\ OneIsOpen /\ CallsAndRecord /\ SlotIsOpen /\ RecoveryHasTheLock /\ LockFits /\ SettlingIsQueued
  /\ OrphansAreAlone
  /\ IsInjective(answers) => EachAnswerOnce /\ RecoverTheLost

QuestionsInv == QuestionsTypeOK /\ AnswersAreSafe /\ RecordInv
-----------------------------------------------------------------------------
(* Sequences *)

LEMMA AskedAppended ==
  ASSUME NEW S, NEW s \in Seq(S), NEW x \in S
  PROVE  /\ ToSet(Append(s, x)) = ToSet(s) \cup {x} /\ Append(s, x) \in Seq(S)
         /\ IsInjective(s) /\ x \notin ToSet(s) => IsInjective(Append(s, x))
         /\ IsInjective(Append(s, x)) => IsInjective(s) /\ x \notin ToSet(s)
<1>1. /\ Append(s, x) \in Seq(S) /\ Len(s) \in Nat /\ Len(Append(s, x)) = Len(s) + 1
      /\ \A i \in 1 .. Len(s) : Append(s, x)[i] = s[i]
      /\ Append(s, x)[Len(s) + 1] = x
  OBVIOUS
<1>2. DOMAIN s = 1 .. Len(s) /\ DOMAIN Append(s, x) = 1 .. Len(s) + 1
  BY <1>1, LenProperties
<1>3. /\ \A i \in DOMAIN s : i \in DOMAIN Append(s, x) /\ Append(s, x)[i] = s[i]
      /\ \A i \in DOMAIN Append(s, x) : i \in DOMAIN s \/ i = Len(s) + 1
      /\ Len(s) + 1 \in DOMAIN Append(s, x) /\ Len(s) + 1 \notin DOMAIN s
  BY <1>1, <1>2
<1> DEFINE t == Append(s, x)
           n == Len(s) + 1
<1>4. t[n] = x /\ ToSet(s) = {s[i] : i \in DOMAIN s} /\ ToSet(t) = {t[i] : i \in DOMAIN t}
  BY <1>1 DEF ToSet
<1> HIDE DEF t, n
<1>5. ToSet(t) = ToSet(s) \cup {x}
  BY <1>3, <1>4 DEF t, n
<1>6. IsInjective(s) /\ x \notin ToSet(s) => IsInjective(t)
  BY <1>3, <1>4 DEF t, n, IsInjective
<1>7. IsInjective(t) => IsInjective(s) /\ x \notin ToSet(s)
  BY <1>3, <1>4 DEF t, n, IsInjective
<1> QED  BY <1>1, <1>5, <1>6, <1>7 DEF t

LEMMA Appended ==
  ASSUME NEW S, NEW s \in Seq(S), NEW x \in S
  PROVE  /\ Append(s, x) \in Seq(S) /\ Len(Append(s, x)) = Len(s) + 1
         /\ \A i \in 1 .. Len(s) : Append(s, x)[i] = s[i]
         /\ Append(s, x)[Len(s) + 1] = x
OBVIOUS

LEMMA AppendedToOne ==
  ASSUME NEW x, NEW y
  PROVE  Append(<<x>>, y) = <<x, y>>
<1> DEFINE s == <<x>>
           t == <<x, y>>
           S == {x, y}
<1>1. s \in Seq(S) /\ Len(s) = 1 /\ s[1] = x /\ y \in S
  OBVIOUS
<1>2. t \in Seq(S) /\ Len(t) = 2 /\ t[1] = x /\ t[2] = y
  OBVIOUS
<1> HIDE DEF s, t, S
<1>3. Append(s, y) \in Seq(S) /\ Len(Append(s, y)) = 2 /\ Append(s, y)[1] = x /\ Append(s, y)[2] = y
  <2>1. /\ Append(s, y) \in Seq(S) /\ Len(Append(s, y)) = Len(s) + 1
        /\ \A i \in 1 .. Len(s) : Append(s, y)[i] = s[i]
        /\ Append(s, y)[Len(s) + 1] = y
    BY <1>1, Appended
  <2>2. Len(s) + 1 = 2 /\ 1 \in 1 .. Len(s)
    BY <1>1
  <2> QED  BY <1>1, <2>1, <2>2
<1>4. \A i \in 1 .. 2 : i = 1 \/ i = 2
  OBVIOUS
<1>5. Append(s, y) = t
  BY <1>2, <1>3, <1>4, SeqEqual
<1> QED  BY <1>5 DEF s, t

\* The lock loses its first d operations, and may get one at the end of the n others.
LockMoves(d, n) ==
  /\ lock' \in Seq(Operations) /\ d \in {0, 1} /\ n \in Nat /\ Len(lock) = n + d
  /\ Len(lock') \in {n, n + 1}
  /\ \A i \in 1 .. n : lock'[i] = lock[i + d]

LEMMA LockQueued ==
  ASSUME lock \in Seq(Operations), NEW op \in Operations, lock' = Append(lock, op)
  PROVE  LockMoves(0, Len(lock)) /\ Len(lock') = Len(lock) + 1 /\ lock'[Len(lock) + 1] = op
BY DEF LockMoves

LEMMA LockLeft ==
  ASSUME lock \in Seq(Operations), lock # <<>>, lock' = Tail(lock)
  PROVE  /\ LockMoves(1, Len(lock) - 1) /\ lock' \in Seq(Operations)
         /\ Len(lock') = Len(lock) - 1 /\ Len(lock) \in Nat /\ ~(Len(lock') = (Len(lock) - 1) + 1)
         /\ Head(lock) = lock[1] /\ lock[1] \in Operations /\ 1 \in 1 .. Len(lock)
BY DEF LockMoves

LEMMA LockPassed ==
  ASSUME lock \in Seq(Operations), lock # <<>>, NEW op \in Operations,
         lock' = Append(Tail(lock), op)
  PROVE  /\ LockMoves(1, Len(lock) - 1) /\ Len(lock') = Len(lock) /\ Len(lock) \in Nat
         /\ Head(lock) = lock[1] /\ lock[1] \in Operations /\ 1 \in 1 .. Len(lock)
         /\ lock'[Len(lock)] = op
<1> DEFINE t == Tail(lock)
<1>1. /\ t \in Seq(Operations) /\ Len(lock) \in Nat /\ Len(t) = Len(lock) - 1 /\ Len(lock) >= 1
      /\ Head(lock) = lock[1] /\ lock[1] \in Operations
      /\ \A i \in 1 .. Len(lock) - 1 : t[i] = lock[i + 1]
  OBVIOUS
<1> HIDE DEF t
<1>2. /\ Append(t, op) \in Seq(Operations) /\ Len(Append(t, op)) = Len(t) + 1
      /\ \A i \in 1 .. Len(t) : Append(t, op)[i] = t[i]
      /\ Append(t, op)[Len(t) + 1] = op
  BY <1>1
<1>3. lock' = Append(t, op) /\ Len(t) + 1 = Len(lock)
  BY <1>1 DEF t
<1> QED  BY <1>1, <1>2, <1>3 DEF LockMoves

\* Where the operations that stay were, and where they go.
LEMMA Kept ==
  ASSUME NEW d, NEW n, LockMoves(d, n), NEW i \in 1 .. n
  PROVE  /\ i + d \in 1 .. Len(lock) /\ i + d \in d + 1 .. Len(lock) /\ lock'[i] = lock[i + d]
         /\ d = 1 => 1 \in 1 .. (i + d) - 1
<1>1. /\ d = 0 \/ d = 1
      /\ n \in Nat /\ Len(lock) = n + d /\ lock'[i] = lock[i + d]
  BY DEF LockMoves
<1>2. CASE d = 0
  BY <1>1, <1>2
<1>3. CASE d = 1
  BY <1>1, <1>3
<1> QED  BY <1>1, <1>2, <1>3

LEMMA KeptBefore ==
  ASSUME NEW d, NEW n, LockMoves(d, n), NEW i \in 1 .. n, NEW j \in 1 .. i - 1
  PROVE  j \in 1 .. n /\ j + d \in 1 .. (i + d) - 1 /\ lock'[j] = lock[j + d]
<1>1. /\ d = 0 \/ d = 1
      /\ n \in Nat /\ \A k \in 1 .. n : lock'[k] = lock[k + d]
  BY DEF LockMoves
<1>2. CASE d = 0
  BY <1>1, <1>2
<1>3. CASE d = 1
  BY <1>1, <1>3
<1> QED  BY <1>1, <1>2, <1>3

LEMMA BeforeKept ==
  ASSUME NEW d, NEW n, LockMoves(d, n), NEW i \in 1 .. n, NEW j \in 1 .. (i + d) - 1, j # 1 \/ d = 0
  PROVE  j - d \in 1 .. i - 1 /\ lock'[j - d] = lock[j]
<1>1. /\ d = 0 \/ d = 1
      /\ n \in Nat /\ \A k \in 1 .. n : lock'[k] = lock[k + d]
  BY DEF LockMoves
<1>2. CASE d = 0
  BY <1>1, <1>2
<1>3. CASE d = 1
  <2>1. j - 1 \in 1 .. i - 1 /\ j - 1 \in 1 .. n /\ (j - 1) + 1 = j
    BY <1>1, <1>3
  <2> QED  BY <1>1, <1>3, <2>1
<1> QED  BY <1>1, <1>2, <1>3

LEMMA Remaining ==
  ASSUME NEW d, NEW n, LockMoves(d, n), NEW j \in 1 .. Len(lock), j # 1 \/ d = 0
  PROVE  /\ j \in d + 1 .. Len(lock) /\ j - d \in 1 .. n /\ j - d \in 1 .. (n + 1) - 1
         /\ j - d \in 1 .. Len(lock') /\ lock'[j - d] = lock[j]
<1>1. /\ d = 0 \/ d = 1
      /\ n \in Nat /\ Len(lock) = n + d /\ \A k \in 1 .. n : lock'[k] = lock[k + d]
      /\ Len(lock') \in {n, n + 1}
  BY DEF LockMoves
<1>2. CASE d = 0
  BY <1>1, <1>2
<1>3. CASE d = 1
  <2>1. j - 1 \in 1 .. n /\ (j - 1) + 1 = j
    BY <1>1, <1>3
  <2> QED  BY <1>1, <1>3, <2>1
<1> QED  BY <1>1, <1>2, <1>3

LEMMA Ends ==
  ASSUME NEW d, NEW n, LockMoves(d, n)
  PROVE  /\ d = 0 \/ d = 1
         /\ \A i \in 1 .. Len(lock') : i \in 1 .. n \/ (i = n + 1 /\ Len(lock') = n + 1)
         /\ \A i \in 1 .. (n + 1) - 1 : i \in 1 .. n
         /\ \A i \in d + 1 .. Len(lock) : i \in 1 .. Len(lock) /\ (i # 1 \/ d = 0)
         /\ Len(lock') = n + 1 => n + 1 \in 1 .. Len(lock')
         /\ d = 1 => 1 \in 1 .. Len(lock)
BY DEF LockMoves

\* An operation that stays, and one that joins behind those that stay, fit the next state.
Stays(i, d) ==
  /\ lock[i].do = "request" => call'[lock[i].call] = "asking"
  /\ lock[i].do = "settle" => call'[lock[i].call] = "settling"
  /\ lock[i].do = "late" =>
       /\ lock[i].call \in ToSet(asked') /\ lock[i].call # slot'
       /\ call'[lock[i].call] = "settling" =>
            call[lock[i].call] = "settling" /\ (d = 1 => ~OpAt(1, "settle", lock[i].call))

Joins(op, d) ==
  /\ op.do # "recover" => op.call \in Calls
  /\ op.do = "recover" => op.reply \in {None, "stream"}
  /\ op.do = "request" => call'[op.call] = "asking"
  /\ op.do = "settle" => call'[op.call] = "settling" /\ op.reply \in Replies
  /\ op.do \in {"answer", "late"} => op.reply \in {"allow", "deny"}
  /\ op.do = "late" =>
       /\ op.call \in ToSet(asked') /\ op.call # slot'
       /\ call'[op.call] = "settling" =>
            \E j \in d + 1 .. Len(lock) : OpAt(j, "settle", op.call)
  /\ op.do \in {"request", "settle"} =>
       \A j \in d + 1 .. Len(lock) : ~OpAt(j, op.do, op.call)

\* The operation, if any, that ends up last.
AddedLast(op, n) == Len(lock') = n + 1 => lock'[n + 1] = op

LEMMA LockFitsAfter ==
  ASSUME LockFits, NEW d, NEW n, LockMoves(d, n), NEW op, AddedLast(op, n),
         \A i \in d + 1 .. Len(lock) : Stays(i, d),
         Len(lock') = n + 1 => Joins(op, d)
  PROVE  LockFits'
<1> DEFINE Fits(i) ==
             /\ lock'[i].do # "recover" => lock'[i].call \in Calls
             /\ lock'[i].do = "recover" => lock'[i].reply \in {None, "stream"}
             /\ lock'[i].do = "request" => call'[lock'[i].call] = "asking"
             /\ lock'[i].do = "settle" => call'[lock'[i].call] = "settling" /\ lock'[i].reply \in Replies
             /\ lock'[i].do \in {"answer", "late"} => lock'[i].reply \in {"allow", "deny"}
             /\ lock'[i].do = "late" =>
                  /\ lock'[i].call \in ToSet(asked') /\ lock'[i].call # slot'
                  /\ call'[lock'[i].call] = "settling" =>
                       \E j \in 1 .. i - 1 : lock'[j].do = "settle" /\ lock'[j].call = lock'[i].call
             /\ lock'[i].do \in {"request", "settle"} =>
                  \A j \in 1 .. i - 1 : ~(lock'[j].do = lock'[i].do /\ lock'[j].call = lock'[i].call)
<1>1. ASSUME NEW i \in 1 .. n PROVE Fits(i)
  <2>1. /\ i + d \in d + 1 .. Len(lock) /\ i + d \in 1 .. Len(lock) /\ lock'[i] = lock[i + d]
    BY Kept
  <2>2. ASSUME lock[i + d].do = "late", call'[lock[i + d].call] = "settling"
        PROVE  \E j \in 1 .. i - 1 : lock'[j].do = "settle" /\ lock'[j].call = lock[i + d].call
    <3>1. call[lock[i + d].call] = "settling" /\ (d = 1 => ~OpAt(1, "settle", lock[i + d].call))
      BY <2>1, <2>2 DEF Stays
    <3>2. PICK j \in 1 .. (i + d) - 1 : OpAt(j, "settle", lock[i + d].call)
      BY <2>1, <2>2, <3>1, Zenon DEF LockFits
    <3>3. j # 1 \/ d = 0
      BY <3>1, <3>2, Ends
    <3>4. j - d \in 1 .. i - 1 /\ lock'[j - d] = lock[j]
      BY <3>3, BeforeKept
    <3> QED  BY <3>2, <3>4, Zenon DEF OpAt
  <2>3. ASSUME lock[i + d].do \in {"request", "settle"}, NEW j \in 1 .. i - 1
        PROVE  ~(lock'[j].do = lock[i + d].do /\ lock'[j].call = lock[i + d].call)
    <3>1. j + d \in 1 .. (i + d) - 1 /\ lock'[j] = lock[j + d]
      BY KeptBefore
    <3>2. ~OpAt(j + d, lock[i + d].do, lock[i + d].call)
      BY <2>1, <2>3, <3>1, Zenon DEF LockFits
    <3> QED  BY <3>1, <3>2 DEF OpAt
  <2>4. /\ lock[i + d].do # "recover" => lock[i + d].call \in Calls
        /\ lock[i + d].do = "recover" => lock[i + d].reply \in {None, "stream"}
        /\ lock[i + d].do = "settle" => lock[i + d].reply \in Replies
        /\ lock[i + d].do \in {"answer", "late"} => lock[i + d].reply \in {"allow", "deny"}
    BY <2>1, Zenon DEF LockFits
  <2> QED  BY <2>1, <2>2, <2>3, <2>4 DEF Stays
<1>2. ASSUME Len(lock') = n + 1 PROVE Fits(n + 1)
  <2>1. ASSUME op.do = "late", call'[op.call] = "settling"
        PROVE  \E j \in 1 .. (n + 1) - 1 : lock'[j].do = "settle" /\ lock'[j].call = op.call
    <3>1. PICK j \in d + 1 .. Len(lock) : OpAt(j, "settle", op.call)
      BY <1>2, <2>1 DEF Joins
    <3>2. j \in 1 .. Len(lock) /\ (j # 1 \/ d = 0)
      BY Ends
    <3>3. j - d \in 1 .. (n + 1) - 1 /\ lock'[j - d] = lock[j]
      BY <3>2, Remaining
    <3> QED  BY <3>1, <3>3, Zenon DEF OpAt
  <2>2. ASSUME op.do \in {"request", "settle"}, NEW j \in 1 .. (n + 1) - 1
        PROVE  ~(lock'[j].do = op.do /\ lock'[j].call = op.call)
    <3>1. j \in 1 .. n
      BY Ends
    <3>2. j + d \in d + 1 .. Len(lock) /\ lock'[j] = lock[j + d]
      BY <3>1, Kept
    <3> QED  BY <1>2, <2>2, <3>2 DEF OpAt, Joins
  <2> QED  BY <1>2, <2>1, <2>2 DEF Joins, AddedLast
<1>3. \A i \in 1 .. Len(lock') : i \in 1 .. n \/ (i = n + 1 /\ Len(lock') = n + 1)
  BY Ends
<1>4. \A i \in 1 .. Len(lock') : Fits(i)
  <2> HIDE DEF Fits
  <2> QED  BY <1>1, <1>2, <1>3, Zenon
<1> QED  BY <1>4, Zenon DEF LockFits, OpAt, None

LEMMA SettlingAfter ==
  ASSUME SettlingIsQueued, NEW d, NEW n, LockMoves(d, n), NEW op,
         AddedLast(op, n),
         \A c \in Calls : call'[c] = "settling" =>
           \/ call[c] = "settling" /\ (d = 1 => ~OpAt(1, "settle", c))
           \/ Len(lock') = n + 1 /\ op.do = "settle" /\ op.call = c
  PROVE  SettlingIsQueued'
<1> SUFFICES ASSUME NEW c \in Calls, call'[c] = "settling"
             PROVE  \E i \in 1 .. Len(lock') : lock'[i].do = "settle" /\ lock'[i].call = c
  BY DEF SettlingIsQueued, OpAt
<1>1. CASE call[c] = "settling" /\ (d = 1 => ~OpAt(1, "settle", c))
  <2>1. PICK j \in 1 .. Len(lock) : OpAt(j, "settle", c)
    BY <1>1 DEF SettlingIsQueued
  <2>2. j # 1 \/ d = 0
    BY <1>1, <2>1, Ends
  <2>3. j - d \in 1 .. Len(lock') /\ lock'[j - d] = lock[j]
    BY <2>2, Remaining
  <2> QED  BY <2>1, <2>3, Zenon DEF OpAt
<1>2. CASE Len(lock') = n + 1 /\ op.do = "settle" /\ op.call = c
  <2>1. n + 1 \in 1 .. Len(lock') /\ lock'[n + 1] = op
    BY <1>2, Ends DEF AddedLast
  <2> QED  BY <1>2, <2>1, Zenon
<1> QED  BY <1>1, <1>2

\* Answers stay posted, recorded or settled once if a new one was not posted before and
\* an answer is recorded or settled only by the operation that leaves.
LEMMA AnswersAfter ==
  ASSUME EachAnswerOnce, NEW d, NEW n, LockMoves(d, n), NEW op,
         AddedLast(op, n),
         ToSet(answers) \subseteq ToSet(answers'),
         Len(lock') = n + 1 /\ op.do \in {"answer", "late"} =>
           <<op.call, op.reply>> \in ToSet(answers') \ ToSet(answers),
         \A c \in Calls : \A reply \in {"allow", "deny"} : Given(c, reply)' =>
           Given(c, reply) \/ (d = 1 /\ Posted(1, c, reply))
  PROVE  EachAnswerOnce'
<1> SUFFICES ASSUME NEW c \in Calls, NEW reply \in {"allow", "deny"}
             PROVE  /\ \A i \in 1 .. Len(lock') : Posted(i, c, reply)' =>
                         /\ <<c, reply>> \in ToSet(answers')
                         /\ \A j \in 1 .. i - 1 : ~Posted(j, c, reply)'
                    /\ Given(c, reply)' =>
                         /\ <<c, reply>> \in ToSet(answers')
                         /\ \A i \in 1 .. Len(lock') : ~Posted(i, c, reply)'
  BY DEF EachAnswerOnce
<1>1. \A i \in 1 .. Len(lock') : i \in 1 .. n \/ (i = n + 1 /\ Len(lock') = n + 1)
  BY Ends
<1>2. \A i \in 1 .. n : i + d \in 1 .. Len(lock) /\ (Posted(i, c, reply)' <=> Posted(i + d, c, reply))
  <2> SUFFICES ASSUME NEW i \in 1 .. n
               PROVE  i + d \in 1 .. Len(lock) /\ (Posted(i, c, reply)' <=> Posted(i + d, c, reply))
    OBVIOUS
  <2>1. i + d \in 1 .. Len(lock) /\ lock'[i] = lock[i + d]
    BY Kept
  <2> QED  BY <2>1 DEF Posted, OpAt
<1>3. \A i \in 1 .. n : \A j \in 1 .. i - 1 : j \in 1 .. n /\ j + d \in 1 .. (i + d) - 1
  BY KeptBefore
<1>4. d = 1 => 1 \in 1 .. Len(lock) /\ \A i \in 1 .. n : 1 \in 1 .. (i + d) - 1
  BY Kept, Ends
<1>5. Len(lock') = n + 1 /\ Posted(n + 1, c, reply)' =>
        <<c, reply>> \in ToSet(answers') \ ToSet(answers)
  BY DEF Posted, OpAt, AddedLast
<1>6. \A i \in 1 .. Len(lock) : Posted(i, c, reply) =>
        <<c, reply>> \in ToSet(answers) /\ \A j \in 1 .. i - 1 : ~Posted(j, c, reply)
  BY DEF EachAnswerOnce
<1>7. Given(c, reply) =>
        <<c, reply>> \in ToSet(answers) /\ \A i \in 1 .. Len(lock) : ~Posted(i, c, reply)
  BY DEF EachAnswerOnce
<1>8. ASSUME NEW i \in 1 .. Len(lock'), Posted(i, c, reply)'
      PROVE  <<c, reply>> \in ToSet(answers') /\ \A j \in 1 .. i - 1 : ~Posted(j, c, reply)'
  <2>1. CASE i \in 1 .. n
    BY <1>2, <1>6, <1>8, <1>3, <2>1
  <2>2. CASE i = n + 1 /\ Len(lock') = n + 1
    <3>1. <<c, reply>> \in ToSet(answers') \ ToSet(answers)
      BY <1>5, <1>8, <2>2
    <3>2. \A j \in 1 .. i - 1 : j \in 1 .. n
      BY <2>2, Ends
    <3> QED  BY <1>2, <1>6, <3>1, <3>2
  <2> QED  BY <1>1, <2>1, <2>2
<1>9. ASSUME Given(c, reply)'
      PROVE  <<c, reply>> \in ToSet(answers') /\ \A i \in 1 .. Len(lock') : ~Posted(i, c, reply)'
  <2>1. CASE Given(c, reply)
    BY <1>1, <1>2, <1>5, <1>7, <2>1
  <2>2. CASE d = 1 /\ Posted(1, c, reply)
    <3>1. 1 \in 1 .. Len(lock) /\ <<c, reply>> \in ToSet(answers)
      BY <1>6, <2>2, Ends
    <3> QED  BY <1>1, <1>2, <1>5, <1>6, <1>4, <2>2, <3>1
  <2> QED  BY <1>9, <2>1, <2>2
<1> QED  BY <1>8, <1>9

LEMMA RecoveriesAfter ==
  ASSUME RecoverTheLost, NEW d, NEW n, LockMoves(d, n), NEW op,
         AddedLast(op, n),
         Len(lock') = n + 1 /\ op.do = "recover" /\ op.reply = None =>
           \A j \in d + 1 .. Len(lock) : lock[j].do \in {"request", "late", "recover"},
         \/ \E i \in d + 1 .. Len(lock) : OwnRecovery(i)
         \/ Len(lock') = n + 1 /\ op.do = "recover" /\ op.reply = None
         => \A c \in Calls : Recoverable(c)' => Gone(c)',
         recovery'.step # "read" /\ lock'[1].reply = None => \A c \in recovery'.todo : Gone(c)'
  PROVE  RecoverTheLost'
<1> SUFFICES ASSUME NEW i \in 1 .. Len(lock'), OwnRecovery(i)'
             PROVE  /\ \A j \in 1 .. i - 1 : lock'[j].do \in {"request", "late", "recover"}
                    /\ \A c \in Calls : Recoverable(c)' => Gone(c)'
  BY DEF RecoverTheLost
<1>2. CASE i \in 1 .. n
  <2>1. i + d \in 1 .. Len(lock) /\ i + d \in d + 1 .. Len(lock) /\ lock'[i] = lock[i + d]
    BY <1>2, Kept
  <2>2. \A j \in 1 .. i - 1 : j + d \in 1 .. (i + d) - 1 /\ lock'[j] = lock[j + d]
    BY <1>2, KeptBefore
  <2>3. OwnRecovery(i + d)
    BY <2>1 DEF OwnRecovery
  <2> QED  BY <2>1, <2>2, <2>3 DEF RecoverTheLost
<1>3. CASE i = n + 1 /\ Len(lock') = n + 1
  <2>1. \A j \in 1 .. i - 1 : j + d \in d + 1 .. Len(lock) /\ lock'[j] = lock[j + d]
    BY <1>3, Kept, Ends
  <2>2. op.do = "recover" /\ op.reply = None
    BY <1>3 DEF OwnRecovery, AddedLast
  <2> QED  BY <1>3, <2>1, <2>2
<1>4. i \in 1 .. n \/ (i = n + 1 /\ Len(lock') = n + 1)
  BY Ends
<1> QED  BY <1>2, <1>3, <1>4


LEMMA GivenAfter ==
  ASSUME NEW d, NEW n, LockMoves(d, n), NEW op, AddedLast(op, n), NEW c \in Calls, NEW reply,
         Given(c, reply)'
  PROVE  \/ said'[c] = reply \/ Given(c, reply)
         \/ Len(lock') = n + 1 /\ op.do = "settle" /\ op.call = c /\ op.reply = reply
<1> SUFFICES ASSUME NEW i \in 1 .. Len(lock'), OpAt(i, "settle", c)', lock'[i].reply = reply
             PROVE  \/ Given(c, reply)
                    \/ Len(lock') = n + 1 /\ op.do = "settle" /\ op.call = c /\ op.reply = reply
  BY DEF Given
<1>1. CASE i \in 1 .. n
  <2>1. i + d \in 1 .. Len(lock) /\ lock'[i] = lock[i + d]
    BY <1>1, Kept
  <2> QED  BY <2>1 DEF Given, OpAt
<1>2. CASE i = n + 1 /\ Len(lock') = n + 1
  BY <1>2 DEF OpAt, AddedLast
<1> QED  BY <1>1, <1>2, Ends

LEMMA NoAnswerGiven ==
  ASSUME NEW d, NEW n, LockMoves(d, n), NEW op, AddedLast(op, n), said' = said,
         Len(lock') = n + 1 /\ op.do = "settle" => op.reply \notin {"allow", "deny"}
  PROVE  \A c \in Calls : \A reply \in {"allow", "deny"} : Given(c, reply)' => Given(c, reply)
<1> SUFFICES ASSUME NEW c \in Calls, NEW reply \in {"allow", "deny"}, Given(c, reply)'
             PROVE  Given(c, reply)
  OBVIOUS
<1>1. said'[c] = reply \/ Given(c, reply)
  BY GivenAfter
<1>2. said[c] = reply => Given(c, reply)
  BY DEF Given
<1> QED  BY <1>1, <1>2

\* The operations in the lock are of calls at that stage.
LEMMA StayingCalls ==
  ASSUME LockFits, NEW d \in {0, 1}, Len(lock) \in Nat
  PROVE  \A i \in d + 1 .. Len(lock) :
           /\ i \in 1 .. Len(lock)
           /\ lock[i].do # "recover" => lock[i].call \in Calls
           /\ lock[i].do = "request" => call[lock[i].call] = "asking"
           /\ lock[i].do = "settle" => call[lock[i].call] = "settling"
           /\ lock[i].do = "late" => lock[i].call \in ToSet(asked) /\ lock[i].call # slot
<1>1. \A i \in d + 1 .. Len(lock) : i \in 1 .. Len(lock)
  OBVIOUS
<1> QED  BY <1>1, Zenon DEF LockFits

\* They stay if their calls do.
LEMMA AllStay ==
  ASSUME LockFits, Len(lock) \in Nat, None \notin Calls,
         ToSet(asked) \subseteq ToSet(asked'), slot' \in {slot, None},
         \A c \in Calls : /\ call[c] \in {"asking", "settling"} => call'[c] = call[c]
                          /\ call'[c] = "settling" => call[c] = "settling" \/ c = slot
  PROVE  \A i \in 0 + 1 .. Len(lock) : Stays(i, 0)
<1>1. \A i \in 0 + 1 .. Len(lock) :
           /\ lock[i].do # "recover" => lock[i].call \in Calls
           /\ lock[i].do = "request" => call[lock[i].call] = "asking"
           /\ lock[i].do = "settle" => call[lock[i].call] = "settling"
           /\ lock[i].do = "late" => lock[i].call \in ToSet(asked) /\ lock[i].call # slot
  BY StayingCalls
<1> SUFFICES ASSUME NEW i \in 0 + 1 .. Len(lock) PROVE Stays(i, 0)
  OBVIOUS
<1>2. CASE lock[i].do = "late"
  <2>1. lock[i].call \in Calls /\ lock[i].call \in ToSet(asked') /\ lock[i].call \notin {slot, None}
    BY <1>1, <1>2
  <2>2. lock[i].call # slot'
    BY <2>1
  <2>3. call'[lock[i].call] = "settling" => call[lock[i].call] = "settling"
    BY <2>1
  <2>4. lock[i].do # "request" /\ lock[i].do # "settle" /\ 0 # 1
    BY <1>2
  <2> QED  BY <2>1, <2>2, <2>3, <2>4 DEF Stays
<1>3. CASE lock[i].do \in {"request", "settle"}
  <2>1. lock[i].call \in Calls /\ call[lock[i].call] \in {"asking", "settling"}
    BY <1>1, <1>3
  <2>2. call'[lock[i].call] = call[lock[i].call]
    BY <2>1
  <2> QED  BY <1>1, <1>3, <2>2 DEF Stays
<1>4. CASE lock[i].do \notin {"request", "settle", "late"}
  BY <1>4 DEF Stays
<1> QED  BY <1>2, <1>3, <1>4

LEMMA OrphansAfter ==
  ASSUME OrphansAreAlone, NEW d, NEW n, LockMoves(d, n), NEW op, AddedLast(op, n),
         asked' \in Seq(Calls), ToSet(asked') \subseteq Calls,
         \A e \in Pending' : call'[e] = "lost" =>
           /\ e \in Pending /\ call[e] = "lost" /\ ToSet(asked') \subseteq ToSet(asked)
           /\ \A c \in Calls : Gone(c) => Gone(c)'
           /\ Len(lock') = n + 1 => op.do \notin {"answer", "settle"}
  PROVE  OrphansAreAlone'
<1> SUFFICES ASSUME NEW e \in Pending', call'[e] = "lost"
             PROVE  /\ \A c \in ToSet(asked') : Gone(c)'
                    /\ \A i \in 1 .. Len(lock') : lock'[i].do \notin {"answer", "settle"}
  BY DEF OrphansAreAlone
<1>1. /\ \A c \in ToSet(asked) : Gone(c)
      /\ \A i \in 1 .. Len(lock) : lock[i].do \notin {"answer", "settle"}
  BY DEF OrphansAreAlone
<1>2. \A i \in 1 .. n : lock'[i].do \notin {"answer", "settle"}
  BY <1>1, Kept
<1>3. Len(lock') = n + 1 => lock'[n + 1].do \notin {"answer", "settle"}
  BY DEF AddedLast
<1>4. \A i \in 1 .. Len(lock') : lock'[i].do \notin {"answer", "settle"}
  BY <1>2, <1>3, Ends
<1> QED  BY <1>1, <1>4

\* While the lock's holder stays, so does the recovery.
LEMMA RecoveryStays ==
  ASSUME RecoveryHasTheLock, RecoverTheLost \/ ~IsInjective(answers), NEW n, LockMoves(0, n),
         UNCHANGED <<recovery, said, results>>,
         \A c \in Calls : Gone(c) => Gone(c)', recovery.todo \subseteq Calls
  PROVE  /\ RecoveryHasTheLock'
         /\ IsInjective(answers) /\ recovery'.step # "read" /\ lock'[1].reply = None
              => \A c \in recovery'.todo : Gone(c)'
<1>1. lock # <<>> =>
        lock' # <<>> /\ Head(lock') = Head(lock) /\ Head(lock) = lock[1] /\ lock'[1] = lock[1]
  BY DEF LockMoves
<1>2. RecoveryHasTheLock'
  BY <1>1 DEF RecoveryHasTheLock, Holds, Doing
<1>3. recovery.step # "read" => lock # <<>>
  BY DEF RecoveryHasTheLock, Holds
<1> QED  BY <1>1, <1>2, <1>3 DEF RecoverTheLost

\* While something else holds the lock, nothing is recovered.
LEMMA NoneRecovers ==
  ASSUME RecoveryHasTheLock, ~Holds("recover"), UNCHANGED recovery
  PROVE  recovery = NoRecovery /\ recovery.step = "read" /\ RecoveryHasTheLock'
BY DEF RecoveryHasTheLock, NoRecovery
-----------------------------------------------------------------------------
(* Steps that ask, answer and recover nothing *)

recordVars == <<asked, said, results, recovered, call, slot, lock, recovery, answers>>

LEMMA SameAnswers ==
  ASSUME EachAnswerOnce, UNCHANGED <<said, lock, answers>>
  PROVE  EachAnswerOnce'
<1>1. \A i, c, reply : Posted(i, c, reply)' = Posted(i, c, reply)
  BY DEF Posted, OpAt
<1>2. \A c, reply : Given(c, reply)' = Given(c, reply)
  BY DEF Given, OpAt
<1>3. lock' = lock /\ answers' = answers
  OBVIOUS
<1> QED  BY <1>1, <1>2, <1>3, Zenon DEF EachAnswerOnce

LEMMA RecordUnchanged ==
  ASSUME RecordInv, UNCHANGED recordVars
  PROVE  RecordInv'
<1> USE DEF recordVars
<1>1. /\ OneIsOpen' /\ CallsAndRecord' /\ SlotIsOpen' /\ RecoveryHasTheLock' /\ SettlingIsQueued'
      /\ OrphansAreAlone'
  BY DEF RecordInv, OneIsOpen, CallsAndRecord, SlotIsOpen, RecoveryHasTheLock, SettlingIsQueued,
         OrphansAreAlone, Pending, Holds, OpAt, Doing, Gone
<1>2. LockFits'
  BY DEF RecordInv, LockFits, OpAt
<1>3. EachAnswerOnce => EachAnswerOnce'
  BY SameAnswers
<1>4. RecoverTheLost => RecoverTheLost'
  BY DEF RecoverTheLost, OwnRecovery, Gone, Recoverable
<1> QED  BY <1>1, <1>2, <1>3, <1>4 DEF RecordInv

LEMMA InboxUnchanged ==
  ASSUME AnswersAreSafe, UNCHANGED <<recovered, acked, file, runtime, recovery, behind>>,
         run'.stage = run.stage, run'.taken = run.taken
  PROVE  AnswersAreSafe'
BY DEF AnswersAreSafe, Safe, Held, Doing

\* What TypeOK says of the records, and of the calls that were asked.
LEMMA Fields ==
  ASSUME QuestionsTypeOK
  PROVE  /\ runtime.on \in BOOLEAN /\ runtime.inbox \subseteq Messages
         /\ run.stage \in {"none", "active", "ending"} /\ run.taken \subseteq Messages
         /\ run.aborted \in BOOLEAN
         /\ recovery.todo \subseteq Calls /\ recovery.inbox \subseteq Messages
         /\ Doing \in Calls \cup {None}
         /\ recovery.step \in {"read", "close", "open", "enqueue", "record"}
         /\ ToSet(asked) \subseteq Calls /\ Pending \subseteq Calls
         /\ lock \in Seq(Operations) /\ Len(lock) \in Nat /\ None \notin Calls
<1>1. \A c \in ToSet(asked) : c \in Calls
  BY DEF QuestionsTypeOK, ToSet
<1>2. None \notin Calls
  BY InteractionsAssumption DEF None
<1> QED  BY <1>1, <1>2 DEF QuestionsTypeOK, Doing, Pending

\* A run starts, takes its messages, ends or gives up; its runtime comes or goes.
LEMMA InboxSteps ==
  ASSUME QuestionsInv,
         (\E m \in Inputs : Send(m)) \/ Resume \/ Acknowledge \/ EndRun \/ GiveUp \/ Evict
  PROVE  QuestionsInv'
<1> USE DEF QuestionsInv
<1>1. UNCHANGED <<recordVars, stream, behind>> /\ wake' \in BOOLEAN
  BY DEF Send, Resume, Acknowledge, EndRun, GiveUp, Evict, durable, transcript, events, recordVars,
         QuestionsTypeOK
<1>2. RecordInv'
  BY <1>1, RecordUnchanged
<1>3. /\ NoRun.stage = "none" /\ Started.stage = "active" /\ NoRuntime.on = FALSE
      /\ NoRuntime.inbox = {} /\ Loaded.on = TRUE /\ Loaded.inbox = Unread
      /\ NoRun \in [stage : {"none", "active", "ending"}, aborted : BOOLEAN, taken : SUBSET Messages]
      /\ Started \in [stage : {"none", "active", "ending"}, aborted : BOOLEAN, taken : SUBSET Messages]
      /\ NoRuntime \in [on : BOOLEAN, inbox : SUBSET Messages]
  BY DEF NoRun, Started, NoRuntime, Loaded
<1>4. QuestionsTypeOK' /\ AnswersAreSafe'
  <2> SUFFICES /\ runtime' \in [on : BOOLEAN, inbox : SUBSET Messages]
               /\ run' \in [stage : {"none", "active", "ending"}, aborted : BOOLEAN,
                            taken : SUBSET Messages]
               /\ file' \subseteq Messages /\ acked' \subseteq Messages
               /\ Safe(recovered)' /\ Safe(recovery.inbox)'
               /\ (file \subseteq acked \cup behind \cup Held)'
               /\ recovery.step = "enqueue" => recovered \subseteq acked' \cup behind \cup recovery.inbox
               /\ recovery.step = "record" => Safe({Doing})'
               /\ run'.stage = "ending" => run'.taken \subseteq acked'
               /\ run'.stage # "none" => runtime'.on
    BY <1>1 DEF QuestionsTypeOK, AnswersAreSafe, recordVars, Doing
  <2> USE DEF AnswersAreSafe, Safe, Held
  <2>1. CASE \E m \in Inputs : Send(m)
    <3>1. PICK m \in Inputs : Send(m)
      BY <2>1
    <3> DEFINE held == IF runtime.on THEN runtime.inbox ELSE Unread
    <3>2. /\ run.stage # "ending" /\ runtime' = [on |-> TRUE, inbox |-> held \cup {m}]
          /\ file' = held \cup {m} /\ run' = (IF run = NoRun THEN Started ELSE run)
          /\ UNCHANGED <<transcript, recovery, behind>>
      BY <3>1 DEF Send
    <3>3. held \subseteq Messages /\ m \in Messages
      BY Fields DEF Unread, QuestionsTypeOK, Messages
    <3>4. /\ runtime'.on = TRUE /\ runtime'.inbox = held \cup {m}
          /\ runtime' \in [on : BOOLEAN, inbox : SUBSET Messages]
      BY <3>2, <3>3
    <3>5. run'.stage # "ending"
      BY <1>3, <3>2
    <3>6. acked' = acked /\ recovered' = recovered
      BY <3>2 DEF transcript
    <3>7. run' \in [stage : {"none", "active", "ending"}, aborted : BOOLEAN, taken : SUBSET Messages]
      BY <1>3, <3>2 DEF QuestionsTypeOK
    <3>8. \A x \in Messages : x \in acked \cup behind \cup (file \cap Held) =>
                             x \in acked' \cup behind' \cup (file' \cap Held')
      BY <3>2, <3>4, <3>6 DEF Unread
    <3>9. recovered \subseteq Messages /\ recovery.inbox \subseteq Messages
      BY Fields DEF QuestionsTypeOK, Messages
    <3>10. Safe(recovered)' /\ Safe(recovery.inbox)'
      BY <3>2, <3>6, <3>8, <3>9
    <3>11. recovery.step = "record" => Safe({Doing})'
      BY <3>2, <3>6, <3>8, Fields DEF Doing, Messages, Unread
    <3>12. file' \subseteq Messages /\ acked' \subseteq Messages /\ file' \subseteq Held'
      BY <3>2, <3>3, <3>4, <3>6 DEF QuestionsTypeOK
    <3> QED  BY <3>4, <3>5, <3>6, <3>7, <3>10, <3>11, <3>12
  <2>2. CASE Resume
    <3>1. UNCHANGED <<transcript, recovery, behind>>
      BY <2>2 DEF Resume
    <3>2. CASE UNCHANGED <<runtime, file, run>>
      BY <3>1, <3>2 DEF transcript, QuestionsTypeOK, Doing
    <3>3. CASE /\ runtime' = Loaded /\ file' = Unread /\ (~runtime.on \/ runtime.inbox = {})
               /\ run' = run \/ run' = Started
      <4>1. Loaded \in [on : BOOLEAN, inbox : SUBSET Messages] /\ Unread \subseteq Messages
        BY DEF Loaded, Unread, QuestionsTypeOK
      <4> QED  BY <1>3, <3>1, <3>3, <4>1 DEF transcript, QuestionsTypeOK, Unread, Doing
    <3>4. CASE runtime.on /\ UNCHANGED <<runtime, file>> /\ run' = Started
      BY <1>3, <3>1, <3>4 DEF transcript, QuestionsTypeOK, Doing
    <3>5. CASE runtime.on /\ UNCHANGED <<runtime, file>> /\ run' = run
      BY <3>1, <3>5 DEF transcript, QuestionsTypeOK, Doing
    <3> QED  BY <2>2, <3>2, <3>3, <3>4, <3>5, Fields DEF Resume
  <2>3. CASE Acknowledge
    <3>1. /\ acked' = acked \cup runtime.inbox /\ run.stage = "active"
          /\ run' = [run EXCEPT !.stage = "ending", !.taken = runtime.inbox]
          /\ UNCHANGED <<recovered, file, runtime, recovery, behind>>
      BY <2>3 DEF Acknowledge
    <3>2. /\ run'.stage = "ending" /\ run'.taken = runtime.inbox
          /\ run' \in [stage : {"none", "active", "ending"}, aborted : BOOLEAN, taken : SUBSET Messages]
      BY <3>1, Fields DEF QuestionsTypeOK
    <3> QED  BY <3>1, <3>2, Fields DEF QuestionsTypeOK, Doing
  <2>4. CASE EndRun
    <3>1. /\ run.stage = "ending" /\ runtime' = [runtime EXCEPT !.inbox = @ \ run.taken]
          /\ file' = runtime'.inbox /\ run' = NoRun /\ UNCHANGED <<transcript, recovery, behind>>
      BY <2>4 DEF EndRun
    <3>2. /\ runtime'.on = runtime.on /\ runtime'.inbox = runtime.inbox \ run.taken
          /\ runtime' \in [on : BOOLEAN, inbox : SUBSET Messages]
      BY <3>1, Fields DEF QuestionsTypeOK
    <3>3. runtime.on /\ run.taken \subseteq acked
      BY <3>1
    <3> QED  BY <1>3, <3>1, <3>2, <3>3, Fields DEF transcript, QuestionsTypeOK, Doing
  <2>5. CASE GiveUp
    <3>1. run' = NoRun /\ UNCHANGED <<durable, runtime, recovery, behind>>
      BY <2>5 DEF GiveUp
    <3> QED  BY <1>3, <3>1 DEF durable, QuestionsTypeOK, Doing
  <2>6. CASE Evict
    <3>1. /\ runtime.on /\ runtime.inbox = {} /\ run = NoRun /\ runtime' = NoRuntime
          /\ UNCHANGED <<durable, run, recovery, behind>>
      BY <2>6 DEF Evict
    <3> QED  BY <1>3, <3>1 DEF durable, QuestionsTypeOK, Doing
  <2> QED  BY <2>1, <2>2, <2>3, <2>4, <2>5, <2>6
<1> QED  BY <1>2, <1>4

-----------------------------------------------------------------------------
(* Steps of the calls *)

LEMMA AskKeeps ==
  ASSUME QuestionsInv, NEW c \in Calls, Ask(c)
  PROVE  QuestionsInv'
<1> DEFINE op == Operation("request", c, None)
           n == Len(lock)
<1> USE DEF QuestionsInv, RecordInv
<1>1. /\ call[c] = "new" /\ call' = [call EXCEPT ![c] = "asking"] /\ lock' = Append(lock, op)
      /\ UNCHANGED <<durable, runtime, run, slot, recovery, stream, wake, answers, behind>>
  BY DEF Ask, Queued, events
<1>2. op.do = "request" /\ op.call = c /\ op.reply = None /\ op \in Operations
  BY DEF Operation, Operations
<1>3. call \in [Calls -> Live \cup {"new", "done", "lost"}]
  BY DEF QuestionsTypeOK
<1> HIDE DEF op, n
<1>4. /\ lock' \in Seq(Operations) /\ LockMoves(0, n) /\ AddedLast(op, n) /\ n \in Nat
      /\ \A i \in 0 + 1 .. Len(lock) : i \in 1 .. Len(lock)
  BY <1>1, <1>2, LockQueued, Fields DEF n, AddedLast, LockMoves
<1>5. /\ call' \in [Calls -> Live \cup {"new", "done", "lost"}] /\ call'[c] = "asking"
      /\ \A d \in Calls \ {c} : call'[d] = call[d]
  BY <1>1, <1>3 DEF Live
<1>6. QuestionsTypeOK'
  BY <1>1, <1>4, <1>5 DEF QuestionsTypeOK, durable
<1>7. AnswersAreSafe'
  BY <1>1, InboxUnchanged DEF durable
<1>8. OneIsOpen' /\ Pending' = Pending /\ c \notin Pending
  BY <1>1 DEF OneIsOpen, Pending, durable, CallsAndRecord
<1>9. CallsAndRecord'
  BY <1>1, <1>5, <1>8 DEF CallsAndRecord, durable
<1>10. SlotIsOpen'
  BY <1>1, <1>5, <1>8 DEF SlotIsOpen, QuestionsTypeOK
<1>11. \A d \in Calls : Gone(d) => Gone(d)'
  BY <1>1, <1>5 DEF Gone
<1>12. /\ RecoveryHasTheLock'
       /\ IsInjective(answers) /\ recovery'.step # "read" /\ lock'[1].reply = None
            => \A d \in recovery'.todo : Gone(d)'
  BY <1>1, <1>4, <1>11, Fields, RecoveryStays DEF durable
<1>13. LockFits'
  <2>1. \A i \in 0 + 1 .. Len(lock) : Stays(i, 0)
    BY <1>1, <1>5, Fields, AllStay DEF durable
  <2>2. \A i \in 0 + 1 .. Len(lock) : ~OpAt(i, "request", c)
    BY <1>1, Fields, StayingCalls DEF OpAt
  <2>3. Joins(op, 0)
    BY <1>2, <1>5, <2>2 DEF Joins
  <2> QED  BY <1>4, <2>1, <2>3, LockFitsAfter
<1>14. SettlingIsQueued'
  <2>1. \A d \in Calls : call'[d] = "settling" => call[d] = "settling"
    BY <1>5
  <2> QED  BY <1>4, <2>1, SettlingAfter
<1>15. OrphansAreAlone'
  <2>1. asked' = asked /\ asked \in Seq(Calls)
    BY <1>1 DEF durable, QuestionsTypeOK
  <2> QED  BY <1>2, <1>4, <1>5, <1>8, <1>11, <2>1, Fields, OrphansAfter
<1>16. EachAnswerOnce => EachAnswerOnce'
  <2>1. said' = said /\ answers' = answers
    BY <1>1 DEF durable
  <2>2. \A d \in Calls : \A reply \in {"allow", "deny"} : Given(d, reply)' => Given(d, reply)
    BY <1>2, <1>4, <2>1, NoAnswerGiven
  <2> QED  BY <1>2, <1>4, <2>1, <2>2, AnswersAfter
<1>17. IsInjective(answers) /\ RecoverTheLost => RecoverTheLost'
  <2>1. \A d \in Calls : Recoverable(d)' = Recoverable(d)
    BY <1>1 DEF Recoverable, durable
  <2>2. (\E i \in 0 + 1 .. Len(lock) : OwnRecovery(i)) /\ RecoverTheLost
          => \A d \in Calls : Recoverable(d)' => Gone(d)'
    BY <1>4, <1>11, <2>1 DEF RecoverTheLost
  <2> QED  BY <1>2, <1>4, <1>12, <2>2, RecoveriesAfter
<1> QED  BY <1>1, <1>6, <1>7, <1>8, <1>9, <1>10, <1>12, <1>13, <1>14, <1>15, <1>16, <1>17

LEMMA LockStays ==
  ASSUME lock \in Seq(Operations), lock' = lock
  PROVE  /\ LockMoves(0, Len(lock)) /\ Len(lock) \in Nat /\ ~(Len(lock') = Len(lock) + 1)
         /\ \A op : AddedLast(op, Len(lock))
         /\ \A i \in 0 + 1 .. Len(lock) : i \in 1 .. Len(lock)
BY DEF LockMoves, AddedLast

\* The tool runs, or its result is saved.
LEMMA RunningKeeps ==
  ASSUME QuestionsInv, NEW c \in Calls, Execute(c) \/ SaveResult(c)
  PROVE  QuestionsInv'
<1> DEFINE n == Len(lock)
           op == None
<1> USE DEF QuestionsInv, RecordInv
<1>1. /\ call[c] \in {"allowed", "answered"} /\ lock' = lock
      /\ call' = [call EXCEPT ![c] = IF call[c] = "allowed" THEN "answered" ELSE "done"]
      /\ results' = IF call[c] = "allowed" THEN results ELSE [results EXCEPT ![c] = Append(@, "tool")]
      /\ UNCHANGED <<asked, said, recovered, acked, file, runtime, run, slot, recovery, stream,
                     wake, answers, behind>>
  BY DEF Execute, SaveResult, events, durable
<1>2. /\ call \in [Calls -> Live \cup {"new", "done", "lost"}]
      /\ results \in [Calls -> {<<>>, <<"tool">>, <<"recovery">>, <<"recovery", "tool">>,
                                <<"tool", "recovery">>}]
  BY DEF QuestionsTypeOK
<1>3. /\ results[c] \in {<<>>, <<"recovery">>} /\ c \notin Pending
      /\ Append(<<>>, "tool") = <<"tool">> /\ Append(<<"recovery">>, "tool") = <<"recovery", "tool">>
  <2>1. call[c] # "done" /\ results[c] \in {<<>>, <<"recovery">>} /\ c \notin Pending
    BY <1>1 DEF CallsAndRecord
  <2>2. Append(<<>>, "tool") = <<"tool">>
    OBVIOUS
  <2>3. Append(<<"recovery">>, "tool") = <<"recovery", "tool">>
    BY AppendedToOne
  <2> QED  BY <2>1, <2>2, <2>3
<1>4. /\ call' \in [Calls -> Live \cup {"new", "done", "lost"}]
      /\ call'[c] = (IF call[c] = "allowed" THEN "answered" ELSE "done")
      /\ \A d \in Calls \ {c} : call'[d] = call[d]
  BY <1>1, <1>2 DEF Live
<1>5. /\ results' \in [Calls -> {<<>>, <<"tool">>, <<"recovery">>, <<"recovery", "tool">>,
                                 <<"tool", "recovery">>}]
      /\ \A d \in Calls : results'[d] # results[d] =>
           /\ d = c /\ call'[c] = "done"
           /\ \/ results[c] = <<>> /\ results'[c] = <<"tool">>
              \/ results[c] = <<"recovery">> /\ results'[c] = <<"recovery", "tool">>
  BY <1>1, <1>2, <1>3, <1>4
<1> HIDE DEF op, n
<1>6. /\ LockMoves(0, n) /\ ~(Len(lock') = n + 1) /\ AddedLast(op, n)
      /\ \A i \in 0 + 1 .. Len(lock) : i \in 1 .. Len(lock)
  BY <1>1, LockStays, Fields DEF n
<1>7. QuestionsTypeOK'
  BY <1>1, <1>4, <1>5 DEF QuestionsTypeOK
<1>8. AnswersAreSafe'
  BY <1>1, InboxUnchanged
<1>9. OneIsOpen' /\ Pending' = Pending
  BY <1>1 DEF OneIsOpen, Pending
<1>10. \A d \in Calls : /\ Gone(d) => Gone(d)'
                        /\ Recoverable(d)' => Recoverable(d)
                        /\ call'[d] \in {"new", "asking", "waiting", "allowed", "settling", "lost"} =>
                             call[d] = call'[d] /\ d # c
                        /\ call[d] \in {"new", "asking", "waiting", "settling", "lost"} =>
                             call[d] = call'[d] /\ d # c
  <2>1. \A d \in Calls :
          results'[d] = <<>> \/ Head(results'[d]) = "recovery"
            => results[d] = <<>> \/ Head(results[d]) = "recovery"
    BY <1>5
  <2> QED  BY <1>1, <1>4, <2>1 DEF Gone, Recoverable
<1>11. CallsAndRecord'
  <2>1. \A d \in Calls : results'[d] \notin {<<>>, <<"recovery">>} => call'[d] = "done"
    BY <1>1, <1>4, <1>5 DEF CallsAndRecord
  <2> QED  BY <1>1, <1>3, <1>4, <1>9, <1>10, <2>1 DEF CallsAndRecord
<1>12. SlotIsOpen'
  BY <1>1, <1>4, <1>9 DEF SlotIsOpen, QuestionsTypeOK
<1>13. RecoveryHasTheLock'
  <2>1. \A d \in Calls : results'[d] = <<"tool", "recovery">> => results[d] = <<"tool", "recovery">>
    BY <1>5
  <2> QED  BY <1>1, <2>1, Fields DEF RecoveryHasTheLock, Holds, Doing
<1>14. LockFits'
  <2>1. \A i \in 0 + 1 .. Len(lock) : Stays(i, 0)
    BY <1>1, <1>10, Fields, AllStay
  <2> QED  BY <1>6, <2>1, LockFitsAfter
<1>15. SettlingIsQueued'
  BY <1>6, <1>10, SettlingAfter
<1>16. OrphansAreAlone'
  <2>1. asked' = asked /\ asked \in Seq(Calls)
    BY <1>1 DEF QuestionsTypeOK
  <2> QED  BY <1>6, <1>9, <1>10, <2>1, Fields, OrphansAfter
<1>17. EachAnswerOnce => EachAnswerOnce'
  <2>1. \A d \in Calls : \A reply \in {"allow", "deny"} : Given(d, reply)' => Given(d, reply)
    BY <1>1, <1>6, NoAnswerGiven
  <2> QED  BY <1>1, <1>6, <2>1, AnswersAfter
<1>18. RecoverTheLost => RecoverTheLost'
  <2>1. \A i \in 1 .. Len(lock) : OwnRecovery(i)' = OwnRecovery(i) /\ lock'[i].do = lock[i].do
    BY <1>1 DEF OwnRecovery
  <2> QED  BY <1>1, <1>10, Fields DEF RecoverTheLost, OwnRecovery
<1> QED  BY <1>1, <1>7, <1>8, <1>9, <1>11, <1>12, <1>13, <1>14, <1>15, <1>16, <1>17, <1>18

\* The wait of the open question ends without an answer.
LEMMA ResolvingKeeps ==
  ASSUME QuestionsInv, (\E c \in Calls : Timeout(c)) \/ Cancel
  PROVE  QuestionsInv'
<1> USE DEF QuestionsInv, RecordInv
<1>1. /\ UNCHANGED <<durable, runtime, recovery, stream, wake, answers, behind>>
      /\ run' \in [stage : {"none", "active", "ending"}, aborted : BOOLEAN, taken : SUBSET Messages]
      /\ run'.stage = run.stage /\ run'.taken = run.taken
  BY DEF Timeout, Cancel, events, QuestionsTypeOK
<1>2. CASE UNCHANGED <<call, slot, lock>>
  <2>1. UNCHANGED recordVars
    BY <1>1, <1>2 DEF recordVars, durable
  <2>2. QuestionsTypeOK'
    BY <1>1, <1>2 DEF QuestionsTypeOK, durable
  <2> QED  BY <1>1, <2>1, <2>2, RecordUnchanged, InboxUnchanged DEF durable
<1>3. ASSUME NEW c \in Calls, NEW reply \in {"timeout", "abort"}, slot = c, call[c] = "waiting",
             Resolved(c, reply), Queued(Operation("settle", c, reply))
      PROVE  QuestionsInv'
  <2> DEFINE op == Operation("settle", c, reply)
             n == Len(lock)
  <2>1. op.do = "settle" /\ op.call = c /\ op.reply = reply /\ op \in Operations /\ reply \in Replies
    BY DEF Operation, Operations, Replies
  <2>2. lock' = Append(lock, op) /\ slot' = None /\ call' = [call EXCEPT ![c] = "settling"]
    BY <1>3 DEF Queued, Resolved
  <2>3. /\ call' \in [Calls -> Live \cup {"new", "done", "lost"}] /\ call'[c] = "settling"
        /\ \A d \in Calls \ {c} : call'[d] = call[d]
    BY <2>2 DEF Live, QuestionsTypeOK
  <2> HIDE DEF op, n
  <2>4. /\ lock' \in Seq(Operations) /\ LockMoves(0, n) /\ AddedLast(op, n) /\ n \in Nat
        /\ \A i \in 0 + 1 .. Len(lock) : i \in 1 .. Len(lock)
    BY <2>1, <2>2, LockQueued, Fields DEF n, AddedLast, LockMoves
  <2>5. QuestionsTypeOK'
    BY <1>1, <2>2, <2>3, <2>4 DEF QuestionsTypeOK, durable
  <2>6. AnswersAreSafe'
    BY <1>1, InboxUnchanged DEF durable
  <2>7. OneIsOpen' /\ Pending' = Pending /\ c \in Pending
    BY <1>1, <1>3, Fields DEF OneIsOpen, Pending, durable, SlotIsOpen
  <2>8. CallsAndRecord'
    BY <1>1, <1>3, <2>2, <2>3, <2>7 DEF CallsAndRecord, durable
  <2>9. SlotIsOpen'
    BY <2>2 DEF SlotIsOpen
  <2>10. \A d \in Calls : Gone(d) => Gone(d)'
    BY <1>3, <2>3 DEF Gone
  <2>11. /\ RecoveryHasTheLock'
         /\ IsInjective(answers) /\ recovery'.step # "read" /\ lock'[1].reply = None
              => \A d \in recovery'.todo : Gone(d)'
    BY <1>1, <2>4, <2>10, Fields, RecoveryStays DEF durable
  <2>12. LockFits'
    <3>1. \A i \in 0 + 1 .. Len(lock) : Stays(i, 0)
      BY <1>1, <1>3, <2>2, <2>3, Fields, AllStay DEF durable
    <3>2. \A i \in 0 + 1 .. Len(lock) : ~OpAt(i, "settle", c)
      BY <1>3, Fields, StayingCalls DEF OpAt
    <3>3. Joins(op, 0)
      BY <2>1, <2>3, <3>2 DEF Joins
    <3> QED  BY <2>4, <3>1, <3>3, LockFitsAfter
  <2>13. SettlingIsQueued'
    <3>1. Len(lock') = n + 1
      BY <2>1, <2>2, LockQueued, Fields DEF n
    <3> QED  BY <2>1, <2>3, <2>4, <3>1, SettlingAfter
  <2>14. OrphansAreAlone'
    <3>1. asked' = asked /\ asked \in Seq(Calls)
      BY <1>1 DEF durable, QuestionsTypeOK
    <3>2. \A e \in Pending' : call'[e] # "lost"
      BY <2>3, <2>7 DEF OneIsOpen
    <3> QED  BY <3>2 DEF OrphansAreAlone
  <2>15. EachAnswerOnce => EachAnswerOnce'
    <3>1. said' = said /\ answers' = answers
      BY <1>1 DEF durable
    <3>2. \A d \in Calls : \A r \in {"allow", "deny"} : Given(d, r)' => Given(d, r)
      BY <2>1, <2>4, <3>1, NoAnswerGiven
    <3> QED  BY <2>1, <2>4, <3>1, <3>2, AnswersAfter
  <2>16. IsInjective(answers) /\ RecoverTheLost => RecoverTheLost'
    <3>1. \A d \in Calls : Recoverable(d)' = Recoverable(d)
      BY <1>1 DEF Recoverable, durable
    <3>2. (\E i \in 0 + 1 .. Len(lock) : OwnRecovery(i)) /\ RecoverTheLost
            => \A d \in Calls : Recoverable(d)' => Gone(d)'
      BY <2>4, <2>10, <3>1 DEF RecoverTheLost
    <3> QED  BY <2>1, <2>4, <2>11, <3>2, RecoveriesAfter
  <2> QED  BY <1>1, <2>5, <2>6, <2>7, <2>8, <2>9, <2>11, <2>12, <2>13, <2>14, <2>15, <2>16
<1>4. ASSUME NEW c \in Calls, Timeout(c) PROVE QuestionsInv'
  <2>1. slot = c /\ call[c] = "waiting" /\ Resolved(c, "timeout")
        /\ Queued(Operation("settle", c, "timeout"))
    BY <1>4 DEF Timeout, CallsAndRecord
  <2> QED  BY <1>3, <2>1
<1>5. ASSUME Cancel, slot # None PROVE QuestionsInv'
  <2>1. slot \in Calls /\ call[slot] = "waiting" /\ Resolved(slot, "abort")
        /\ Queued(Operation("settle", slot, "abort"))
    BY <1>5 DEF Cancel, SlotIsOpen, QuestionsTypeOK
  <2> QED  BY <1>3, <2>1
<1>6. Cancel /\ slot = None => QuestionsInv'
  BY <1>2 DEF Cancel
<1> QED  BY <1>4, <1>5, <1>6

\* An event stream opens; what it recovers waits for the lock.
LEMMA ConnectKeeps ==
  ASSUME QuestionsInv, Connect \/ Connected
  PROVE  QuestionsInv'
<1> USE DEF QuestionsInv, RecordInv
<1>1. /\ UNCHANGED <<durable, runtime, run, call, slot, recovery, answers, behind>>
      /\ stream' \in {"none", "idle", "busy"} /\ wake' \in BOOLEAN
  BY DEF Connect, Connected, events, QuestionsTypeOK, None
<1>2. CASE lock' = lock
  <2>1. UNCHANGED recordVars
    BY <1>1, <1>2 DEF recordVars, durable
  <2>2. QuestionsTypeOK'
    BY <1>1, <1>2 DEF QuestionsTypeOK, durable
  <2> QED  BY <1>1, <2>1, <2>2, RecordUnchanged, InboxUnchanged DEF durable
<1>3. CASE Queued(Operation("recover", None, "stream"))
  <2> DEFINE op == Operation("recover", None, "stream")
             n == Len(lock)
  <2>1. op.do = "recover" /\ op.reply = "stream" /\ op \in Operations /\ lock' = Append(lock, op)
    BY <1>3 DEF Operation, Operations, Queued
  <2> HIDE DEF op, n
  <2>2. /\ lock' \in Seq(Operations) /\ LockMoves(0, n) /\ AddedLast(op, n) /\ n \in Nat
        /\ \A i \in 0 + 1 .. Len(lock) : i \in 1 .. Len(lock)
    BY <2>1, LockQueued, Fields DEF n, AddedLast, LockMoves
  <2>3. QuestionsTypeOK'
    BY <1>1, <2>2 DEF QuestionsTypeOK, durable
  <2>4. AnswersAreSafe'
    BY <1>1, InboxUnchanged DEF durable
  <2>5. OneIsOpen' /\ Pending' = Pending /\ CallsAndRecord' /\ SlotIsOpen'
    BY <1>1 DEF OneIsOpen, Pending, durable, SlotIsOpen, CallsAndRecord
  <2>6. \A d \in Calls : Gone(d)' = Gone(d) /\ Recoverable(d)' = Recoverable(d)
    BY <1>1 DEF Gone, Recoverable, durable
  <2>7. /\ RecoveryHasTheLock'
        /\ IsInjective(answers) /\ recovery'.step # "read" /\ lock'[1].reply = None
             => \A d \in recovery'.todo : Gone(d)'
    BY <1>1, <2>2, <2>6, Fields, RecoveryStays DEF durable
  <2>8. LockFits'
    <3>1. \A i \in 0 + 1 .. Len(lock) : Stays(i, 0)
      BY <1>1, Fields, AllStay DEF durable
    <3>2. Joins(op, 0)
      BY <2>1 DEF Joins
    <3> QED  BY <2>2, <3>1, <3>2, LockFitsAfter
  <2>9. SettlingIsQueued'
    BY <1>1, <2>2, SettlingAfter
  <2>10. OrphansAreAlone'
    <3>1. asked' = asked /\ asked \in Seq(Calls)
      BY <1>1 DEF durable, QuestionsTypeOK
    <3> QED  BY <1>1, <2>1, <2>2, <2>5, <2>6, <3>1, Fields, OrphansAfter
  <2>11. EachAnswerOnce => EachAnswerOnce'
    <3>1. said' = said /\ answers' = answers
      BY <1>1 DEF durable
    <3>2. \A d \in Calls : \A r \in {"allow", "deny"} : Given(d, r)' => Given(d, r)
      BY <2>1, <2>2, <3>1, NoAnswerGiven
    <3> QED  BY <2>1, <2>2, <3>1, <3>2, AnswersAfter
  <2>12. IsInjective(answers) /\ RecoverTheLost => RecoverTheLost'
    <3>1. (\E i \in 0 + 1 .. Len(lock) : OwnRecovery(i)) /\ RecoverTheLost
            => \A d \in Calls : Recoverable(d)' => Gone(d)'
      BY <2>2, <2>6 DEF RecoverTheLost
    <3> QED  BY <2>1, <2>2, <2>7, <3>1, RecoveriesAfter DEF None
  <2> QED  BY <1>1, <2>3, <2>4, <2>5, <2>7, <2>8, <2>9, <2>10, <2>11, <2>12
<1> QED  BY <1>2, <1>3 DEF Connect, Connected

\* The operation that holds the lock.
LEMMA HolderFits ==
  ASSUME QuestionsTypeOK, LockFits, lock # <<>>
  PROVE  /\ 1 \in 1 .. Len(lock) /\ Head(lock) = lock[1] /\ lock[1] \in Operations
         /\ lock[1].do # "recover" => lock[1].call \in Calls
         /\ lock[1].do = "recover" => lock[1].reply \in {None, "stream"}
         /\ lock[1].do = "request" => call[lock[1].call] = "asking"
         /\ lock[1].do = "settle" => call[lock[1].call] = "settling" /\ lock[1].reply \in Replies
         /\ lock[1].do \in {"answer", "late"} => lock[1].reply \in {"allow", "deny"}
         /\ lock[1].do = "late" =>
              lock[1].call \in ToSet(asked) /\ lock[1].call # slot /\ call[lock[1].call] # "settling"
<1>1. 1 \in 1 .. Len(lock) /\ Head(lock) = lock[1] /\ lock[1] \in Operations /\ 1 .. 1 - 1 = {}
  BY Fields
<1> QED  BY <1>1, Zenon DEF LockFits

\* The one that holds the lock leaves it, and the operations behind it keep their order.
LEMMA Leaving ==
  ASSUME QuestionsTypeOK, LockFits, lock # <<>>, LockMoves(1, Len(lock) - 1),
         NEW i \in 1 + 1 .. Len(lock)
  PROVE  /\ i \in 1 .. Len(lock) /\ 1 \in 1 .. i - 1 /\ 1 \in 1 .. Len(lock)
         /\ lock[i].do \in {"request", "settle"} => ~OpAt(1, lock[i].do, lock[i].call)
<1>1. i \in 1 .. Len(lock) /\ 1 \in 1 .. i - 1 /\ 1 \in 1 .. Len(lock)
  BY Fields
<1> QED  BY <1>1 DEF LockFits

LEMMA RequestKeeps ==
  ASSUME QuestionsInv, Request
  PROVE  QuestionsInv'
<1> DEFINE n == Len(lock) - 1
           op == None
           c == lock[1].call
<1> USE DEF QuestionsInv, RecordInv
<1>1. /\ lock # <<>> /\ Head(lock).do = "request" /\ lock' = Tail(lock)
      /\ UNCHANGED <<said, results, recovered, acked, file, runtime, run, recovery, stream, wake,
                     answers, behind>>
  BY DEF Request, Holds, events
<1>2. /\ LockMoves(1, n) /\ ~(Len(lock') = n + 1) /\ lock' \in Seq(Operations) /\ 1 \in 1 .. Len(lock)
      /\ Head(lock) = lock[1]
  BY <1>1, LockLeft, Fields
<1> HIDE DEF n
<1>3. LockMoves(1, n) /\ AddedLast(op, n) /\ ~(Len(lock') = n + 1) /\ lock' \in Seq(Operations)
  BY <1>2 DEF AddedLast
<1>4. /\ lock[1].do = "request" /\ c \in Calls /\ call[c] = "asking" /\ c \notin ToSet(asked)
      /\ c \notin Pending /\ said[c] = None /\ c \notin recovered /\ c # None
  <2>1. lock[1].do = "request" /\ c \in Calls /\ call[c] = "asking"
    BY <1>1, HolderFits
  <2>2. c # None
    BY <2>1, Fields
  <2> HIDE DEF c
  <2> QED  BY <2>1, <2>2 DEF CallsAndRecord, Pending
<1>5. IF Pending # {} THEN call' = [call EXCEPT ![c] = "answered"] /\ UNCHANGED <<asked, slot>>
      ELSE /\ asked' = Append(asked, c)
           /\ call' = [call EXCEPT ![c] = "waiting"] /\ slot' = c
  BY <1>2 DEF Request
<1>6. /\ call' \in [Calls -> Live \cup {"new", "done", "lost"}]
      /\ call'[c] = IF Pending # {} THEN "answered" ELSE "waiting"
      /\ \A d \in Calls \ {c} : call'[d] = call[d]
  <2> HIDE DEF c
  <2>1. call \in [Calls -> Live \cup {"new", "done", "lost"}]
    BY DEF QuestionsTypeOK
  <2> HIDE DEF QuestionsInv, RecordInv
  <2>2. CASE Pending # {}
    BY <1>4, <1>5, <2>1, <2>2 DEF Live
  <2>3. CASE Pending = {}
    BY <1>4, <1>5, <2>1, <2>3 DEF Live
  <2> QED  BY <2>2, <2>3
<1> HIDE DEF op, c
<1>7. \A i \in 1 + 1 .. Len(lock) :
        /\ i \in 1 .. Len(lock)
        /\ lock[i].do \in {"request", "settle"} => ~OpAt(1, lock[i].do, lock[i].call)
  BY <1>1, <1>3, Leaving DEF n
<1>8. /\ recovery = NoRecovery /\ recovery.step = "read" /\ RecoveryHasTheLock' /\ recovery'.step = "read"
  BY <1>1, <1>2, NoneRecovers DEF Holds
<1>9. AnswersAreSafe'
  BY <1>1, InboxUnchanged
<1>10. \A d \in Calls : Gone(d) => Gone(d)' /\ d # c
  BY <1>4, <1>6 DEF Gone
<1>11. \A d \in Calls : Recoverable(d)' = Recoverable(d)
  BY <1>1 DEF Recoverable
<1>12. \A d \in Calls : \A r \in {"allow", "deny"} : Given(d, r)' => Given(d, r)
  BY <1>1, <1>3, NoAnswerGiven
<1>13. EachAnswerOnce => EachAnswerOnce'
  BY <1>1, <1>3, <1>12, AnswersAfter
<1>14. RecoverTheLost => RecoverTheLost'
  <2>1. (\E i \in 1 + 1 .. Len(lock) : OwnRecovery(i)) /\ RecoverTheLost
          => \A d \in Calls : Recoverable(d)' => Gone(d)'
    BY <1>7, <1>10, <1>11 DEF RecoverTheLost
  <2> QED  BY <1>3, <1>8, <2>1, RecoveriesAfter
<1>15. SettlingIsQueued'
  <2>1. \A d \in Calls : call'[d] = "settling" => call[d] = "settling" /\ ~OpAt(1, "settle", d)
    BY <1>4, <1>6 DEF OpAt
  <2> QED  BY <1>3, <2>1, SettlingAfter
<1>16. \A i \in 1 + 1 .. Len(lock) :
         /\ lock[i].do = "request" => call'[lock[i].call] = "asking"
         /\ lock[i].do = "settle" => call'[lock[i].call] = "settling"
         /\ lock[i].do = "late" =>
              /\ lock[i].call \in ToSet(asked) /\ lock[i].call # slot /\ lock[i].call # c
              /\ call'[lock[i].call] = "settling" =>
                   call[lock[i].call] = "settling" /\ ~OpAt(1, "settle", lock[i].call)
  <2>1. \A i \in 1 + 1 .. Len(lock) :
          /\ lock[i].do \in {"request", "settle", "late"} => lock[i].call \in Calls
          /\ lock[i].do = "request" => lock[i].call # c /\ call[lock[i].call] = "asking"
          /\ lock[i].do = "settle" => call[lock[i].call] = "settling"
          /\ lock[i].do = "late" => lock[i].call \in ToSet(asked) /\ lock[i].call # slot
    BY <1>4, <1>7 DEF LockFits, OpAt, c
  <2> QED  BY <1>4, <1>6, <2>1 DEF OpAt
<1>17. CASE Pending # {}
  <2>1. call'[c] = "answered" /\ UNCHANGED <<asked, slot>>
    BY <1>5, <1>6, <1>17
  <2>2. QuestionsTypeOK'
    BY <1>1, <1>3, <1>6, <2>1 DEF QuestionsTypeOK
  <2>3. OneIsOpen' /\ Pending' = Pending
    BY <1>1, <2>1 DEF OneIsOpen, Pending
  <2>4. CallsAndRecord'
    BY <1>1, <1>4, <1>6, <2>1, <2>3 DEF CallsAndRecord
  <2>5. SlotIsOpen'
    BY <1>4, <1>6, <2>1, <2>3 DEF SlotIsOpen, QuestionsTypeOK
  <2>6. LockFits'
    <3>1. \A i \in 1 + 1 .. Len(lock) : Stays(i, 1)
      BY <1>16, <2>1 DEF Stays
    <3> QED  BY <1>3, <3>1, LockFitsAfter
  <2>7. OrphansAreAlone'
    <3>1. asked' = asked /\ asked \in Seq(Calls)
      BY <2>1 DEF QuestionsTypeOK
    <3>2. \A e \in Pending' : call'[e] = "lost" => call[e] = "lost"
      BY <1>6, <2>1, <2>3, Fields
    <3> QED  BY <1>3, <1>10, <2>3, <3>1, <3>2, Fields, OrphansAfter
  <2> QED  BY <1>1, <1>8, <1>9, <1>13, <1>14, <1>15, <2>2, <2>3, <2>4, <2>5, <2>6, <2>7
<1>18. CASE Pending = {}
  <2>1. /\ call'[c] = "waiting" /\ slot' = c /\ slot = None
        /\ asked' \in Seq(Calls) /\ ToSet(asked') = ToSet(asked) \cup {c} /\ IsInjective(asked')
    <3>1. asked' = Append(asked, c) /\ slot' = c /\ call'[c] = "waiting"
      BY <1>5, <1>6, <1>18
    <3>2. slot = None
      BY <1>18 DEF SlotIsOpen
    <3>3. asked \in Seq(Calls) /\ IsInjective(asked)
      BY DEF QuestionsTypeOK
    <3> QED  BY <1>4, <3>1, <3>2, <3>3, AskedAppended
  <2>2. QuestionsTypeOK'
    BY <1>1, <1>3, <1>4, <1>6, <2>1 DEF QuestionsTypeOK
  <2>3. Pending' = {c}
    BY <1>1, <1>4, <1>18, <2>1 DEF Pending
  <2>4. OneIsOpen' /\ SlotIsOpen'
    BY <2>1, <2>3 DEF OneIsOpen, SlotIsOpen
  <2>5. CallsAndRecord'
    <3>1. \A d \in Calls \ {c} :
            call[d] # "waiting" /\ call'[d] = call[d] /\ (d \in ToSet(asked') <=> d \in ToSet(asked))
      BY <1>6, <2>1, Fields DEF CallsAndRecord
    <3> QED  BY <1>1, <1>4, <2>1, <2>3, <3>1 DEF CallsAndRecord
  <2>6. LockFits'
    <3>1. \A i \in 1 + 1 .. Len(lock) : Stays(i, 1)
      BY <1>16, <2>1 DEF Stays
    <3> QED  BY <1>3, <3>1, LockFitsAfter
  <2>7. OrphansAreAlone'
    BY <2>1, <2>3 DEF OrphansAreAlone
  <2> QED  BY <1>1, <1>8, <1>9, <1>13, <1>14, <1>15, <2>2, <2>4, <2>5, <2>6, <2>7
<1> QED  BY <1>17, <1>18

\* An answer is recorded for a pending question; for another one it changes nothing.
LEMMA RecordingAnAnswer ==
  ASSUME QuestionsTypeOK, NEW c \in Calls, NEW reply \in Replies, Record(c, reply),
         UNCHANGED <<asked, recovered, results>>
  PROVE  /\ said' \in [Calls -> Replies \cup {None}]
         /\ \A d \in Calls \ {c} : said'[d] = said[d]
         /\ said'[c] # said[c] => c \in Pending /\ said'[c] = reply
         /\ Acceptable(c, reply) => said'[c] = reply
         /\ c \in Pending => Acceptable(c, reply)
         /\ Pending' = Pending \ {c}
         /\ \A d \in Calls : Recoverable(d)' => Recoverable(d) \/ (d = c /\ c \in Pending)
<1>1. /\ said \in [Calls -> Replies \cup {None}] /\ None \notin Replies
      /\ ToSet(asked) \subseteq Calls
  BY Fields DEF QuestionsTypeOK, Replies, None
<1>2. said' = IF Acceptable(c, reply) THEN [said EXCEPT ![c] = reply] ELSE said
  BY DEF Record
<1>3. /\ said' \in [Calls -> Replies \cup {None}]
      /\ \A d \in Calls \ {c} : said'[d] = said[d]
      /\ said'[c] = IF Acceptable(c, reply) THEN reply ELSE said[c]
  BY <1>1, <1>2
<1>4. c \in Pending => Acceptable(c, reply)
  BY DEF Acceptable, Recoverable, Pending
<1>5. said'[c] # said[c] => c \in Pending
  BY <1>3 DEF Acceptable
<1>6. Pending' = Pending \ {c}
  <2>1. c \notin Pending' /\ (c \notin Pending => said'[c] = said[c])
    BY <1>1, <1>3, <1>4, <1>5 DEF Pending
  <2>2. \A d \in Calls \ {c} : d \in Pending' <=> d \in Pending
    BY <1>3 DEF Pending
  <2>3. Pending' \subseteq Calls /\ Pending \subseteq Calls
    BY <1>1 DEF Pending
  <2> QED  BY <2>1, <2>2, <2>3
<1>7. \A d \in Calls : Recoverable(d)' => Recoverable(d) \/ (d = c /\ c \in Pending)
  BY <1>3, <1>5 DEF Recoverable
<1> QED  BY <1>3, <1>4, <1>5, <1>6, <1>7

\* An operation of a running tool or client holds the lock, so no answer waits to be recovered.
LEMMA NoneToRecover ==
  ASSUME RecoverTheLost, QuestionsTypeOK, LockFits, lock # <<>>, LockMoves(1, Len(lock) - 1),
         lock[1].do \notin {"request", "late", "recover"}
  PROVE  \A i \in 1 + 1 .. Len(lock) : ~OwnRecovery(i)
<1>1. \A i \in 1 + 1 .. Len(lock) : i \in 1 .. Len(lock) /\ 1 \in 1 .. i - 1
  BY Leaving
<1> QED  BY <1>1 DEF RecoverTheLost

LEMMA SettleOwnKeeps ==
  ASSUME QuestionsInv, SettleOwn
  PROVE  QuestionsInv'
<1> DEFINE n == Len(lock) - 1
           op == None
           c == lock[1].call
           reply == lock[1].reply
           go == Acceptable(c, reply) /\ reply = "allow" /\ ~run.aborted
<1> USE DEF QuestionsInv, RecordInv
<1>1. /\ lock # <<>> /\ Head(lock).do = "settle" /\ lock' = Tail(lock)
      /\ UNCHANGED <<asked, results, recovered, acked, file, runtime, run, slot, recovery, stream,
                     wake, answers, behind>>
  BY DEF SettleOwn, Holds, events
<1>2. /\ LockMoves(1, n) /\ ~(Len(lock') = n + 1) /\ lock' \in Seq(Operations) /\ 1 \in 1 .. Len(lock)
      /\ Head(lock) = lock[1]
  BY <1>1, LockLeft, Fields
<1>3. /\ lock[1].do = "settle" /\ c \in Calls /\ call[c] = "settling" /\ reply \in Replies
  BY <1>1, <1>2, HolderFits
<1>4. Record(c, reply) /\ call' = [call EXCEPT ![c] = IF go THEN "allowed" ELSE "answered"]
  BY <1>2 DEF SettleOwn
<1> HIDE DEF c, reply, op
<1>5. /\ call' \in [Calls -> Live \cup {"new", "done", "lost"}]
      /\ call'[c] \in {"allowed", "answered"} /\ (call'[c] = "allowed" => go)
      /\ \A d \in Calls \ {c} : call'[d] = call[d]
  <2> HIDE DEF go
  <2> QED  BY <1>3, <1>4 DEF QuestionsTypeOK, Live
<1>6. \A i \in 1 + 1 .. Len(lock) :
        /\ i \in 1 .. Len(lock)
        /\ lock[i].do \in {"request", "settle"} => ~OpAt(1, lock[i].do, lock[i].call)
  BY <1>1, <1>2, Leaving
<1>7. \A i \in 1 + 1 .. Len(lock) : ~OwnRecovery(i) \/ ~RecoverTheLost
  BY <1>1, <1>2, <1>3, NoneToRecover
<1> HIDE DEF n
<1>8. LockMoves(1, n) /\ AddedLast(op, n)
  BY <1>2 DEF AddedLast
<1>9. /\ said' \in [Calls -> Replies \cup {None}]
      /\ \A d \in Calls \ {c} : said'[d] = said[d]
      /\ said'[c] # said[c] => c \in Pending /\ said'[c] = reply
      /\ Acceptable(c, reply) => said'[c] = reply
      /\ Pending' = Pending \ {c}
  BY <1>1, <1>3, <1>4, RecordingAnAnswer
<1>10. /\ recovery'.step = "read" /\ RecoveryHasTheLock'
  BY <1>1, <1>2, <1>3, NoneRecovers DEF Holds
<1>11. QuestionsTypeOK'
  BY <1>1, <1>2, <1>5, <1>9 DEF QuestionsTypeOK
<1>12. AnswersAreSafe'
  BY <1>1, InboxUnchanged
<1>13. \A d \in Calls : Gone(d) => Gone(d)' /\ d # c
  BY <1>3, <1>5 DEF Gone
<1>14. OneIsOpen'
  BY <1>9 DEF OneIsOpen
<1>15. CallsAndRecord'
  <2>1. said'[c] # None \/ c \in recovered => c \in ToSet(asked)
    BY <1>3, <1>9 DEF CallsAndRecord, Pending
  <2>2. call'[c] = "allowed" => said'[c] = "allow"
    BY <1>5, <1>9
  <2>3. results[c] \in {<<>>, <<"recovery">>}
    BY <1>3 DEF CallsAndRecord
  <2> QED  BY <1>1, <1>3, <1>5, <1>9, <2>1, <2>2, <2>3 DEF CallsAndRecord
<1>16. SlotIsOpen'
  BY <1>1, <1>3, <1>5, <1>9 DEF SlotIsOpen, QuestionsTypeOK
<1>17. LockFits'
  <2>1. \A i \in 1 + 1 .. Len(lock) :
          /\ lock[i].do # "recover" => lock[i].call \in Calls
          /\ lock[i].do = "request" => call[lock[i].call] = "asking"
          /\ lock[i].do = "settle" => call[lock[i].call] = "settling" /\ lock[i].call # c
          /\ lock[i].do = "late" => lock[i].call \in ToSet(asked) /\ lock[i].call # slot
    BY <1>3, <1>6 DEF LockFits, OpAt, c
  <2>2. \A i \in 1 + 1 .. Len(lock) : Stays(i, 1)
    BY <1>1, <1>3, <1>5, <2>1 DEF Stays, OpAt, c
  <2> QED  BY <1>2, <1>8, <2>2, LockFitsAfter
<1>18. SettlingIsQueued'
  <2>1. \A d \in Calls : call'[d] = "settling" => call[d] = "settling" /\ ~OpAt(1, "settle", d)
    BY <1>5 DEF OpAt, c
  <2> QED  BY <1>8, <2>1, SettlingAfter
<1>19. OrphansAreAlone'
  <2>1. asked' = asked /\ asked \in Seq(Calls)
    BY <1>1 DEF QuestionsTypeOK
  <2>2. \A e \in Pending' : e \in Pending /\ call'[e] = call[e]
    BY <1>5, <1>9, Fields
  <2> QED  BY <1>2, <1>8, <1>13, <2>1, <2>2, Fields, OrphansAfter
<1>20. EachAnswerOnce => EachAnswerOnce'
  <2>1. Given(c, reply)
    BY <1>2, <1>3 DEF Given, OpAt, c, reply
  <2>2. ASSUME NEW d \in Calls, NEW r \in {"allow", "deny"}, Given(d, r)'
        PROVE  Given(d, r)
    <3>1. said'[d] = r \/ Given(d, r)
      BY <1>2, <1>8, <2>2, GivenAfter
    <3>2. said'[d] = r => said[d] = r \/ (d = c /\ r = reply)
      BY <1>9
    <3>3. said[d] = r => Given(d, r)
      BY DEF Given
    <3> QED  BY <2>1, <3>1, <3>2, <3>3
  <2> QED  BY <1>1, <1>2, <1>8, <2>2, AnswersAfter
<1>21. RecoverTheLost => RecoverTheLost'
  BY <1>2, <1>7, <1>8, <1>10, RecoveriesAfter
<1> QED  BY <1>1, <1>10, <1>11, <1>12, <1>14, <1>15, <1>16, <1>17, <1>18, <1>19, <1>20, <1>21

-----------------------------------------------------------------------------
(* Steps of the clients *)

LEMMA PostKeeps ==
  ASSUME QuestionsInv, NEW c \in Calls, NEW reply \in {"allow", "deny"}, Post(c, reply)
  PROVE  QuestionsInv'
<1> DEFINE op == Operation(IF slot = c THEN "answer" ELSE "late", c, reply)
           n == Len(lock)
<1> USE DEF QuestionsInv, RecordInv
<1>1. /\ c \in ToSet(asked) /\ lock' = Append(lock, op) /\ answers' = Append(answers, <<c, reply>>)
      /\ UNCHANGED <<durable, runtime, run, call, slot, recovery, stream, wake, behind>>
  BY DEF Post, Queued
<1>2. /\ op.do = (IF slot = c THEN "answer" ELSE "late") /\ op.call = c /\ op.reply = reply
      /\ op \in Operations
  BY DEF Operation, Operations, Replies
<1> HIDE DEF op, n
<1>3. /\ lock' \in Seq(Operations) /\ LockMoves(0, n) /\ AddedLast(op, n) /\ n \in Nat
      /\ \A i \in 0 + 1 .. Len(lock) : i \in 1 .. Len(lock)
  BY <1>1, <1>2, LockQueued, Fields DEF n, AddedLast, LockMoves
<1>4. /\ answers' \in Seq(Calls \X {"allow", "deny"})
      /\ ToSet(answers') = ToSet(answers) \cup {<<c, reply>>}
      /\ IsInjective(answers') => IsInjective(answers) /\ <<c, reply>> \notin ToSet(answers)
  <2> DEFINE S == Calls \X {"allow", "deny"}
             x == <<c, reply>>
  <2>1. answers \in Seq(S) /\ x \in S /\ answers' = Append(answers, x)
    BY <1>1 DEF QuestionsTypeOK
  <2> HIDE DEF S, x
  <2>2. /\ Append(answers, x) \in Seq(S)
        /\ ToSet(Append(answers, x)) = ToSet(answers) \cup {x}
        /\ IsInjective(Append(answers, x)) => IsInjective(answers) /\ x \notin ToSet(answers)
    BY <2>1, AskedAppended
  <2> QED  BY <2>1, <2>2 DEF S, x
<1>5. QuestionsTypeOK'
  BY <1>1, <1>3, <1>4 DEF QuestionsTypeOK, durable
<1>6. AnswersAreSafe'
  BY <1>1, InboxUnchanged DEF durable
<1>7. OneIsOpen' /\ Pending' = Pending /\ CallsAndRecord' /\ SlotIsOpen'
  BY <1>1 DEF OneIsOpen, Pending, durable, SlotIsOpen, CallsAndRecord
<1>8. \A d \in Calls : Gone(d)' = Gone(d) /\ Recoverable(d)' = Recoverable(d)
  BY <1>1 DEF Gone, Recoverable, durable
<1>9. IsInjective(answers') => RecoverTheLost
  BY <1>4
<1>10. /\ RecoveryHasTheLock'
       /\ IsInjective(answers) /\ recovery'.step # "read" /\ lock'[1].reply = None
            => \A d \in recovery'.todo : Gone(d)'
  BY <1>1, <1>3, <1>8, Fields, RecoveryStays DEF durable
<1>11. LockFits'
  <2>1. \A i \in 0 + 1 .. Len(lock) : Stays(i, 0)
    BY <1>1, Fields, AllStay DEF durable
  <2>2. call[c] = "settling" => \E j \in 0 + 1 .. Len(lock) : OpAt(j, "settle", c)
    BY DEF SettlingIsQueued
  <2>3. asked' = asked /\ call' = call /\ slot' = slot
    BY <1>1 DEF durable
  <2>4. Joins(op, 0)
    BY <1>1, <1>2, <2>2, <2>3 DEF Joins
  <2> QED  BY <1>3, <2>1, <2>4, LockFitsAfter
<1>12. SettlingIsQueued'
  BY <1>1, <1>3, SettlingAfter
<1>13. OrphansAreAlone'
  <2>1. asked' = asked /\ asked \in Seq(Calls)
    BY <1>1 DEF durable, QuestionsTypeOK
  <2>2. \A e \in Pending : call[e] = "lost" => op.do \notin {"answer", "settle"}
    BY <1>2, Fields DEF OneIsOpen, SlotIsOpen
  <2> QED  BY <1>1, <1>3, <1>7, <1>8, <2>1, <2>2, Fields, OrphansAfter
<1>14. IsInjective(answers') => EachAnswerOnce'
  <2>1. said' = said
    BY <1>1 DEF durable
  <2>2. \A d \in Calls : \A r \in {"allow", "deny"} : Given(d, r)' => Given(d, r)
    BY <1>2, <1>3, <2>1, NoAnswerGiven
  <2> QED  BY <1>2, <1>3, <1>4, <2>2, AnswersAfter
<1>15. IsInjective(answers') => RecoverTheLost'
  <2>1. (\E i \in 0 + 1 .. Len(lock) : OwnRecovery(i)) /\ RecoverTheLost
          => \A d \in Calls : Recoverable(d)' => Gone(d)'
    BY <1>3, <1>8 DEF RecoverTheLost
  <2>2. op.do # "recover"
    BY <1>2
  <2> QED  BY <1>3, <1>4, <1>9, <1>10, <2>1, <2>2, RecoveriesAfter
<1> QED  BY <1>5, <1>6, <1>7, <1>10, <1>11, <1>12, <1>13, <1>14, <1>15

LEMMA AnswerKeeps ==
  ASSUME QuestionsInv, Answer
  PROVE  QuestionsInv'
<1> DEFINE n == Len(lock) - 1
           c == lock[1].call
           reply == lock[1].reply
           op == Operation("settle", slot, reply)
           go == Acceptable(c, reply) /\ slot # None
<1> USE DEF QuestionsInv, RecordInv
<1>1. /\ lock # <<>> /\ Head(lock).do = "answer"
      /\ UNCHANGED <<asked, results, recovered, acked, file, runtime, run, recovery, stream, wake,
                     answers, behind>>
  BY DEF Answer, Holds, events
<1>2. /\ 1 \in 1 .. Len(lock) /\ Head(lock) = lock[1] /\ lock[1].do = "answer"
      /\ c \in Calls /\ reply \in {"allow", "deny"} /\ reply \in Replies
  BY <1>1, HolderFits DEF Replies
<1>3. Record(c, reply)
  BY <1>2 DEF Answer
<1>4. IF go THEN /\ call' = [call EXCEPT ![slot] = "settling"] /\ slot' = None
                 /\ lock' = Append(Tail(lock), op)
      ELSE lock' = Tail(lock) /\ UNCHANGED <<call, slot>>
  BY <1>2 DEF Answer, Resolved
<1> HIDE DEF c, reply
<1>5. go => slot \in Calls /\ call[slot] = "waiting" /\ slot \in Pending
  BY DEF SlotIsOpen, QuestionsTypeOK
<1>6. go => /\ op.do = "settle" /\ op.call = slot /\ op.reply = reply /\ op \in Operations
  BY <1>2, <1>5 DEF Operation, Operations
<1> HIDE DEF op, go
<1>7. /\ LockMoves(1, n) /\ lock' \in Seq(Operations) /\ (Len(lock') = n + 1 <=> go)
      /\ AddedLast(op, n)
  <2>1. CASE go
    <3>1. LockMoves(1, n) /\ Len(lock') = Len(lock) /\ Len(lock) \in Nat /\ lock'[Len(lock)] = op
      BY <1>1, <1>4, <1>6, <2>1, LockPassed, Fields
    <3>2. n + 1 = Len(lock)
      BY <3>1
    <3> QED  BY <2>1, <3>1, <3>2 DEF AddedLast, LockMoves
  <2>2. CASE ~go
    <3>1. LockMoves(1, n) /\ lock' \in Seq(Operations) /\ ~(Len(lock') = n + 1)
      BY <1>1, <1>4, <2>2, LockLeft, Fields
    <3> HIDE DEF n
    <3> QED  BY <2>2, <3>1 DEF AddedLast
  <2> QED  BY <2>1, <2>2
<1>8. /\ call' \in [Calls -> Live \cup {"new", "done", "lost"}]
      /\ \A d \in Calls : call'[d] # call[d] => /\ go /\ d = slot /\ call[d] = "waiting"
                                                /\ call'[d] = "settling"
      /\ go => slot' = None /\ call'[slot] = "settling"
      /\ ~go => slot' = slot
  BY <1>4, <1>5 DEF QuestionsTypeOK, Live
<1>9. \A i \in 1 + 1 .. Len(lock) : ~OwnRecovery(i) \/ ~RecoverTheLost
  BY <1>1, <1>2, <1>7, NoneToRecover
<1>10. \A i \in 1 + 1 .. Len(lock) :
         /\ i \in 1 .. Len(lock)
         /\ lock[i].do # "recover" => lock[i].call \in Calls
         /\ lock[i].do = "request" => call[lock[i].call] = "asking"
         /\ lock[i].do = "settle" => call[lock[i].call] = "settling"
         /\ lock[i].do = "late" => lock[i].call \in ToSet(asked) /\ lock[i].call # slot
  BY Fields, StayingCalls
<1> HIDE DEF n
<1>11. /\ said' \in [Calls -> Replies \cup {None}]
       /\ \A d \in Calls \ {c} : said'[d] = said[d]
       /\ said'[c] # said[c] => c \in Pending /\ said'[c] = reply
       /\ c \in Pending => Acceptable(c, reply)
       /\ Pending' = Pending \ {c}
  BY <1>1, <1>2, <1>3, RecordingAnAnswer
<1>12. recovery'.step = "read" /\ RecoveryHasTheLock'
  BY <1>1, <1>2, NoneRecovers DEF Holds
<1>13. QuestionsTypeOK'
  BY <1>1, <1>7, <1>8, <1>11 DEF QuestionsTypeOK
<1>14. AnswersAreSafe'
  BY <1>1, InboxUnchanged
<1>15. OneIsOpen'
  BY <1>11 DEF OneIsOpen
<1>16. CallsAndRecord'
  <2>1. \A d \in Calls :
          /\ said'[d] # None \/ d \in recovered => d \in ToSet(asked)
          /\ call[d] = "allowed" => said'[d] = "allow"
    BY <1>2, <1>11 DEF CallsAndRecord, Pending
  <2>2. \A d \in Calls :
          /\ call'[d] \in {"new", "asking", "allowed", "answered", "done"} => call'[d] = call[d]
          /\ call[d] = "done" => call'[d] = "done"
    BY <1>8
  <2>3. \A d \in Calls : call'[d] = "waiting" => slot' = d
    BY <1>5, <1>8 DEF CallsAndRecord
  <2> QED  BY <1>1, <1>11, <2>1, <2>2, <2>3 DEF CallsAndRecord
<1>17. SlotIsOpen'
  <2>1. CASE go
    BY <1>8, <2>1 DEF SlotIsOpen
  <2>2. CASE ~go
    <3>1. slot # None => slot \in Calls /\ slot \in Pending /\ call'[slot] = "waiting" /\ slot' = slot
      BY <1>8, <2>2 DEF SlotIsOpen, QuestionsTypeOK
    <3>2. slot # None => c \notin Pending
      BY <1>11, <2>2 DEF go
    <3> QED  BY <1>8, <1>11, <2>2, <3>1, <3>2 DEF SlotIsOpen
  <2> QED  BY <2>1, <2>2
<1>18. LockFits'
  <2>1. \A i \in 1 + 1 .. Len(lock) : Stays(i, 1)
    <3> SUFFICES ASSUME NEW i \in 1 + 1 .. Len(lock) PROVE Stays(i, 1)
      OBVIOUS
    <3>1. lock[i].do = "late" => lock[i].call # slot' /\ lock[i].call \in Calls
      BY <1>8, <1>10, Fields
    <3>2. lock[i].do = "late" /\ call'[lock[i].call] = "settling" => call[lock[i].call] = "settling"
      BY <1>8, <1>10, <3>1
    <3>3. lock[i].do \in {"request", "settle"} => call'[lock[i].call] = call[lock[i].call]
      BY <1>8, <1>10
    <3> QED  BY <1>1, <1>2, <1>10, <3>1, <3>2, <3>3 DEF Stays, OpAt
  <2>2. ASSUME go PROVE Joins(op, 1)
    <3>1. \A j \in 1 + 1 .. Len(lock) : ~OpAt(j, "settle", slot)
      BY <1>5, <1>10, <2>2 DEF OpAt
    <3> QED  BY <1>2, <1>5, <1>6, <1>8, <2>2, <3>1 DEF Joins
  <2> QED  BY <1>7, <2>1, <2>2, LockFitsAfter
<1>19. SettlingIsQueued'
  <2>1. \A d \in Calls : call'[d] = "settling" =>
          (call[d] = "settling" /\ ~OpAt(1, "settle", d)) \/ (go /\ d = slot)
    BY <1>2, <1>8 DEF OpAt
  <2> QED  BY <1>6, <1>7, <2>1, SettlingAfter
<1>20. OrphansAreAlone'
  <2>1. \A e \in Pending : call[e] # "lost"
    BY <1>2 DEF OrphansAreAlone
  <2>2. \A e \in Pending' : call'[e] # "lost"
    BY <1>8, <1>11, <2>1, Fields
  <2> QED  BY <2>2 DEF OrphansAreAlone
<1>21. EachAnswerOnce => EachAnswerOnce'
  <2> SUFFICES ASSUME EachAnswerOnce PROVE EachAnswerOnce'
    OBVIOUS
  <2>1. Posted(1, c, reply)
    BY <1>2 DEF Posted, OpAt, c, reply
  <2>2. said[c] # reply
    BY <1>2, <2>1 DEF EachAnswerOnce, Given
  <2>3. go => slot = c
    BY <1>5, <2>2 DEF go, Acceptable, OneIsOpen
  <2>4. ASSUME NEW d \in Calls, NEW r \in {"allow", "deny"}, Given(d, r)'
        PROVE  Given(d, r) \/ Posted(1, d, r)
    <3>1. said'[d] = r \/ Given(d, r) \/ (go /\ op.call = d /\ op.reply = r)
      BY <1>7, <2>4, GivenAfter
    <3>2. said'[d] = r => said[d] = r \/ (d = c /\ r = reply)
      BY <1>11
    <3>3. said[d] = r => Given(d, r)
      BY DEF Given
    <3> QED  BY <1>6, <2>1, <2>3, <3>1, <3>2, <3>3
  <2>5. Len(lock') = n + 1 => op.do = "settle"
    BY <1>6, <1>7
  <2> QED  BY <1>1, <1>7, <2>4, <2>5, AnswersAfter
<1>22. RecoverTheLost => RecoverTheLost'
  <2>1. Len(lock') = n + 1 => op.do = "settle"
    BY <1>6, <1>7
  <2> QED  BY <1>7, <1>9, <1>12, <2>1, RecoveriesAfter
<1> QED  BY <1>1, <1>12, <1>13, <1>14, <1>15, <1>16, <1>17, <1>18, <1>19, <1>20, <1>21, <1>22

LEMMA LateAnswerKeeps ==
  ASSUME QuestionsInv, LateAnswer
  PROVE  QuestionsInv'
<1> DEFINE n == Len(lock) - 1
           c == lock[1].call
           reply == lock[1].reply
           op == Operation("recover", None, None)
           go == Acceptable(c, reply)
<1> USE DEF QuestionsInv, RecordInv
<1>1. /\ lock # <<>> /\ Head(lock).do = "late"
      /\ UNCHANGED <<asked, results, recovered, acked, file, runtime, run, call, slot, recovery,
                     stream, wake, answers, behind>>
  BY DEF LateAnswer, Holds, events
<1>2. /\ 1 \in 1 .. Len(lock) /\ Head(lock) = lock[1] /\ lock[1].do = "late"
      /\ c \in Calls /\ reply \in {"allow", "deny"} /\ reply \in Replies
      /\ c \in ToSet(asked) /\ c # slot /\ call[c] # "settling"
  BY <1>1, HolderFits DEF Replies
<1>3. Record(c, reply) /\ lock' = IF go THEN Append(Tail(lock), op) ELSE Tail(lock)
  BY <1>2 DEF LateAnswer
<1>4. op.do = "recover" /\ op.reply = None /\ op \in Operations
  BY DEF Operation, Operations
<1> HIDE DEF c, reply, op, go
<1>5. /\ LockMoves(1, n) /\ lock' \in Seq(Operations) /\ (Len(lock') = n + 1 <=> go)
      /\ AddedLast(op, n)
  <2>1. CASE go
    <3>1. LockMoves(1, n) /\ Len(lock') = Len(lock) /\ Len(lock) \in Nat /\ lock'[Len(lock)] = op
      BY <1>1, <1>3, <1>4, <2>1, LockPassed, Fields
    <3>2. n + 1 = Len(lock)
      BY <3>1
    <3> QED  BY <2>1, <3>1, <3>2 DEF AddedLast, LockMoves
  <2>2. CASE ~go
    <3>1. LockMoves(1, n) /\ lock' \in Seq(Operations) /\ ~(Len(lock') = n + 1)
      BY <1>1, <1>3, <2>2, LockLeft, Fields
    <3> HIDE DEF n
    <3> QED  BY <2>2, <3>1 DEF AddedLast
  <2> QED  BY <2>1, <2>2
<1>6. \A i \in 1 + 1 .. Len(lock) :
        /\ i \in 1 .. Len(lock)
        /\ lock[i].do # "recover" => lock[i].call \in Calls
        /\ lock[i].do = "request" => call[lock[i].call] = "asking"
        /\ lock[i].do = "settle" => call[lock[i].call] = "settling"
        /\ lock[i].do = "late" => lock[i].call \in ToSet(asked) /\ lock[i].call # slot
  BY Fields, StayingCalls
<1> HIDE DEF n
<1>7. /\ said' \in [Calls -> Replies \cup {None}]
      /\ \A d \in Calls \ {c} : said'[d] = said[d]
      /\ said'[c] # said[c] => c \in Pending /\ said'[c] = reply
      /\ c \in Pending => go
      /\ Pending' = Pending \ {c}
      /\ \A d \in Calls : Recoverable(d)' => Recoverable(d) \/ (d = c /\ c \in Pending)
  BY <1>1, <1>2, <1>3, RecordingAnAnswer DEF go
<1>8. recovery'.step = "read" /\ RecoveryHasTheLock'
  BY <1>1, <1>2, NoneRecovers DEF Holds
<1>9. QuestionsTypeOK'
  BY <1>1, <1>5, <1>7 DEF QuestionsTypeOK
<1>10. AnswersAreSafe'
  BY <1>1, InboxUnchanged
<1>11. OneIsOpen'
  BY <1>7 DEF OneIsOpen
<1>12. CallsAndRecord'
  <2>1. \A d \in Calls :
          /\ said'[d] # None \/ d \in recovered => d \in ToSet(asked)
          /\ call[d] = "allowed" => said'[d] = "allow"
    BY <1>2, <1>7 DEF CallsAndRecord, Pending
  <2> QED  BY <1>1, <1>7, <2>1 DEF CallsAndRecord
<1>13. SlotIsOpen'
  BY <1>1, <1>2, <1>7 DEF SlotIsOpen
<1>14. LockFits'
  <2>1. \A i \in 1 + 1 .. Len(lock) : Stays(i, 1)
    BY <1>1, <1>2, <1>6 DEF Stays, OpAt
  <2>2. Joins(op, 1)
    BY <1>4 DEF Joins
  <2> QED  BY <1>5, <2>1, <2>2, LockFitsAfter
<1>15. SettlingIsQueued'
  BY <1>1, <1>2, <1>5, SettlingAfter DEF OpAt
<1>16. \A d \in Calls : Gone(d)' = Gone(d)
  BY <1>1 DEF Gone
<1>17. OrphansAreAlone'
  <2>1. asked' = asked /\ asked \in Seq(Calls)
    BY <1>1 DEF QuestionsTypeOK
  <2> QED  BY <1>1, <1>4, <1>5, <1>7, <1>16, <2>1, Fields, OrphansAfter
<1>18. EachAnswerOnce => EachAnswerOnce'
  <2>1. Posted(1, c, reply)
    BY <1>2 DEF Posted, OpAt, c, reply
  <2>2. ASSUME NEW d \in Calls, NEW r \in {"allow", "deny"}, Given(d, r)'
        PROVE  Given(d, r) \/ Posted(1, d, r)
    <3>1. said'[d] = r \/ Given(d, r)
      BY <1>4, <1>5, <2>2, GivenAfter
    <3>2. said'[d] = r => said[d] = r \/ (d = c /\ r = reply)
      BY <1>7
    <3>3. said[d] = r => Given(d, r)
      BY DEF Given
    <3> QED  BY <2>1, <3>1, <3>2, <3>3
  <2> QED  BY <1>1, <1>4, <1>5, <2>2, AnswersAfter
<1>19. EachAnswerOnce /\ RecoverTheLost => RecoverTheLost'
  <2> SUFFICES ASSUME EachAnswerOnce, RecoverTheLost PROVE RecoverTheLost'
    OBVIOUS
  <2>1. CASE go
    <3>1. Posted(1, c, reply)
      BY <1>2 DEF Posted, OpAt, c, reply
    <3>2. said[c] # reply
      BY <1>2, <3>1 DEF EachAnswerOnce, Given
    <3>3. c \in Pending
      BY <2>1, <3>2 DEF go, Acceptable
    <3>4. call[c] = "lost"
      BY <1>2, <3>3 DEF CallsAndRecord, QuestionsTypeOK, Live
    <3>5. /\ \A d \in ToSet(asked) : Gone(d)
          /\ \A i \in 1 .. Len(lock) : lock[i].do \notin {"answer", "settle"}
      BY <3>3, <3>4 DEF OrphansAreAlone
    <3>6. \A d \in Calls : Recoverable(d)' => Gone(d)'
      BY <1>2, <1>7, <1>16, <3>5 DEF CallsAndRecord, Recoverable
    <3>7. \A i \in 1 + 1 .. Len(lock) : lock[i].do \in {"request", "late", "recover"}
      <4>1. \A i \in 1 .. Len(lock) : lock[i].do \in {"request", "settle", "answer", "late", "recover"}
        <5>1. \A i \in 1 .. Len(lock) : lock[i] \in Operations
          BY Fields
        <5> QED  BY <5>1 DEF Operations
      <4> QED  BY <1>6, <3>5, <4>1
    <3> QED  BY <1>5, <1>8, <3>6, <3>7, RecoveriesAfter
  <2>2. CASE ~go
    <3>1. (\E i \in 1 + 1 .. Len(lock) : OwnRecovery(i)) => \A d \in Calls : Recoverable(d)' => Gone(d)'
      BY <1>6, <1>7, <1>16, <2>2 DEF RecoverTheLost
    <3> QED  BY <1>5, <1>8, <2>2, <3>1, RecoveriesAfter
  <2> QED  BY <2>1, <2>2
<1> QED  BY <1>1, <1>8, <1>9, <1>10, <1>11, <1>12, <1>13, <1>14, <1>15, <1>17, <1>18, <1>19

-----------------------------------------------------------------------------
(* Steps of a recovery *)

\* The recovery goes on to the next answer, or leaves the lock.
LEMMA TakingNext ==
  ASSUME QuestionsInv, Holds("recover"), NEW todo \in SUBSET Calls, TakeNext(todo),
         UNCHANGED <<asked, said, results, call, slot, answers>>,
         recovered \subseteq recovered', \A d \in recovered' \ recovered : said[d] # None,
         \A d \in todo : said[d] # None /\ results[d] # <<"tool", "recovery">>,
         IsInjective(answers) /\ lock[1].reply = None => \A d \in todo : Gone(d)
  PROVE  /\ RecordInv' /\ lock' \in Seq(Operations)
         /\ recovery' \in [todo : SUBSET Calls, doing : Calls \cup {None}, inbox : SUBSET Messages,
                           step : {"read", "close"}]
         /\ recovery'.inbox = {} /\ wake' \in {TRUE, wake}
<1> USE DEF QuestionsInv, RecordInv
<1>1. /\ lock # <<>> /\ 1 \in 1 .. Len(lock) /\ Head(lock) = lock[1] /\ lock[1].do = "recover"
      /\ lock \in Seq(Operations)
  BY HolderFits, Fields DEF Holds
<1>2. /\ Pending' = Pending /\ OneIsOpen' /\ SlotIsOpen'
      /\ \A d \in Calls : Gone(d)' = Gone(d) /\ (Recoverable(d)' => Recoverable(d))
  BY DEF Pending, OneIsOpen, SlotIsOpen, Gone, Recoverable
<1>3. CallsAndRecord'
  <2>1. \A d \in Calls : d \in recovered' => d \in ToSet(asked)
    BY DEF CallsAndRecord
  <2> QED  BY <1>2, <2>1 DEF CallsAndRecord
<1>4. asked' = asked /\ asked \in Seq(Calls)
  BY DEF QuestionsTypeOK
<1>5. CASE todo = {}
  <2> DEFINE n == Len(lock) - 1
             op == None
  <2>1. recovery' = NoRecovery /\ lock' = Tail(lock) /\ wake' = TRUE
    BY <1>5 DEF TakeNext
  <2>2. /\ NoRecovery \in [todo : SUBSET Calls, doing : Calls \cup {None}, inbox : SUBSET Messages,
                           step : {"read", "close"}]
        /\ NoRecovery.inbox = {} /\ NoRecovery.step = "read" /\ NoRecovery.todo = {}
    BY DEF NoRecovery
  <2>3. LockMoves(1, n) /\ ~(Len(lock') = n + 1) /\ lock' \in Seq(Operations)
    BY <1>1, <2>1, LockLeft
  <2> HIDE DEF n, op
  <2>4. AddedLast(op, n)
    BY <2>3 DEF AddedLast
  <2>5. RecoveryHasTheLock' /\ recovery'.step = "read"
    BY <2>1, <2>2 DEF RecoveryHasTheLock
  <2>6. \A i \in 1 + 1 .. Len(lock) :
          /\ i \in 1 .. Len(lock)
          /\ lock[i].do # "recover" => lock[i].call \in Calls
          /\ lock[i].do = "request" => call[lock[i].call] = "asking"
          /\ lock[i].do = "settle" => call[lock[i].call] = "settling"
          /\ lock[i].do = "late" => lock[i].call \in ToSet(asked) /\ lock[i].call # slot
    BY Fields, StayingCalls
  <2>7. LockFits'
    <3>1. \A i \in 1 + 1 .. Len(lock) : Stays(i, 1)
      BY <1>1, <2>6 DEF Stays, OpAt
    <3> QED  BY <2>3, <2>4, <3>1, LockFitsAfter
  <2>8. SettlingIsQueued'
    BY <1>1, <2>3, <2>4, SettlingAfter DEF OpAt
  <2>9. OrphansAreAlone'
    BY <1>2, <1>4, <2>3, <2>4, Fields, OrphansAfter
  <2>10. EachAnswerOnce => EachAnswerOnce'
    <3>1. \A d \in Calls : \A r \in {"allow", "deny"} : Given(d, r)' => Given(d, r)
      BY <2>3, <2>4, NoAnswerGiven
    <3> QED  BY <2>3, <2>4, <3>1, AnswersAfter
  <2>11. RecoverTheLost => RecoverTheLost'
    <3>1. (\E i \in 1 + 1 .. Len(lock) : OwnRecovery(i)) /\ RecoverTheLost
            => \A d \in Calls : Recoverable(d)' => Gone(d)'
      BY <1>2, <2>6 DEF RecoverTheLost
    <3> QED  BY <2>3, <2>4, <2>5, <3>1, RecoveriesAfter
  <2> QED  BY <1>2, <1>3, <2>1, <2>2, <2>3, <2>5, <2>7, <2>8, <2>9, <2>10, <2>11
<1>6. CASE todo # {}
  <2>1. PICK c \in Earliest(todo) :
          recovery' = [todo |-> todo, doing |-> c, step |-> "close", inbox |-> {}]
    BY <1>6 DEF TakeNext
  <2>2. c \in todo /\ c \in Calls /\ UNCHANGED <<lock, wake>>
    BY <1>6 DEF Earliest, TakeNext
  <2>3. /\ recovery'.todo = todo /\ recovery'.doing = c /\ recovery'.step = "close"
        /\ recovery'.inbox = {}
        /\ recovery' \in [todo : SUBSET Calls, doing : Calls \cup {None}, inbox : SUBSET Messages,
                          step : {"read", "close"}]
    BY <2>1, <2>2
  <2>4. RecoveryHasTheLock'
    BY <2>2, <2>3 DEF RecoveryHasTheLock, Holds, Doing
  <2>5. SettlingIsQueued' /\ OrphansAreAlone'
    BY <1>2, <2>2 DEF SettlingIsQueued, OrphansAreAlone, OpAt, Gone
  <2>6. LockFits'
    BY <2>2 DEF LockFits, OpAt
  <2>7. EachAnswerOnce => EachAnswerOnce'
    BY <2>2, SameAnswers
  <2>8. IsInjective(answers) /\ RecoverTheLost => RecoverTheLost'
    BY <1>2, <2>2, <2>3 DEF RecoverTheLost, OwnRecovery
  <2> QED  BY <1>1, <1>2, <1>3, <2>2, <2>3, <2>4, <2>5, <2>6, <2>7, <2>8
<1> QED  BY <1>5, <1>6

LEMMA RecoverReadKeeps ==
  ASSUME QuestionsInv, RecoverRead
  PROVE  QuestionsInv'
<1> DEFINE todo == {c \in ToSet(asked) : Recoverable(c)}
<1> USE DEF QuestionsInv, RecordInv
<1>1. /\ Holds("recover") /\ recovery.step = "read" /\ TakeNext(todo)
      /\ UNCHANGED <<durable, runtime, run, call, slot, stream, answers, behind>>
  BY DEF RecoverRead, events
<1>2. todo \in SUBSET Calls /\ \A d \in todo : said[d] # None /\ results[d] # <<"tool", "recovery">>
  <2>1. Head(<<"tool", "recovery">>) = "tool" /\ <<"tool", "recovery">> # <<>>
    OBVIOUS
  <2> QED  BY <2>1, Fields DEF Recoverable
<1>3. IsInjective(answers) /\ lock[1].reply = None => \A d \in todo : Gone(d)
  <2>1. lock # <<>> /\ 1 \in 1 .. Len(lock) /\ lock[1].do = "recover"
    BY <1>1, HolderFits DEF Holds
  <2> QED  BY <1>2, <2>1 DEF RecoverTheLost, OwnRecovery
<1> HIDE DEF todo
<1>4. /\ RecordInv' /\ lock' \in Seq(Operations)
      /\ recovery' \in [todo : SUBSET Calls, doing : Calls \cup {None}, inbox : SUBSET Messages,
                        step : {"read", "close"}]
      /\ recovery'.inbox = {} /\ wake' \in {TRUE, wake}
  <2>1. UNCHANGED <<asked, said, results, call, slot, answers>> /\ recovered' = recovered
    BY <1>1 DEF durable
  <2>2. recovered \subseteq recovered' /\ \A d \in recovered' \ recovered : said[d] # None
    BY <2>1
  <2> QED  BY <1>1, <1>2, <1>3, <2>1, <2>2, TakingNext
<1>5. QuestionsTypeOK'
  BY <1>1, <1>4 DEF QuestionsTypeOK, durable
<1>6. AnswersAreSafe'
  BY <1>1, <1>4 DEF AnswersAreSafe, Safe, Held, durable
<1> QED  BY <1>4, <1>5, <1>6

LEMMA RecoverRecordKeeps ==
  ASSUME QuestionsInv, RecoverRecord
  PROVE  QuestionsInv'
<1> DEFINE todo == recovery.todo \ {Doing}
<1> USE DEF QuestionsInv, RecordInv
<1>1. /\ recovery.step = "record" /\ recovered' = recovered \cup {Doing} /\ TakeNext(todo)
      /\ UNCHANGED <<asked, said, results, acked, file, runtime, run, call, slot, stream, answers,
                     behind>>
  BY DEF RecoverRecord, events
<1>2. Holds("recover") /\ Doing \in Calls /\ said[Doing] # None /\ todo \in SUBSET Calls
  BY <1>1, Fields DEF RecoveryHasTheLock
<1>3. \A d \in todo : said[d] # None /\ results[d] # <<"tool", "recovery">>
  BY DEF RecoveryHasTheLock
<1>4. IsInjective(answers) /\ lock[1].reply = None => \A d \in todo : Gone(d)
  BY <1>1 DEF RecoverTheLost
<1> HIDE DEF todo
<1>5. /\ RecordInv' /\ lock' \in Seq(Operations)
      /\ recovery' \in [todo : SUBSET Calls, doing : Calls \cup {None}, inbox : SUBSET Messages,
                        step : {"read", "close"}]
      /\ recovery'.inbox = {} /\ wake' \in {TRUE, wake}
  <2>1. recovered \subseteq recovered' /\ \A d \in recovered' \ recovered : said[d] # None
    BY <1>1, <1>2
  <2> QED  BY <1>1, <1>2, <1>3, <1>4, <2>1, TakingNext
<1>6. QuestionsTypeOK'
  BY <1>1, <1>2, <1>5 DEF QuestionsTypeOK
<1>7. AnswersAreSafe'
  BY <1>1, <1>5 DEF AnswersAreSafe, Safe, Held
<1> QED  BY <1>5, <1>6, <1>7

\* The other steps of a recovery leave the transcript as it is, but for the closing result.
LEMMA RecoveryGoesOn ==
  ASSUME QuestionsInv, recovery.step # "read", recovery'.step \notin {"read", "close"},
         recovery'.todo = recovery.todo, recovery'.doing = recovery.doing,
         UNCHANGED <<asked, said, recovered, call, slot, lock, answers>>,
         \A d \in Calls : results'[d] # results[d] =>
           \/ results[d] = <<>> /\ results'[d] = <<"recovery">>
           \/ d = Doing /\ results[d] = <<"tool">> /\ results'[d] = <<"tool", "recovery">>
  PROVE  RecordInv'
<1> USE DEF QuestionsInv, RecordInv
<1>1. /\ Pending' = Pending /\ OneIsOpen' /\ SlotIsOpen' /\ SettlingIsQueued'
      /\ OrphansAreAlone'
  BY DEF Pending, OneIsOpen, SlotIsOpen, SettlingIsQueued, OrphansAreAlone, OpAt, Gone
<1>2. LockFits'
  BY DEF LockFits, OpAt
<1>3. CallsAndRecord'
  <2>1. \A d \in Calls :
          results'[d] \notin {<<>>, <<"recovery">>} => results[d] \notin {<<>>, <<"recovery">>}
    <3>1. <<"tool">> # <<>> /\ <<"tool">> # <<"recovery">>
      OBVIOUS
    <3> QED  BY <3>1
  <2> QED  BY <1>1, <2>1 DEF CallsAndRecord
<1>4. RecoveryHasTheLock'
  <2>1. \A d \in Calls :
          results'[d] = <<"tool", "recovery">> => d = Doing \/ results[d] = <<"tool", "recovery">>
    <3>1. <<"recovery">> # <<"tool", "recovery">>
      OBVIOUS
    <3> QED  BY <3>1
  <2> QED  BY <2>1, Fields DEF RecoveryHasTheLock, Holds, Doing
<1>5. EachAnswerOnce => EachAnswerOnce'
  BY SameAnswers
<1>6. RecoverTheLost => RecoverTheLost'
  <2>1. \A d \in Calls : Recoverable(d)' => Recoverable(d)
    <3>1. Head(<<"tool", "recovery">>) = "tool" /\ <<"tool", "recovery">> # <<>>
      OBVIOUS
    <3> QED  BY <3>1 DEF Recoverable
  <2> QED  BY <2>1 DEF RecoverTheLost, OwnRecovery, Gone
<1> QED  BY <1>1, <1>2, <1>3, <1>4, <1>5, <1>6

LEMMA RecoverCloseKeeps ==
  ASSUME QuestionsInv, RecoverClose
  PROVE  QuestionsInv'
<1> USE DEF QuestionsInv, RecordInv
<1>1. /\ recovery.step = "close" /\ recovery' = [recovery EXCEPT !.step = "open"]
      /\ results' = IF results[Doing] # <<>> /\ Head(results[Doing]) = "recovery" THEN results
                    ELSE [results EXCEPT ![Doing] = Append(@, "recovery")]
      /\ UNCHANGED <<asked, said, recovered, acked, file, runtime, run, call, slot, lock, stream,
                     wake, answers, behind>>
  BY DEF RecoverClose, events
<1>2. Doing \in Calls /\ results[Doing] # <<"tool", "recovery">>
  BY <1>1, Fields DEF RecoveryHasTheLock
<1>3. /\ recovery'.step = "open" /\ recovery'.todo = recovery.todo /\ recovery'.doing = recovery.doing
      /\ recovery'.inbox = recovery.inbox
      /\ recovery' \in [todo : SUBSET Calls, doing : Calls \cup {None}, inbox : SUBSET Messages,
                        step : {"read", "close", "open", "enqueue", "record"}]
  BY <1>1 DEF QuestionsTypeOK
<1>4. /\ results' \in [Calls -> {<<>>, <<"tool">>, <<"recovery">>, <<"recovery", "tool">>,
                                 <<"tool", "recovery">>}]
      /\ \A d \in Calls : results'[d] # results[d] =>
           \/ results[d] = <<>> /\ results'[d] = <<"recovery">>
           \/ d = Doing /\ results[d] = <<"tool">> /\ results'[d] = <<"tool", "recovery">>
  <2>1. results \in [Calls -> {<<>>, <<"tool">>, <<"recovery">>, <<"recovery", "tool">>,
                               <<"tool", "recovery">>}]
    BY DEF QuestionsTypeOK
  <2>2. CASE results' = results
    BY <2>1, <2>2
  <2>3. CASE /\ results' = [results EXCEPT ![Doing] = Append(@, "recovery")]
             /\ results[Doing] \in {<<>>, <<"tool">>}
    <3>1. Append(<<>>, "recovery") = <<"recovery">>
      OBVIOUS
    <3>2. Append(<<"tool">>, "recovery") = <<"tool", "recovery">>
      BY AppendedToOne
    <3>3. \A d \in Calls : results'[d] = IF d = Doing THEN Append(results[d], "recovery") ELSE results[d]
      BY <2>1, <2>3
    <3>4. DOMAIN results' = Calls /\ results' = [d \in Calls |-> results'[d]]
      BY <2>1, <2>3
    <3>5. \A d \in Calls : results'[d] # results[d] =>
            \/ results[d] = <<>> /\ results'[d] = <<"recovery">>
            \/ d = Doing /\ results[d] = <<"tool">> /\ results'[d] = <<"tool", "recovery">>
      BY <2>3, <3>1, <3>2, <3>3
    <3>6. \A d \in Calls : results'[d] \in {<<>>, <<"tool">>, <<"recovery">>, <<"recovery", "tool">>,
                                            <<"tool", "recovery">>}
      BY <2>1, <3>5
    <3> QED  BY <3>4, <3>5, <3>6
  <2>4. results[Doing] \in {<<"recovery">>, <<"recovery", "tool">>} =>
          results[Doing] # <<>> /\ Head(results[Doing]) = "recovery"
    OBVIOUS
  <2> QED  BY <1>1, <1>2, <2>1, <2>2, <2>3, <2>4
<1>5. RecordInv'
  BY <1>1, <1>3, <1>4, RecoveryGoesOn
<1>6. QuestionsTypeOK'
  BY <1>1, <1>3, <1>4 DEF QuestionsTypeOK
<1>7. AnswersAreSafe'
  BY <1>1, <1>3 DEF AnswersAreSafe, Safe, Held
<1> QED  BY <1>5, <1>6, <1>7

LEMMA RecoverOpenKeeps ==
  ASSUME QuestionsInv, RecoverOpen
  PROVE  QuestionsInv'
<1> USE DEF QuestionsInv
<1>1. /\ recovery.step = "open" /\ file' = file \ acked
      /\ recovery' = [recovery EXCEPT !.step = "enqueue", !.inbox = file \ acked]
      /\ UNCHANGED <<asked, said, results, recovered, acked, runtime, run, call, slot, lock, stream,
                     wake, answers, behind>>
  BY DEF RecoverOpen, transcript, events
<1>2. /\ recovery'.step = "enqueue" /\ recovery'.todo = recovery.todo
      /\ recovery'.doing = recovery.doing /\ recovery'.inbox = file \ acked
      /\ recovery' \in [todo : SUBSET Calls, doing : Calls \cup {None}, inbox : SUBSET Messages,
                        step : {"read", "close", "open", "enqueue", "record"}]
      /\ file' \subseteq Messages
  BY <1>1 DEF QuestionsTypeOK
<1>3. RecordInv'
  BY <1>1, <1>2, RecoveryGoesOn
<1>4. QuestionsTypeOK'
  BY <1>1, <1>2 DEF QuestionsTypeOK
<1>5. AnswersAreSafe'
  BY <1>1, <1>2 DEF AnswersAreSafe, Safe, Held
<1> QED  BY <1>3, <1>4, <1>5

LEMMA RecoverEnqueueKeeps ==
  ASSUME QuestionsInv, RecoverEnqueue
  PROVE  QuestionsInv'
<1> USE DEF QuestionsInv
<1>1. /\ recovery.step = "enqueue"
      /\ file' = IF Doing \in recovery.inbox THEN file ELSE recovery.inbox \cup {Doing}
      /\ behind' = IF runtime.on /\ Doing \notin runtime.inbox THEN behind \cup {Doing} ELSE behind
      /\ recovery' = [recovery EXCEPT !.step = "record", !.inbox = {}]
      /\ UNCHANGED <<asked, said, results, recovered, acked, runtime, run, call, slot, lock, stream,
                     wake, answers>>
  BY DEF RecoverEnqueue, transcript, events
<1>2. /\ recovery'.step = "record" /\ recovery'.todo = recovery.todo
      /\ recovery'.doing = recovery.doing /\ recovery'.inbox = {}
      /\ recovery' \in [todo : SUBSET Calls, doing : Calls \cup {None}, inbox : SUBSET Messages,
                        step : {"read", "close", "open", "enqueue", "record"}]
  BY <1>1 DEF QuestionsTypeOK
<1>3. Doing \in Messages /\ Doing' = Doing
  BY <1>1, <1>2, Fields DEF RecordInv, RecoveryHasTheLock, Messages, Doing
<1>4. RecordInv'
  BY <1>1, <1>2, RecoveryGoesOn
<1>5. QuestionsTypeOK'
  BY <1>1, <1>2, <1>3, Fields DEF QuestionsTypeOK
<1>6. AnswersAreSafe'
  <2>1. Held' = Held /\ acked' = acked /\ behind \subseteq behind' /\ recovered' = recovered
    BY <1>1 DEF Held
  <2>2. Doing \in behind' \cup Held
    BY <1>1, <1>3 DEF Held
  <2>3. Safe(recovered)' /\ Safe({Doing})' /\ file' \subseteq acked \cup behind' \cup Held
    BY <1>1, <1>3, <2>1, <2>2 DEF AnswersAreSafe, Safe
  <2> QED  BY <1>1, <1>2, <1>3, <2>1, <2>3 DEF AnswersAreSafe, Safe
<1> QED  BY <1>4, <1>5, <1>6

-----------------------------------------------------------------------------
(* The server crashes *)

LEMMA CrashKeeps ==
  ASSUME QuestionsInv, Crash
  PROVE  QuestionsInv'
<1> USE DEF QuestionsInv, RecordInv
<1>1. /\ runtime' = NoRuntime /\ run' = NoRun /\ slot' = None /\ lock' = <<>>
      /\ recovery' = NoRecovery /\ stream' = None /\ wake' = FALSE
      /\ call' = [c \in Calls |-> IF call[c] \in Live THEN "lost" ELSE call[c]]
      /\ UNCHANGED <<asked, said, results, recovered, acked, file, answers, behind>>
  BY DEF Crash, durable
<1>2. /\ NoRun \in [stage : {"none", "active", "ending"}, aborted : BOOLEAN, taken : SUBSET Messages]
      /\ NoRuntime \in [on : BOOLEAN, inbox : SUBSET Messages]
      /\ NoRecovery \in [todo : SUBSET Calls, doing : Calls \cup {None}, inbox : SUBSET Messages,
                         step : {"read", "close", "open", "enqueue", "record"}]
      /\ NoRun.stage = "none" /\ NoRuntime.on = FALSE /\ NoRecovery.step = "read"
      /\ NoRecovery.inbox = {} /\ NoRecovery.todo = {}
  BY DEF NoRun, NoRuntime, NoRecovery
<1>3. \A c \in Calls : /\ call'[c] \in {"new", "done", "lost"}
                       /\ call'[c] \in {"new", "done"} => call[c] = call'[c]
                       /\ call[c] = "done" => call'[c] = "done"
  BY <1>1 DEF QuestionsTypeOK, Live
<1>4. lock' \in Seq(Operations) /\ Len(lock') = 0 /\ 1 .. Len(lock') = {}
  BY <1>1
<1>5. QuestionsTypeOK'
  <2>1. call' \in [Calls -> Live \cup {"new", "done", "lost"}]
    BY <1>1, <1>3
  <2>2. None \in {"none", "idle", "busy"} /\ FALSE \in BOOLEAN
    BY DEF None
  <2> QED  BY <1>1, <1>2, <1>4, <2>1, <2>2 DEF QuestionsTypeOK
<1>6. AnswersAreSafe'
  <2>1. Held' = Messages /\ file \subseteq Messages /\ recovered \subseteq acked \cup behind \cup file
        /\ recovered \subseteq Messages
    BY <1>1, <1>2 DEF Held, AnswersAreSafe, Safe, QuestionsTypeOK, Messages
  <2> QED  BY <1>1, <1>2, <2>1 DEF AnswersAreSafe, Safe
<1>7. OneIsOpen' /\ Pending' = Pending
  BY <1>1 DEF OneIsOpen, Pending
<1>8. CallsAndRecord'
  BY <1>1, <1>3, <1>7 DEF CallsAndRecord
<1>9. SlotIsOpen' /\ RecoveryHasTheLock'
  BY <1>1, <1>2 DEF SlotIsOpen, RecoveryHasTheLock
<1>10. LockFits' /\ SettlingIsQueued'
  BY <1>3, <1>4 DEF LockFits, SettlingIsQueued
<1>11. OrphansAreAlone'
  <2>1. \A c \in ToSet(asked) : Gone(c)'
    BY <1>3, Fields DEF Gone, CallsAndRecord
  <2> QED  BY <1>1, <1>4, <2>1 DEF OrphansAreAlone
<1>12. EachAnswerOnce => EachAnswerOnce'
  <2>1. \A c \in Calls : \A reply \in {"allow", "deny"} : Given(c, reply)' => Given(c, reply)
    BY <1>1, <1>4 DEF Given
  <2> QED  BY <1>1, <1>4, <2>1 DEF EachAnswerOnce
<1>13. RecoverTheLost'
  BY <1>1, <1>2, <1>4 DEF RecoverTheLost
<1> QED  BY <1>1, <1>5, <1>6, <1>7, <1>8, <1>9, <1>10, <1>11, <1>12, <1>13

-----------------------------------------------------------------------------

LEMMA QuestionsStart == QuestionsInit => QuestionsInv
<1> SUFFICES ASSUME QuestionsInit PROVE QuestionsInv
  OBVIOUS
<1>1. /\ asked = <<>> /\ said = [c \in Calls |-> None] /\ results = [c \in Calls |-> <<>>]
      /\ recovered = {} /\ acked = {} /\ file = {} /\ lock = <<>> /\ answers = <<>> /\ slot = None
      /\ call = [c \in Calls |-> "new"] /\ stream = None /\ wake = FALSE
      /\ runtime = NoRuntime /\ run = NoRun /\ recovery = NoRecovery
  BY DEF QuestionsInit
<1>2. /\ NoRun \in [stage : {"none", "active", "ending"}, aborted : BOOLEAN, taken : SUBSET Messages]
      /\ NoRuntime \in [on : BOOLEAN, inbox : SUBSET Messages]
      /\ NoRecovery \in [todo : SUBSET Calls, doing : Calls \cup {None}, inbox : SUBSET Messages,
                         step : {"read", "close", "open", "enqueue", "record"}]
      /\ NoRun.stage = "none" /\ NoRuntime.on = FALSE /\ NoRecovery.step = "read"
      /\ NoRecovery.inbox = {} /\ NoRecovery.todo = {}
  BY DEF NoRun, NoRuntime, NoRecovery
<1>3. ToSet(<<>>) = {} /\ IsInjective(<<>>) /\ Len(<<>>) = 0 /\ 1 .. 0 = {}
  BY DEF ToSet, IsInjective
<1>4. QuestionsTypeOK
  <2>1. <<>> \in Seq(Calls) /\ <<>> \in Seq(Operations) /\ <<>> \in Seq(Calls \X {"allow", "deny"})
    OBVIOUS
  <2>2. None \in {"none", "idle", "busy"}
    BY DEF None
  <2> QED  BY <1>1, <1>2, <1>3, <2>1, <2>2 DEF QuestionsTypeOK, Live
<1>5. AnswersAreSafe
  BY <1>1, <1>2 DEF AnswersAreSafe, Safe, Held
<1>6. Pending = {} /\ OneIsOpen /\ SlotIsOpen /\ OrphansAreAlone
  BY <1>1, <1>3 DEF Pending, OneIsOpen, SlotIsOpen, OrphansAreAlone
<1>7. CallsAndRecord /\ RecoveryHasTheLock
  BY <1>1, <1>2, <1>3, <1>6 DEF CallsAndRecord, RecoveryHasTheLock
<1>8. LockFits /\ SettlingIsQueued /\ RecoverTheLost
  BY <1>1, <1>2, <1>3 DEF LockFits, SettlingIsQueued, RecoverTheLost
<1>9. EachAnswerOnce
  BY <1>1, <1>3 DEF EachAnswerOnce, Given, None
<1> QED  BY <1>4, <1>5, <1>6, <1>7, <1>8, <1>9 DEF QuestionsInv, RecordInv

LEMMA QuestionsStutter ==
  ASSUME QuestionsInv, UNCHANGED questionVars
  PROVE  QuestionsInv'
<1>1. UNCHANGED <<recordVars, acked, file, runtime, run, stream, wake, behind>>
  BY DEF questionVars, durable, events, recordVars
<1>2. QuestionsTypeOK'
  BY <1>1 DEF QuestionsInv, QuestionsTypeOK, recordVars
<1>3. RecordInv'
  BY <1>1, RecordUnchanged DEF QuestionsInv
<1>4. AnswersAreSafe'
  BY <1>1, InboxUnchanged DEF QuestionsInv, recordVars
<1> QED  BY <1>2, <1>3, <1>4 DEF QuestionsInv

\* The invariant of the questions: what the transcript, the calls, the lock and the recovery
\* say of each other, and where a recovered answer is.
THEOREM QuestionsInvariant == QuestionsSpec => []QuestionsInv
<1>1. QuestionsInv /\ [QuestionsNext]_questionVars => QuestionsInv'
  <2> SUFFICES ASSUME QuestionsInv, [QuestionsNext]_questionVars PROVE QuestionsInv'
    OBVIOUS
  <2>1. ASSUME NEW c \in Calls, Ask(c) PROVE QuestionsInv'
    BY <2>1, AskKeeps
  <2>2. ASSUME NEW c \in Calls, Execute(c) \/ SaveResult(c) PROVE QuestionsInv'
    BY <2>2, RunningKeeps
  <2>3. ASSUME (\E c \in Calls : Timeout(c)) \/ Cancel PROVE QuestionsInv'
    BY <2>3, ResolvingKeeps
  <2>4. ASSUME NEW c \in Calls, NEW reply \in {"allow", "deny"}, Post(c, reply) PROVE QuestionsInv'
    BY <2>4, PostKeeps
  <2>5. CASE Request
    BY <2>5, RequestKeeps
  <2>6. CASE SettleOwn
    BY <2>6, SettleOwnKeeps
  <2>7. CASE Answer
    BY <2>7, AnswerKeeps
  <2>8. CASE LateAnswer
    BY <2>8, LateAnswerKeeps
  <2>9. CASE Connect \/ Connected
    BY <2>9, ConnectKeeps
  <2>10. CASE RecoverRead
    BY <2>10, RecoverReadKeeps
  <2>11. CASE RecoverClose
    BY <2>11, RecoverCloseKeeps
  <2>12. CASE RecoverOpen
    BY <2>12, RecoverOpenKeeps
  <2>13. CASE RecoverEnqueue
    BY <2>13, RecoverEnqueueKeeps
  <2>14. CASE RecoverRecord
    BY <2>14, RecoverRecordKeeps
  <2>15. CASE (\E m \in Inputs : Send(m)) \/ Resume \/ Acknowledge \/ EndRun \/ GiveUp \/ Evict
    BY <2>15, InboxSteps
  <2>16. CASE Crash
    BY <2>16, CrashKeeps
  <2>17. CASE UNCHANGED questionVars
    BY <2>17, QuestionsStutter
  <2> QED  BY <2>1, <2>2, <2>3, <2>4, <2>5, <2>6, <2>7, <2>8, <2>9, <2>10, <2>11, <2>12, <2>13,
              <2>14, <2>15, <2>16, <2>17, Zenon DEF QuestionsNext
<1> QED  BY <1>1, QuestionsStart, PTL DEF QuestionsSpec

\* Whoever answers, times out or cancels at the same time, a tool runs only on the recorded
\* answer of a client to its own question, unless an answer was repeated, and clients are asked
\* only what is open in the transcript.
THEOREM ToolsActAsAnswered == QuestionsSpec => []ToolsActOnTheRecord
<1>1. QuestionsInv => ToolsActOnTheRecord
  <2> SUFFICES ASSUME QuestionsInv PROVE ToolsActOnTheRecord
    OBVIOUS
  <2>1. QuestionsTypeOK /\ SlotIsOpen
    BY DEF QuestionsInv, RecordInv
  <2>2. ASSUME NEW c \in Calls, call[c] = "allowed"
        PROVE  said[c] = "allow" /\ (<<c, "allow">> \in ToSet(answers) \/ ~IsInjective(answers))
    <3>1. said[c] = "allow"
      BY <2>2 DEF QuestionsInv, RecordInv, CallsAndRecord
    <3>2. IsInjective(answers) => <<c, "allow">> \in ToSet(answers)
      BY <3>1 DEF QuestionsInv, RecordInv, EachAnswerOnce, Given
    <3> QED  BY <3>1, <3>2
  <2> QED  BY <2>1, <2>2 DEF ToolsActOnTheRecord, SlotIsOpen
<1> QED  BY <1>1, QuestionsInvariant, PTL

\* A recorded recovery is never ahead of the inbox: its answer is there, was handled, or a
\* runtime was resident that did not hold it.
THEOREM AnswersReachATurn == QuestionsSpec => []RecoveredIsHandled
<1>1. QuestionsInv => RecoveredIsHandled
  BY DEF QuestionsInv, AnswersAreSafe, Safe, RecoveredIsHandled
<1> QED  BY <1>1, QuestionsInvariant, PTL

\* A recovery never closes a call whose tool still waits or is about to run, but for the two
\* exceptions the property names.
THEOREM RecoveryLeavesToolsAlone == QuestionsSpec => RunningToolsAreLeftAlone
<1> DEFINE LeftAlone ==
             \A c \in Calls : results'[c] # results[c] /\ Last(results'[c]) = "recovery"
               => \/ call[c] \notin {"waiting", "allowed"}
                  \/ Head(lock).reply = "stream" \/ ~IsInjective(answers)
<1>1. ASSUME QuestionsInv, [QuestionsNext]_questionVars PROVE LeftAlone
  <2> SUFFICES ASSUME NEW c \in Calls, results'[c] # results[c], call[c] \in {"waiting", "allowed"},
                      Head(lock).reply # "stream", IsInjective(answers)
               PROVE  FALSE
    OBVIOUS
  <2>1. \A d \in Calls : SaveResult(d) => results'[c] = results[c]
    <3> SUFFICES ASSUME NEW d \in Calls, SaveResult(d) PROVE results'[c] = results[c]
      OBVIOUS
    <3>1. d # c /\ results' = [results EXCEPT ![d] = Append(@, "tool")]
      BY DEF SaveResult
    <3> QED  BY <1>1, <3>1 DEF QuestionsInv, QuestionsTypeOK
  <2>2. RecoverClose => results'[c] = results[c]
    <3> SUFFICES ASSUME RecoverClose PROVE results'[c] = results[c]
      OBVIOUS
    <3>1. recovery.step = "close" /\ recovery.step # "read"
      BY DEF RecoverClose
    <3>2. Holds("recover") /\ Doing \in recovery.todo
      BY <1>1, <3>1 DEF QuestionsInv, RecordInv, RecoveryHasTheLock
    <3>3. Head(lock) = lock[1] /\ lock[1].reply = None
      BY <1>1, <3>2, HolderFits DEF Holds, QuestionsInv, RecordInv
    <3>4. Gone(Doing)
      BY <1>1, <3>1, <3>2, <3>3 DEF QuestionsInv, RecordInv, RecoverTheLost
    <3>5. Doing # c
      BY <3>4 DEF Gone
    <3> QED  BY <1>1, <3>5 DEF RecoverClose, QuestionsInv, QuestionsTypeOK
  <2>3. UNCHANGED results \/ (\E d \in Calls : SaveResult(d)) \/ RecoverClose
    <3>1. CASE QuestionsNext
      BY <3>1 DEF QuestionsNext, Ask, Timeout, Execute, Post, Request, SettleOwn, Answer, LateAnswer,
           Cancel, Connect, Connected, RecoverRead, RecoverOpen, RecoverEnqueue, RecoverRecord, Send,
           Resume, Acknowledge, EndRun, GiveUp, Evict, Crash, durable, transcript
    <3>2. CASE UNCHANGED questionVars
      BY <3>2 DEF questionVars, durable
    <3> QED  BY <1>1, <3>1, <3>2
  <2> QED  BY <2>1, <2>2, <2>3
<1>2. QuestionsSpec => [][LeftAlone]_questionVars
  <2>1. QuestionsInv /\ [QuestionsNext]_questionVars => [LeftAlone]_questionVars
    BY <1>1
  <2> HIDE DEF LeftAlone
  <2> QED  BY <2>1, QuestionsInvariant, PTL DEF QuestionsSpec
<1> QED  BY <1>2 DEF RunningToolsAreLeftAlone
=============================================================================
