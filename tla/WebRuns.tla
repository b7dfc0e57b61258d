------------------------------ MODULE WebRuns ------------------------------
(***************************************************************************)
(* packages/cli/src/server/routes/session.ts: the runs of one session of   *)
(* the web server. A message either steers the active run or prepares a    *)
(* turn and starts a run; a client that reconnects wakes what is pending;  *)
(* a run ends through its follow-up loop, its cancellation and its cleanup *)
(* with awaits in between. Runs of one session can overlap: a cancelled    *)
(* run no longer counts as active while it still settles. The mailbox of   *)
(* TurnMailbox is one step per operation here, but for the write in the    *)
(* middle of an enqueue, during which its mutex is held.                   *)
(***************************************************************************)
EXTENDS Naturals, FiniteSets

CONSTANTS
  Messages,      \* the messages that clients post, one request each
  Resumers,      \* bound: calls of resumePendingSession at one time
  MaxRuns,       \* bound: runs that start
  MaxReconnects, \* bound: clients that connect
  MaxMishaps,    \* bound: aborts that users ask for, and requests, set-ups and turns that fail
  MaxFollowUps   \* rounds of the follow-up loop of a run

Runs == 1 .. MaxRuns
Nobody == 0

ASSUME WebRunsAssumption ==
  /\ Messages \cap Runs = {} /\ Resumers \cap (Messages \cup Runs) = {}
  /\ Nobody \notin Messages \cup Runs \cup Resumers
  /\ MaxRuns \in Nat \ {0} /\ MaxFollowUps \in Nat \ {0}
  /\ MaxReconnects \in Nat /\ MaxMishaps \in Nat

VARIABLES
  isolated,  \* the session is a task with a worktree: admission, and disposal at the end
  req,       \* per message its request: how far it is, the run that was current when it took
             \* the lock, and its answer
  lock,      \* holder of the message submission lock
  leases,    \* who pins the runtime: requests, runs, resumers
  runtime,   \* "none", "resident" or "disposing"
  turn,      \* activeTurn: the owner of its handle, whether it is sealed, and (history) whether
             \* the step that had to end it left it behind
  writing,   \* the message an enqueue is writing, with what the enqueue saw before
  inbox,     \* pending messages
  claimed,   \* of these, what the turn has taken
  handled, discarded,   \* transcript: messages acknowledged by a turn, by a cancellation
  run,       \* per run: its state, where executeRunAsync is, whether it has its task's
             \* admission key
  current,   \* session.currentRunId
  task,      \* session.taskStatus
  waking,    \* per call of resumePendingSession: how far it is
  gate,      \* admissionGate accepts
  down,      \* shutdown: "no", "closing", "draining", "done"
  observed,  \* runs whose completion it waits for
  budget     \* reconnects and mishaps so far

mailbox == <<turn, writing, inbox, claimed, handled, discarded>>
runVars == <<run, current, task>>
downVars == <<gate, down, observed>>
vars == <<isolated, req, lock, leases, runtime, mailbox, runVars, waking, downVars, budget>>

NoWrite == [m |-> Nobody, direct |-> FALSE, next |-> FALSE]
TurnOf(x) == [owner |-> x, sealed |-> FALSE, lost |-> FALSE]
NoTurn == TurnOf(Nobody)
NoRequest == [step |-> "idle", asked |-> Nobody, answer |-> "none"]
NoRun == [status |-> "none", step |-> "none", key |-> FALSE, prepared |-> Nobody, wants |-> FALSE,
          reason |-> "none", rounds |-> 0, dropping |-> {}]

Active(r) == r \in Runs /\ run[r].status \in {"queued", "running", "waiting_permission"}
Started == {r \in Runs : run[r] # NoRun}
Live == {r \in Started : run[r].step # "settled"}
Spend(what) == budget' = [budget EXCEPT ![what] = @ + 1]
Mishap == budget.mishaps < MaxMishaps /\ Spend("mishaps")
\* Where something has failed already, the record of it may fail as well.
RecordFails == IF budget.mishaps = 0 THEN Mishap ELSE UNCHANGED budget

TypeOK ==
  /\ isolated \in BOOLEAN /\ gate \in BOOLEAN /\ lock \in Messages \cup {Nobody}
  /\ \A m \in Messages :
       /\ req[m].step \in {"idle", "waiting", "steer", "open", "steering", "opening", "steerWrites",
                           "openWrites", "prepared", "answering", "done"}
       /\ req[m].asked \in Runs \cup {Nobody}
       /\ req[m].answer \in {"none", "steered", "queued", "started", "refused", "failed"}
  /\ leases \subseteq Messages \cup Runs \cup Resumers
  /\ runtime \in {"none", "resident", "disposing"}
  /\ turn.owner \in Messages \cup Runs \cup {Nobody}
  /\ turn.sealed \in BOOLEAN /\ turn.lost \in BOOLEAN
  /\ writing.m \in Messages \cup {Nobody}
  /\ inbox \cup claimed \cup handled \cup discarded \subseteq Messages
  /\ \A r \in Runs :
       /\ run[r].status \in {"none", "queued", "running", "waiting_permission", "completed",
                            "failed", "cancelled"}
       /\ run[r].step \in {"none", "queued", "setup", "begin", "turn", "followUp", "closing", "catch",
                           "finalizing", "discarding", "ending", "disposing", "settled"}
       /\ run[r].prepared \in Messages \cup {Nobody} /\ run[r].wants \in BOOLEAN /\ run[r].key \in BOOLEAN
       /\ run[r].reason \in {"none", "user", "shutdown"}
       /\ run[r].rounds \in 0 .. MaxFollowUps /\ run[r].dropping \subseteq Messages
  /\ current \in Runs \cup {Nobody}
  /\ task \in {"none", "queued", "running", "completed", "failed", "cancelled"}
  /\ waking \in [Resumers -> {"idle", "asked", "leased"}]
  /\ down \in {"no", "closing", "draining", "done"} /\ observed \subseteq Runs

Init ==
  /\ isolated \in BOOLEAN /\ gate = TRUE /\ lock = Nobody
  /\ req = [m \in Messages |-> NoRequest] /\ run = [r \in Runs |-> NoRun]
  /\ leases = {} /\ runtime = "none" /\ turn = NoTurn /\ writing = NoWrite
  /\ inbox = {} /\ claimed = {} /\ handled = {} /\ discarded = {}
  /\ current = Nobody /\ task = "none" /\ waking = [w \in Resumers |-> "idle"]
  /\ down = "no" /\ observed = {}
  /\ budget = [reconnects |-> 0, mishaps |-> 0]

\* acquireRuntime: waits for a disposal, then pins the runtime or creates it.
Acquire(who) ==
  /\ runtime # "disposing"
  /\ runtime' = "resident" /\ leases' = leases \cup {who}

-----------------------------------------------------------------------------
(* startRun *)

\* A task has one run at a time: a cancelled one keeps the key until it has settled.
KeyTaken == \E r \in Runs : run[r].key

\* The run takes over the lease of who starts it; that of a task asks for admission.
StartRun(who, message) ==
  \E r \in Runs \ Started, first \in {"queued", "running"} :
    /\ gate /\ ~KeyTaken /\ \A s \in Runs \ Started : r <= s
    /\ first = "queued" => isolated
    /\ run' = [run EXCEPT ![r] = [NoRun EXCEPT !.status = first, !.prepared = message,
                                  !.key = isolated,
                                  !.step = IF isolated THEN "queued" ELSE "setup"]]
    /\ current' = r /\ leases' = (leases \ {who}) \cup {r}
    /\ task' = IF isolated THEN first ELSE task

\* It throws when the gate has closed, the key is taken, or the admission queue is full.
StartThrows == IF gate /\ ~KeyTaken THEN isolated /\ Mishap ELSE UNCHANGED budget

-----------------------------------------------------------------------------
(* POST /:sessionId/message *)

Goes(m, to) == req' = [req EXCEPT ![m].step = to]
Answer(m, what) ==
  /\ req' = [req EXCEPT ![m] = [NoRequest EXCEPT !.step = "done", !.answer = what]]
  /\ lock' = Nobody

Post(m) ==
  /\ gate /\ req[m].step = "idle" /\ Goes(m, "waiting")
  /\ UNCHANGED <<isolated, lock, leases, runtime, mailbox, runVars, waking, downVars, budget>>

TakeLock(m) ==
  /\ req[m].step = "waiting" /\ lock = Nobody /\ lock' = m
  /\ req' = [req EXCEPT ![m].asked = current,
                        ![m].step = IF Active(current) THEN "steer" ELSE "open"]
  /\ UNCHANGED <<isolated, leases, runtime, mailbox, runVars, waking, downVars, budget>>

Lease(m) ==
  /\ req[m].step \in {"steer", "open"}
  /\ \/ /\ Acquire(m) /\ Goes(m, IF req[m].step = "steer" THEN "steering" ELSE "opening")
        /\ UNCHANGED <<lock, budget>>
     \/ Mishap /\ Answer(m, "failed") /\ UNCHANGED <<leases, runtime>>
  /\ UNCHANGED <<isolated, mailbox, runVars, waking, downVars>>

\* enqueueSteering or prepareInputTurn, up to the write; an active turn refuses the second.
BeginEnqueue(m) ==
  /\ req[m].step \in {"steering", "opening"} /\ writing = NoWrite
  /\ IF req[m].step = "opening" /\ turn # NoTurn
     THEN Answer(m, "refused") /\ leases' = leases \ {m} /\ UNCHANGED writing
     ELSE /\ Goes(m, IF req[m].step = "opening" THEN "openWrites" ELSE "steerWrites")
          /\ writing' = [m |-> m, direct |-> inbox = {}, next |-> turn = NoTurn \/ turn.sealed]
          /\ UNCHANGED <<lock, leases>>
  /\ UNCHANGED <<isolated, runtime, turn, inbox, claimed, handled, discarded, runVars, waking,
                 downVars, budget>>

\* A prepared turn belongs to the request until a run has it, and has claimed its message
\* if that is the only one.
EndEnqueue(m) ==
  /\ req[m].step \in {"steerWrites", "openWrites"}
  /\ inbox' = inbox \cup {m} /\ writing' = NoWrite
  /\ IF req[m].step = "openWrites"
     THEN /\ turn' = TurnOf(m) /\ Goes(m, "prepared")
          /\ claimed' = IF writing.direct THEN {m} ELSE claimed
     ELSE /\ req' = [req EXCEPT ![m].step = "answering",
                                ![m].answer = IF writing.next THEN "queued" ELSE "steered"]
          /\ UNCHANGED <<turn, claimed>>
  /\ UNCHANGED <<isolated, lock, leases, runtime, handled, discarded, runVars, waking, downVars,
                 budget>>

\* resumePendingSession, up to its first await: nothing to do for a session that runs, or a
\* task that has ended.
Wake ==
  \E w \in Resumers :
    /\ waking[w] = "idle"
    /\ waking' = IF gate /\ ~Active(current) /\ (isolated => task \in {"queued", "running"})
                 THEN [waking EXCEPT ![w] = "asked"] ELSE waking

\* The answer to a steering message looks at the run that was current when it was sent: one
\* that is over takes up nothing, so the session is woken; one that runs is told to look.
AnswerSteering(m) ==
  LET r == req[m].asked late == req[m].answer = "queued" IN
  /\ req[m].step = "answering" /\ Answer(m, req[m].answer) /\ leases' = leases \ {m}
  /\ IF late /\ run[r].status \notin {"running", "waiting_permission"} THEN Wake ELSE UNCHANGED waking
  /\ run' = IF late THEN [run EXCEPT ![r].wants = TRUE] ELSE run
  /\ UNCHANGED <<isolated, runtime, mailbox, current, task, downVars, budget>>

\* Whoever had to end the turn goes and leaves it behind.
Lose == turn' = [turn EXCEPT !.lost = TRUE]

\* Nobody gives the prepared turn back when startRun throws.
StartPrepared(m) ==
  /\ req[m].step = "prepared"
  /\ \/ StartRun(m, m) /\ Answer(m, "started") /\ UNCHANGED <<turn, budget>>
     \/ StartThrows /\ Answer(m, "failed") /\ Lose /\ leases' = leases \ {m} /\ UNCHANGED runVars
  /\ UNCHANGED <<isolated, runtime, writing, inbox, claimed, handled, discarded, waking, downVars>>

-----------------------------------------------------------------------------
(* resumePendingSession *)

\* A client connects.
Reconnect ==
  /\ budget.reconnects < MaxReconnects /\ Spend("reconnects") /\ Wake
  /\ UNCHANGED <<isolated, req, lock, leases, runtime, mailbox, runVars, downVars>>

ResumeLeases(w) ==
  /\ waking[w] = "asked"
  /\ \/ /\ inbox # {} /\ Acquire(w) /\ waking' = [waking EXCEPT ![w] = "leased"]
        /\ UNCHANGED budget
     \/ /\ IF inbox = {} THEN UNCHANGED budget ELSE Mishap
        /\ waking' = [waking EXCEPT ![w] = "idle"] /\ UNCHANGED <<leases, runtime>>
  /\ UNCHANGED <<isolated, req, lock, mailbox, runVars, downVars>>

ResumeStarts(w) ==
  /\ waking[w] = "leased" /\ waking' = [waking EXCEPT ![w] = "idle"]
  /\ IF Active(current) \/ inbox = {} \/ turn # NoTurn
     THEN leases' = leases \ {w} /\ UNCHANGED <<runVars, budget>>
     ELSE \/ StartRun(w, Nobody) /\ UNCHANGED budget
          \/ StartThrows /\ leases' = leases \ {w} /\ UNCHANGED runVars
  /\ UNCHANGED <<isolated, req, lock, runtime, mailbox, downVars>>

-----------------------------------------------------------------------------
(* executeRunAsync *)

others == <<isolated, req, lock, waking, downVars>>
At(r, where) == run[r].step = where
To(r, where) == run' = [run EXCEPT ![r].step = where]
Over(r, where, how) == run' = [run EXCEPT ![r].step = where, ![r].status = how]
Settle(r) == run' = [run EXCEPT ![r] = [@ EXCEPT !.step = "settled", !.wants = FALSE, !.rounds = 0,
                                              !.dropping = {}]]
Stopped(r) == run[r].reason # "none"
Owns(r) == turn.owner \in {r, run[r].prepared} \ {Nobody}

HoldsPrepared(r) == turn # NoTurn /\ turn.owner = run[r].prepared

Permit(r) ==
  /\ At(r, "queued") /\ run[r].status = "queued"
  /\ run' = [run EXCEPT ![r].status = "running"] /\ task' = "running"
  /\ UNCHANGED <<others, leases, runtime, mailbox, current, budget>>

\* What waited for admission goes on, or was aborted meanwhile: it has no runtime yet to
\* give the prepared turn back to.
Admitted(r) ==
  /\ At(r, "queued") /\ run[r].status # "queued"
  /\ IF Stopped(r)
     THEN To(r, "finalizing") /\ IF HoldsPrepared(r) THEN Lose ELSE UNCHANGED turn
     ELSE To(r, "setup") /\ UNCHANGED turn
  /\ UNCHANGED <<others, leases, runtime, writing, inbox, claimed, handled, discarded, current,
                 task, budget>>

SetUp(r) ==
  /\ At(r, "setup") /\ task' = "running"
  /\ \/ To(r, "begin") /\ UNCHANGED budget
     \/ Mishap /\ To(r, "catch")
  /\ UNCHANGED <<others, leases, runtime, mailbox, current>>

\* pendingOutputSchema throws: two pending messages ask for different schemas. Only one that
\* was posted without an active run can ask for one.
Conflict(pending) ==
  \E m, n \in pending :
    m # n /\ {req[m].answer, req[n].answer} \cap {"steered", "queued"} = {}

\* chatStream: the prepared turn, or one for what is pending; or nothing to do. A conflict
\* is noticed when the turn is open already and before the try that would close it.
Begin(r) ==
  /\ At(r, "begin") /\ UNCHANGED <<others, leases, runtime, writing, inbox, claimed, handled,
                                   discarded, current, task>>
  /\ \/ /\ run[r].rounds = 0 /\ run[r].prepared # Nobody /\ UNCHANGED <<turn, budget>>
        /\ \/ To(r, "turn")
           \/ claimed = {} /\ Conflict(inbox) /\ To(r, "catch")
     \/ /\ run[r].rounds > 0 \/ run[r].prepared = Nobody
        /\ writing = NoWrite /\ UNCHANGED budget
        /\ IF turn = NoTurn /\ inbox # {}
           THEN \/ turn' = TurnOf(r) /\ To(r, "turn")
                \/ Conflict(inbox) /\ turn' = [TurnOf(r) EXCEPT !.lost = TRUE] /\ To(r, "catch")
           ELSE To(r, "followUp") /\ UNCHANGED turn
     \/ Mishap /\ To(r, "catch") /\ UNCHANGED turn

\* requestConfirmation does not look at the abort when it asks, only when it is answered:
\* a cancelled run whose tool gets here counts as active again.
AskPermission(r) ==
  /\ At(r, "turn") /\ Owns(r) /\ run[r].status \in {"running", "cancelled"}
  /\ run' = [run EXCEPT ![r].status = "waiting_permission"]
  /\ UNCHANGED <<others, leases, runtime, mailbox, current, task, budget>>

Answered(r) ==
  /\ At(r, "turn") /\ run[r].status = "waiting_permission" /\ ~Stopped(r)
  /\ run' = [run EXCEPT ![r].status = "running"]
  /\ UNCHANGED <<others, leases, runtime, mailbox, current, task, budget>>

\* The turn takes what has come, or seals when it wants to end and nothing has.
Drain(r) ==
  /\ At(r, "turn") /\ Owns(r) /\ writing = NoWrite /\ ~turn.sealed
  /\ \/ ~(inbox \subseteq claimed) /\ claimed' = claimed \cup inbox /\ UNCHANGED turn
     \/ inbox \subseteq claimed /\ turn' = [turn EXCEPT !.sealed = TRUE] /\ UNCHANGED claimed
  /\ UNCHANGED <<others, leases, runtime, writing, inbox, handled, discarded, runVars, budget>>

\* finishTurn: a turn that went well acknowledges its input, and goes on with what has come
\* since, unless that conflicts or cannot be begun. An aborted one may look like either; a
\* failed one throws. The record is saved before the mailbox lets go of the turn: when that
\* fails again in the finally, the turn stays, and only a prepared one is tried once more.
EndTurn(r) ==
  /\ At(r, "turn") /\ Owns(r) /\ writing = NoWrite
  /\ \/ /\ run[r].status = "running" /\ (turn.sealed \/ claimed # {})
        /\ claimed' = {} /\ inbox' = inbox \ claimed /\ handled' = handled \cup claimed
        /\ \/ inbox' = {} /\ turn' = NoTurn /\ To(r, "followUp") /\ UNCHANGED budget
           \/ inbox' # {} /\ turn' = TurnOf(r) /\ UNCHANGED <<run, budget>>
           \/ /\ inbox' # {} /\ turn' = NoTurn /\ To(r, "catch")
              /\ (Conflict(inbox') /\ UNCHANGED budget) \/ Mishap
     \/ /\ \/ run[r].status = "cancelled" /\ To(r, "followUp") /\ UNCHANGED budget
           \/ Stopped(r) /\ To(r, "catch") /\ UNCHANGED budget
           \/ run[r].status = "running" /\ Mishap /\ To(r, "catch")
        /\ turn' = NoTurn /\ claimed' = {} /\ UNCHANGED <<inbox, handled>>
     \/ /\ run[r].status = "running" \/ Stopped(r)
        /\ Mishap /\ To(r, "catch") /\ UNCHANGED <<claimed, inbox, handled>>
        /\ IF HoldsPrepared(r) THEN UNCHANGED turn ELSE Lose
  /\ UNCHANGED <<others, leases, runtime, writing, discarded, current, task>>

\* One round of the follow-up loop.
FollowUp(r) ==
  /\ At(r, "followUp")
  /\ run' = IF run[r].rounds = MaxFollowUps \/ (inbox = {} /\ ~run[r].wants)
            THEN [run EXCEPT ![r].step = "closing"]
            ELSE [run EXCEPT ![r].wants = FALSE, ![r].rounds = @ + 1,
                             ![r].step = CASE inbox = {} -> @
                                           [] inbox # {} /\ Stopped(r) -> "closing"
                                           [] OTHER -> "begin"]
  /\ UNCHANGED <<others, leases, runtime, mailbox, current, task, budget>>

\* After the transcript was read again: a run that was not cancelled is completed.
Close(r) ==
  /\ At(r, "closing")
  /\ IF Stopped(r) THEN To(r, "finalizing") /\ UNCHANGED task
     ELSE Over(r, "ending", "completed") /\ task' = "completed"
  /\ UNCHANGED <<others, leases, runtime, mailbox, current, budget>>

Catch_KeepsTurn(r) ==   \* mutant of Catch: the prepared turn is not given back
  /\ At(r, "catch") /\ UNCHANGED <<turn, claimed>>
  /\ IF Stopped(r) THEN Over(r, "finalizing", "cancelled") /\ UNCHANGED task
     ELSE Over(r, "ending", "failed") /\ task' = "failed"
  /\ UNCHANGED <<others, leases, runtime, writing, inbox, handled, discarded, current, budget>>

\* A prepared turn that is still open is given back, if its record can be saved.
Catch(r) ==
  /\ At(r, "catch")
  /\ IF HoldsPrepared(r)
     THEN /\ writing = NoWrite
          /\ \/ turn' = NoTurn /\ claimed' = {} /\ UNCHANGED budget
             \/ RecordFails /\ Lose /\ UNCHANGED claimed
     ELSE UNCHANGED <<turn, claimed, budget>>
  /\ IF Stopped(r) THEN Over(r, "finalizing", "cancelled") /\ UNCHANGED task
     ELSE Over(r, "ending", "failed") /\ task' = "failed"
  /\ UNCHANGED <<others, leases, runtime, writing, inbox, handled, discarded, current>>

\* finalizeCancellation: a task that its user cancelled gives up what is pending now, ...
Finalize(r) ==
  /\ At(r, "finalizing")
  /\ IF isolated /\ run[r].reason = "user" /\ inbox # {}
     THEN run' = [run EXCEPT ![r].step = "discarding", ![r].dropping = inbox] /\ UNCHANGED task
     ELSE To(r, "ending") /\ task' = "cancelled"
  /\ UNCHANGED <<others, leases, runtime, mailbox, current, budget>>

\* ... once the transcript has it.
Discard(r) ==
  /\ At(r, "discarding") /\ To(r, "ending") /\ task' = "cancelled"
  /\ discarded' = discarded \cup (run[r].dropping \cap inbox)
  /\ inbox' = inbox \ run[r].dropping /\ claimed' = claimed \ run[r].dropping
  /\ UNCHANGED <<others, leases, runtime, turn, writing, handled, current, budget>>

Release(r) ==
  /\ At(r, "ending") /\ run[r].key /\ run' = [run EXCEPT ![r].key = FALSE]
  /\ UNCHANGED <<others, leases, runtime, mailbox, current, task, budget>>

End_Pinned(r) ==   \* mutant of End: the runtime goes although somebody else pins it
  /\ At(r, "ending") /\ ~run[r].key /\ leases' = leases \ {r}
  /\ IF isolated /\ runtime = "resident"
     THEN To(r, "disposing") /\ runtime' = "disposing"
     ELSE Settle(r) /\ UNCHANGED runtime
  /\ UNCHANGED <<others, mailbox, current, task, budget>>

\* The cleanup releases the runtime; a task disposes it, unless somebody else pins it.
End(r) ==
  /\ At(r, "ending") /\ ~run[r].key /\ leases' = leases \ {r}
  /\ IF isolated /\ leases' = {} /\ runtime = "resident"
     THEN To(r, "disposing") /\ runtime' = "disposing"
     ELSE Settle(r) /\ UNCHANGED runtime
  /\ UNCHANGED <<others, mailbox, current, task, budget>>

\* The mailbox goes with the runtime, the inbox stays on disk.
Disposed(r) ==
  /\ At(r, "disposing") /\ Settle(r)
  /\ runtime' = "none" /\ turn' = NoTurn /\ claimed' = {}
  /\ UNCHANGED <<others, leases, writing, inbox, handled, discarded, current, task, budget>>

-----------------------------------------------------------------------------
(* Cancelling *)

\* The signal keeps its first reason; a task that is still in the queue leaves it at once.
CancelRun(r, why) ==
  [run[r] EXCEPT !.status = "cancelled", !.reason = IF @ = "none" THEN why ELSE @,
                 !.key = @ /\ run[r].status # "queued"]
Cancelled(set, why) ==
  run' = [r \in Runs |-> IF r \in set /\ Active(r) THEN CancelRun(r, why) ELSE run[r]]

\* POST /:sessionId/abort: the current run only.
Abort ==
  /\ gate /\ Mishap /\ Active(current)
  /\ Cancelled({current}, "user")
  /\ UNCHANGED <<others, leases, runtime, mailbox, current, task>>

CloseGate ==
  /\ gate /\ gate' = FALSE /\ down' = "closing"
  /\ UNCHANGED <<isolated, req, lock, leases, runtime, mailbox, runVars, waking, observed, budget>>

\* waitForIdle of the admission gate.
AllAnswered ==
  /\ \A m \in Messages : req[m].step \in {"idle", "done"}
  /\ \A w \in Resumers : waking[w] = "idle"

ToObserve_Active == {r \in Live : Active(r)}   \* mutant of ToObserve: cancelled runs are left out

ToObserve == Live

ToCancel_Current == {current}   \* mutant of ToCancel: what the abort of a user cancels

ToCancel == Live

\* signalActiveWork: again and again until no request is left, and once more then.
Signal ==
  /\ down = "closing" /\ Cancelled(ToCancel, "shutdown") /\ observed' = observed \cup ToObserve
  /\ \/ (run' # run \/ observed' # observed) /\ UNCHANGED down
     \/ AllAnswered /\ down' = "draining"
  /\ UNCHANGED <<isolated, req, lock, leases, runtime, mailbox, current, task, waking, gate, budget>>

\* When the observed runs have settled the runtimes are disposed.
Drained ==
  /\ down = "draining" /\ observed \cap Live = {}
  /\ down' = "done" /\ runtime' = "none" /\ turn' = NoTurn /\ claimed' = {}
  /\ UNCHANGED <<isolated, req, lock, leases, writing, inbox, handled, discarded, runVars, waking,
                 gate, observed, budget>>

-----------------------------------------------------------------------------

Request(m) ==
  TakeLock(m) \/ Lease(m) \/ BeginEnqueue(m) \/ EndEnqueue(m) \/ AnswerSteering(m) \/ StartPrepared(m)
Resume(w) == ResumeLeases(w) \/ ResumeStarts(w)
Proceed(r) ==
  \/ SetUp(r) \/ Begin(r) \/ FollowUp(r) \/ Close(r) \/ Catch(r) \/ Finalize(r) \/ Discard(r)
  \/ Release(r) \/ End(r) \/ Disposed(r)
Execute(r) ==
  \/ Permit(r) \/ Admitted(r) \/ AskPermission(r) \/ Answered(r) \/ Drain(r) \/ EndTurn(r)
  \/ Proceed(r)

Next ==
  \/ \E m \in Messages : Post(m) \/ Request(m)
  \/ \E w \in Resumers : Resume(w)
  \/ \E r \in Runs : Execute(r)
  \/ Reconnect \/ Abort \/ CloseGate \/ Signal \/ Drained

Spec == Init /\ [][Next]_vars

\* Requests, runs and the shutdown go on; a run that is cancelled leaves the queue and its
\* turn. One that is not may wait for a permit, for its model or its user for ever.
FairSpec ==
  /\ Spec
  /\ \A m \in Messages : WF_vars(Request(m))
  /\ \A w \in Resumers : WF_vars(Resume(w))
  /\ \A r \in Runs : WF_vars(Proceed(r)) /\ WF_vars(Stopped(r) /\ (Admitted(r) \/ EndTurn(r)))
  /\ WF_vars(Signal) /\ WF_vars(Drained)

-----------------------------------------------------------------------------
(* Properties *)

\* A run that has yet to begin or to end the turn that was prepared for it.
Keeps(r) ==
  \/ run[r].step \in {"queued", "setup", "turn", "catch"}
  \/ run[r].step = "begin" /\ run[r].rounds = 0
Holder(x) ==
  \/ x \in Messages /\ (req[x].step = "prepared" \/ \E r \in Runs : run[r].prepared = x /\ Keeps(r))
  \/ x \in Runs /\ run[x].step = "turn"

\* A run in the middle of its turn owns the session's turn on a runtime it pins, however
\* many other runs, requests and clients of the session come and go meanwhile.
OneTurnOneRun ==
  /\ TypeOK
  /\ \A r \in Runs : At(r, "turn") => Owns(r) /\ r \in leases /\ runtime = "resident"

\* When the shutdown is done nothing of the session is left running or in flight.
ShutdownDrains == down = "done" => Live = {} /\ AllAnswered /\ leases = {}

\* An open turn has a request or a run that will still end it, or the session refuses every
\* message, unless one of the steps left it behind that can: startRun throws, a task is
\* aborted before its admission is through, the messages of a turn of its own conflict, a
\* record of its end cannot be saved. Whoever left one behind really is gone.
TurnHasAHolder == turn # NoTurn => (turn.lost <=> ~Holder(turn.owner))

\* The answer "follow_up_queued" promises a look: a run is still before its last one, or a
\* wake-up is under way, as long as nothing failed or was cancelled.
FollowUpIsTakenUp ==
  \A m \in Messages :
    (req[m].answer = "queued" /\ req[m].step = "done" /\ m \in inbox /\ gate) =>
      \/ \E r \in Live : run[r].step \notin {"closing", "ending", "disposing"}
      \/ \E w \in Resumers : waking[w] # "idle"
      \/ \E r \in Runs : run[r].status \in {"failed", "cancelled"}

\* A shutdown ends, whatever was in flight when the gate closed: every request is answered
\* and every run leaves its queue, its turn or its cleanup.
ShutdownEnds == ~gate ~> down = "done"
=============================================================================
