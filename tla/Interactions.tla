---------------------------- MODULE Interactions ----------------------------
(***************************************************************************)
(* Questions of tools to the user, made durable: packages/cli/src/services *)
(* /SessionInteractionService.ts, with the web server's side of them       *)
(* (server/routes/session.ts) and the inbox that hands a recovered answer  *)
(* to the next turn. One session of one server process, which may crash    *)
(* between any two writes. Request, respond and recover exclude each other *)
(* by a mutex per session, in the order of arrival: its queue is "lock".  *)
(***************************************************************************)
EXTENDS Naturals, Sequences, FiniteSets, SequencesExt

CONSTANTS
  Calls,        \* tool calls that ask the user once each; also the ids of their answers
  Inputs,       \* messages the user may send
  MaxCrashes,   \* bound: crashes
  MaxAnswers,   \* bound: answers posted
  MaxConnects   \* bound: event streams opened

ASSUME InteractionsAssumption ==
  /\ Calls \cap Inputs = {} /\ "none" \notin Calls \cup Inputs
  /\ MaxCrashes \in Nat /\ MaxAnswers \in Nat /\ MaxConnects \in Nat

VARIABLES
  asked,      \* transcript: interaction_requested, in order
  said,       \* transcript: the answer of interaction_responded
  results,    \* transcript: the results of each call, "tool" or "recovery", in order
  recovered,  \* transcript: interaction_recovered
  acked,      \* transcript: inbox messages acknowledged
  file,       \* the inbox file
  runtime,    \* the resident runtime: whether there is one, and the inbox it holds
  run,        \* the run: its stage, whether it was cancelled, the messages it ends with
  call,       \* how far each call is
  slot,       \* run.pendingPermission: the call the clients are asked about
  lock,      \* the operations that hold, or wait for, the session's interaction lock
  recovery,   \* the recovery that holds the lock: calls to do, the one it does, step and inbox
  stream,     \* the event stream being opened: whether it found no run
  wake,       \* a resume of the session was requested
  sent, crashes, connects,
  answers,    \* the answers clients posted, in order
  behind      \* history: answers recovered while a resident runtime did not hold them

durable == <<asked, said, results, recovered, acked, file>>
transcript == <<asked, said, results, recovered, acked>>
events == <<sent, crashes, answers, connects>>
questionVars ==
  <<durable, runtime, run, call, slot, lock, recovery, stream, wake, events, behind>>

None == "none"
Messages == Calls \cup Inputs
Replies == {"allow", "deny", "timeout", "abort"}
Live == {"asking", "waiting", "settling", "allowed", "answered"}
NoRuntime == [on |-> FALSE, inbox |-> {}]
NoRun == [stage |-> "none", aborted |-> FALSE, taken |-> {}]
NoRecovery == [todo |-> {}, doing |-> None, step |-> "read", inbox |-> {}]

Operations ==
  [do : {"request", "settle", "answer", "late", "recover"}, call : Calls \cup {None},
   reply : Replies \cup {None, "stream"}]

QuestionsTypeOK ==
  /\ asked \in Seq(Calls) /\ IsInjective(asked)
  /\ said \in [Calls -> Replies \cup {None}]
  /\ results \in [Calls -> {<<>>, <<"tool">>, <<"recovery">>, <<"recovery", "tool">>,
                            <<"tool", "recovery">>}]
  /\ recovered \subseteq Calls /\ acked \subseteq Messages /\ file \subseteq Messages
  /\ runtime \in [on : BOOLEAN, inbox : SUBSET Messages]
  /\ run \in [stage : {"none", "active", "ending"}, aborted : BOOLEAN, taken : SUBSET Messages]
  /\ call \in [Calls -> Live \cup {"new", "done", "lost"}]
  /\ slot \in Calls \cup {None} /\ lock \in Seq(Operations)
  /\ recovery \in [todo : SUBSET Calls, doing : Calls \cup {None}, inbox : SUBSET Messages,
                   step : {"read", "close", "open", "enqueue", "record"}]
  /\ stream \in {"none", "idle", "busy"} /\ wake \in BOOLEAN
  /\ answers \in Seq(Calls \X {"allow", "deny"})

QuestionsInit ==
  /\ asked = <<>> /\ said = [c \in Calls |-> None] /\ results = [c \in Calls |-> <<>>]
  /\ recovered = {} /\ acked = {} /\ file = {}
  /\ runtime = NoRuntime /\ run = NoRun /\ call = [c \in Calls |-> "new"] /\ slot = None
  /\ lock = <<>> /\ recovery = NoRecovery /\ stream = None /\ wake = FALSE
  /\ sent = {} /\ crashes = 0 /\ answers = <<>> /\ connects = 0 /\ behind = {}

-----------------------------------------------------------------------------
(* What the transcript says of the interactions *)

\* findPendingSessionInteraction, findRecoverableSessionInteractions: the first result of a
\* call decides whether its tool has ended.
Pending == {c \in ToSet(asked) : said[c] = None /\ c \notin recovered}
Recoverable(c) ==
  /\ said[c] # None /\ c \notin recovered
  /\ results[c] = <<>> \/ Head(results[c]) = "recovery"

\* respond: the same answer again is fine, another one is an error.
Acceptable(c, reply) == IF Recoverable(c) THEN said[c] = reply ELSE c \in Pending

Record(c, reply) ==
  IF Acceptable(c, reply) THEN said' = [said EXCEPT ![c] = reply] ELSE UNCHANGED said

Operation(do, c, reply) == [do |-> do, call |-> c, reply |-> reply]
Holds(do) == lock # <<>> /\ Head(lock).do = do
Queued(op) == lock' = Append(lock, op)

\* The confirmation of a call ends with this reply, which its tool records before it goes on.
Resolved(c, reply) ==
  /\ call' = [call EXCEPT ![c] = "settling"]
  /\ slot' = IF slot = c THEN None ELSE slot

-----------------------------------------------------------------------------
(* A call asks. Those for a permission do so one after another, but servers of the tools that *)
(* run may ask beside them.                                                                  *)

Ask(c) ==
  /\ run.stage = "active" /\ ~run.aborted /\ call[c] = "new"
  /\ call' = [call EXCEPT ![c] = "asking"]
  /\ Queued(Operation("request", c, None))
  /\ UNCHANGED <<durable, runtime, run, slot, recovery, stream, wake, events, behind>>

Request_Another ==   \* mutant: another pending interaction is not looked at
  /\ Holds("request")
  /\ LET c == Head(lock).call
     IN asked' = Append(asked, c) /\ call' = [call EXCEPT ![c] = "waiting"] /\ slot' = c
  /\ lock' = Tail(lock)
  /\ UNCHANGED <<said, results, recovered, acked, file, runtime, run, recovery, stream, wake,
                 events, behind>>

\* One interaction at a time: another one pending refuses it. Then it is recorded, and the
\* clients are asked.
Request ==
  /\ Holds("request")
  /\ LET c == Head(lock).call IN
     IF Pending # {}
     THEN call' = [call EXCEPT ![c] = "answered"] /\ UNCHANGED <<asked, slot>>
     ELSE /\ asked' = Append(asked, c)
          /\ call' = [call EXCEPT ![c] = "waiting"] /\ slot' = c
  /\ lock' = Tail(lock)
  /\ UNCHANGED <<said, results, recovered, acked, file, runtime, run, recovery, stream, wake,
                 events, behind>>

Timeout(c) ==
  /\ call[c] = "waiting"
  /\ Resolved(c, "timeout") /\ Queued(Operation("settle", c, "timeout"))
  /\ UNCHANGED <<durable, runtime, run, recovery, stream, wake, events, behind>>

Cancel ==
  /\ run.stage = "active" /\ ~run.aborted
  /\ run' = [run EXCEPT !.aborted = TRUE]
  /\ IF slot = None THEN UNCHANGED <<call, slot, lock>>
     ELSE Resolved(slot, "abort") /\ Queued(Operation("settle", slot, "abort"))
  /\ UNCHANGED <<durable, runtime, recovery, stream, wake, events, behind>>

\* The tool's own respond: an error, a refusal or a cancelled run and it does not run.
SettleOwn ==
  /\ Holds("settle")
  /\ LET c == Head(lock).call
         reply == Head(lock).reply
         go == Acceptable(c, reply) /\ reply = "allow" /\ ~run.aborted
     IN Record(c, reply) /\ call' = [call EXCEPT ![c] = IF go THEN "allowed" ELSE "answered"]
  /\ lock' = Tail(lock)
  /\ UNCHANGED <<asked, results, recovered, acked, file, runtime, run, slot, recovery, stream,
                 wake, events, behind>>

Execute(c) ==
  /\ call[c] = "allowed"
  /\ call' = [call EXCEPT ![c] = "answered"]
  /\ UNCHANGED <<durable, runtime, run, slot, lock, recovery, stream, wake, events, behind>>

SaveResult(c) ==
  /\ call[c] = "answered"
  /\ results' = [results EXCEPT ![c] = Append(@, "tool")]
  /\ call' = [call EXCEPT ![c] = "done"]
  /\ UNCHANGED <<asked, said, recovered, acked, file, runtime, run, slot, lock, recovery,
                 stream, wake, events, behind>>

-----------------------------------------------------------------------------
(* A client answers *)

Post_Late(c, reply) ==   \* mutant: whether a run waits for the answer is not looked at
  /\ Len(answers) < MaxAnswers /\ c \in Pending
  /\ Queued(Operation("late", c, reply))
  /\ answers' = Append(answers, <<c, reply>>)
  /\ UNCHANGED <<durable, runtime, run, call, slot, recovery, stream, wake, sent, crashes,
                 connects, behind>>

\* respondToPermission: of the call the run waits for, or else of one the transcript shows as
\* pending, which no run waits for.
Post(c, reply) ==
  /\ Len(answers) < MaxAnswers /\ c \in ToSet(asked)
  /\ \/ slot = c /\ Queued(Operation("answer", c, reply))
     \/ slot # c /\ c \in Pending /\ Queued(Operation("late", c, reply))
  /\ answers' = Append(answers, <<c, reply>>)
  /\ UNCHANGED <<durable, runtime, run, call, slot, recovery, stream, wake, sent, crashes,
                 connects, behind>>

\* Once recorded, the answer goes to whatever the run waits for now; the request fails if
\* that is nothing any more, or another answer was recorded.
Answer ==
  /\ Holds("answer")
  /\ LET c == Head(lock).call
         reply == Head(lock).reply
     IN /\ Record(c, reply)
        /\ IF Acceptable(c, reply) /\ slot # None
           THEN /\ Resolved(slot, reply)
                /\ lock' = Append(Tail(lock), Operation("settle", slot, reply))
           ELSE lock' = Tail(lock) /\ UNCHANGED <<call, slot>>
  /\ UNCHANGED <<asked, results, recovered, acked, file, runtime, run, recovery, stream, wake,
                 events, behind>>

\* respondAndRecover: the recovery queues behind whoever came meanwhile.
LateAnswer ==
  /\ Holds("late")
  /\ LET c == Head(lock).call
         reply == Head(lock).reply
     IN /\ Record(c, reply)
        /\ lock' = IF Acceptable(c, reply)
                    THEN Append(Tail(lock), Operation("recover", None, None))
                    ELSE Tail(lock)
  /\ UNCHANGED <<asked, results, recovered, acked, file, runtime, run, call, slot, recovery,
                 stream, wake, events, behind>>

\* An event stream that finds no run recovers what was answered, some awaits later; then it
\* has the session resumed.
Connect ==
  /\ stream = None /\ connects < MaxConnects
  /\ stream' = IF run = NoRun THEN "idle" ELSE "busy"
  /\ connects' = connects + 1
  /\ UNCHANGED <<durable, runtime, run, call, slot, lock, recovery, wake, sent, crashes,
                 answers, behind>>

Connected ==
  /\ stream # None
  /\ stream' = None
  /\ IF stream = "idle"
     THEN Queued(Operation("recover", None, "stream")) /\ UNCHANGED wake
     ELSE wake' = TRUE /\ UNCHANGED lock
  /\ UNCHANGED <<durable, runtime, run, call, slot, recovery, events, behind>>

-----------------------------------------------------------------------------
(* recoverResponded *)

Doing == recovery.doing

Earliest(S) == {c \in S : \A d \in S \ {c} : \E j \in DOMAIN asked : \E i \in 1 .. j - 1 :
                             asked[i] = c /\ asked[j] = d}

\* The next of those to do, in the order of their questions; after the last one the lock goes.
TakeNext(todo) ==
  IF todo = {} THEN recovery' = NoRecovery /\ lock' = Tail(lock) /\ wake' = TRUE
  ELSE /\ \E c \in Earliest(todo) :
            recovery' = [todo |-> todo, doing |-> c, step |-> "close", inbox |-> {}]
       /\ UNCHANGED <<lock, wake>>

RecoverRead ==
  /\ Holds("recover") /\ recovery.step = "read"
  /\ TakeNext({c \in ToSet(asked) : Recoverable(c)})
  /\ UNCHANGED <<durable, runtime, run, call, slot, stream, events, behind>>

RecoverClose_Recorded ==   \* mutant: recorded before it is done
  /\ recovery.step = "close"
  /\ recovered' = recovered \cup {Doing}
  /\ results' = [results EXCEPT ![Doing] = Append(@, "recovery")]
  /\ recovery' = [recovery EXCEPT !.step = "open"]
  /\ UNCHANGED <<asked, said, acked, file, runtime, run, call, slot, lock, stream, wake,
                 events, behind>>

\* A closing result for the call, unless an earlier recovery has written it, ...
RecoverClose ==
  /\ recovery.step = "close"
  /\ results' = IF results[Doing] # <<>> /\ Head(results[Doing]) = "recovery" THEN results
                ELSE [results EXCEPT ![Doing] = Append(@, "recovery")]
  /\ recovery' = [recovery EXCEPT !.step = "open"]
  /\ UNCHANGED <<asked, said, recovered, acked, file, runtime, run, call, slot, lock, stream,
                 wake, events, behind>>

\* ... the answer into the inbox, through an instance of its own over the same file, ...
RecoverOpen ==
  /\ recovery.step = "open"
  /\ file' = file \ acked
  /\ recovery' = [recovery EXCEPT !.step = "enqueue", !.inbox = file \ acked]
  /\ UNCHANGED <<transcript, runtime, run, call, slot, lock, stream, wake, events, behind>>

RecoverEnqueue ==
  /\ recovery.step = "enqueue"
  /\ file' = IF Doing \in recovery.inbox THEN file ELSE recovery.inbox \cup {Doing}
  /\ behind' = IF runtime.on /\ Doing \notin runtime.inbox THEN behind \cup {Doing} ELSE behind
  /\ recovery' = [recovery EXCEPT !.step = "record", !.inbox = {}]
  /\ UNCHANGED <<transcript, runtime, run, call, slot, lock, stream, wake, events>>

\* ... and then the record that it is recovered.
RecoverRecord ==
  /\ recovery.step = "record"
  /\ recovered' = recovered \cup {Doing}
  /\ TakeNext(recovery.todo \ {Doing})
  /\ UNCHANGED <<asked, said, results, acked, file, runtime, run, call, slot, stream, events,
                 behind>>

-----------------------------------------------------------------------------
(* Runs, as far as they touch the inbox; TurnMailbox and WebRuns have the rest *)

Unread == file \ acked
Loaded == [on |-> TRUE, inbox |-> Unread]
Started == [stage |-> "active", aborted |-> FALSE, taken |-> {}]

\* A message to an idle session starts a run, a message to a running one waits for it.
Send(m) ==
  /\ m \in Inputs \ sent /\ run.stage # "ending"
  /\ sent' = sent \cup {m}
  /\ LET held == IF runtime.on THEN runtime.inbox ELSE Unread IN
     /\ runtime' = [on |-> TRUE, inbox |-> held \cup {m}]
     /\ file' = held \cup {m}
  /\ run' = IF run = NoRun THEN Started ELSE run
  /\ UNCHANGED <<transcript, call, slot, lock, recovery, stream, wake, crashes, answers,
                 connects, behind>>

\* resumePendingSession: a resident runtime reads the file again only if it holds nothing.
Resume ==
  /\ wake
  /\ wake' = FALSE
  /\ IF run # NoRun \/ file = {} THEN UNCHANGED <<runtime, file, run>>
     ELSE LET reads == ~runtime.on \/ runtime.inbox = {} IN
          /\ runtime' = IF reads THEN Loaded ELSE runtime
          /\ file' = IF reads THEN Unread ELSE file
          /\ run' = IF runtime'.inbox = {} THEN run ELSE Started
  /\ UNCHANGED <<transcript, call, slot, lock, recovery, stream, events, behind>>

\* A run ends when it has handled what its runtime holds: the transcript, then the file, which
\* becomes what the runtime holds.
Acknowledge ==
  /\ run.stage = "active" /\ \A c \in Calls : call[c] \notin Live
  /\ acked' = acked \cup runtime.inbox
  /\ run' = [run EXCEPT !.stage = "ending", !.taken = runtime.inbox]
  /\ UNCHANGED <<asked, said, results, recovered, file, runtime, call, slot, lock, recovery,
                 stream, wake, events, behind>>

EndRun ==
  /\ run.stage = "ending"
  /\ runtime' = [runtime EXCEPT !.inbox = @ \ run.taken]
  /\ file' = runtime'.inbox
  /\ run' = NoRun
  /\ UNCHANGED <<transcript, call, slot, lock, recovery, stream, wake, events, behind>>

\* A failed or cancelled run leaves its messages to the next one.
GiveUp ==
  /\ run.stage = "active" /\ \A c \in Calls : call[c] \notin Live
  /\ run' = NoRun
  /\ UNCHANGED <<durable, runtime, call, slot, lock, recovery, stream, wake, events, behind>>

\* Only an idle runtime without messages goes.
Evict ==
  /\ runtime.on /\ runtime.inbox = {} /\ run = NoRun
  /\ runtime' = NoRuntime
  /\ UNCHANGED <<durable, run, call, slot, lock, recovery, stream, wake, events, behind>>

Crash ==
  /\ crashes < MaxCrashes
  /\ crashes' = crashes + 1
  /\ runtime' = NoRuntime /\ run' = NoRun /\ slot' = None /\ lock' = <<>>
  /\ recovery' = NoRecovery /\ stream' = None /\ wake' = FALSE
  /\ call' = [c \in Calls |-> IF call[c] \in Live THEN "lost" ELSE call[c]]
  /\ UNCHANGED <<durable, sent, answers, connects, behind>>

QuestionsNext ==
  \/ \E c \in Calls :
       \/ Ask(c) \/ Timeout(c) \/ Execute(c) \/ SaveResult(c)
       \/ \E reply \in {"allow", "deny"} : Post(c, reply)
  \/ Request \/ SettleOwn \/ Answer \/ LateAnswer \/ Cancel
  \/ Connect \/ Connected
  \/ RecoverRead \/ RecoverClose \/ RecoverOpen \/ RecoverEnqueue \/ RecoverRecord
  \/ \E m \in Inputs : Send(m)
  \/ Resume \/ Acknowledge \/ EndRun \/ GiveUp \/ Evict
  \/ Crash

QuestionsSpec == QuestionsInit /\ [][QuestionsNext]_questionVars

-----------------------------------------------------------------------------
(* Properties *)

\* A tool runs only if its own question was allowed, by a client and in the transcript, whoever
\* answered, timed out or cancelled at the same time, unless a client repeated an answer to
\* another question (which then may reach the question that is open next); and clients are
\* asked only what is recorded as asked and not answered.
ToolsActOnTheRecord ==
  /\ QuestionsTypeOK
  /\ \A c \in Calls : call[c] = "allowed" =>
       /\ said[c] = "allow"
       /\ <<c, "allow">> \in ToSet(answers) \/ ~IsInjective(answers)
  /\ slot # None => call[slot] = "waiting" /\ slot \in Pending

\* An answer that is recorded as recovered is in the inbox until a turn has handled it,
\* unless a runtime was resident already when it was put there.
RecoveredIsHandled == recovered \subseteq file \cup acked \cup behind

\* A call is closed as one interrupted by a restart only if its tool is gone or does not run,
\* unless the client's event stream was opened before the run began, or a client repeated an
\* answer (which may reach another question, that a later answer then recovers).
RunningToolsAreLeftAlone ==
  [][\A c \in Calls : results'[c] # results[c] /\ Last(results'[c]) = "recovery"
       => \/ call[c] \notin {"waiting", "allowed"}
          \/ Head(lock).reply = "stream" \/ ~IsInjective(answers)]_questionVars
=============================================================================
