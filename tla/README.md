# Blade Code in TLA+

Blade Code is an AI coding agent: a CLI, a terminal UI, a web server with a
browser UI and an ACP endpoint over one runtime written in TypeScript
(`src/packages/cli/src`; all paths below are relative to it unless they start
with `docs/`). One process serves many sessions. A session runs turns: the agent
loop calls a model provider, the model answers with tool calls, tools run under
bounded admission, some of them ask the user, their results go back to the model,
and the transcript is appended to durable files. This directory holds TLA+ modules
of the parts of that runtime whose correctness depends on the order in which
callbacks, timers, aborts, crashes and other processes act, the configurations
that model-check them with TLC, and theorems about them that TLAPS checks.

JavaScript runs one handler at a time, so an action of a model is a handler up
to its next `await`, and what may happen between two handlers is left open.
Where a handler contains a loop whose every round has an effect of its own, the
loop is several steps, and a variable (`loop`) keeps everybody else out until it
ends. A file operation is a step of its own where a crash, another process or
another operation of the same process can come between two of them.

## 1. Inventory

| component | state | operations | interacts through |
|---|---|---|---|
| Tool scheduler `tools/execution/ConcurrencyScheduler.ts` | queue, session map with order and counters, counters per kind, cursor, closed | schedule, drain, release, abort, time out, cancelOwner, close | one per process; every executor of every session and subagent |
| Tool gate `tools/execution/ToolConcurrencyGate.ts` | queue, shared calls in flight, exclusive flag, closed | run, drain, start, abort, close | one per executor |
| File locks `tools/execution/FileLockManager.ts` | map from path to the last promise of a chain | acquireLock, acquireLocks | one per process |
| Tool executor `tools/execution/ToolExecutor.ts`, `tools/builtin/task/task.ts` | disposed flag, calls in flight | execute (gate, permit, locks, invocation), dispose | nests the three above; a Task invocation runs a subagent with an executor of its own |
| Streaming tool execution `agent/loop/StreamingToolExecutor.ts` and the tool half of `executeLoopGenerator.ts` | epoch, order, queued calls, barrier, pending promises, completed results, chain of recorded uses; transcript and history of the turn | addTool, dispatchQueuedTools, discard, getRemainingResults, handling of a result | starts calls of the executor, writes the transcript |
| Session interactions `services/SessionInteractionService.ts`, permission part of `server/routes/session.ts` | pending, answered and recovered interactions in the transcript, `run.pendingPermission`, the per-session mutex | request, respond, timeout, cancel, recover | tools wait for it; clients answer; recovery writes the inbox |
| Patch transactions `tools/builtin/file/applyPatchTransaction.ts`, `PatchTransactionCoordinator.ts` | files, staged and backed-up copies, journal, workspace lock | prepare, stage, verify, back up, publish, commit, roll back, recover | other processes and editors, through the file system |
| Task run admission `agent/runtime/TaskRunScheduler.ts` | queue, inFlight, active keys, pending bytes, limits, paused | admit, release, cancel, configure, setPaused | CLI, web, ACP and schedules start their runs here |
| Session runtime residency `agent/runtime/SessionRuntimeResidency.ts` | residents with leases, reservations, closed, mutex | acquire, reserve, commit, cancel, remove, forget, sweepIdle, disposeAll | web requests and runs |
| Provider circuit breaker `services/pi/providerCircuitBreaker.ts` | per failure domain: state, generation, samples, probe lease; tokens | get, preflight, check, record, abandon, eviction | provider requests |
| Provider admission `services/pi/providerRequestAdmission.ts` | queue, domain and owner maps, counters by class, cursor, closed | admit, release, cancel, timeout, drain, close | provider requests |
| Provider request `services/PiAIChatService.ts` | position in the generator, permit, circuit token, attempt | streamWithRetries, acquireProviderPermit | the agent loop consumes it and may leave at any yield |
| Session lease `agent/runtime/SessionLease.ts` | lock file | acquire, release | other processes, through the file system |
| Turn mailbox `agent/runtime/ActiveTurnMailbox.ts`, `DurableSteeringInbox.ts`, parts of `SessionRuntime.ts` | inbox in memory and in a file, acknowledged ids in the transcript, active turn, claimed ids | enqueue, prepareInputTurn, drain, drainOrSeal, acknowledge, finishTurn, beginTurn, discard, reload | hosts send messages, the loop drains them, subagents report |
| Web runs `server/routes/session.ts` | session with its active run, run records, submission lock, shutdown gate, resume flags | post a message, steer, start, resume, execute, follow up, cancel, finalise, shut down | runtimes, the mailbox, task admission |
| Schedules `agent/runtime/TaskScheduler.ts`, `services/ScheduleStore.ts` | list in a file, write chain, tick, ids in flight | tick, fire, manual run, create, update, enable, remove | dispatches tasks; other processes write the file |

The components that are not modelled, each with the reason, are listed under
`components` in `PROJECT.json`: verification queue, transcript store, compaction
and token budget, stale-read checks of the file tools, shell processes, background
subagents, teams, goals, event egress, process shutdown, MCP clients, retry policy,
hooks, worktrees, ACP, configuration and the user interfaces.

What is hard in them:

- **wake-ups**: four schedulers keep a queue; whoever frees a place, lowers or
  raises a limit, withdraws a waiter or resumes has to start everybody who fits;
- **paired counters**: permits taken in two places and given back in two
  `finally` blocks, under entries that are deleted and re-created;
- **nesting**: a call holds a gate, a permit, locks, and waits for a subagent
  whose calls need the same kinds of things;
- **awaits in a critical section**: eviction awaits `dispose()`, which may fail,
  while other operations run beside the mutex;
- **late results**: an answer that arrives after the circuit, the probe, the
  model's answer or the turn it belongs to is over;
- **generators**: the consumer may leave at any `yield`, also at one outside the
  `try` that would clean up;
- **checks before an await, use after it**: the active run of a session, the open
  question of a run, a schedule's record;
- **several files and a memory**: inbox, transcript and memory, or backups, journal
  and published files, are written one after the other, with a crash or a failing
  write between them;
- **several processes** and one lock path, or one list of schedules.

Each is entered under `hazards` in `PROJECT.json` at the line where it bites, with
the properties that cover it.

## 2. Modules

| module | stands for | refines |
|---|---|---|
| `ToolScheduler` | the tool scheduler | `PermitPool` |
| `ProviderAdmission` | the provider admission scheduler | |
| `PermitPool` | abstract: permits under quotas | |
| `Admission` | the four admission controllers of a process side by side | `PermitPool` |
| `ToolGate` | the gate of each executor | |
| `FileLocks`, `PathOrder` | path locks as a promise chain, and the order in which an operation takes them | `FifoLocks` |
| `FifoLocks` | abstract: one FIFO queue per path | |
| `ToolCalls` | the executor: `ToolGate`, `FileLocks` and a `PermitPool` composed, with Task calls as parents | |
| `ToolTurn` | the tool calls of one model answer, from the stream to the transcript | |
| `Interactions` | durable questions to the user, with clients, inbox and recovery | |
| `PatchTransaction` | commit, rollback and recovery of a patch over several files | |
| `TaskAdmission` | task run admission | |
| `RuntimeResidency` | session runtime residency | |
| `CircuitBreaker` | the circuit of one failure domain | |
| `ProviderRequest` | the request generator, over `CircuitBreaker` and a pool of permits | |
| `ProviderCalls` | `ProviderRequest` with history variables | |
| `SessionLease` | the lock file, one action per file system call | |
| `TurnMailbox` | inbox, mailbox and the end of a turn | |
| `WebRuns` | the runs of one session of the web server | |
| `Schedules` | ticks, fires and the store's write chain | |
| `*_proofs` | theorems about the module they are named after; `Admission_proofs` about `ToolScheduler` and `RuntimeResidency`; `Waiters_proofs` about `ProviderAdmission` and `TaskAdmission`; `SharedFiles_proofs` about `SessionLease`, `Schedules`, `FifoLocks` and `TurnMailbox`; `AgentTurn_proofs` about `ToolTurn` and `Interactions`; `ToolCalls_proofs` about `ToolGate` and `FileLocks` as well | |

`MC*` modules hold the instances. Where several components share no state but the
question asked of them is the same, one MC module puts them side by side: a
variable `part`, chosen at the start, says which of them a behaviour moves, so
the states add up and do not multiply (`Admission`, `MCAgentTurn`,
`MCWaitingWork`, `MCSharedFiles`). Components that do interact are composed inside a
module (`ToolCalls`, `ProviderRequest`, `TurnMailbox`, `Interactions`, `WebRuns`).
A definition whose name is another definition's followed by a suffix and a `mutant
of` comment is a plausible bug in that definition: with it in place, TLC finds the
property that names it in `PROJECT.json` violated.

### Correspondence

**ToolScheduler.** `phase` is the life of each call, `queue` the pending array,
`sessions` the session map with its orders and counters (`NoSession` for an absent
entry); the other variables are fields of the same names. `Schedule` is the whole of
`schedule` up to its promise; `Finish` is the `finally` of either
admission path; `DrainAdmit` is one round of the `while` of `drain`, `CancelNext`
one round of the loops of `cancelOwner` and `close`, each of which calls `abortTask`
and so drains.

**ToolCalls.** `Execute`, `Schedule`, `Admit`, `Edit`, `Settle`, `Leave` follow a
call of `runTool` from the gate to the permit, to the locks of a file tool, and back.
What happens between (hooks, validation, permission, approval) takes time or ends
the call. A Task call (`Parent`) ends only when the calls of its subagent have
ended. The scheduler appears as its abstract specification `PermitPool`, which
`ToolScheduler` is shown to implement; its order of service is not relied on.

**ToolTurn.** A run is a call of one epoch (the executor's generation); `st` and `res`
are its state and result, `chain` the tail promise of recorded uses, `order`, `queued`,
`barrier`, `pending` and `completed` the fields of the executor. `AddTool` is one call that the
stream announces; `Discard` keeps what runs and forgets it; `Collect` is one round of
`getRemainingResults`, `HandleResult` one of the loop's handling of a result. The transcript
is `log`, the message history `appended` and `answered`. `CutOff` is an answer that ended at the
output limit and is not executed.

**Interactions.** `asked`, `said`, `results`, `recovered`, `acked` are the events of the
transcript, `file` the inbox file, `lock` the queue of the mutex, `slot` is
`run.pendingPermission`. `Request`, `SettleOwn` and `LateAnswer` are the critical sections of
`request` and `respond`; `Recover*` is one `await` of the recovery each, which takes the
answered calls it has to do in the order in which they were asked (`TakeNext`). Runs appear only
as far as they ask, resume or hold an inbox.

**PatchTransaction.** One action per file operation: `pc` is where a process is, `todo` the
files its current pass has to handle. The content of a file is named by the patch that wrote it;
`journal` is the phase of a patch's journal file. `Fail`, `Skip`, `KeepsJournal` and `Crash` are
what goes wrong at an operation, `Outside` an editor that writes a file meanwhile. The lock is opened
empty (`OpenLock`) and signed later (`SignLock`); a waiter judges it dead or too old and then removes whatever is at
its path (`JudgeDead`, `JudgeOld`, `Removes`), as does a failure to take it (`LockFails`) and a late `Unlock`.
`robbed` remembers whose lock was removed that way while it lived.

**TaskAdmission.** The record `pool` holds the fields a handler changes together;
`Drain` applies the loop of `drain` at once, because nothing in it depends on
anything but the pool and the limits. `SumBytes` counts single bytes, so that sums over sets of
runs are sizes of sets.

**RuntimeResidency.** `residents` and `reservations` are the two maps, `mutex` is the
operation that holds it, with its `await` of `dispose()` between
`BeginDispose` and `Disposed` or `DisposeFails`. Commits, leases and cancellations happen
outside the mutex, in between. Which idle runtime is the oldest is left open.

**CircuitBreaker, ProviderRequest.** `circuit` is the entry and `attempt` the token of
each request. Time is two flags, `due` (nextProbeAt has come) and `expired` (the
lease of the probe has run out). `phase` is the `await` or `yield` a generator stands
at. `TakeEvent` is the consumer's side of a `yield` outside the `try`; `End` runs the
`finally`. A timeout is retried without a report to the circuit (`TimesOut`).

**ProviderAdmission.** The counters by scope and class are the sizes of sets of
requests (`Peers`). `order` is the owner map, `age` the number of whole aging periods a
waiting request has behind it. Byte budgets are left to the count limits.

**SessionLease.** `path` is the file the lock's path names, so that a file unlinked
while its creator still writes to it is told from the lock; `record` is what the lock says. Whether the start time of a
process can be read (`Captures`) is open twice: when a record is written and when its owner is judged.

**TurnMailbox.** `disk`, `memory`, `acked` are the inbox file, its copy and the
transcript's acknowledgements, as sets of messages (their order is not modelled); `turn` and
`claimed` the mailbox; `loop` how far the turn has come, from its input to the three writes
of its end. `adding` holds the transition mutex across the write of an enqueue;
`acknowledge` takes only the inbox mutex.

**WebRuns.** `req` is the request of each message, `lock` the submission lock it holds from
its look at the current run to its answer; `run` is the record of each run and where
`executeRunAsync` is (`step`); `current` is `session.currentRunId`. The mailbox is one step per
operation, but for the write in the middle of an enqueue (`writing`). A cancelled run
is no longer active while it still settles, so runs overlap; a tool of it that asks the user makes it active
again (`AskPermission`). The runs of a task do not overlap: until the old one has released its admission key,
`startRun` throws (`KeyTaken`). `turn.lost` is history: the step that had to end the turn left it behind (`Lose`).

**Schedules.** `file` is `schedules.json`, `chain` the write chain, `copy` what its head has
read; `tick` is the walk over the list a tick read at its start, `manual` the record a
manual run has read, `fires` the calls of `fire` under way, each with the record it
started from. `Slot` is the time a fire is for.

## 3. Runs

| run | instance | distinct states | shows |
|---|---|---|---|
| `admission` | tool calls: 5 of 2 sessions, 3 owners, 2 kinds; runtimes: 3 keys, 2 places, 2 clients, 4 generations; provider: 5 requests, 3 classes, 2 owners, 2 domains; tasks: 5 runs of 4 tasks, 2 sets of limits | 250 thousand | counters exact, limits kept, no lost wake-up, nobody passed by his own kind, refinement of the pool |
| `tool_calls` | Task, question, edit and patch of a session, a patch of another; 3 executors, 2 paths | 103 thousand | gate, locks and permits keep their promises when nested; every call ends |
| `agent_turn` | 3 calls of every kind under a limit of 2, 2 models, 1 failure; 2 questions, 1 message, 2 answers, 1 crash | 894 thousand | what runs early, what is recorded and answered; answers, timeouts, aborts and recovery of questions |
| `provider_calls` | 3 requests, 2 permits, 2 tries | 1.2 million | what a request holds while it waits and leaves behind, which results move the circuit |
| `patch_transaction` | 3 processes, 3 files (2 exist), 3 plans, 2 faults or crashes | 760 thousand | all old or all new once the backups were made; no leftovers without a journal; one worker beside those robbed of the lock; waiters get the lock |
| `web_runs` | 2 messages, 1 resumer, 3 runs, 1 mishap, 1 follow-up | 321 thousand | runs overlap but turns do not, a turn is lost in four ways only, the shutdown waits for all and ends |
| `waiting_work` | mailbox: 3 inputs, 1 completion, 1 crash; schedules: a one-shot and an interval, 1 event | 80 thousand | nothing accepted is lost, nothing handled comes again, everything is handled, what is due is served |
| `shared_files` | lease: 3 processes, 3 lock files, 1 crash each, 1 unreadable start time; schedules: 3 (one created later), 2 events | 1.1 million | two holders need a takeover, a dead owner whose record is complete refuses nobody; one fire at a time, a slot runs once, writes are serial |

Four runs show where the code does something else than a document, a comment or a test
of the repository says; `findings` in `PROJECT.json` quotes the lines:

- `session_lease_race`: the lock is unlinked by path some time after its owner was found
  dead, when somebody else may already have taken it over.
- `patch_all_or_nothing`: a failure before the last backup was made is rolled back as if all
  backups existed; originals without a backup are removed.
- `tool_turn_malformed`: a streamed call whose arguments do not parse gets no tool message when
  the executor took another call of the same answer.
- `web_follow_up`: a message accepted after a run has looked at its mailbox for the last time, and
  before it ends, is taken up by nobody.

Other differences between code and documents were met while modelling. The models contain the
behaviour, and the properties say what holds in spite of it:

- A turn aborted at the `admitted` or `probe` event leaves the provider request at a `yield`
  outside its `try` (`services/PiAIChatService.ts:552`), and its permit is never given back: `HeldWhileInUse`
  excepts aborted requests.
- `cancelOwner` aborts one call after the other, each abort drains, so a later call
  of the owner may be started before its turn comes (`tools/execution/ConcurrencyScheduler.ts:388`).
- An owner of provider requests that goes idle loses its order and comes back beyond the cursor
  (`services/pi/providerRequestAdmission.ts:1227`): `WaitersInTurn` speaks of requests of one owner and class.
- Recovery writes an answer into the inbox file through a second inbox object
  (`services/SessionInteractionService.ts:333`); a resident runtime that acknowledges overwrites it, and a
  message sent between the recovery's read and its write is dropped. `RecoveredIsHandled` excepts these two.
- A repeated POST of an answer is applied to the next open question (`server/routes/session.ts:4980`).
  `ToolsActOnTheRecord` and `RunningToolsAreLeftAlone` except behaviours in which an answer was repeated. A
  second answer to a question that the repetition already answered is recorded late and starts a recovery
  beside the running tool; it takes three answers to see it, one more than the instance has.
- A turn is left without anybody who would end it, and the session refuses every message until its runtime
  goes, in four ways, which `TurnHasAHolder` names: `startRun` throws, for the closed gate, a full admission queue or
  the key of a cancelled run that still settles (`server/routes/session.ts:1750`, `agent/runtime/TaskRunScheduler.ts:115`); a task
  is aborted while it waits for admission (`server/routes/session.ts:4377`), though
  `docs/superpowers/specs/2026-08-16-bounded-weighted-task-admission-design.md:427` says that is cleaned up;
  a turn begun for pending messages finds conflicting output schemas before its `try` (`agent/Agent.ts:720`); the record of
  a turn's end cannot be saved, by the run (`agent/Agent.ts:965`) or when a prepared turn is given back
  (`server/routes/session.ts:4882`). A discard after a user's cancel may take a message posted meanwhile (`server/routes/session.ts:4352`).
- A patch whose journal is marked committed but whose `chmod` then failed is rolled back, and a crash in
  that rollback is recovered as a commit.
- An answer that is cut off at the output limit joins the history with its calls, none of which is ever answered
  (`agent/loop/executeLoopGenerator.ts:2398`): the next request drops that message, text and all
  (`services/pi/messageHistory.ts:25`), before the prompt that asks to resume it. `TurnIsClosed` excepts such a turn from
  answering and says what of it may have run.
- A session whose owner died with a record that lacks its start time is refused to everybody while its pid runs
  as any other process (`agent/runtime/SessionLease.ts:142`); an owner whose start time cannot be read by the
  one who judges it is taken over alive (`utils/process/ProcessIdentity.ts:103`).
- The workspace lock of a living process can be removed, in the ways `OneWorker` names, and then two processes patch
  the same workspace (`PatchTransactionCoordinator.ts:72`, `:334`).
- The update after a schedule's dispatch writes back `enabled` and `nextRunAt` of the record read before it, so a
  user's change meanwhile is lost; a one-shot fires again after a manual run that a tick's list is
  older than. `SlotsRunOnce` names what it excepts in `excused`.

### Bounds

Every bound is a CONSTANT of the instance and named in the module.

- `admission`: with five requests each limit (process, kind or class, session or owner, domain,
  pending) is reached, and a request blocked by one limit waits behind, or in front of, one
  blocked by another. A third key for two places makes every reservation evict; four generations
  let a key be re-created under an old lease. A narrow and a wide set of task limits make a
  change leave the pool over either.
- `tool_calls`: one reader permit, so that a Task can hold the one its subagent needs; two
  paths and two patches that name them in opposite orders.
- `agent_turn`: three calls are a harmless one, one with side effects and one behind it, or one
  beyond the limit; a second epoch is a fallback model whose ids repeat. Two questions make one
  wait behind the other's permission slot.
- `provider_calls`: `MaxGeneration` and `MaxLeases` are larger than three requests with two
  tries can use, so they cut nothing off; with two samples the circuit opens, half-opens,
  closes and opens again.
- `patch_transaction`: two mishaps are a failed commit and a crash of its rollback, or a crash and one of the
  recovery; the third process finishes it. All three wait for the lock at once, so two of them can judge the
  same dead owner and the slower one removes the lock of the faster. What the two then do to the files is not followed
  (`Overlaps`): nothing about the files could hold.
- `web_runs`: three runs are a cancelled one that settles, a new one, and one a reconnecting
  client starts. One mishap is an abort or a failure; where one led to the end of a run, saving the record of its
  prepared turn may fail without a second (`RecordFails`), so each way of losing a turn is within the bound.
- `waiting_work`: an inbox of one user message makes the next refused; a crash can strike at any of
  the steps, after which everything is reloaded.
- `shared_files`: three processes are what the race takes (two that find the same stale lock, one
  that replaces it), and a crash each gives every pid a second life. Two events are a user's edit
  and a manual run, a crash, a failing write, or another process that writes.

The instances whose properties are all about safety use symmetry of calls, requests or
processes that the constants treat alike. Deadlock is not checked: in every instance the
requests are finite in number, so a behaviour ends when all are done; that nobody waits
for ever is stated as a liveness property or as the absence of a waiter that could go on.

### Fairness

- `tool_calls`: promises settle, and the 180 s wait timer fires. The timer is needed: a
  Task call keeps its reader permit while its subagent's reads wait for one, and once Task
  calls hold them all only the timer ends the wait. `docs/superpowers/specs/2026-08-16-bounded-fair-tool-admission-design.md`
  calls it "a final leak-prevention bound".
- `patch_transaction`: a living process goes on with its next file operation; before a lock that names nobody it
  goes on or gives up, because such a lock is removed only 30 s after it was made.
- `web_runs`: requests, resumers and runs go on, and so do the shutdown's steps. A run
  that waits for task admission or for its user, or whose turn the model is still working on, is only owed an end when it
  was told to stop: the abort signal is what ends both.
- `waiting_work`: writes settle; completions are offered; the host begins a turn while messages
  are pending, and not every turn that got its input is aborted (both strong fairness: the
  turn that discards and the turn that claims exclude each other again and again); the loop
  drains before it ends. Of the schedules, the timer ticks, dispatches settle and file operations end.

## 4. Proofs

TLAPS checks, for every value of the constants:

- `Admission_proofs`: `SchedulerAccounting` (the counters equal the cardinalities of the sets they
  count, the queue holds the queued calls without repetition, a session has an entry exactly
  while a call of it runs or waits; with the types this is inductive as stated, because it
  holds in the middle of a drain too), `SchedulerImplementsPool` (every step is a step of `PermitPool`
  under `PoolPhase` with one quota per limit, or a stutter: exact counters turn the comparisons of
  `canStart` into comparisons of cardinalities), and `SchedulerWithinLimits` from these two: a pool that looks
  for room before each grant exceeds no quota, since a grant adds one element to the holders of a quota that had room.
  `NoCallIsForgotten` adds to the accounting that outside a drain no queued call could start (`Drained`): a
  permit that comes back, a call that leaves and an entry that goes all run into a drain, and a refusal of
  a full queue frees nothing. `CallsStartInOrder` follows step by step: who is granted heads his session's queue.
  For the resident runtimes, `ResidentsAreAccounted`. What has to be added (`ResidencyInv`) is what stays
  true of the others while an operation awaits a `dispose()`: the key it makes room for stays free and its client
  empty-handed (`ReserversWait`), the runtime that leaves is without leases, so that it can come back
  (`VictimsAreIdle`), a reservation belongs to one client (`ReservationsAreHeld`), and once closed only
  `disposeAll` goes on, with what is resident as its rest (`ClosedForGood`).
- `Waiters_proofs`: `WaitersAreAccounted`, `WaitersServedInTurn`, `RequestsWithinLimits`, theorems of the
  specification of all four controllers. `RequestInv` is about the provider scheduler: its queue lists each queued
  request once (`Lists`), who came later has aged no more (`AgesKept`), exactly the owners who run or wait have
  orders, all different (`OrdersFor`), and outside a drain nothing queued could start. From the ages follows that of two
  requests alike the first is the better candidate in every round of a drain (`DrainInTurn`), whatever class they have aged into.
  Every step is one of `PermitPool` with the scheduler's limits for quotas (`StepOfPool`), and so no limit is exceeded (`WithinLimits`).
  `TaskInv` is about task runs: the pool lists the queued runs, counts the running ones and the queued bytes, and has
  one key per live run (`PoolExact`), and no run waits beside free capacity (`Served`). `DrainExact` proves of
  any such pool, under any limits, that the drain keeps the account, leaves nobody who could start and starts a
  prefix of the queue; every handler is then one change of the pool before or after a drain. The queue is served by position, so
  the lemmas about `Lists` (an element appended, removed at its place, a prefix split off) do what induction over the
  sequence would.
- `ProviderCalls_proofs`: `HeldInUse`, `OneProbeDecides`, `LateResultsAreIgnored`, `EvidenceIsFresh`, all from one
  invariant `CallInv`: where a generator stands decides what it holds (`PermitsInPlace`); no two tokens have a
  lease in common, and none is newer than the counter (`LeasesAreNew`); a regular attempt of the current
  generation began in the current era (`ErasAreTrue`); the samples are the ones counted since the circuit
  last closed (`SamplesAreNews`). Without the second, a late report of a superseded probe could be taken for
  the current one's; without the third, the history that `FreshEvidence` compares with would say nothing.
- `SharedFiles_proofs` (`TurnMailbox`): `NothingAcceptedIsLost`, `NothingHandledAgain`, `SealsAreComplete`. The invariant `MailboxInv`
  says, for each point between the writes of transcript, memory and file, how the three compare: the
  file has what memory has (`FileHasMemory`), an enqueue under way adds something new (`AddingIsNew`), ids
  that were handed over are known and claimed ones exist (`HandedOver`, `ClaimsExist`), and what was
  accepted is in the file or acknowledged (`Kept`).
- `SharedFiles_proofs`: `LeaseExclusive` and `LeaseRefusals`. The invariant `LeaseInv` relates the lock file to its
  creator: who created a file and has not removed it is the owner in its record (`OwnFile`,
  `RecordsAreTrue`), and who finds a living owner has had a rival since it began (`RivalsKnown`), or looks at a record
  without a start time (`AliveIsARival`).
  For the schedules, `FiresAreExclusive` and `StoreIsSerial`. The invariant `ScheduleInv` says that at most one
  fire of a schedule goes on and that its id is in flight exactly then (`OneFireAtATime`), and that what the
  head of the chain has read is what the file still holds, unless somebody else wrote it (`CopyIsFresh`).
  `SlotsAreFiredOnce` needs `SlotsInv` as well, which follows the times to come against the times that ran
  wherever they are: in the file between two fires (`NotYetRun`), in a fire that will write them (`FiresAhead`) and in the
  operations that wait in the chain (`ChainKnown`: each `fired` is that of the one open fire of its schedule), and a
  schedule still to be created has not run (`NotThereYet`).
  For the path locks, `FifoExclusive`, a theorem of `FifoLocks`: who runs only at the head of all its queues shares no
  path, because all who run head their queues (`FifoInv`).
- `AgentTurn_proofs`: `RunsAreSafe`, `ResultsInOrder`, `TurnsAreClosed`. The invariant `TurnInv` has to know, at every
  point of the turn, where each call is: what has begun was taken (`BegunWereTaken`), what is queued has not begun
  (`QueuedWait`), what is chained waits once for its record (`ChainedOnce`), a run follows its record
  (`RunsFollowTheirRecord`), a result in the map is of this epoch (`CompletedAreNow`), and each call taken waits, has a
  promise or a result, or was collected (`NoneIsForgotten`); only then are results collected in the order of the calls
  (`CollectedInOrder`) and no result is written twice or before its use (`LogIsOrdered`).
  Of the questions: `ToolsActAsAnswered`, `AnswersReachATurn`, `RecoveryLeavesToolsAlone`. The invariant `QuestionsInv`
  says where an answer is that is posted, recorded, recovered or handled (`AnswersAreSafe`), that one question is open
  at a time and how each call stands to its record (`OneIsOpen`, `CallsAndRecord`, `SlotIsOpen`), which operations
  may wait for the lock behind each other (`LockFits`, `SettlingIsQueued`) and who holds it during a recovery
  (`RecoveryHasTheLock`). Why a recovery finds no call alive takes two more: while the question of a lost call is open,
  nothing else of the transcript lives (`OrphansAreAlone`), and an answer given once is in the queue or in the
  record, not in both (`EachAnswerOnce`), so that only lost calls are recoverable when a late answer asks for
  it (`RecoverTheLost`).
- `PatchTransaction_proofs`: `PatchesAreAtomic`, `ArtefactsAreFound`, `OneProcessWorks`. The invariant `PatchInv` says
  what the disk, the backups and the journal of the patch planned last look like at every point of the commit
  (`CommitInv`), of the rollback (`RollbackInv`), of the tidying up (`CleanupInv`) and of a recovery by another process
  (`RecoveryInv`). In between, whoever crashed, a journal that says `preparing` means that each file is as it was
  or can be made so from a backup or by its hash, and one that says `committed` that each file is new
  (`JournalsAreTrue`). A rollback that began with a backup missing, or after the journal said `committed`, is
  excepted, as in the property: `patch_all_or_nothing` shows what such a rollback does. Who holds the lock is another
  part (`HoldersInv`): whoever works holds it or was robbed, and every removal of a living process's lock is on record.
- `WebRuns_proofs`: `RunsOwnTheirTurn`, `TurnsAreHeld`, `ShutdownsLeaveNothing`. The invariant `RunsInv` says who pins
  the runtime and that a pinned one stays (`LeasesAreHeld`), that no turn begins while an enqueue writes
  (`OneWrites`), that a prepared turn is handed to one run (`HandedOnce`) and stays its own until that run begins or gives
  it up (`TurnsAreOwned`), that a turn is marked lost exactly when neither a request nor a run is where it would still
  end it, and that a run which goes on has not left its prepared one behind (`OwnersKeep`), and what the shutdown has yet to see (`GateIsClosed`). Runs overlap, so
  each step of one run has to leave the turn of every other alone: that is the lemma `RunGoesOn`, once for the
  steps that keep the lease.
- `ToolCalls_proofs`: `LayersAlwaysExclude`, `NobodyOvertakes`, `LocksImplementFifo`, `EditorsExclude`. Gate and locks share no
  variable, so each has an invariant of its own and a step of `ToolCalls` is a step of each or leaves it alone
  (`StepsOfTheLayers`). `GateInv` says, executor by executor, that the counters are the numbers of what runs and
  that its queue holds queued calls of its own, once each; `DrainKeeps` and `DrainStartsInOrder` take the
  drain at the end of every operation, which starts a prefix of the queue it is given (`StartCountIs`).
  `LockInv` follows the chain of promises: a reservation is of one operation on one path and not released
  (`ReservationsAreOwned`); who waits, waits for the reservation just before its own on that path
  (`WaitsForTheOneBefore`); who does not wait for its last path is the first on all it has (`FirstOnItsPaths`); the map has
  the last reservation of exactly the paths in use (`MapIsExact`). So the unreleased reservations on a path, in the
  order of their numbers, are the queue of `FifoLocks`: a run of `acquire` appends the operation to the queues of the
  paths it takes (`TakenJoins`), a `finally` takes the head off one (`UnlockFollows`). That the sorted
  sequence of a finite set exists and is unique (`SortedExists`, `SortedIsUnique`) is proved from the least number of a
  set, not by induction over the sequence.

The assumptions are those of the modules, all of them about the constants: finite sets,
functions with their types, natural limits. TLC evaluates them in every run.

Only model-checked: the liveness properties `EveryCallEnds` of `tool_calls`, `WaitersGetTheirTurn` of `patch_transaction`,
`ShutdownEnds` of `web_runs`, `EventuallyHandled` and `DueIsServed` of `waiting_work`.
Out of the prover's reach and left to TLC: liveness under fairness and ENABLED, and what a
recursive definition computes for every input.

## 5. Plan

What would come next, in this order:

1. `BackgroundAgents`: start, resume, stop and completion of background subagents, with their
   records on disk, ahead of the completions of `TurnMailbox`.
2. `Transcript`: appends, a torn last line after a crash, recovery of an interrupted turn, under
   `ToolTurn` and `Interactions`, which now take an append as one step.
3. `GoalFinalization` and `TokenHandoff`: two files finalised one after the other and reconciled at start.
4. `ShellProcesses`, `Egress`, `McpRecovery`, `TeamMailbox`, `Shutdown`.

Proofs: every safety property of the present runs is a theorem; each of these modules would bring its own.

## 6. Left out

Of modelled components: byte budgets where a count limit plays the same part, statistics and
snapshots that only read, wording and events, the order of idle runtimes, Retry-After (it only
lengthens the time a circuit stays open), fallback candidates of a request (each is a failure
domain of its own), the canonical form of paths, and the hooks and approvals between two layers
of a tool call. A circuit entry that the registry has evicted is inert; the entry that replaces it
under the same key is another instance.

- `ToolTurn`: durable tool use, one answer of one turn. Completion policies but the one for cut answers, budgets and compaction between
  turns are not modelled, nor the early returns of the loop that leave the turn to the next
  process (`agent/loop/executeLoopGenerator.ts:2315`, `:3131`, `:3956`).
- `Interactions`: one session and one server process. The terminal, ACP and headless clients, the content
  of elicitations, forks and rewinds, several questions of one call, and failing writes are left out.
- `PatchTransaction`: directories are parents made before and removed after; snapshots, `fsync` and the remote
  (SSH) variant are left out. A pid is not given away again, and a lock that is removed between its
  `lstat` and its read is judged like one that is there.
- `TurnMailbox`: the inbox as a set; the order in which messages of one kind are handed out is the file's.
- `WebRuns`: output schemas appear only where two of them conflict; goals, deletion, user shells, reviews,
  eviction, and the refresh of model and settings are left out.
- `Schedules`: cron expressions, run counts and status texts; every event a user or another
  process contributes counts against one bound.

Not modelled at all: the components listed with that status in `PROJECT.json`. Most of the repository's
lines are user interface, protocol adapters, configuration, prompts and tools without
state of their own; the modules cover the code in which the order of events decides.
