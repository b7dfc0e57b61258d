----------------------------- MODULE Schedules -----------------------------
(***************************************************************************)
(* packages/cli/src/agent/runtime/TaskScheduler.ts over                    *)
(* services/ScheduleStore.ts: one tick at a time walks over the list of    *)
(* schedules it read at its start, manual runs start from a record read    *)
(* before, and every change of the file is a read and a write in a queue   *)
(* of the process. Other processes write the same file, and a process may  *)
(* crash with its queue.                                                   *)
(***************************************************************************)
EXTENDS Integers, FiniteSets, Sequences

CONSTANTS
  Count,       \* schedules 1 .. Count, in the order of the file
  Stored,      \* those the file has from the start; the others can be created
  Once,        \* those with a one-shot trigger
  At, Period,  \* the time of each one-shot, the interval of the others
  Expiry,      \* expiresAt of the stored ones, 0 if they have none
  MaxTime,     \* bound: the clock
  MaxEvents    \* bound: manual runs, changes by users, writes of other processes,
               \* crashes and failing reads and writes, all together

Ids == 1 .. Count

ASSUME SchedulesAssumption ==
  /\ Count \in Nat \ {0} /\ Stored \subseteq Ids /\ Once \subseteq Ids
  /\ At \in [Ids -> Nat \ {0}] /\ Period \in [Ids -> Nat \ {0}] /\ Expiry \in [Ids -> Nat]
  /\ {MaxTime, MaxEvents} \subseteq Nat

VARIABLES
  clock,
  file,       \* schedules.json: per schedule its record, or Absent
  unused,     \* ids not yet given to a schedule
  tick,       \* ticking, the time it began, what is left of its list, and what it awaits
  manual,     \* the record a manual run has read, before it fires
  fires,      \* calls of fire in progress
  inFlight,   \* the ids of the same name
  chain,      \* writeChain: operations called and not finished
  copy,       \* what the head of the chain has read, or NoCopy
  outside,    \* what another process has read, or NoCopy
  events,     \* counted for the bound
  ran,        \* history: slots for which a task was dispatched since users timed the schedule
  excused     \* history: schedules whose record somebody has used after it changed

processVars == <<tick, manual, fires, inFlight, chain, copy>>
historyVars == <<ran, excused>>
scheduleVars == <<clock, file, unused, processVars, outside, events, historyVars>>

Absent == [enabled |-> FALSE, next |-> 0, at |-> 0, expires |-> 0]
NoCopy == <<>>
NoTick == [on |-> FALSE, now |-> 0, todo |-> <<>>, waits |-> 0]
NoManual == [id |-> 0, rec |-> Absent]

\* A record keeps what the code below reads: enabled, nextRunAt (0 for null), expiresAt
\* (likewise) and the runAt of a one-shot, positive for every schedule there is.
Present(f, s) == f[s].at > 0
EmptyFile == [s \in Ids |-> Absent]

NextRun(s, at, from) ==
  IF s \in Once THEN IF at > from THEN at ELSE 0 ELSE from + Period[s]

SchedulesInit ==
  /\ clock = 0
  /\ file = [s \in Ids |->
       IF s \in Stored
       THEN [enabled |-> TRUE, next |-> NextRun(s, At[s], 0), at |-> At[s], expires |-> Expiry[s]]
       ELSE Absent]
  /\ unused = Ids \ Stored
  /\ tick = NoTick /\ manual = NoManual /\ fires = {} /\ inFlight = {}
  /\ chain = <<>> /\ copy = NoCopy /\ outside = NoCopy
  /\ events = 0
  /\ ran = [s \in Ids |-> {}] /\ excused = {}

Happens == events < MaxEvents /\ events' = events + 1

-----------------------------------------------------------------------------
(* ScheduleStore *)

Writes_Upsert(op, f) ==   \* mutant of Writes: the schedule is not looked for
  op.kind \in {"create", "retime"} /\ op.id \in Once => op.at > clock

\* An operation on a schedule that is not there writes nothing, nor does one whose trigger
\* has come too late.
Writes(op, f) ==
  /\ op.kind = "create" \/ Present(f, op.id)
  /\ op.kind \in {"create", "retime"} /\ op.id \in Once => op.at > clock

\* What it makes of the record it has read. An update that enables a schedule, or gives it
\* another trigger, has its next run computed, unless it brings one along.
Changed(op, r) ==
  CASE op.kind = "create" ->
         [enabled |-> TRUE, next |-> NextRun(op.id, op.at, clock), at |-> op.at, expires |-> 0]
    [] op.kind = "retime" ->
         [r EXCEPT !.at = op.at, !.next = NextRun(op.id, op.at, clock), !.expires = 0]
    [] op.kind = "remove" -> Absent
    [] op.kind = "disable" -> [r EXCEPT !.enabled = FALSE]
    [] op.kind = "enable" ->
         IF r.enabled THEN r
         ELSE [r EXCEPT !.enabled = TRUE, !.next = NextRun(op.id, r.at, clock)]
    [] op.kind \in {"fired", "expired"} -> [r EXCEPT !.enabled = op.enabled, !.next = op.next]

Applied(op, f) == [f EXCEPT ![op.id] = Changed(op, @)]

Requests(s) ==
  {[kind |-> k, id |-> s] : k \in {"remove", "disable", "enable"}}
Timed(k, s) == [kind |-> k, id |-> s, at |-> clock + 1]

Call(op) == chain' = Append(chain, op)

\* A user of this process: a route, /schedule or the settings page.
Edit ==
  /\ Happens
  /\ \E s \in Ids :
       \/ s \in unused /\ unused' = unused \ {s} /\ Call(Timed("create", s))
       \/ /\ s \notin unused /\ UNCHANGED unused
          /\ \E op \in Requests(s) \cup {Timed("retime", s)} : Call(op)
  /\ UNCHANGED <<clock, file, tick, manual, fires, inFlight, copy, outside, historyVars>>

\* readFile: a file that cannot be read counts as an empty one.
ReadFile ==
  /\ chain # <<>> /\ copy = NoCopy
  /\ \/ copy' = file /\ UNCHANGED <<events, excused>>
     \/ Happens /\ copy' = EmptyFile /\ excused' = Ids
  /\ UNCHANGED <<clock, file, unused, tick, manual, fires, inFlight, chain, outside, ran>>

-----------------------------------------------------------------------------
(* TaskScheduler *)

NextAfter_Kept(f) == f.rec.next   \* mutant of NextAfter: the cadence is not advanced

NextAfter(f) ==
  IF f.id \in Once THEN 0
  ELSE IF f.manual THEN f.rec.next ELSE NextRun(f.id, f.rec.at, f.now)

\* The update of fire, and the same again in its catch.
Fired(f) ==
  [kind |-> "fired", id |-> f.id, next |-> NextAfter(f),
   enabled |-> f.rec.enabled /\ f.id \notin Once]

Slot(f) == IF f.id \in Once THEN f.rec.at ELSE f.rec.next

StartFire(s, r, now, isManual) ==
  /\ inFlight' = inFlight \cup {s}
  /\ fires' = fires \cup
       {[id |-> s, rec |-> r, now |-> now, manual |-> isManual, stage |-> "dispatching"]}
  /\ excused' = IF r = file[s] THEN excused ELSE excused \cup {s}

EndFire_KeepId(f) ==   \* mutant of EndFire: inFlight keeps the id
  fires' = fires \ {f} /\ UNCHANGED inFlight

\* finally: whoever awaited the call goes on.
EndFire(f) ==
  /\ fires' = fires \ {f}
  /\ inFlight' = inFlight \ {f.id}

\* The dispatched task exists from here on; it runs under TaskAdmission.
Dispatched(f) ==
  /\ f \in fires /\ f.stage = "dispatching"
  /\ fires' = (fires \ {f}) \cup {[f EXCEPT !.stage = "updating"]}
  /\ Call(Fired(f))
  /\ ran' = IF f.manual /\ f.id \notin Once THEN ran ELSE [ran EXCEPT ![f.id] = @ \cup {Slot(f)}]
  /\ UNCHANGED <<clock, file, unused, tick, manual, inFlight, copy, outside, events, excused>>

\* dispatch throws (the project is gone, the gate of the server is closed): catch.
DispatchFails(f) ==
  /\ f \in fires /\ f.stage = "dispatching"
  /\ fires' = (fires \ {f}) \cup {[f EXCEPT !.stage = "correcting"]}
  /\ Call(Fired(f))
  /\ UNCHANGED <<clock, file, unused, tick, manual, inFlight, copy, outside, events, historyVars>>

DispatchEnds == \E f \in fires : Dispatched(f) \/ DispatchFails(f)

TickStart ==
  /\ ~tick.on
  /\ tick' = [on |-> TRUE, now |-> clock, waits |-> 0,
              todo |-> SelectSeq([s \in Ids |-> [id |-> s, rec |-> file[s]]],
                                 LAMBDA e : e.rec.at > 0)]
  /\ UNCHANGED <<clock, file, unused, manual, fires, inFlight, chain, copy, outside, events,
                 historyVars>>

Overdue(r) == r.next > 0 /\ r.next <= tick.now
Expired(r) == r.expires > 0 /\ r.expires <= tick.now

\* evaluate, on the record of the list.
Evaluate ==
  /\ tick.on /\ tick.waits = 0 /\ tick.todo # <<>>
  /\ LET s == Head(tick.todo).id
         r == Head(tick.todo).rec
         next == [tick EXCEPT !.todo = Tail(@)]
     IN  \/ /\ ~r.enabled \/ s \in inFlight \/ (~Expired(r) /\ ~Overdue(r))
            /\ tick' = next
            /\ UNCHANGED <<fires, inFlight, chain, excused>>
         \/ /\ r.enabled /\ s \notin inFlight /\ Expired(r)
            /\ tick' = [next EXCEPT !.waits = s]
            /\ Call([kind |-> "expired", id |-> s, next |-> 0, enabled |-> FALSE])
            /\ UNCHANGED <<fires, inFlight, excused>>
         \/ /\ r.enabled /\ s \notin inFlight /\ ~Expired(r) /\ Overdue(r)
            /\ tick' = [next EXCEPT !.waits = s]
            /\ StartFire(s, r, tick.now, FALSE)
            /\ UNCHANGED chain
  /\ UNCHANGED <<clock, file, unused, manual, copy, outside, events, ran>>

TickEnd ==
  /\ tick.on /\ tick.waits = 0 /\ tick.todo = <<>>
  /\ tick' = NoTick
  /\ UNCHANGED <<clock, file, unused, manual, fires, inFlight, chain, copy, outside, events,
                 historyVars>>

\* POST /schedules/:id/run reads the record ...
ManualRead(s) ==
  /\ manual = NoManual /\ events < MaxEvents /\ Present(file, s)
  /\ manual' = [id |-> s, rec |-> file[s]]
  /\ events' = events + 1
  /\ UNCHANGED <<clock, file, unused, tick, fires, inFlight, chain, copy, outside, historyVars>>

ManualFire_Unchecked ==   \* mutant of ManualFire: only evaluate looks at inFlight
  /\ manual # NoManual /\ manual' = NoManual
  /\ StartFire(manual.id, manual.rec, clock, TRUE)
  /\ UNCHANGED <<clock, file, unused, tick, chain, copy, outside, events, ran>>

\* ... and fires it, whether it is enabled or not, unless the id is in flight.
ManualFire ==
  /\ manual # NoManual /\ manual' = NoManual
  /\ \/ manual.id \in inFlight /\ UNCHANGED <<fires, inFlight, excused>>
     \/ manual.id \notin inFlight /\ StartFire(manual.id, manual.rec, clock, TRUE)
  /\ UNCHANGED <<clock, file, unused, tick, chain, copy, outside, events, ran>>

-----------------------------------------------------------------------------
(* The end of a write, and what awaits it *)

\* The fire that called the operation op, if any is waiting for it.
CallerOf(op) == {f \in fires : op.kind = "fired" /\ f.id = op.id /\ f.stage # "dispatching"}

TickGoesOn(s) == tick' = IF tick.waits = s THEN [tick EXCEPT !.waits = 0] ELSE tick

Written ==
  /\ copy # NoCopy
  /\ LET op == Head(chain) IN
       /\ file' = IF Writes(op, copy) THEN Applied(op, copy) ELSE file
       /\ chain' = Tail(chain) /\ copy' = NoCopy
       /\ \/ /\ CallerOf(op) = {} /\ UNCHANGED <<fires, inFlight>>
             /\ IF op.kind = "expired" THEN TickGoesOn(op.id) ELSE UNCHANGED tick
          \/ \E f \in CallerOf(op) :
               EndFire(f) /\ IF f.manual THEN UNCHANGED tick ELSE TickGoesOn(f.id)
       /\ ran' = IF op.kind \in {"enable", "retime"} THEN [ran EXCEPT ![op.id] = {}] ELSE ran
  /\ UNCHANGED <<clock, unused, manual, outside, events, excused>>

\* write-file-atomic fails: an update of a dispatched fire is called again by its catch,
\* any other failure ends the call, and with it the tick that waits for it.
WriteFileFails ==
  /\ copy # NoCopy /\ Writes(Head(chain), copy)
  /\ Happens /\ excused' = Ids
  /\ copy' = NoCopy
  /\ LET op == Head(chain) IN
       \/ /\ CallerOf(op) = {} /\ chain' = Tail(chain) /\ UNCHANGED <<fires, inFlight>>
          /\ tick' = IF op.kind = "expired" THEN NoTick ELSE tick
       \/ \E f \in CallerOf(op) :
            IF f.stage = "updating"
            THEN /\ fires' = (fires \ {f}) \cup {[f EXCEPT !.stage = "correcting"]}
                 /\ chain' = Append(Tail(chain), Fired(f))
                 /\ UNCHANGED <<inFlight, tick>>
            ELSE /\ EndFire(f) /\ chain' = Tail(chain)
                 /\ tick' = IF tick.waits = f.id /\ ~f.manual THEN NoTick ELSE tick
  /\ UNCHANGED <<clock, file, unused, manual, outside, ran>>

-----------------------------------------------------------------------------
(* The world *)

Advance ==
  /\ clock < MaxTime /\ clock' = clock + 1
  /\ UNCHANGED <<file, unused, processVars, outside, events, historyVars>>

\* Another process (blade schedule) reads the file and writes it back changed: nothing
\* serialises it with this one.
OutsideRead ==
  /\ outside = NoCopy /\ events < MaxEvents
  /\ events' = events + 1 /\ outside' = file
  /\ UNCHANGED <<clock, file, unused, processVars, historyVars>>

OutsideWrite ==
  /\ outside # NoCopy
  /\ \E s \in Ids : \E op \in Requests(s) :
       Writes(op, outside) /\ file' = Applied(op, outside)
  /\ outside' = NoCopy /\ excused' = Ids
  /\ UNCHANGED <<clock, unused, processVars, events, ran>>

\* A crash and the next start of the process: what it held is gone.
ProcessEnds ==
  /\ Happens /\ excused' = Ids
  /\ tick' = NoTick /\ manual' = NoManual /\ fires' = {} /\ inFlight' = {}
  /\ chain' = <<>> /\ copy' = NoCopy
  /\ UNCHANGED <<clock, file, unused, outside, ran>>

Serve ==
  \/ ReadFile \/ Written \/ WriteFileFails \/ TickStart \/ Evaluate \/ TickEnd \/ ManualFire
  \/ DispatchEnds

SchedulesNext ==
  \/ Serve \/ Edit \/ (\E s \in Ids : ManualRead(s))
  \/ Advance \/ OutsideRead \/ OutsideWrite \/ ProcessEnds

SchedulesSpec == SchedulesInit /\ [][SchedulesNext]_scheduleVars

\* The timer keeps ticking, dispatches and file operations settle.
SchedulesFairSpec ==
  /\ SchedulesSpec
  /\ WF_scheduleVars(ReadFile \/ Written) /\ WF_scheduleVars(DispatchEnds)
  /\ WF_scheduleVars(TickStart \/ Evaluate \/ TickEnd)

-----------------------------------------------------------------------------
(* Properties *)

\* "Parallel dispatch is not allowed for the same schedule": one call of fire at a time,
\* whoever makes it and however long ago its record was read.
OneFireAtATime ==
  /\ inFlight = {f.id : f \in fires}
  /\ \A f, g \in fires : f.id = g.id => f = g

\* A slot that was executed is executed by a tick again only if the process crashed, a read
\* or write failed, another process wrote the file, or a fire began from a record that
\* had changed since it was read.
SlotsRunOnce ==
  [][\A s \in Ids \ excused' : \A f \in fires' \ fires :
       f.id = s /\ ~f.manual /\ f.stage = "dispatching" => Slot(f) \notin ran[s]]_scheduleVars

\* However updates of the scheduler and of users queue up, a write changes only the schedule
\* it is about, and none comes back once it was removed, unless something failed or another
\* process wrote.
WritesAreSerial ==
  [][\A s \in Ids \ excused' : file'[s] # file[s] =>
       /\ copy # NoCopy /\ s = Head(chain).id
       /\ Present(file, s) \/ Head(chain).kind = "create"]_scheduleVars

\* A schedule that is due is fired, disabled or removed: its time moves on.
Due(s) == file[s].enabled /\ file[s].next \in 1 .. clock
DueIsServed == \A s \in Ids : Due(s) ~> ~Due(s)
=============================================================================
