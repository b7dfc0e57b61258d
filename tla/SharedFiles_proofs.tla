------------------------- MODULE SharedFiles_proofs -------------------------
(***************************************************************************)
(* The files that outlive a process or are shared by several. The lease of *)
(* a session, for any number of processes, lock files and crashes: two     *)
(* holders need a takeover, and a dead owner refuses nobody unless its     *)
(* record lacks the start time. The list of                                *)
(* schedules, for any number of schedules, times and mishaps: one call of  *)
(* fire per schedule at a time, no slot fired twice, and writes that touch *)
(* only what they are about. The path locks that operations of one process *)
(* take, as they are specified: no two operations run on a path. The inbox *)
(* of a session, for any messages, bounds and crashes: what is accepted    *)
(* survives, what was handled is not taken again, and a turn that seals    *)
(* has taken everything.                                                   *)
(***************************************************************************)
EXTENDS SessionLease, Schedules, FifoLocks, TurnMailbox, FiniteSetTheorems, SequenceTheorems, TLAPS

-----------------------------------------------------------------------------
(* The lease: the inductive invariant, part by part *)

\* Between open and unlink a process works on the file it created.
Working == {"write", "holding", "remove"}

\* Every takeover used up a file; a process dies only within the bound.
Bounded ==
  /\ takeovers + (IF path = 0 THEN 0 ELSE 1) <= files
  /\ \A p \in Procs : pc[p] = "dead" => life[p] < MaxCrashes
  /\ \A p \in Procs : pc[p] \in Working => mine[p] # 0

\* Without a takeover the lock names the file of whoever works on it, and no two
\* processes work on one file.
OwnFile ==
  /\ takeovers = 0 => \A p \in Procs : pc[p] \in Working => path = mine[p]
  /\ \A p, q \in Procs :
       pc[p] \in Working /\ pc[q] \in Working /\ mine[p] = mine[q] => p = q

\* A record is of an incarnation that has begun; if it is of one that lives, of one that
\* holds the lease.
RecordsAreTrue ==
  /\ path = 0 => record = Empty
  /\ record # Empty => record.life <= life[record.proc]
  /\ \A q \in Procs : record # Empty /\ Names(record, q) => pc[q] \in {"holding", "remove", "dead"}

\* Two processes that are busy at the same time know of each other; so does one that comes
\* back from its takeover to a new lock.
RivalsKnown ==
  /\ \A p, q \in Busy : p # q => p \in rivals
  /\ \A p \in Procs : pc[p] = "recreate" /\ path # 0 => p \in rivals

LeaseInv == TypeOK /\ Bounded /\ OwnFile /\ RecordsAreTrue /\ RivalsKnown

LEMMA InitLease == Init => LeaseInv
  BY LeaseAssumption
  DEF Init, LeaseInv, TypeOK, Bounded, OwnFile, RecordsAreTrue, RivalsKnown, Working, Busy,
      Idle, Pcs, Names

-----------------------------------------------------------------------------
(* One lemma per action *)

LEMMA BeginKeeps ==
  ASSUME LeaseInv, NEW p \in Procs, Begin(p)
  PROVE  LeaseInv'
<1> USE LeaseAssumption DEF LeaseInv, Begin, Goto
<1>1. TypeOK'
  BY DEF TypeOK, Pcs, Busy
<1>2. Bounded'
  BY DEF TypeOK, Bounded, Working
<1>3. OwnFile'
  BY DEF TypeOK, OwnFile, Working
<1>4. RecordsAreTrue'
  BY DEF TypeOK, RecordsAreTrue, Names
<1>5. RivalsKnown'
  BY DEF TypeOK, RivalsKnown, Busy, Idle
<1> QED BY <1>1, <1>2, <1>3, <1>4, <1>5

LEMMA CreateKeeps ==
  ASSUME LeaseInv, NEW p \in Procs, Create(p)
  PROVE  LeaseInv'
<1> USE LeaseAssumption DEF LeaseInv
<1>1. CASE path = 0
  <2>1. /\ files < MaxFiles /\ files' = files + 1 /\ path' = files + 1
        /\ mine' = [mine EXCEPT ![p] = files + 1] /\ pc' = [pc EXCEPT ![p] = "write"]
        /\ record' = Empty
        /\ UNCHANGED <<life, takeovers, rivals, blind>> /\ pc[p] \in {"create", "recreate"}
    BY <1>1 DEF Create, Goto
  <2>2. TypeOK'
    BY <2>1 DEF TypeOK, Pcs
  <2>3. Bounded'
    BY <1>1, <2>1 DEF TypeOK, Bounded, Working
  <2>4. OwnFile'
    BY <1>1, <2>1 DEF TypeOK, Bounded, OwnFile, Working
  <2>5. RecordsAreTrue'
    BY <2>1 DEF TypeOK, RecordsAreTrue, Names, Empty
  <2>6. RivalsKnown'
    BY <2>1 DEF TypeOK, RivalsKnown, Busy, Idle
  <2> QED BY <2>2, <2>3, <2>4, <2>5, <2>6
<1>2. CASE path # 0
  <2>1. /\ pc' = [pc EXCEPT ![p] = IF pc[p] = "create" THEN "read" ELSE "refused"]
        /\ UNCHANGED <<path, record, files, mine, life, takeovers, rivals, blind>>
        /\ pc[p] \in {"create", "recreate"}
    BY <1>2 DEF Create, Goto
  <2>2. TypeOK'
    BY <2>1 DEF TypeOK, Pcs
  <2>3. Bounded' /\ OwnFile'
    BY <2>1 DEF TypeOK, Bounded, OwnFile, Working
  <2>4. RecordsAreTrue'
    BY <2>1 DEF TypeOK, RecordsAreTrue, Names
  <2>5. RivalsKnown'
    BY <1>2, <2>1 DEF TypeOK, RivalsKnown, Busy, Idle
  <2> QED BY <2>2, <2>3, <2>4, <2>5
<1> QED BY <1>1, <1>2

LEMMA CapturesTyped ==
  ASSUME TypeOK, NEW seen \in BOOLEAN, Captures(seen)
  PROVE  blind' \in 0 .. MaxBlind
  BY LeaseAssumption DEF TypeOK, Captures

LEMMA WriteKeeps ==
  ASSUME LeaseInv, NEW p \in Procs, Write(p)
  PROVE  LeaseInv'
<1> USE LeaseAssumption DEF LeaseInv
<1>1. PICK known \in BOOLEAN :
        /\ Captures(known)
        /\ record' = IF path = mine[p] THEN [proc |-> p, life |-> life[p], known |-> known]
                     ELSE record
  BY DEF Write
<1>2. /\ pc[p] = "write" /\ pc' = [pc EXCEPT ![p] = "holding"]
      /\ UNCHANGED <<path, files, mine, life, takeovers, rivals>>
  BY DEF Write, Goto
<1>3. TypeOK'
  <2>1. record' \in {Empty} \cup Record
    BY <1>1 DEF TypeOK, Record
  <2> QED BY <1>1, <1>2, <2>1, CapturesTyped DEF TypeOK, Pcs
<1>4. Bounded' /\ OwnFile'
  BY <1>2 DEF TypeOK, Bounded, OwnFile, Working
<1>5. RecordsAreTrue'
  <2>1. CASE path = mine[p]
    <3>1. path # 0
      BY <1>2, <2>1 DEF TypeOK, Bounded, Working
    <3>2. record' # Empty => record'.life <= life'[record'.proc]
      BY <1>1, <1>2, <2>1 DEF TypeOK
    <3>3. ASSUME NEW q \in Procs, Names(record', q)
          PROVE  q = p
      BY <1>1, <2>1, <3>3 DEF Names
    <3> QED BY <1>2, <3>1, <3>2, <3>3 DEF TypeOK, RecordsAreTrue, Names
  <2>2. CASE path # mine[p]
    BY <1>1, <1>2, <2>2 DEF TypeOK, RecordsAreTrue, Names
  <2> QED BY <2>1, <2>2
<1>6. RivalsKnown'
  BY <1>2 DEF TypeOK, RivalsKnown, Busy, Idle
<1> QED BY <1>3, <1>4, <1>5, <1>6

LEMMA UnlinkKeeps ==
  ASSUME LeaseInv, NEW p \in Procs, WriteFails(p) \/ Remove(p) \/ TakeOver(p)
  PROVE  LeaseInv'
<1> USE LeaseAssumption DEF LeaseInv
<1> DEFINE to == IF pc[p] = "unlink" THEN "recreate" ELSE "idle"
<1>1. /\ path' = 0 /\ pc' = [pc EXCEPT ![p] = to]
      /\ pc[p] \in {"write", "remove", "unlink"}
      /\ record' = Empty
      /\ UNCHANGED <<files, mine, life, rivals, blind>>
  BY DEF WriteFails, Remove, TakeOver, Goto
<1>2. IF pc[p] = "unlink" /\ path # 0 THEN takeovers' = takeovers + 1
                                     ELSE takeovers' = takeovers
  BY DEF WriteFails, Remove, TakeOver
<1>3. takeovers' \in Nat /\ takeovers' <= files
  BY <1>2 DEF TypeOK, Bounded
<1>4. TypeOK'
  BY <1>1, <1>3 DEF TypeOK, Pcs
<1>5. Bounded'
  <2>1. takeovers' + (IF path' = 0 THEN 0 ELSE 1) <= files
    BY <1>1, <1>3
  <2>2. ASSUME NEW q \in Procs
        PROVE  /\ pc'[q] = "dead" => life[q] < MaxCrashes
               /\ pc'[q] \in Working => mine[q] # 0
    BY <1>1 DEF TypeOK, Bounded, Working
  <2> QED BY <1>1, <2>1, <2>2 DEF Bounded
<1>6. OwnFile'
  <2>1. ASSUME takeovers' = 0, NEW q \in Procs, pc'[q] \in Working
        PROVE  FALSE
    <3>1. q # p /\ pc[q] \in Working
      BY <1>1, <2>1 DEF TypeOK, Working
    <3>2. takeovers = 0 /\ path = mine[q] /\ mine[q] # 0
      BY <1>2, <2>1, <3>1 DEF TypeOK, Bounded, OwnFile
    <3>3. pc[p] \in Working
      BY <1>1, <1>2, <2>1, <3>2 DEF TypeOK, Working
    <3> QED BY <2>1, <3>1, <3>2, <3>3 DEF OwnFile
  <2>2. ASSUME NEW q \in Procs, NEW r \in Procs,
               pc'[q] \in Working, pc'[r] \in Working, mine[q] = mine[r]
        PROVE  q = r
    BY <1>1, <2>2 DEF TypeOK, OwnFile, Working
  <2> QED BY <1>1, <2>1, <2>2 DEF OwnFile
<1>7. RecordsAreTrue'
  BY <1>1 DEF TypeOK, RecordsAreTrue, Names
<1>8. RivalsKnown'
  BY <1>1 DEF TypeOK, RivalsKnown, Busy, Idle
<1> QED BY <1>4, <1>5, <1>6, <1>7, <1>8

\* Whoever is refused after a look at the record was refused by somebody busy, or by a
\* record without a start time.
LEMMA AliveIsARival ==
  ASSUME LeaseInv, NEW p \in Procs, NEW seen \in BOOLEAN, pc[p] \in {"read", "reread"},
         Alive(record, seen)
  PROVE  p \in rivals \/ (record # Empty /\ ~record.known /\ record.life < life[record.proc])
<1> USE DEF LeaseInv
<1> DEFINE q == record.proc
<1>1. record # Empty /\ record \in Record /\ q \in Procs /\ pc[q] # "dead"
  BY DEF Alive, TypeOK, Record
<1>2. record.life \in Int /\ life[q] \in Int /\ record.life <= life[q]
  BY <1>1, LeaseAssumption DEF TypeOK, RecordsAreTrue, Record
<1>3. CASE record.life = life[q]
  <2>1. pc[q] \in {"holding", "remove"}
    BY <1>1, <1>3 DEF RecordsAreTrue, Names
  <2> QED BY <1>1, <2>1 DEF RivalsKnown, Busy, Idle
<1>4. CASE record.life # life[q]
  BY <1>1, <1>2, <1>4 DEF Alive
<1> QED BY <1>3, <1>4

LEMMA LeaseReadKeeps ==
  ASSUME LeaseInv, NEW p \in Procs, Read(p)
  PROVE  LeaseInv'
<1> USE LeaseAssumption DEF LeaseInv
<1>1. /\ pc[p] \in {"read", "reread"}
      /\ \E to \in {"refused", "reread", "unlink"} : pc' = [pc EXCEPT ![p] = to]
      /\ UNCHANGED <<path, record, files, mine, life, takeovers, rivals>>
  BY DEF Read, Goto
<1>2. TypeOK'
  <2>1. blind' \in 0 .. MaxBlind
    BY CapturesTyped DEF Read
  <2> QED BY <1>1, <2>1 DEF TypeOK, Pcs
<1>3. Bounded' /\ OwnFile'
  BY <1>1 DEF TypeOK, Bounded, OwnFile, Working
<1>4. RecordsAreTrue'
  BY <1>1 DEF TypeOK, RecordsAreTrue, Names
<1>5. RivalsKnown'
  BY <1>1 DEF TypeOK, RivalsKnown, Busy, Idle
<1> QED BY <1>2, <1>3, <1>4, <1>5

LEMMA ConfirmKeeps ==
  ASSUME LeaseInv, NEW p \in Procs, Confirm(p)
  PROVE  LeaseInv'
<1> USE LeaseAssumption DEF LeaseInv, Confirm, Goto
<1>1. TypeOK'
  BY DEF TypeOK, Pcs
<1>2. Bounded' /\ OwnFile'
  BY DEF TypeOK, Bounded, OwnFile, Working
<1>3. RecordsAreTrue'
  BY DEF TypeOK, RecordsAreTrue, Names
<1>4. RivalsKnown'
  BY DEF TypeOK, RivalsKnown, Busy, Idle
<1> QED BY <1>1, <1>2, <1>3, <1>4

LEMMA LeaseCrashKeeps ==
  ASSUME LeaseInv, NEW p \in Procs, Crash(p)
  PROVE  LeaseInv'
<1> USE LeaseAssumption DEF LeaseInv, Crash, Goto
<1>1. TypeOK'
  BY DEF TypeOK, Pcs
<1>2. Bounded' /\ OwnFile'
  BY DEF TypeOK, Bounded, OwnFile, Working
<1>3. RecordsAreTrue'
  BY DEF TypeOK, RecordsAreTrue, Names
<1>4. RivalsKnown'
  BY DEF TypeOK, RivalsKnown, Busy, Idle
<1> QED BY <1>1, <1>2, <1>3, <1>4

LEMMA RestartKeeps ==
  ASSUME LeaseInv, NEW p \in Procs, Restart(p)
  PROVE  LeaseInv'
<1> USE LeaseAssumption DEF LeaseInv, Restart, Goto
<1>1. TypeOK'
  BY DEF TypeOK, Bounded, Pcs
<1>2. Bounded' /\ OwnFile'
  BY DEF TypeOK, Bounded, OwnFile, Working
<1>3. RecordsAreTrue'
  <2>1. record # Empty => record \in Record /\ record.proc \in Procs /\ record.life <= life[record.proc]
    BY DEF TypeOK, RecordsAreTrue, Record
  <2>2. record # Empty => record.life <= life'[record.proc]
    BY <2>1 DEF TypeOK, Record
  <2>3. ASSUME NEW q \in Procs, record # Empty, record.proc = q, record.life = life'[q]
        PROVE  pc'[q] \in {"holding", "remove", "dead"}
    <3>1. life'[q] <= life[q]
      BY <2>1, <2>3
    <3>2. q # p
      BY <3>1 DEF TypeOK
    <3> QED BY <2>3, <3>2 DEF TypeOK, RecordsAreTrue, Names
  <2> QED BY <2>2, <2>3 DEF RecordsAreTrue, Names
<1>4. RivalsKnown'
  BY DEF TypeOK, RivalsKnown, Busy, Idle
<1> QED BY <1>1, <1>2, <1>3, <1>4

-----------------------------------------------------------------------------

LEMMA LeaseInvariant == Spec => []LeaseInv
<1>1. LeaseInv /\ [Next]_vars => LeaseInv'
  <2> SUFFICES ASSUME LeaseInv, [Next]_vars
               PROVE  LeaseInv'
    OBVIOUS
  <2>1. CASE UNCHANGED vars
    BY <2>1
    DEF vars, LeaseInv, TypeOK, Bounded, OwnFile, RecordsAreTrue, RivalsKnown, Working, Busy, Names
  <2>2. CASE Next
    BY <2>2, BeginKeeps, CreateKeeps, WriteKeeps, UnlinkKeeps, LeaseReadKeeps, ConfirmKeeps,
       LeaseCrashKeeps, RestartKeeps
    DEF Next, Acquire
  <2> QED BY <2>1, <2>2
<1> QED BY <1>1, InitLease, PTL DEF Spec

(***************************************************************************)
(* Two holders need a takeover: as long as no lock was removed because its *)
(* owner looked dead, one process at most holds the lease, and the lock is *)
(* the file it wrote.                                                      *)
(***************************************************************************)
THEOREM LeaseExclusive == Spec => []ExclusiveUntilTakeover
<1>1. LeaseInv => ExclusiveUntilTakeover
  <2> SUFFICES ASSUME LeaseInv
               PROVE  ExclusiveUntilTakeover
    OBVIOUS
  <2>1. ASSUME takeovers = 0, NEW p \in Holders
        PROVE  path = mine[p] /\ Holders = {p}
    BY <2>1 DEF LeaseInv, OwnFile, Holders, Working
  <2>2. takeovers = 0 => Cardinality(Holders) <= 1
    <3>1. CASE Holders = {}
      BY <3>1, FS_EmptySet
    <3>2. ASSUME takeovers = 0, NEW p \in Holders
          PROVE  Cardinality(Holders) = 1
      BY <2>1, <3>2, FS_Singleton
    <3> QED BY <3>1, <3>2
  <2> QED BY <2>1, <2>2 DEF ExclusiveUntilTakeover, LeaseInv
<1> QED BY <1>1, LeaseInvariant, PTL

(***************************************************************************)
(* Who is refused was refused by somebody busy with the lock during its    *)
(* attempt: a lease that a crash left behind refuses nobody, also when its *)
(* pid belongs to another process by now, unless its record lacks the start*)
(* time that would tell them apart.                                        *)
(***************************************************************************)
THEOREM LeaseRefusals == Spec => RefusedByARival
<1>1. LeaseInv /\ [Next]_vars =>
        [\A p \in Procs : pc'[p] = "refused" /\ pc[p] # "refused" =>
           p \in rivals \/ (record # Empty /\ ~record.known /\ record.life < life[record.proc])]_vars
  <2> SUFFICES ASSUME LeaseInv, NEW p \in Procs, NEW q \in Procs,
                      \/ Begin(q) \/ Acquire(q) \/ Confirm(q) \/ Remove(q) \/ Crash(q) \/ Restart(q),
                      pc'[p] = "refused", pc[p] # "refused"
               PROVE  p \in rivals \/ (record # Empty /\ ~record.known /\ record.life < life[record.proc])
    BY DEF Next
  <2>1. p = q /\ (Create(p) \/ Read(p))
    BY DEF LeaseInv, TypeOK, Begin, Acquire, Create, Write, WriteFails, Read, TakeOver, Confirm,
           Remove, Crash, Restart, Goto
  <2>2. CASE Create(p)
    BY <2>1, <2>2 DEF LeaseInv, TypeOK, RivalsKnown, Create, Goto
  <2>3. CASE Read(p)
    <3>1. PICK seen \in BOOLEAN :
            pc' = [pc EXCEPT ![p] = IF Alive(record, seen) THEN "refused"
                     ELSE IF pc[p] = "read" /\ record = Empty THEN "reread" ELSE "unlink"]
      BY <2>3 DEF Read, Goto
    <3>2. Alive(record, seen) /\ pc[p] \in {"read", "reread"}
      BY <2>3, <3>1 DEF LeaseInv, TypeOK, Read
    <3> QED BY <3>2, AliveIsARival
  <2> QED BY <2>1, <2>2, <2>3
<1> QED BY <1>1, LeaseInvariant, PTL DEF Spec, RefusedByARival

-----------------------------------------------------------------------------
(* The schedules: the inductive invariant, part by part *)

\* A call of fire is a record of five fields.
FiresTyped ==
  \A f \in fires :
    f = [id |-> f.id, rec |-> f.rec, now |-> f.now, manual |-> f.manual, stage |-> f.stage]

\* What was read has a record for every schedule, as the file has.
Total(f) == f = [s \in Ids |-> f[s]]
FilesTotal ==
  /\ Total(file)
  /\ copy # NoCopy => Total(copy)
  /\ outside # NoCopy => Total(outside)

\* Between its read and its write an operation knows every schedule as it is, but for those
\* something happened to.
CopyIsFresh == copy # NoCopy => \A s \in Ids \ excused : copy[s] = file[s]

ScheduleInv == FiresTyped /\ FilesTotal /\ CopyIsFresh /\ OneFireAtATime

-----------------------------------------------------------------------------
(* Calls of fire that begin, go on and end *)

\* A call that begins, of a schedule that is not in flight, is alone with its id.
LEMMA StartKeepsFires ==
  ASSUME FiresTyped, OneFireAtATime, NEW s, NEW r, NEW now, NEW isManual,
         s \notin inFlight, StartFire(s, r, now, isManual)
  PROVE  FiresTyped' /\ OneFireAtATime'
<1> DEFINE f == [id |-> s, rec |-> r, now |-> now, manual |-> isManual, stage |-> "dispatching"]
<1>1. fires' = fires \cup {f} /\ inFlight' = inFlight \cup {s} /\ f.id = s
  BY DEF StartFire
<1>2. FiresTyped'
  BY <1>1 DEF FiresTyped
<1> HIDE DEF f
<1>3. inFlight' = {x.id : x \in fires'}
  BY <1>1 DEF OneFireAtATime
<1>4. \A x \in fires : x.id # s
  BY DEF OneFireAtATime
<1>5. \A x, y \in fires' : x.id = y.id => x = y
  BY <1>1, <1>4 DEF OneFireAtATime
<1> QED BY <1>2, <1>3, <1>5 DEF OneFireAtATime

\* A call that goes on to its next stage keeps its id.
LEMMA StageKeepsFires ==
  ASSUME FiresTyped, OneFireAtATime, NEW f \in fires, NEW to,
         fires' = (fires \ {f}) \cup {[f EXCEPT !.stage = to]}, inFlight' = inFlight
  PROVE  FiresTyped' /\ OneFireAtATime'
<1> DEFINE g == [f EXCEPT !.stage = to]
<1>1. f = [id |-> f.id, rec |-> f.rec, now |-> f.now, manual |-> f.manual, stage |-> f.stage]
  BY DEF FiresTyped
<1>2. g = [id |-> f.id, rec |-> f.rec, now |-> f.now, manual |-> f.manual, stage |-> to]
  BY <1>1
<1>3. g.id = f.id
  BY <1>2
<1>4. FiresTyped'
  BY <1>2 DEF FiresTyped
<1>5. fires' = (fires \ {f}) \cup {g}
  OBVIOUS
<1> HIDE DEF g
<1>6. inFlight' = {x.id : x \in fires'}
  <2>1. \A x \in fires' : \E y \in fires : x.id = y.id
    BY <1>5, <1>3
  <2>2. \A y \in fires : \E x \in fires' : x.id = y.id
    BY <1>5, <1>3
  <2> QED BY <2>1, <2>2 DEF OneFireAtATime
<1>7. \A x, y \in fires' : x.id = y.id => x = y
  BY <1>5, <1>3 DEF OneFireAtATime
<1> QED BY <1>4, <1>6, <1>7 DEF OneFireAtATime

\* A call that ends takes its id along.
LEMMA EndKeepsFires ==
  ASSUME FiresTyped, OneFireAtATime, NEW f \in fires, EndFire(f)
  PROVE  FiresTyped' /\ OneFireAtATime'
  BY DEF FiresTyped, OneFireAtATime, EndFire

-----------------------------------------------------------------------------
(* Files *)

LEMMA AppliedIsTotal ==
  ASSUME NEW op, NEW f, Total(f)
  PROVE  /\ Total(Applied(op, f))
         /\ \A s \in Ids : s # op.id => Applied(op, f)[s] = f[s]
<1> DEFINE r == Changed(op, f[op.id])
<1>1. Applied(op, f) = [f EXCEPT ![op.id] = r]
  BY DEF Applied
<1> HIDE DEF r
<1> QED BY <1>1 DEF Total

LEMMA InitSchedules == SchedulesInit => ScheduleInv
  BY DEF SchedulesInit, ScheduleInv, FiresTyped, FilesTotal, Total, CopyIsFresh, OneFireAtATime

\* Nothing but a read, a write or a crash disturbs what is known of the files.
LEMMA FilesKept ==
  ASSUME FilesTotal, CopyIsFresh, UNCHANGED <<file, copy, outside>>, excused \subseteq excused'
  PROVE  FilesTotal' /\ CopyIsFresh'
  BY DEF FilesTotal, CopyIsFresh, Total

LEMMA FiresKept ==
  ASSUME FiresTyped, OneFireAtATime, UNCHANGED <<fires, inFlight>>
  PROVE  FiresTyped' /\ OneFireAtATime'
  BY DEF FiresTyped, OneFireAtATime

-----------------------------------------------------------------------------
(* One lemma per group of actions *)

LEMMA TimerKeeps ==
  ASSUME ScheduleInv, Edit \/ Advance \/ TickStart \/ TickEnd \/ \E s \in Ids : ManualRead(s)
  PROVE  ScheduleInv'
<1>1. UNCHANGED <<file, copy, outside, fires, inFlight>> \/
      UNCHANGED <<file, copy, fires, inFlight, outside, excused>>
  BY DEF Edit, Advance, TickStart, TickEnd, ManualRead, processVars, historyVars
<1>2. excused \subseteq excused'
  BY DEF Edit, Advance, TickStart, TickEnd, ManualRead, processVars, historyVars
<1> QED BY <1>1, <1>2, FilesKept, FiresKept DEF ScheduleInv

LEMMA StoreReadKeeps ==
  ASSUME ScheduleInv, ReadFile
  PROVE  ScheduleInv'
<1>1. FiresTyped' /\ OneFireAtATime'
  BY FiresKept DEF ScheduleInv, ReadFile
<1>2. Total(EmptyFile)
  BY DEF Total, EmptyFile
<1>3. FilesTotal'
  BY <1>2 DEF ScheduleInv, FilesTotal, ReadFile, Total
<1>4. CopyIsFresh'
  BY DEF ScheduleInv, CopyIsFresh, ReadFile
<1> QED BY <1>1, <1>3, <1>4 DEF ScheduleInv

LEMMA DispatchKeeps ==
  ASSUME ScheduleInv, DispatchEnds
  PROVE  ScheduleInv'
<1>1. PICK f \in fires : Dispatched(f) \/ DispatchFails(f)
  BY DEF DispatchEnds
<1>2. FilesTotal' /\ CopyIsFresh'
  BY <1>1, FilesKept DEF ScheduleInv, Dispatched, DispatchFails, historyVars
<1>3. FiresTyped' /\ OneFireAtATime'
  BY <1>1, StageKeepsFires DEF ScheduleInv, Dispatched, DispatchFails
<1> QED BY <1>2, <1>3 DEF ScheduleInv

LEMMA EvaluateKeeps ==
  ASSUME ScheduleInv, Evaluate
  PROVE  ScheduleInv'
<1> DEFINE s == Head(tick.todo).id
           r == Head(tick.todo).rec
<1>1. UNCHANGED <<file, copy, outside>>
  BY DEF Evaluate
<1>2. UNCHANGED <<fires, inFlight, excused>> \/
      (s \notin inFlight /\ StartFire(s, r, tick.now, FALSE))
  BY DEF Evaluate
<1>3. excused \subseteq excused'
  BY <1>2 DEF StartFire
<1>4. FiresTyped' /\ OneFireAtATime'
  BY <1>2, FiresKept, StartKeepsFires DEF ScheduleInv
<1> QED BY <1>1, <1>3, <1>4, FilesKept DEF ScheduleInv

LEMMA ManualFireKeeps ==
  ASSUME ScheduleInv, ManualFire
  PROVE  ScheduleInv'
<1>1. UNCHANGED <<file, copy, outside>>
  BY DEF ManualFire
<1>2. UNCHANGED <<fires, inFlight, excused>> \/
      (manual.id \notin inFlight /\ StartFire(manual.id, manual.rec, clock, TRUE))
  BY DEF ManualFire
<1>3. excused \subseteq excused'
  BY <1>2 DEF StartFire
<1>4. FiresTyped' /\ OneFireAtATime'
  BY <1>2, FiresKept, StartKeepsFires DEF ScheduleInv
<1> QED BY <1>1, <1>3, <1>4, FilesKept DEF ScheduleInv

LEMMA WrittenKeeps ==
  ASSUME ScheduleInv, Written
  PROVE  ScheduleInv'
<1> DEFINE op == Head(chain)
<1>1. /\ copy # NoCopy /\ copy' = NoCopy /\ outside' = outside
      /\ file' = IF Writes(op, copy) THEN Applied(op, copy) ELSE file
  BY DEF Written
<1>2. FilesTotal' /\ CopyIsFresh'
  <2>1. Total(file')
    BY <1>1, AppliedIsTotal DEF ScheduleInv, FilesTotal
  <2> QED BY <1>1, <2>1 DEF ScheduleInv, FilesTotal, CopyIsFresh, Total
<1>3. UNCHANGED <<fires, inFlight>> \/ \E f \in fires : EndFire(f)
  BY DEF Written, CallerOf
<1>4. FiresTyped' /\ OneFireAtATime'
  BY <1>3, FiresKept, EndKeepsFires DEF ScheduleInv
<1> QED BY <1>2, <1>4 DEF ScheduleInv

LEMMA WriteFailsKeeps ==
  ASSUME ScheduleInv, WriteFileFails
  PROVE  ScheduleInv'
<1>1. copy' = NoCopy /\ UNCHANGED <<file, outside>>
  BY DEF WriteFileFails
<1>2. FilesTotal' /\ CopyIsFresh'
  BY <1>1 DEF ScheduleInv, FilesTotal, CopyIsFresh, Total
<1>3. \/ UNCHANGED <<fires, inFlight>>
      \/ \E f \in fires :
           \/ EndFire(f)
           \/ /\ fires' = (fires \ {f}) \cup {[f EXCEPT !.stage = "correcting"]}
              /\ inFlight' = inFlight
  BY DEF WriteFileFails, CallerOf
<1>4. FiresTyped' /\ OneFireAtATime'
  BY <1>3, FiresKept, StageKeepsFires, EndKeepsFires DEF ScheduleInv
<1> QED BY <1>2, <1>4 DEF ScheduleInv

LEMMA OutsideKeeps ==
  ASSUME ScheduleInv, OutsideRead \/ OutsideWrite
  PROVE  ScheduleInv'
<1>1. FiresTyped' /\ OneFireAtATime'
  BY FiresKept DEF ScheduleInv, OutsideRead, OutsideWrite, processVars
<1>2. CASE OutsideRead
  BY <1>1, <1>2 DEF ScheduleInv, FilesTotal, CopyIsFresh, Total, OutsideRead, processVars, historyVars
<1>3. CASE OutsideWrite
  <2>1. PICK op : outside # NoCopy /\ file' = Applied(op, outside)
    BY <1>3 DEF OutsideWrite
  <2>2. Total(file')
    BY <2>1, AppliedIsTotal DEF ScheduleInv, FilesTotal
  <2>3. outside' = NoCopy /\ copy' = copy /\ excused' = Ids
    BY <1>3 DEF OutsideWrite, processVars
  <2> QED BY <1>1, <2>2, <2>3 DEF ScheduleInv, FilesTotal, CopyIsFresh, Total
<1> QED BY <1>2, <1>3

LEMMA StoreCrashKeeps ==
  ASSUME ScheduleInv, ProcessEnds
  PROVE  ScheduleInv'
  BY DEF ScheduleInv, FiresTyped, OneFireAtATime, FilesTotal, CopyIsFresh, Total, ProcessEnds

LEMMA ScheduleInvariant == SchedulesSpec => []ScheduleInv
<1>1. ScheduleInv /\ [SchedulesNext]_scheduleVars => ScheduleInv'
  <2> SUFFICES ASSUME ScheduleInv, [SchedulesNext]_scheduleVars
               PROVE  ScheduleInv'
    OBVIOUS
  <2>1. CASE UNCHANGED scheduleVars
    BY <2>1, FilesKept, FiresKept DEF ScheduleInv, scheduleVars, processVars, historyVars
  <2>2. CASE SchedulesNext
    BY <2>2, TimerKeeps, StoreReadKeeps, DispatchKeeps, EvaluateKeeps, ManualFireKeeps,
       WrittenKeeps, WriteFailsKeeps, OutsideKeeps, StoreCrashKeeps
    DEF SchedulesNext, Serve
  <2> QED BY <2>1, <2>2
<1> QED BY <1>1, InitSchedules, PTL DEF SchedulesSpec

-----------------------------------------------------------------------------

(***************************************************************************)
(* Whoever fires a schedule, and however long ago its record was read, no  *)
(* other call of fire works on it.                                         *)
(***************************************************************************)
THEOREM FiresAreExclusive == SchedulesSpec => []OneFireAtATime
<1>1. ScheduleInv => OneFireAtATime
  BY DEF ScheduleInv
<1> QED BY <1>1, ScheduleInvariant, PTL

(***************************************************************************)
(* Operations that read and write in the chain of one process overwrite    *)
(* nothing and bring nothing back, as long as nothing failed and nobody    *)
(* else wrote.                                                             *)
(***************************************************************************)
THEOREM StoreIsSerial == SchedulesSpec => WritesAreSerial
<1> DEFINE Serial ==
      \A s \in Ids \ excused' : file'[s] # file[s] =>
        /\ copy # NoCopy /\ s = Head(chain).id
        /\ Present(file, s) \/ Head(chain).kind = "create"
<1>1. ScheduleInv /\ [SchedulesNext]_scheduleVars => [Serial]_scheduleVars
  <2> SUFFICES ASSUME ScheduleInv, SchedulesNext
               PROVE  Serial
    OBVIOUS
  <2>1. CASE Written
    <3> SUFFICES ASSUME NEW s \in Ids \ excused', file'[s] # file[s]
                 PROVE  /\ copy # NoCopy /\ s = Head(chain).id
                        /\ Present(file, s) \/ Head(chain).kind = "create"
      OBVIOUS
    <3> DEFINE op == Head(chain)
    <3>1. copy # NoCopy /\ Writes(op, copy) /\ file' = Applied(op, copy) /\ excused' = excused
      BY <2>1 DEF Written
    <3>2. copy[s] = file[s]
      BY <3>1 DEF ScheduleInv, CopyIsFresh
    <3>3. s = op.id
      BY <3>1, <3>2, AppliedIsTotal DEF ScheduleInv, FilesTotal
    <3>4. Present(file, s) \/ op.kind = "create"
      BY <3>1, <3>2, <3>3 DEF Writes, Present
    <3> QED BY <3>1, <3>3, <3>4
  <2>2. CASE OutsideWrite
    BY <2>2 DEF OutsideWrite
  <2>3. CASE file' = file
    BY <2>3
  <2>4. Written \/ OutsideWrite \/ file' = file
    BY DEF SchedulesNext, Serve, Edit, ReadFile, Dispatched, DispatchFails, DispatchEnds, TickStart,
           Evaluate, TickEnd, ManualRead, ManualFire, WriteFileFails, Advance, OutsideRead, ProcessEnds
  <2> QED BY <2>1, <2>2, <2>3, <2>4
<1> QED BY <1>1, ScheduleInvariant, PTL DEF SchedulesSpec, WritesAreSerial

-----------------------------------------------------------------------------
(* What has run: per schedule, the times still to come against those for which a task was *)
(* dispatched, wherever they are: in the file, in a call of fire, or in the write chain    *)

Records == [enabled : BOOLEAN, next : Nat, at : Nat, expires : Nat]
OpKinds == {"create", "retime", "remove", "disable", "enable", "fired", "expired"}

\* A next run is later than all that ran, or there is none.
Ahead(s, next) == \A x \in ran[s] : next > 0 => x < next

RecordKnown(s) ==
  /\ file[s] \in Records /\ (file[s].enabled => file[s].at > 0)
  /\ s \notin Once => ran[s] \subseteq Nat

\* Between two fires an enabled schedule is to run at a time at which it has not run.
NotYetRun(s) ==
  s \notin inFlight /\ file[s].enabled =>
    IF s \in Once THEN ran[s] = {} ELSE Ahead(s, file[s].next)

\* So it is with the time that a fire will write, if it leaves its schedule enabled.
FiresAhead(s) ==
  \A f \in fires : f.id = s =>
    /\ f.rec \in Records /\ f.now \in Nat /\ f.manual \in BOOLEAN
    /\ f.manual \/ f.rec.next <= f.now
    /\ s \notin Once /\ f.rec.enabled => Ahead(s, NextAfter(f))

\* An operation in the chain is what a user asked for or what a fire that waits for it wrote.
OpKnown(op, s) ==
  /\ op.kind \in OpKinds
  /\ op.kind = "fired" => \E f \in fires : f.id = s /\ f.stage # "dispatching" /\ op = Fired(f)
  /\ op.kind = "expired" => op.enabled = FALSE /\ op.next = 0
  /\ op.kind \in {"create", "retime"} => op.at \in Nat \ {0}
  /\ op.kind = "create" => s \notin unused

ChainKnown(s) ==
  /\ \A i \in DOMAIN chain : chain[i].id = s => OpKnown(chain[i], s)
  /\ \A i, j \in DOMAIN chain :
       /\ chain[i].id = s /\ chain[j].id = s
       /\ chain[i].kind = chain[j].kind /\ chain[i].kind \in {"fired", "create"}
       => i = j

Creating(s) == \E i \in DOMAIN chain : chain[i].kind = "create" /\ chain[i].id = s

\* A schedule that is not there yet has not run.
NotThereYet(s) ==
  s \in unused \/ Creating(s) => ran[s] = {} /\ file[s].at = 0 /\ s \notin inFlight

SlotKept(s) ==
  RecordKnown(s) /\ NotYetRun(s) /\ FiresAhead(s) /\ ChainKnown(s) /\ NotThereYet(s)

IsChain(q) == \E S : q \in Seq(S)

SlotTypes ==
  /\ clock \in Nat
  /\ tick = [on |-> tick.on, now |-> tick.now, todo |-> tick.todo, waits |-> tick.waits]
  /\ tick.now \in Nat
  /\ manual # NoManual => manual.rec.at > 0
  /\ IsChain(chain) /\ (copy # NoCopy => chain # <<>>)
  /\ ran = [s \in Ids |-> ran[s]]

SlotsInv == SlotTypes /\ \A s \in Ids \ excused : SlotKept(s)

LEMMA ChainAppended ==
  ASSUME NEW q, IsChain(q), NEW op
  PROVE  /\ IsChain(Append(q, op)) /\ Append(q, op) # <<>>
         /\ \A i \in DOMAIN q : i \in DOMAIN Append(q, op) /\ Append(q, op)[i] = q[i]
         /\ \E n : /\ DOMAIN Append(q, op) = DOMAIN q \cup {n} /\ n \notin DOMAIN q
                   /\ Append(q, op)[n] = op
<1>1. PICK S : q \in Seq(S)
  BY DEF IsChain
<1>2. PICK T : T = S \cup {op}
  OBVIOUS
<1>3. q \in Seq(T) /\ op \in T
  BY <1>1, <1>2, SeqMonotonic
<1>4. PICK n \in Nat : n = Len(q) /\ DOMAIN q = 1 .. n
  BY <1>1, LenProperties
<1>5. PICK r : r = Append(q, op)
  OBVIOUS
<1>6. r \in Seq(T) /\ r # <<>> /\ Len(r) = n + 1 /\ (\A i \in 1 .. n : r[i] = q[i]) /\ r[n + 1] = op
  BY <1>3, <1>4, <1>5, AppendProperties
<1>7. DOMAIN r = 1 .. n + 1
  BY <1>6, LenProperties
<1>8. DOMAIN r = DOMAIN q \cup {n + 1} /\ n + 1 \notin DOMAIN q
  BY <1>4, <1>7
<1> QED BY <1>4, <1>5, <1>6, <1>8 DEF IsChain

LEMMA ChainTail ==
  ASSUME NEW q, IsChain(q), q # <<>>
  PROVE  /\ IsChain(Tail(q)) /\ 1 \in DOMAIN q /\ Head(q) = q[1]
         /\ \A i \in DOMAIN Tail(q) :
              i + 1 \in DOMAIN q /\ i + 1 # 1 /\ i \in Nat /\ Tail(q)[i] = q[i + 1]
<1>1. PICK S : q \in Seq(S)
  BY DEF IsChain
<1>2. PICK n \in Nat : n = Len(q) /\ DOMAIN q = 1 .. n /\ n # 0
  BY <1>1, LenProperties, EmptySeq
<1>3. PICK r : r = Tail(q)
  OBVIOUS
<1>4. r \in Seq(S) /\ Len(r) = n - 1 /\ \A i \in 1 .. Len(r) : r[i] = q[i + 1]
  BY <1>1, <1>2, <1>3, HeadTailProperties
<1>5. DOMAIN r = 1 .. n - 1
  BY <1>4, LenProperties
<1>6. \A i \in 1 .. n - 1 : i + 1 \in 1 .. n /\ i + 1 # 1 /\ i \in Nat /\ r[i] = q[i + 1]
  BY <1>2, <1>4
<1> QED BY <1>1, <1>2, <1>3, <1>4, <1>5, <1>6 DEF IsChain

\* What an operation is known to be survives its fire's next stage, and the fires of others.
LEMMA OpStays ==
  ASSUME NEW s, NEW op, OpKnown(op, s), unused' \subseteq unused,
         op.kind = "fired" =>
           \A f \in fires : f.id = s /\ f.stage # "dispatching" =>
              \E g \in fires' : g.id = s /\ g.stage # "dispatching" /\ Fired(g) = Fired(f)
  PROVE  OpKnown(op, s)'
BY DEF OpKnown

LEMMA ChainStays ==
  ASSUME NEW s, ChainKnown(s), chain' = chain, unused' \subseteq unused,
         \A f \in fires : f.id = s /\ f.stage # "dispatching" =>
            \E g \in fires' : g.id = s /\ g.stage # "dispatching" /\ Fired(g) = Fired(f)
  PROVE  ChainKnown(s)' /\ (Creating(s)' <=> Creating(s))
<1>1. \A i \in DOMAIN chain : chain[i].id = s => OpKnown(chain[i], s)'
  BY OpStays DEF ChainKnown
<1> QED BY <1>1 DEF ChainKnown, OpKnown, Creating

LEMMA ChainGrows ==
  ASSUME NEW s, IsChain(chain), ChainKnown(s), NEW op, chain' = Append(chain, op),
         unused' \subseteq unused,
         \A f \in fires : f.id = s /\ f.stage # "dispatching" =>
            \E g \in fires' : g.id = s /\ g.stage # "dispatching" /\ Fired(g) = Fired(f),
         op.id = s => OpKnown(op, s)',
         op.id = s /\ op.kind \in {"fired", "create"} =>
            \A i \in DOMAIN chain : chain[i].id = s => chain[i].kind # op.kind
  PROVE  /\ ChainKnown(s)'
         /\ Creating(s)' => Creating(s) \/ (op.kind = "create" /\ op.id = s)
<1>1. PICK q : q = Append(chain, op)
  OBVIOUS
<1>2. PICK n : /\ DOMAIN q = DOMAIN chain \cup {n} /\ n \notin DOMAIN chain /\ q[n] = op
               /\ \A i \in DOMAIN chain : q[i] = chain[i]
  BY <1>1, ChainAppended
<1>3. chain' = q
  BY <1>1
<1>4. \A i \in DOMAIN chain : chain[i].id = s => OpKnown(chain[i], s)'
  BY OpStays DEF ChainKnown
<1>5. \A i \in DOMAIN q : q[i].id = s => OpKnown(q[i], s)'
  BY <1>2, <1>4
<1>6. ASSUME NEW i \in DOMAIN q, NEW j \in DOMAIN q, q[i].id = s, q[j].id = s,
             q[i].kind = q[j].kind, q[i].kind \in {"fired", "create"}
      PROVE  i = j
  <2>1. CASE i \in DOMAIN chain /\ j \in DOMAIN chain
    BY <1>2, <1>6, <2>1 DEF ChainKnown
  <2>2. CASE i = n /\ j \in DOMAIN chain
    BY <1>2, <1>6, <2>2
  <2>3. CASE j = n /\ i \in DOMAIN chain
    BY <1>2, <1>6, <2>3
  <2> QED BY <1>2, <1>6, <2>1, <2>2, <2>3
<1>7. ChainKnown(s)'
  BY <1>3, <1>5, <1>6 DEF ChainKnown, OpKnown
<1>8. Creating(s)' => Creating(s) \/ (op.kind = "create" /\ op.id = s)
  BY <1>2, <1>3 DEF Creating
<1> QED BY <1>7, <1>8

LEMMA ChainShrinks ==
  ASSUME NEW s, IsChain(chain), chain # <<>>, ChainKnown(s), chain' = Tail(chain),
         unused' \subseteq unused,
         \/ chain[1].id = s /\ chain[1].kind = "fired"
         \/ \A f \in fires : f.id = s /\ f.stage # "dispatching" =>
               \E g \in fires' : g.id = s /\ g.stage # "dispatching" /\ Fired(g) = Fired(f)
  PROVE  /\ ChainKnown(s)' /\ (Creating(s)' => Creating(s))
         /\ chain[1].id = s /\ chain[1].kind = "create" => ~Creating(s)'
<1>1. PICK q : q = Tail(chain) /\ chain' = q
  OBVIOUS
<1>2. /\ 1 \in DOMAIN chain
      /\ \A i \in DOMAIN q : i + 1 \in DOMAIN chain /\ i + 1 # 1 /\ i \in Nat /\ q[i] = chain[i + 1]
  BY <1>1, ChainTail
<1>3. ASSUME NEW i \in DOMAIN q, q[i].id = s
      PROVE  OpKnown(q[i], s)'
  <2>1. PICK j \in DOMAIN chain : q[i] = chain[j] /\ j # 1
    BY <1>2
  <2>2. OpKnown(chain[j], s)
    BY <1>3, <2>1 DEF ChainKnown
  <2>3. CASE chain[1].id = s /\ chain[1].kind = "fired"
    <3>1. chain[j].kind # "fired"
      BY <1>2, <1>3, <2>1, <2>3 DEF ChainKnown
    <3> QED BY <2>1, <2>2, <3>1, OpStays
  <2> QED BY <2>1, <2>2, <2>3, OpStays
<1>4. ASSUME NEW i \in DOMAIN q, NEW j \in DOMAIN q, q[i].id = s, q[j].id = s,
             q[i].kind = q[j].kind, q[i].kind \in {"fired", "create"}
      PROVE  i = j
  <2>1. i + 1 = j + 1
    BY <1>2, <1>4 DEF ChainKnown
  <2>2. i \in Nat /\ j \in Nat
    BY <1>2
  <2> QED BY <2>1, <2>2
<1>5. ChainKnown(s)'
  <2>1. \A i \in DOMAIN q : q[i].id = s => OpKnown(q[i], s)'
    BY <1>3
  <2>2. \A i \in DOMAIN chain' : chain'[i].id = s => OpKnown(chain[i], s)'
    BY <1>1, <2>1 DEF OpKnown
  <2> QED BY <1>1, <1>4, <2>2 DEF ChainKnown
<1>6. Creating(s)' => Creating(s)
  BY <1>1, <1>2 DEF Creating
<1>7. chain[1].id = s /\ chain[1].kind = "create" => ~Creating(s)'
  <2> SUFFICES ASSUME chain[1].id = s, chain[1].kind = "create", Creating(s)' PROVE FALSE
    OBVIOUS
  <2>1. PICK i \in DOMAIN q : q[i].kind = "create" /\ q[i].id = s
    BY <1>1 DEF Creating
  <2> QED BY <1>2, <2>1 DEF ChainKnown
<1> QED BY <1>5, <1>6, <1>7

-----------------------------------------------------------------------------
(* The shapes of the variables *)

LEMMA ChainTyped ==
  ASSUME SlotTypes, SchedulesNext
  PROVE  IsChain(chain') /\ (copy' # NoCopy => chain' # <<>>)
<1>1. IsChain(chain) /\ (copy # NoCopy => chain # <<>>)
  BY DEF SlotTypes
<1>2. CASE chain' = chain /\ (copy' # NoCopy => copy' = copy \/ chain # <<>>)
  BY <1>1, <1>2
<1>3. CASE chain' = <<>> /\ copy' = NoCopy
  <2>1. <<>> \in Seq({})
    BY EmptySeq
  <2> QED BY <1>3, <2>1 DEF IsChain
<1>4. CASE \E op : chain' = Append(chain, op)
  BY <1>1, <1>4, ChainAppended
<1>5. CASE copy # NoCopy /\ copy' = NoCopy /\ chain' = Tail(chain)
  BY <1>1, <1>5, ChainTail
<1>6. CASE copy # NoCopy /\ copy' = NoCopy /\ \E op : chain' = Append(Tail(chain), op)
  BY <1>1, <1>6, ChainTail, ChainAppended
<1>7. CASE ReadFile
  BY <1>1, <1>7 DEF ReadFile
<1>8. CASE Written \/ WriteFileFails
  BY <1>5, <1>6, <1>8 DEF Written, WriteFileFails
<1>9. CASE TickStart \/ TickEnd \/ ManualFire \/ Advance \/ OutsideRead \/ OutsideWrite \/
           \E s \in Ids : ManualRead(s)
  BY <1>2, <1>9 DEF TickStart, TickEnd, ManualFire, Advance, OutsideRead, OutsideWrite, ManualRead,
                    processVars
<1>10. CASE Evaluate
  BY <1>2, <1>4, <1>10 DEF Evaluate, Call
<1>11. CASE DispatchEnds
  BY <1>4, <1>11 DEF DispatchEnds, Dispatched, DispatchFails, Call
<1>12. CASE Edit
  BY <1>4, <1>12 DEF Edit, Call
<1>13. CASE ProcessEnds
  BY <1>3, <1>13 DEF ProcessEnds
<1> QED BY <1>7, <1>8, <1>9, <1>10, <1>11, <1>12, <1>13 DEF SchedulesNext, Serve

TickTyped(t) == t = [on |-> t.on, now |-> t.now, todo |-> t.todo, waits |-> t.waits] /\ t.now \in Nat

LEMMA TickKept ==
  ASSUME SlotTypes, SchedulesNext
  PROVE  TickTyped(tick)' /\ clock' \in Nat
<1>1. TickTyped(tick) /\ clock \in Nat
  BY DEF SlotTypes, TickTyped
<1>2. TickTyped(NoTick)
  BY DEF TickTyped, NoTick
<1>3. clock' \in Nat
  <2>1. clock' = clock \/ Advance
    BY DEF SchedulesNext, Serve, Edit, ReadFile, Dispatched, DispatchFails, DispatchEnds, TickStart,
           Evaluate, TickEnd, ManualRead, ManualFire, Written, WriteFileFails, OutsideRead,
           OutsideWrite, ProcessEnds
  <2>2. Advance => clock' = clock + 1
    BY DEF Advance
  <2> QED BY <1>1, <2>1, <2>2
<1>4. CASE UNCHANGED tick \/ tick' = NoTick
  BY <1>1, <1>2, <1>3, <1>4 DEF TickTyped
<1>5. \A s : TickTyped([tick EXCEPT !.waits = s])
  BY <1>1 DEF TickTyped
<1>6. CASE \E s : TickGoesOn(s)
  BY <1>1, <1>3, <1>5, <1>6 DEF TickGoesOn, TickTyped
<1>7. CASE TickStart
  BY <1>1, <1>3, <1>7 DEF TickStart, TickTyped
<1>8. CASE Evaluate
  <2>1. PICK t : t = [tick EXCEPT !.todo = Tail(@)]
    OBVIOUS
  <2>2. TickTyped(t)
    BY <1>1, <2>1 DEF TickTyped
  <2>3. tick' = t \/ \E s : tick' = [t EXCEPT !.waits = s]
    BY <1>8, <2>1 DEF Evaluate
  <2> QED BY <1>3, <2>2, <2>3 DEF TickTyped
<1>9. CASE Written
  BY <1>3, <1>4, <1>6, <1>9 DEF Written
<1>10. CASE WriteFileFails
  BY <1>3, <1>4, <1>10 DEF WriteFileFails
<1>11. CASE ReadFile \/ DispatchEnds \/ TickEnd \/ ManualFire
  BY <1>3, <1>4, <1>11 DEF ReadFile, DispatchEnds, Dispatched, DispatchFails, TickEnd, ManualFire
<1>12. CASE Advance \/ OutsideRead \/ OutsideWrite \/ Edit \/ ProcessEnds \/ \E s \in Ids : ManualRead(s)
  BY <1>3, <1>4, <1>12 DEF Advance, OutsideRead, OutsideWrite, Edit, ProcessEnds, ManualRead, processVars
<1> QED BY <1>3, <1>7, <1>8, <1>9, <1>10, <1>11, <1>12 DEF SchedulesNext, Serve

LEMMA SlotTypesKept ==
  ASSUME SlotTypes, SchedulesNext
  PROVE  SlotTypes'
<1>1. manual' # NoManual => manual'.rec.at > 0
  <2>1. UNCHANGED manual \/ manual' = NoManual \/ \E s \in Ids : ManualRead(s)
    BY DEF SchedulesNext, Serve, Edit, ReadFile, Dispatched, DispatchFails, DispatchEnds, TickStart,
           Evaluate, TickEnd, ManualFire, Written, WriteFileFails, Advance, OutsideRead, OutsideWrite,
           ProcessEnds, processVars
  <2>2. \A s \in Ids : ManualRead(s) => manual'.rec.at > 0
    BY DEF ManualRead, Present
  <2>3. manual # NoManual => manual.rec.at > 0
    BY DEF SlotTypes
  <2> QED BY <2>1, <2>2, <2>3
<1>2. ran' = [s \in Ids |-> ran'[s]]
  <2>1. ran = [s \in Ids |-> ran[s]]
    BY DEF SlotTypes
  <2>2. \A s, x : [ran EXCEPT ![s] = x] = [t \in Ids |-> [ran EXCEPT ![s] = x][t]]
    BY <2>1
  <2>3. ran' = ran \/ \E s, x : ran' = [ran EXCEPT ![s] = x]
    BY DEF SchedulesNext, Serve, Edit, ReadFile, Dispatched, DispatchFails, DispatchEnds,
         TickStart, Evaluate, TickEnd, ManualRead, ManualFire, Written, WriteFileFails, Advance,
         OutsideRead, OutsideWrite, ProcessEnds, historyVars
  <2> QED BY <2>1, <2>2, <2>3
<1> QED BY <1>1, <1>2, ChainTyped, TickKept DEF SlotTypes, TickTyped

\* A step that leaves the file, the chain and the calls of fire alone disturbs nothing.
LEMMA SlotFrame ==
  ASSUME NEW s, SlotKept(s), UNCHANGED <<file, unused, fires, inFlight, chain, ran>>
  PROVE  SlotKept(s)'
<1>1. ChainKnown(s)' /\ (Creating(s)' <=> Creating(s))
  BY ChainStays DEF SlotKept
<1> QED BY <1>1 DEF SlotKept, RecordKnown, NotYetRun, FiresAhead, NotThereYet, Ahead

-----------------------------------------------------------------------------
(* One lemma per group of actions *)

LEMMA EditKeepsSlots ==
  ASSUME SlotsInv, Edit, NEW s \in Ids \ excused
  PROVE  SlotKept(s)'
<1>1. SlotKept(s) /\ IsChain(chain) /\ clock \in Nat
  BY DEF SlotsInv, SlotTypes
<1>2. PICK op :
        /\ chain' = Append(chain, op) /\ unused' \subseteq unused
        /\ op.kind \in OpKinds \ {"fired", "expired"}
        /\ op.kind \in {"create", "retime"} => op.at = clock + 1
        /\ op.kind = "create" => op.id \in unused /\ op.id \notin unused'
  <2>1. PICK t \in Ids :
          \/ t \in unused /\ unused' = unused \ {t} /\ Call(Timed("create", t))
          \/ unused' = unused /\ \E x \in Requests(t) \cup {Timed("retime", t)} : Call(x)
    BY DEF Edit
  <2>2. CASE t \in unused /\ unused' = unused \ {t} /\ Call(Timed("create", t))
    BY <2>2 DEF Timed, Call, OpKinds
  <2>3. CASE unused' = unused /\ \E x \in Requests(t) \cup {Timed("retime", t)} : Call(x)
    <3>1. PICK x \in Requests(t) \cup {Timed("retime", t)} : chain' = Append(chain, x)
      BY <2>3 DEF Call
    <3>2. x.kind \in {"remove", "disable", "enable"} \/ (x.kind = "retime" /\ x.at = clock + 1)
      BY <3>1 DEF Requests, Timed
    <3> QED BY <2>3, <3>1, <3>2 DEF OpKinds
  <2> QED BY <2>1, <2>2, <2>3
<1>3. UNCHANGED <<file, fires, inFlight, ran>>
  BY DEF Edit, historyVars
<1>4. op.id = s => OpKnown(op, s)'
  <2>1. clock + 1 \in Nat \ {0}
    BY <1>1
  <2> QED BY <1>2, <2>1 DEF OpKnown, OpKinds
<1>5. op.id = s /\ op.kind \in {"fired", "create"} =>
        \A i \in DOMAIN chain : chain[i].id = s => chain[i].kind # op.kind
  BY <1>1, <1>2 DEF SlotKept, ChainKnown, OpKnown
<1>6. ChainKnown(s)' /\ (Creating(s)' => Creating(s) \/ (op.kind = "create" /\ op.id = s))
  BY <1>1, <1>2, <1>3, <1>4, <1>5, ChainGrows DEF SlotKept
<1>7. s \in unused' \/ Creating(s)' => s \in unused \/ Creating(s)
  BY <1>2, <1>6
<1> QED BY <1>1, <1>3, <1>6, <1>7
        DEF SlotKept, RecordKnown, NotYetRun, FiresAhead, NotThereYet, Ahead

LEMMA DispatchKeepsSlots ==
  ASSUME ScheduleInv, SlotsInv, DispatchEnds, NEW s \in Ids \ excused
  PROVE  SlotKept(s)'
<1>1. SlotKept(s) /\ IsChain(chain) /\ ran = [t \in Ids |-> ran[t]] /\ Period[s] \in Nat \ {0}
  BY SchedulesAssumption DEF SlotsInv, SlotTypes
<1>2. PICK f \in fires : f.stage = "dispatching" /\ (Dispatched(f) \/ DispatchFails(f))
  BY DEF DispatchEnds, Dispatched, DispatchFails
<1>3. PICK g : \E to \in {"updating", "correcting"} :
        g = [f EXCEPT !.stage = to] /\ fires' = (fires \ {f}) \cup {g}
  BY <1>2 DEF Dispatched, DispatchFails
<1>4. g.id = f.id /\ g.rec = f.rec /\ g.now = f.now /\ g.manual = f.manual /\ g.stage # "dispatching"
  <2>1. f = [id |-> f.id, rec |-> f.rec, now |-> f.now, manual |-> f.manual, stage |-> f.stage]
    BY DEF ScheduleInv, FiresTyped
  <2> QED BY <1>3, <2>1
<1>5. Fired(g) = Fired(f) /\ NextAfter(g) = NextAfter(f) /\ Fired(f).kind = "fired" /\ Fired(f).id = f.id
  BY <1>4 DEF Fired, NextAfter
<1>6. /\ chain' = Append(chain, Fired(f)) /\ UNCHANGED <<file, unused, inFlight>>
      /\ \/ ran' = ran
         \/ ran' = [ran EXCEPT ![f.id] = @ \cup {Slot(f)}] /\ ~(f.manual /\ f.id \notin Once)
  BY <1>2 DEF Dispatched, DispatchFails, Call, historyVars
<1>7. \A h \in fires : h.id = f.id => h = f
  BY DEF ScheduleInv, OneFireAtATime
<1>8. ChainKnown(s)' /\ (Creating(s)' => Creating(s))
  <2>1. PICK op : op = Fired(f)
    OBVIOUS
  <2>2. op.id = s => OpKnown(op, s)'
    <3>1. g \in fires'
      BY <1>3
    <3> QED BY <1>4, <1>5, <2>1, <3>1 DEF OpKnown, OpKinds
  <2>3. op.id = s => \A i \in DOMAIN chain : chain[i].id = s => chain[i].kind # "fired"
    BY <1>1, <1>2, <1>5, <1>7, <2>1 DEF SlotKept, ChainKnown, OpKnown
  <2>4. \A h \in fires : h.id = s /\ h.stage # "dispatching" => h \in fires'
    BY <1>2, <1>3
  <2> QED BY <1>1, <1>5, <1>6, <2>1, <2>2, <2>3, <2>4, ChainGrows DEF SlotKept
<1>9. CASE f.id # s
  <2>1. ran'[s] = ran[s]
    BY <1>1, <1>6, <1>9
  <2>2. \A h \in fires' : h.id = s => h \in fires
    BY <1>3, <1>4, <1>9
  <2> QED BY <1>1, <1>6, <1>8, <2>1, <2>2
          DEF SlotKept, RecordKnown, NotYetRun, FiresAhead, NotThereYet, Ahead
<1>10. CASE f.id = s
  <2>1. s \in inFlight
    BY <1>10 DEF ScheduleInv, OneFireAtATime
  <2>2. /\ f.rec \in Records /\ f.now \in Nat /\ f.manual \in BOOLEAN
        /\ f.manual \/ f.rec.next <= f.now
        /\ s \notin Once /\ f.rec.enabled => Ahead(s, NextAfter(f))
    BY <1>1, <1>10 DEF SlotKept, FiresAhead
  <2>3. f.rec.next \in Nat /\ f.rec.at \in Nat
    BY <2>2 DEF Records
  <2>4. ran'[s] = ran[s] \/ (ran'[s] = ran[s] \cup {Slot(f)} /\ (s \notin Once => ~f.manual))
    BY <1>1, <1>6, <1>10
  <2>5. s \notin Once => Slot(f) = f.rec.next
    BY <1>10 DEF Slot
  <2>6. s \notin Once => ran'[s] \subseteq Nat
    BY <1>1, <2>3, <2>4, <2>5 DEF SlotKept, RecordKnown
  <2>7. s \notin Once /\ f.rec.enabled => \A x \in ran'[s] : NextAfter(f) > 0 => x < NextAfter(f)
    <3> SUFFICES ASSUME s \notin Once, f.rec.enabled, NEW x \in ran'[s], NextAfter(f) > 0
                 PROVE  x < NextAfter(f)
      OBVIOUS
    <3>1. CASE x \in ran[s]
      BY <2>2, <3>1 DEF Ahead
    <3>2. CASE x = f.rec.next /\ ~f.manual
      <4>1. NextAfter(f) = f.now + Period[s]
        BY <1>10, <3>2 DEF NextAfter, NextRun
      <4> QED BY <1>1, <2>2, <2>3, <3>2, <4>1
    <3> QED BY <2>4, <2>5, <3>1, <3>2
  <2>8. \A h \in fires' : h.id = s => h = g
    BY <1>3, <1>7, <1>10
  <2>9. FiresAhead(s)'
    BY <1>4, <1>5, <2>2, <2>7, <2>8 DEF FiresAhead, Ahead
  <2> QED BY <1>1, <1>6, <1>8, <2>1, <2>6, <2>9 DEF SlotKept, RecordKnown, NotYetRun, NotThereYet
<1> QED BY <1>9, <1>10

\* A fire begins: its record is that of the file, or the schedule is excused.
LEMMA StartKeepsSlots ==
  ASSUME ScheduleInv, SlotsInv, NEW s \in Ids \ excused', NEW t, NEW r, NEW now \in Nat,
         NEW isManual \in BOOLEAN, t \notin inFlight, StartFire(t, r, now, isManual),
         isManual => r.at > 0,
         ~isManual => r.enabled /\ r.next > 0 /\ r.next <= now,
         UNCHANGED <<file, unused, chain, ran>>
  PROVE  SlotKept(s)'
<1> DEFINE f == [id |-> t, rec |-> r, now |-> now, manual |-> isManual, stage |-> "dispatching"]
<1>1. fires' = fires \cup {f} /\ inFlight' = inFlight \cup {t} /\ excused \subseteq excused'
  BY DEF StartFire
<1>2. SlotKept(s)
  BY <1>1 DEF SlotsInv
<1>3. f.id = t /\ f.rec = r /\ f.now = now /\ f.manual = isManual
  OBVIOUS
<1> HIDE DEF f
<1>4. ChainKnown(s)' /\ (Creating(s)' <=> Creating(s))
  <2>1. \A h \in fires : h.id = s /\ h.stage # "dispatching" => h \in fires'
    BY <1>1
  <2> QED BY <1>2, <2>1, ChainStays DEF SlotKept
<1>5. CASE t # s
  <2>1. \A h \in fires' : h.id = s => h \in fires
    BY <1>1, <1>3, <1>5
  <2> QED BY <1>1, <1>2, <1>4, <1>5, <2>1
          DEF SlotKept, RecordKnown, NotYetRun, FiresAhead, NotThereYet, Ahead
<1>6. CASE t = s
  <2>1. r = file[s]
    BY <1>6 DEF StartFire
  <2>2. r \in Records /\ r.next \in Nat /\ r.at \in Nat /\ Period[s] \in Nat \ {0}
    BY <1>2, <2>1, SchedulesAssumption DEF SlotKept, RecordKnown, Records
  <2>3. r.at > 0
    BY <1>2, <2>1 DEF SlotKept, RecordKnown
  <2>4. ~(s \in unused \/ Creating(s))
    BY <1>2, <2>1, <2>2, <2>3 DEF SlotKept, NotThereYet
  <2>5. s \in inFlight'
    BY <1>1, <1>6
  <2>6. \A h \in fires' : h.id = s => h = f
    BY <1>1, <1>6 DEF ScheduleInv, OneFireAtATime
  <2>7. ASSUME s \notin Once, r.enabled, NEW x \in ran[s], NextAfter(f) > 0
        PROVE  x < NextAfter(f)
    <3>1. r.next > 0 => x < r.next
      BY <1>2, <1>6, <2>1, <2>7 DEF SlotKept, NotYetRun, Ahead
    <3>2. x \in Nat
      BY <1>2, <2>7 DEF SlotKept, RecordKnown
    <3>3. CASE isManual
      BY <1>3, <1>6, <2>7, <3>1, <3>3 DEF NextAfter
    <3>4. CASE ~isManual
      <4>1. NextAfter(f) = now + Period[s]
        BY <1>3, <1>6, <2>7, <3>4 DEF NextAfter, NextRun
      <4> QED BY <2>2, <3>1, <3>2, <3>4, <4>1
    <3> QED BY <3>3, <3>4
  <2>8. FiresAhead(s)'
    BY <1>3, <2>2, <2>6, <2>7 DEF FiresAhead, Ahead
  <2> QED BY <1>2, <1>4, <2>4, <2>5, <2>8 DEF SlotKept, RecordKnown, NotYetRun, NotThereYet
<1> QED BY <1>5, <1>6

LEMMA EvaluateKeepsSlots ==
  ASSUME ScheduleInv, SlotsInv, Evaluate, NEW s \in Ids \ excused'
  PROVE  SlotKept(s)'
<1>1. tick.now \in Nat /\ IsChain(chain)
  BY DEF SlotsInv, SlotTypes
<1>2. UNCHANGED <<file, unused, ran>>
  BY DEF Evaluate
<1>3. PICK t, r :
        \/ UNCHANGED <<fires, inFlight, chain, excused>>
        \/ /\ UNCHANGED <<fires, inFlight, excused>>
           /\ Call([kind |-> "expired", id |-> t, next |-> 0, enabled |-> FALSE])
        \/ /\ t \notin inFlight /\ StartFire(t, r, tick.now, FALSE) /\ UNCHANGED chain
           /\ r.enabled /\ r.next > 0 /\ r.next <= tick.now
  BY DEF Evaluate, Overdue
<1>4. CASE UNCHANGED <<fires, inFlight, chain, excused>>
  BY <1>2, <1>4, SlotFrame DEF SlotsInv
<1>5. CASE /\ UNCHANGED <<fires, inFlight, excused>>
           /\ Call([kind |-> "expired", id |-> t, next |-> 0, enabled |-> FALSE])
  <2>1. PICK op : /\ op.kind = "expired" /\ op.id = t /\ op.next = 0 /\ op.enabled = FALSE
                  /\ chain' = Append(chain, op)
    BY <1>5 DEF Call
  <2>2. OpKnown(op, s)'
    BY <2>1 DEF OpKnown, OpKinds
  <2>3. SlotKept(s)
    BY <1>5 DEF SlotsInv
  <2>4. ChainKnown(s)' /\ (Creating(s)' => Creating(s))
    BY <1>1, <1>2, <1>5, <2>1, <2>2, <2>3, ChainGrows DEF SlotKept
  <2> QED BY <1>2, <1>5, <2>3, <2>4
          DEF SlotKept, RecordKnown, NotYetRun, FiresAhead, NotThereYet, Ahead
<1>6. CASE /\ t \notin inFlight /\ StartFire(t, r, tick.now, FALSE) /\ UNCHANGED chain
           /\ r.enabled /\ r.next > 0 /\ r.next <= tick.now
  BY <1>1, <1>2, <1>6, StartKeepsSlots
<1> QED BY <1>3, <1>4, <1>5, <1>6

LEMMA ManualFireKeepsSlots ==
  ASSUME ScheduleInv, SlotsInv, ManualFire, NEW s \in Ids \ excused'
  PROVE  SlotKept(s)'
<1>1. clock \in Nat /\ manual.rec.at > 0
  BY DEF SlotsInv, SlotTypes, ManualFire
<1>2. UNCHANGED <<file, unused, chain, ran>>
  BY DEF ManualFire
<1>3. CASE UNCHANGED <<fires, inFlight, excused>>
  BY <1>2, <1>3, SlotFrame DEF SlotsInv
<1>4. CASE manual.id \notin inFlight /\ StartFire(manual.id, manual.rec, clock, TRUE)
  BY <1>1, <1>2, <1>4, StartKeepsSlots
<1> QED BY <1>3, <1>4 DEF ManualFire

\* What the operations of users and the expiry make of the record of a schedule.
LEMMA ChangedByUsers ==
  ASSUME NEW s \in Ids, NEW op, OpKnown(op, s), op.id = s, op.kind # "fired",
         file[s] \in Records, file[s].enabled => file[s].at > 0,
         op.kind = "create" \/ file[s].at > 0, clock \in Nat
  PROVE  /\ Changed(op, file[s]) \in Records
         /\ Changed(op, file[s]).enabled => Changed(op, file[s]).at > 0
         /\ op.kind \in {"remove", "disable", "expired"} => ~Changed(op, file[s]).enabled
<1>1. PICK r : r = file[s]
  OBVIOUS
<1>2. /\ r = [enabled |-> r.enabled, next |-> r.next, at |-> r.at, expires |-> r.expires]
      /\ r.enabled \in BOOLEAN /\ r.next \in Nat /\ r.at \in Nat /\ r.expires \in Nat
      /\ op.kind = "create" \/ r.at > 0
  BY <1>1 DEF Records
<1>3. \A at \in Nat : NextRun(s, at, clock) \in Nat
  BY SchedulesAssumption DEF NextRun
<1>4. CASE op.kind = "create"
  <2>1. Changed(op, r) =
          [enabled |-> TRUE, next |-> NextRun(s, op.at, clock), at |-> op.at, expires |-> 0]
    BY <1>4 DEF Changed
  <2>2. op.at \in Nat \ {0} /\ NextRun(s, op.at, clock) \in Nat
    BY <1>3, <1>4 DEF OpKnown
  <2> QED BY <1>1, <1>4, <2>1, <2>2 DEF Records
<1>5. CASE op.kind = "retime"
  <2>1. Changed(op, r) =
          [r EXCEPT !.at = op.at, !.next = NextRun(s, op.at, clock), !.expires = 0]
    BY <1>5 DEF Changed
  <2>2. op.at \in Nat \ {0} /\ NextRun(s, op.at, clock) \in Nat
    BY <1>3, <1>5 DEF OpKnown
  <2>3. Changed(op, r) =
          [enabled |-> r.enabled, next |-> NextRun(s, op.at, clock), at |-> op.at, expires |-> 0]
    BY <1>2, <2>1
  <2> QED BY <1>1, <1>2, <1>5, <2>2, <2>3 DEF Records
<1>6. CASE op.kind = "remove"
  BY <1>1, <1>6 DEF Changed, Absent, Records
<1>7. CASE op.kind = "disable"
  <2>1. Changed(op, r) = [enabled |-> FALSE, next |-> r.next, at |-> r.at, expires |-> r.expires]
    BY <1>2, <1>7 DEF Changed
  <2> QED BY <1>1, <1>2, <1>7, <2>1 DEF Records
<1>8. CASE op.kind = "enable"
  <2>1. CASE r.enabled
    <3>1. Changed(op, r) = r
      BY <1>8, <2>1 DEF Changed
    <3> QED BY <1>1, <1>8, <3>1
  <2>2. CASE ~r.enabled
    <3>1. Changed(op, r) = [r EXCEPT !.enabled = TRUE, !.next = NextRun(s, r.at, clock)]
      BY <1>8, <2>2 DEF Changed
    <3>2. Changed(op, r) =
            [enabled |-> TRUE, next |-> NextRun(s, r.at, clock), at |-> r.at, expires |-> r.expires]
      BY <1>2, <3>1
    <3>3. NextRun(s, r.at, clock) \in Nat
      BY <1>2, <1>3
    <3> QED BY <1>1, <1>2, <1>8, <3>2, <3>3 DEF Records
  <2> QED BY <2>1, <2>2
<1>9. CASE op.kind = "expired"
  <2>1. Changed(op, r) = [r EXCEPT !.enabled = op.enabled, !.next = op.next]
    BY <1>9 DEF Changed
  <2>2. op.next = 0 /\ op.enabled = FALSE
    BY <1>9 DEF OpKnown
  <2>3. Changed(op, r) = [enabled |-> FALSE, next |-> 0, at |-> r.at, expires |-> r.expires]
    BY <1>2, <2>1, <2>2
  <2> QED BY <1>1, <1>2, <1>9, <2>3 DEF Records
<1> QED BY <1>4, <1>5, <1>6, <1>7, <1>8, <1>9 DEF OpKnown, OpKinds

\* A write of an operation on another schedule.
LEMMA WrittenElsewhere ==
  ASSUME ScheduleInv, SlotsInv, Written, NEW s \in Ids \ excused, Head(chain).id # s
  PROVE  SlotKept(s)'
<1>1. PICK op : op = Head(chain)
  OBVIOUS
<1>2. /\ SlotKept(s) /\ IsChain(chain) /\ chain # <<>> /\ copy # NoCopy
      /\ ran = [t \in Ids |-> ran[t]]
  BY DEF SlotsInv, SlotTypes, Written
<1>3. /\ file' = IF Writes(op, copy) THEN Applied(op, copy) ELSE file
      /\ chain' = Tail(chain) /\ unused' = unused
      /\ ran' = IF op.kind \in {"enable", "retime"} THEN [ran EXCEPT ![op.id] = {}] ELSE ran
      /\ \/ UNCHANGED <<fires, inFlight>>
         \/ \E f \in CallerOf(op) : fires' = fires \ {f} /\ inFlight' = inFlight \ {f.id}
  BY <1>1 DEF Written, EndFire
<1>4. file'[s] = file[s]
  <2>1. Total(copy) /\ copy[s] = file[s]
    BY <1>2 DEF ScheduleInv, FilesTotal, CopyIsFresh
  <2> QED BY <1>1, <1>3, <2>1, AppliedIsTotal
<1>5. ran'[s] = ran[s]
  BY <1>1, <1>2, <1>3
<1>6. (\A f \in fires : f.id = s => f \in fires') /\ fires' \subseteq fires
  BY <1>1, <1>3 DEF CallerOf
<1>7. s \in inFlight' <=> s \in inFlight
  BY <1>1, <1>3 DEF CallerOf
<1>8. ChainKnown(s)' /\ (Creating(s)' => Creating(s))
  <2>1. \A f \in fires : f.id = s /\ f.stage # "dispatching" => f \in fires'
    BY <1>6
  <2> QED BY <1>2, <1>3, <2>1, ChainShrinks DEF SlotKept
<1> QED BY <1>2, <1>3, <1>4, <1>5, <1>6, <1>7, <1>8
        DEF SlotKept, RecordKnown, NotYetRun, FiresAhead, NotThereYet, Ahead

\* A fire writes its next run, and ends.
LEMMA WrittenByFire ==
  ASSUME ScheduleInv, SlotsInv, Written, NEW s \in Ids \ excused,
         Head(chain).id = s, Head(chain).kind = "fired"
  PROVE  SlotKept(s)'
<1>1. PICK op : op = Head(chain)
  OBVIOUS
<1>2. /\ SlotKept(s) /\ IsChain(chain) /\ chain # <<>> /\ copy # NoCopy
      /\ 1 \in DOMAIN chain /\ op = chain[1]
  BY <1>1, ChainTail DEF SlotsInv, SlotTypes, Written
<1>3. PICK f \in fires : f.id = s /\ f.stage # "dispatching" /\ op = Fired(f)
  BY <1>1, <1>2 DEF SlotKept, ChainKnown, OpKnown
<1>4. \A g \in fires : g.id = s => g = f
  BY <1>3 DEF ScheduleInv, OneFireAtATime
<1>5. /\ file' = IF Writes(op, copy) THEN Applied(op, copy) ELSE file
      /\ chain' = Tail(chain) /\ unused' = unused /\ ran' = ran
      /\ fires' = fires \ {f} /\ inFlight' = inFlight \ {s}
  <2>1. f \in CallerOf(op) /\ \A g \in CallerOf(op) : g = f
    BY <1>1, <1>3, <1>4 DEF CallerOf
  <2> QED BY <1>1, <1>3, <2>1 DEF Written, EndFire
<1>6. ChainKnown(s)' /\ (Creating(s)' => Creating(s))
  BY <1>1, <1>2, <1>5, ChainShrinks DEF SlotKept
<1>7. ~(s \in unused \/ Creating(s))
  BY <1>2, <1>3 DEF SlotKept, NotThereYet, ScheduleInv, OneFireAtATime
<1>8. FiresAhead(s)' /\ NotThereYet(s)'
  BY <1>4, <1>5, <1>6, <1>7 DEF FiresAhead, NotThereYet
<1>9. Total(copy) /\ copy[s] = file[s] /\ Total(file)
  BY <1>2 DEF ScheduleInv, FilesTotal, CopyIsFresh
<1>10. CASE ~Writes(op, copy)
  <2>1. ~(file[s].at > 0)
    BY <1>1, <1>9, <1>10 DEF Writes, Present
  <2>2. ~file[s].enabled
    BY <1>2, <2>1 DEF SlotKept, RecordKnown
  <2> QED BY <1>2, <1>5, <1>6, <1>8, <1>10, <2>2 DEF SlotKept, RecordKnown, NotYetRun
<1>11. CASE Writes(op, copy)
  <2>1. PICK r : r = file[s]
    OBVIOUS
  <2>2. /\ r = [enabled |-> r.enabled, next |-> r.next, at |-> r.at, expires |-> r.expires]
        /\ r.at \in Nat /\ r.expires \in Nat /\ r.at > 0
    BY <1>1, <1>2, <1>9, <1>11, <2>1 DEF SlotKept, RecordKnown, Records, Writes, Present
  <2>3. PICK b : b = (f.rec.enabled /\ s \notin Once)
    OBVIOUS
  <2>4. op.enabled = b /\ op.next = NextAfter(f)
    BY <1>3, <2>3 DEF Fired
  <2>5. b \in BOOLEAN
    BY <2>3
  <2>6. NextAfter(f) \in Nat
    <3>1. f.rec \in Records /\ f.now \in Nat
      BY <1>2, <1>3 DEF SlotKept, FiresAhead
    <3>2. Period[s] \in Nat /\ f.rec.next \in Nat
      BY <3>1, SchedulesAssumption DEF Records
    <3>3. s \notin Once => NextRun(s, f.rec.at, f.now) = f.now + Period[s]
      BY DEF NextRun
    <3>4. f.now + Period[s] \in Nat
      BY <3>1, <3>2
    <3> QED BY <1>3, <3>2, <3>3, <3>4 DEF NextAfter
  <2>7. Changed(op, r) = [r EXCEPT !.enabled = b, !.next = NextAfter(f)]
    BY <1>1, <2>4 DEF Changed
  <2>8. Changed(op, r) = [enabled |-> b, next |-> NextAfter(f), at |-> r.at, expires |-> r.expires]
    BY <2>2, <2>7
  <2>9. file'[s] = Changed(op, r)
    BY <1>1, <1>5, <1>9, <1>11, <2>1 DEF Applied, Total
  <2>10. RecordKnown(s)'
    BY <1>2, <1>5, <2>2, <2>5, <2>6, <2>8, <2>9 DEF SlotKept, RecordKnown, Records
  <2>11. NotYetRun(s)'
    <3>1. b => s \notin Once /\ Ahead(s, NextAfter(f))
      BY <1>2, <1>3, <2>3 DEF SlotKept, FiresAhead
    <3> QED BY <1>5, <2>8, <2>9, <3>1 DEF NotYetRun, Ahead
  <2> QED BY <1>6, <1>8, <2>10, <2>11 DEF SlotKept
<1> QED BY <1>10, <1>11

\* The write of a user, or of a tick that finds the schedule expired.
LEMMA WrittenByUser ==
  ASSUME ScheduleInv, SlotsInv, Written, NEW s \in Ids \ excused,
         Head(chain).id = s, Head(chain).kind # "fired"
  PROVE  SlotKept(s)'
<1>1. PICK op : op = Head(chain)
  OBVIOUS
<1>2. /\ SlotKept(s) /\ IsChain(chain) /\ chain # <<>> /\ copy # NoCopy /\ clock \in Nat
      /\ 1 \in DOMAIN chain /\ op = chain[1] /\ ran = [t \in Ids |-> ran[t]]
  BY <1>1, ChainTail DEF SlotsInv, SlotTypes, Written
<1>3. OpKnown(op, s)
  BY <1>1, <1>2 DEF SlotKept, ChainKnown
<1>4. CallerOf(op) = {}
  BY <1>1 DEF CallerOf
<1>5. /\ file' = IF Writes(op, copy) THEN Applied(op, copy) ELSE file
      /\ chain' = Tail(chain) /\ UNCHANGED <<unused, fires, inFlight>>
      /\ ran' = IF op.kind \in {"enable", "retime"} THEN [ran EXCEPT ![s] = {}] ELSE ran
  BY <1>1, <1>4 DEF Written
<1>6. /\ ChainKnown(s)' /\ (Creating(s)' => Creating(s))
      /\ op.kind = "create" => ~Creating(s)' /\ Creating(s)
  <2>1. op.kind = "create" => Creating(s)
    BY <1>1, <1>2 DEF Creating
  <2>2. \A f \in fires : f.id = s /\ f.stage # "dispatching" => f \in fires'
    BY <1>5
  <2> QED BY <1>1, <1>2, <1>5, <2>1, <2>2, ChainShrinks DEF SlotKept
<1>7. ran'[s] = IF op.kind \in {"enable", "retime"} THEN {} ELSE ran[s]
  BY <1>2, <1>5
<1>8. (s \notin Once => ran'[s] \subseteq Nat) /\ FiresAhead(s)'
  BY <1>2, <1>5, <1>7 DEF SlotKept, RecordKnown, FiresAhead, Ahead
<1>9. Total(copy) /\ copy[s] = file[s]
  BY <1>2 DEF ScheduleInv, FilesTotal, CopyIsFresh
<1>10. CASE ~Writes(op, copy)
  BY <1>2, <1>5, <1>6, <1>7, <1>8, <1>10
     DEF SlotKept, RecordKnown, NotYetRun, NotThereYet, Ahead
<1>11. CASE Writes(op, copy)
  <2>1. op.kind = "create" \/ file[s].at > 0
    BY <1>1, <1>9, <1>11 DEF Writes, Present
  <2>2. file'[s] = Changed(op, file[s])
    BY <1>1, <1>5, <1>9, <1>11 DEF Applied, Total
  <2>3. /\ file'[s] \in Records /\ (file'[s].enabled => file'[s].at > 0)
        /\ op.kind \in {"remove", "disable", "expired"} => ~file'[s].enabled
    BY <1>1, <1>2, <1>3, <2>1, <2>2, ChangedByUsers DEF SlotKept, RecordKnown
  <2>4. op.kind \notin {"remove", "disable", "expired"} => ran'[s] = {}
    BY <1>1, <1>2, <1>3, <1>6, <1>7 DEF OpKnown, OpKinds, SlotKept, NotThereYet
  <2>5. NotYetRun(s)'
    BY <2>3, <2>4 DEF NotYetRun, Ahead
  <2>6. ~(s \in unused \/ Creating(s))'
    <3>1. CASE op.kind = "create"
      BY <1>3, <1>5, <1>6, <3>1 DEF OpKnown
    <3>2. CASE file[s].at > 0
      BY <1>2, <1>5, <1>6, <3>2 DEF SlotKept, NotThereYet
    <3> QED BY <2>1, <3>1, <3>2
  <2> QED BY <1>6, <1>8, <2>3, <2>5, <2>6 DEF SlotKept, RecordKnown, NotThereYet
<1> QED BY <1>10, <1>11


LEMMA WrittenKeepsSlots ==
  ASSUME ScheduleInv, SlotsInv, Written, NEW s \in Ids \ excused
  PROVE  SlotKept(s)'
BY WrittenElsewhere, WrittenByFire, WrittenByUser

\* A failing read or write, another process and a crash excuse every schedule, the other
\* actions excuse at most the one they fire.
LEMMA SlotsKept ==
  ASSUME ScheduleInv, SlotsInv, SchedulesNext
  PROVE  SlotsInv'
<1>1. Ids \ excused' \subseteq Ids \ excused
  <2>1. excused' \in {excused, Ids} \/ \E s, r, now, m : StartFire(s, r, now, m)
    BY DEF SchedulesNext, Serve, Edit, ReadFile, Dispatched, DispatchFails, DispatchEnds, TickStart,
           Evaluate, TickEnd, ManualRead, ManualFire, Written, WriteFileFails, Advance, OutsideRead,
           OutsideWrite, ProcessEnds, historyVars
  <2> QED BY <2>1 DEF StartFire
<1>2. SUFFICES ASSUME NEW s \in Ids \ excused'
               PROVE  SlotKept(s)'
  BY SlotTypesKept DEF SlotsInv
<1>3. s \in Ids \ excused /\ SlotKept(s) /\ excused' # Ids
  BY <1>1 DEF SlotsInv
<1>4. CASE UNCHANGED <<file, unused, fires, inFlight, chain, ran>>
  BY <1>3, <1>4, SlotFrame
<1>5. CASE ReadFile \/ TickStart \/ TickEnd
  BY <1>4, <1>5 DEF ReadFile, TickStart, TickEnd, historyVars
<1>6. CASE Advance \/ OutsideRead \/ \E t \in Ids : ManualRead(t)
  BY <1>4, <1>6 DEF Advance, OutsideRead, ManualRead, processVars, historyVars
<1>7. CASE WriteFileFails \/ OutsideWrite \/ ProcessEnds
  BY <1>3, <1>7 DEF WriteFileFails, OutsideWrite, ProcessEnds
<1> QED BY <1>3, <1>5, <1>6, <1>7, EditKeepsSlots, DispatchKeepsSlots, EvaluateKeepsSlots,
           ManualFireKeepsSlots, WrittenKeepsSlots DEF SchedulesNext, Serve

LEMMA InitSlots == SchedulesInit => SlotsInv
<1> SUFFICES ASSUME SchedulesInit PROVE SlotsInv
  OBVIOUS
<1>1. SlotTypes
  <2>1. IsChain(<<>>)
    <3>1. <<>> \in Seq({})
      BY EmptySeq
    <3> QED BY <3>1 DEF IsChain
  <2> QED BY <2>1 DEF SchedulesInit, SlotTypes, NoTick
<1>2. chain = <<>> /\ DOMAIN chain = {}
  <2>1. chain = <<>>
    BY DEF SchedulesInit
  <2> QED BY <2>1, EmptySeq
<1>3. ASSUME NEW s \in Ids
      PROVE  SlotKept(s)
  <2>1. fires = {} /\ inFlight = {} /\ ran[s] = {} /\ unused = Ids \ Stored
    BY DEF SchedulesInit
  <2>2. ChainKnown(s) /\ ~Creating(s)
    BY <1>2 DEF ChainKnown, Creating
  <2>3. CASE s \in Stored
    <3>1. file[s] = [enabled |-> TRUE, next |-> NextRun(s, At[s], 0), at |-> At[s], expires |-> Expiry[s]]
      BY <2>3 DEF SchedulesInit
    <3>2. At[s] \in Nat \ {0} /\ Expiry[s] \in Nat /\ Period[s] \in Nat
      BY SchedulesAssumption
    <3>3. NextRun(s, At[s], 0) \in Nat
      BY <3>2 DEF NextRun
    <3>4. RecordKnown(s)
      BY <2>1, <3>1, <3>2, <3>3 DEF RecordKnown, Records
    <3> QED BY <2>1, <2>2, <2>3, <3>4 DEF SlotKept, NotYetRun, FiresAhead, NotThereYet, Ahead
  <2>4. CASE s \notin Stored
    <3>1. file[s] = Absent
      BY <2>4 DEF SchedulesInit
    <3> QED BY <2>1, <2>2, <3>1
            DEF SlotKept, RecordKnown, Records, Absent, NotYetRun, FiresAhead, NotThereYet, Ahead
  <2> QED BY <2>3, <2>4
<1> QED BY <1>1, <1>3 DEF SlotsInv

LEMMA SlotsInvariant == SchedulesSpec => []SlotsInv
<1>1. ScheduleInv /\ SlotsInv /\ [SchedulesNext]_scheduleVars => SlotsInv'
  <2> SUFFICES ASSUME ScheduleInv, SlotsInv, [SchedulesNext]_scheduleVars
               PROVE  SlotsInv'
    OBVIOUS
  <2>1. CASE UNCHANGED scheduleVars
    <3>1. UNCHANGED <<file, unused, fires, inFlight, chain, ran, clock, tick, manual, copy, excused>>
      BY <2>1 DEF scheduleVars, processVars, historyVars
    <3>2. SlotTypes'
      BY <3>1 DEF SlotsInv, SlotTypes
    <3> QED BY <3>1, <3>2, SlotFrame DEF SlotsInv
  <2> QED BY <2>1, SlotsKept
<1> QED BY <1>1, InitSlots, ScheduleInvariant, PTL DEF SchedulesSpec

\* A tick fires no schedule for a slot at which a task was already dispatched: a stored next
\* run, a fire's next run and the operations that wait in the chain all lie beyond what ran,
\* unless the process crashed, a read or write failed, another process wrote the file or the
\* fire began from an old record (SlotsRunOnce; evaluate, fire and advance of TaskScheduler).
THEOREM SlotsAreFiredOnce == SchedulesSpec => SlotsRunOnce
<1> DEFINE SlotIsNew ==
      \A s \in Ids \ excused' : \A f \in fires' \ fires :
         f.id = s /\ ~f.manual /\ f.stage = "dispatching" => Slot(f) \notin ran[s]
<1>1. ScheduleInv /\ SlotsInv /\ [SchedulesNext]_scheduleVars => [SlotIsNew]_scheduleVars
  <2> SUFFICES ASSUME ScheduleInv, SlotsInv, SchedulesNext,
                      NEW s \in Ids \ excused', NEW f \in fires' \ fires,
                      f.id = s, ~f.manual, f.stage = "dispatching"
               PROVE  Slot(f) \notin ran[s]
    BY DEF SlotIsNew
  <2>1. CASE Evaluate
    <3>1. PICK r : /\ s \notin inFlight /\ StartFire(s, r, tick.now, FALSE)
                   /\ r.enabled /\ r.next > 0 /\ f.rec = r
      <4>1. fires' # fires
        OBVIOUS
      <4>2. PICK t, r : /\ t \notin inFlight /\ StartFire(t, r, tick.now, FALSE)
                        /\ r.enabled /\ r.next > 0
        BY <2>1, <4>1 DEF Evaluate, Overdue
      <4>3. f = [id |-> t, rec |-> r, now |-> tick.now, manual |-> FALSE, stage |-> "dispatching"]
        BY <4>2 DEF StartFire
      <4> QED BY <4>2, <4>3
    <3>2. r = file[s] /\ SlotKept(s)
      BY <3>1 DEF StartFire, SlotsInv
    <3>3. IF s \in Once THEN ran[s] = {} ELSE \A x \in ran[s] : x < r.next
      BY <3>1, <3>2 DEF SlotKept, NotYetRun, Ahead
    <3>4. CASE s \in Once
      BY <3>3, <3>4
    <3>5. CASE s \notin Once
      <4>1. r.next \in Nat /\ Slot(f) = r.next
        BY <3>1, <3>2, <3>5 DEF SlotKept, RecordKnown, Records, Slot
      <4>2. ~(r.next < r.next)
        BY <4>1
      <4> QED BY <3>3, <3>5, <4>1, <4>2
    <3> QED BY <3>4, <3>5
  <2>2. CASE ManualFire
    <3>1. fires' # fires
      OBVIOUS
    <3>2. StartFire(manual.id, manual.rec, clock, TRUE)
      BY <2>2, <3>1 DEF ManualFire
    <3>3. f = [id |-> manual.id, rec |-> manual.rec, now |-> clock, manual |-> TRUE,
               stage |-> "dispatching"]
      BY <3>2 DEF StartFire
    <3> QED BY <3>3
  <2>3. CASE fires' \subseteq fires
    BY <2>3
  <2>4. CASE \E g \in fires, to \in {"updating", "correcting"} :
               fires' = (fires \ {g}) \cup {[g EXCEPT !.stage = to]}
    <3>1. PICK g \in fires, to \in {"updating", "correcting"} : f = [g EXCEPT !.stage = to]
      BY <2>4
    <3>2. g = [id |-> g.id, rec |-> g.rec, now |-> g.now, manual |-> g.manual, stage |-> g.stage]
      BY DEF ScheduleInv, FiresTyped
    <3>3. f.stage = to
      BY <3>1, <3>2
    <3> QED BY <3>3
  <2>5. CASE Written \/ WriteFileFails \/ DispatchEnds
    BY <2>3, <2>4, <2>5 DEF Written, WriteFileFails, DispatchEnds, Dispatched, DispatchFails, EndFire,
                            CallerOf
  <2>6. CASE ReadFile \/ TickStart \/ TickEnd \/ Edit \/ Advance \/ OutsideRead \/ OutsideWrite \/
             ProcessEnds \/ \E t \in Ids : ManualRead(t)
    BY <2>3, <2>6 DEF ReadFile, TickStart, TickEnd, Edit, Advance, OutsideRead, OutsideWrite,
                      ProcessEnds, ManualRead, processVars
  <2> QED BY <2>1, <2>2, <2>5, <2>6 DEF SchedulesNext, Serve
<1> QED BY <1>1, ScheduleInvariant, SlotsInvariant, PTL DEF SchedulesSpec, SlotsRunOnce

-----------------------------------------------------------------------------
(* The path locks *)

QueuesOK == queue \in [Paths -> Seq(Ops)] /\ inside \subseteq Ops

FifoInv == QueuesOK /\ \A o \in inside : AtHead(o, queue)

(***************************************************************************)
(* Whoever runs only at the head of all its queues never shares a path     *)
(* with another one that runs, for any operations and paths.               *)
(***************************************************************************)
THEOREM FifoExclusive ==
  ASSUME Want \in [Ops -> SUBSET Paths]
  PROVE  FifoSpec => []Exclusive
<1>1. FifoInit => FifoInv
  BY DEF FifoInit, FifoInv, QueuesOK
<1>2. FifoInv /\ [FifoNext]_fifoVars => FifoInv'
  <2> SUFFICES ASSUME FifoInv, [FifoNext]_fifoVars
               PROVE  FifoInv'
    OBVIOUS
  <2>1. CASE UNCHANGED fifoVars
    BY <2>1 DEF FifoInv, QueuesOK, AtHead, fifoVars
  <2>2. ASSUME NEW o \in Ops, Join(o)
        PROVE  FifoInv'
    <3>1. PICK S \in SUBSET Want[o] :
            queue' = [p \in Paths |-> IF p \in S THEN Append(queue[p], o) ELSE queue[p]]
      BY <2>2 DEF Join
    <3>2. QueuesOK'
      BY <2>2, <3>1 DEF Join, FifoInv, QueuesOK
    <3>3. ASSUME NEW x \in inside
          PROVE  AtHead(x, queue')
      <4>1. ASSUME NEW p \in Want[x]
            PROVE  queue'[p] # <<>> /\ Head(queue'[p]) = x
        <5>1. p \in Paths /\ queue[p] \in Seq(Ops) /\ queue[p] # <<>> /\ Head(queue[p]) = x
          BY DEF FifoInv, QueuesOK, AtHead
        <5>2. queue'[p] = queue[p] \/ queue'[p] = Append(queue[p], o)
          BY <3>1, <5>1
        <5> QED BY <5>1, <5>2
      <4> QED BY <4>1 DEF AtHead
    <3> QED BY <2>2, <3>2, <3>3 DEF Join, FifoInv
  <2>3. ASSUME NEW o \in Ops, Leave(o)
        PROVE  FifoInv'
    BY <2>3 DEF Leave, FifoInv, QueuesOK, AtHead
  <2>4. ASSUME NEW o \in Ops, NEW p \in Want[o], Free(o, p)
        PROVE  FifoInv'
    <3>1. p \in Paths /\ queue[p] \in Seq(Ops) /\ queue[p] # <<>>
      BY <2>4 DEF Free, FifoInv, QueuesOK
    <3>2. QueuesOK'
      BY <2>4, <3>1 DEF Free, FifoInv, QueuesOK
    <3>3. ASSUME NEW x \in inside, NEW r \in Want[x]
          PROVE  queue'[r] # <<>> /\ Head(queue'[r]) = x
      <4>1. r \in Paths /\ queue[r] # <<>> /\ Head(queue[r]) = x
        BY DEF FifoInv, QueuesOK, AtHead
      <4>2. r # p
        BY <2>4, <4>1 DEF Free
      <4> QED BY <2>4, <4>1, <4>2 DEF Free, FifoInv, QueuesOK
    <3> QED BY <2>4, <3>2, <3>3 DEF Free, FifoInv, AtHead
  <2> QED BY <2>1, <2>2, <2>3, <2>4 DEF FifoNext
<1>3. FifoInv => Exclusive
  BY DEF FifoInv, QueuesOK, Exclusive, AtHead
<1> QED BY <1>1, <1>2, <1>3, PTL DEF FifoSpec

-----------------------------------------------------------------------------
(* The inbox: the inductive invariant relates memory, file and transcript at each of the *)
(* writes between which the process may die                                *)

\* The file has what the memory has, and what is about to get there.
FileHasMemory ==
  /\ memory \subseteq disk /\ IsFiniteSet(disk)
  /\ adding.step = "writing" => adding.m \in disk /\ loop # "persisting"

\* Who is enqueueing holds a message that is new: an input that was sent now, or the completion
\* that was offered; an input turn waits for it.
AddingIsNew ==
  /\ adding.step # "none" => adding.m \in Messages
  /\ adding.m \in Inputs => adding.m \in sent /\ adding.m \notin memory \cup acked
  /\ adding.m \in Completions => adding.m = offering
  /\ adding.input => turn = "none" /\ loop = "none"

\* An input is somewhere only if it was sent, a completion only if it is settled, but for the
\* time a new process reconciles them.
KnownIds ==
  /\ Inputs \cap (disk \cup acked) \subseteq sent
  /\ offering \notin settled \cup acked
  /\ loop # "starting" => Completions \cap (acked \cup memory) \subseteq settled

\* What the transcript has leaves the memory before a turn takes anything again.
HandedOver ==
  /\ loop # "acknowledging" => memory \cap acked = {}
  /\ loop = "acknowledging" => memory \cap acked \subseteq handing
  /\ loop = "recording" => handing \subseteq memory
  /\ loop \in {"acknowledging", "persisting"} => handing \subseteq acked

\* A turn has taken only what is there.
ClaimsExist ==
  /\ loop \in {"none", "starting"} => claimed = {}
  /\ loop \in {"begun", "fed"} => claimed \subseteq memory

Kept == accepted \ acked \subseteq memory

MailboxInv ==
  MailTypeOK /\ FileHasMemory /\ AddingIsNew /\ KnownIds /\ HandedOver /\ ClaimsExist /\ Kept
-----------------------------------------------------------------------------
(* Every step preserves the invariant *)

LEMMA AddingRecords ==
  /\ NoAdding \in Enqueues
  /\ \A m \in Messages, step \in {"asked", "writing"}, input \in BOOLEAN, direct \in BOOLEAN :
       [m |-> m, step |-> step, input |-> input, direct |-> direct] \in Enqueues
BY DEF Enqueues, NoAdding

\* A message is offered.
LEMMA SendingKeeps ==
  ASSUME MailboxInv, NEW m \in Inputs, NEW asInput \in BOOLEAN, Send(m, asInput)
  PROVE  MailboxInv'
<1>1. adding' \in Enqueues
  <2>1. (memory = {}) \in BOOLEAN
    OBVIOUS
  <2> QED  BY <2>1, AddingRecords DEF Send, Messages
<1>2. MailTypeOK'
  BY MailboxAssumption, <1>1 DEF MailboxInv, MailTypeOK, Messages, Nobody, Send, TransitionFree, turnVars
<1>3. FileHasMemory' /\ AddingIsNew'
  BY MailboxAssumption, FS_EmptySet, FS_Subset, FS_AddElement, SMTT(60)
  DEF MailboxInv, MailTypeOK, Messages, Nobody, NoAdding, FileHasMemory, AddingIsNew, KnownIds, HandedOver, ClaimsExist, Kept,
      Enqueues, Send, TransitionFree, turnVars
<1>4. KnownIds' /\ HandedOver' /\ ClaimsExist' /\ Kept'
  BY MailboxAssumption, FS_EmptySet, FS_Subset, FS_AddElement, SMTT(60)
  DEF MailboxInv, MailTypeOK, Messages, Nobody, NoAdding, FileHasMemory, AddingIsNew, KnownIds, HandedOver, ClaimsExist, Kept,
      Enqueues, Send, TransitionFree, turnVars
<1> QED  BY <1>2, <1>3, <1>4 DEF MailboxInv

\* A completion is checked against the transcript, and its turn to be enqueued comes.
LEMMA OfferingKeeps ==
  ASSUME MailboxInv, (\E c \in Completions : Offer(c)) \/ EnqueueOffered
  PROVE  MailboxInv'
<1>1. adding' \in Enqueues
  BY AddingRecords DEF MailboxInv, MailTypeOK, Messages, Offer, EnqueueOffered
<1>2. MailTypeOK'
  BY MailboxAssumption, <1>1 DEF MailboxInv, MailTypeOK, Messages, Nobody, Offer, EnqueueOffered, TransitionFree, turnVars
<1>3. FileHasMemory' /\ AddingIsNew'
  BY MailboxAssumption, FS_EmptySet, FS_Subset, FS_AddElement, SMTT(60)
  DEF MailboxInv, MailTypeOK, Messages, Nobody, NoAdding, FileHasMemory, AddingIsNew, KnownIds, HandedOver, ClaimsExist, Kept,
      Enqueues, Offer, EnqueueOffered, TransitionFree, turnVars
<1>4. KnownIds' /\ HandedOver' /\ ClaimsExist' /\ Kept'
  BY MailboxAssumption, FS_EmptySet, FS_Subset, FS_AddElement, SMTT(60)
  DEF MailboxInv, MailTypeOK, Messages, Nobody, NoAdding, FileHasMemory, AddingIsNew, KnownIds, HandedOver, ClaimsExist, Kept,
      Enqueues, Offer, EnqueueOffered, TransitionFree, turnVars
<1> QED  BY <1>2, <1>3, <1>4 DEF MailboxInv

\* A message is there already, or is refused.
LEMMA RefusingKeeps ==
  ASSUME MailboxInv, Refuse
  PROVE  MailboxInv'
<1>1. adding' \in Enqueues
  BY AddingRecords DEF Refuse, Answered
<1>2. MailTypeOK'
  BY MailboxAssumption, <1>1 DEF MailboxInv, MailTypeOK, Messages, Nobody, Refuse, Answered, SameOrigin, InboxFree, turnVars
<1>3. FileHasMemory' /\ AddingIsNew'
  BY MailboxAssumption, FS_EmptySet, FS_Subset, FS_AddElement, SMTT(60)
  DEF MailboxInv, MailTypeOK, Messages, Nobody, NoAdding, FileHasMemory, AddingIsNew, KnownIds, HandedOver, ClaimsExist, Kept,
      Enqueues, Refuse, Answered, SameOrigin, InboxFree, turnVars
<1>4. KnownIds' /\ HandedOver' /\ ClaimsExist' /\ Kept'
  BY MailboxAssumption, FS_EmptySet, FS_Subset, FS_AddElement, SMTT(60)
  DEF MailboxInv, MailTypeOK, Messages, Nobody, NoAdding, FileHasMemory, AddingIsNew, KnownIds, HandedOver, ClaimsExist, Kept,
      Enqueues, Refuse, Answered, SameOrigin, InboxFree, turnVars
<1> QED  BY <1>2, <1>3, <1>4 DEF MailboxInv

\* An enqueue writes the file.
LEMMA EnqueueWritesKeeps ==
  ASSUME MailboxInv, EnqueueWrites
  PROVE  MailboxInv'
<1>1. adding' \in Enqueues
  BY SMT DEF MailboxInv, MailTypeOK, Enqueues, Messages, Nobody, NoAdding, EnqueueWrites
<1>2. MailTypeOK'
  BY MailboxAssumption, <1>1 DEF MailboxInv, MailTypeOK, AddingIsNew, Messages, Nobody, EnqueueWrites, InboxFree, SameOrigin, turnVars
<1>3. FileHasMemory' /\ AddingIsNew'
  BY MailboxAssumption, FS_EmptySet, FS_Subset, FS_AddElement, SMTT(60)
  DEF MailboxInv, MailTypeOK, Messages, Nobody, NoAdding, FileHasMemory, AddingIsNew, KnownIds, HandedOver, ClaimsExist, Kept,
      Enqueues, EnqueueWrites, InboxFree, SameOrigin, turnVars
<1>4. KnownIds' /\ HandedOver' /\ ClaimsExist' /\ Kept'
  BY MailboxAssumption, FS_EmptySet, FS_Subset, FS_AddElement, SMTT(60)
  DEF MailboxInv, MailTypeOK, Messages, Nobody, NoAdding, FileHasMemory, AddingIsNew, KnownIds, HandedOver, ClaimsExist, Kept,
      Enqueues, EnqueueWrites, InboxFree, SameOrigin, turnVars
<1> QED  BY <1>2, <1>3, <1>4 DEF MailboxInv

\* Then the memory follows, and an input turn begins.
LEMMA EnqueueDoneKeeps ==
  ASSUME MailboxInv, EnqueueDone
  PROVE  MailboxInv'
BY MailboxAssumption, FS_EmptySet, FS_AddElement, FS_Subset, SMTT(60)
   DEF MailboxInv, MailTypeOK, FileHasMemory, AddingIsNew, KnownIds, HandedOver, ClaimsExist, Kept,
         Messages, Nobody, NoAdding, Enqueues, EnqueueDone, Answered

\* A turn begins, takes messages or seals.
LEMMA TurnKeeps ==
  ASSUME MailboxInv, BeginPendingTurn \/ BeginTurn \/ Drain \/ DrainOrSeal
  PROVE  MailboxInv'
BY MailboxAssumption, FS_EmptySet, FS_AddElement, FS_Subset, SMTT(60)
   DEF MailboxInv, MailTypeOK, FileHasMemory, AddingIsNew, KnownIds, HandedOver, ClaimsExist, Kept,
         Messages, Nobody, NoAdding, BeginPendingTurn, BeginTurn, Drain, DrainOrSeal, TransitionFree, senderVars

\* A turn that ends records what it has handled, and empties the inbox of it.
LEMMA HandingOverKeeps ==
  ASSUME MailboxInv, Complete \/ Discard \/ RecordCompletion \/ AcknowledgeMemory \/ AcknowledgeDisk
  PROVE  MailboxInv'
BY MailboxAssumption, FS_EmptySet, FS_AddElement, FS_Subset, SMTT(60)
   DEF MailboxInv, MailTypeOK, FileHasMemory, AddingIsNew, KnownIds, HandedOver, ClaimsExist, Kept,
         Messages, Nobody, NoAdding, Complete, Discard, RecordCompletion, AcknowledgeMemory,
         AcknowledgeDisk, TransitionFree, InboxFree, senderVars

\* A turn is given up, or finished.
LEMMA EndingKeeps ==
  ASSUME MailboxInv, AbortTurn \/ \E continue \in BOOLEAN : FinishTurn(continue)
  PROVE  MailboxInv'
BY MailboxAssumption, FS_EmptySet, FS_AddElement, FS_Subset, SMTT(60)
   DEF MailboxInv, MailTypeOK, FileHasMemory, AddingIsNew, KnownIds, HandedOver, ClaimsExist, Kept,
         Messages, Nobody, NoAdding, AbortTurn, FinishTurn, TransitionFree, senderVars

\* The process dies between any two steps, and the next one reconciles.
LEMMA MailRestartKeeps ==
  ASSUME MailboxInv, CrashAndRestart \/ Started
  PROVE  MailboxInv'
<1>1. adding' \in Enqueues
  BY AddingRecords DEF MailboxInv, MailTypeOK, CrashAndRestart, Started, senderVars
<1>2. MailTypeOK'
  BY MailboxAssumption, <1>1 DEF MailboxInv, MailTypeOK, Messages, Nobody, CrashAndRestart, Started, Reloaded, TransitionFree, turnVars, senderVars
<1>3. FileHasMemory' /\ AddingIsNew'
  BY MailboxAssumption, FS_EmptySet, FS_Subset, FS_AddElement, SMTT(60)
  DEF MailboxInv, MailTypeOK, Messages, Nobody, NoAdding, FileHasMemory, AddingIsNew, KnownIds, HandedOver, ClaimsExist, Kept,
      Enqueues, CrashAndRestart, Started, Reloaded, TransitionFree, turnVars, senderVars
<1>4. KnownIds' /\ HandedOver' /\ ClaimsExist' /\ Kept'
  BY MailboxAssumption, FS_EmptySet, FS_Subset, FS_AddElement, SMTT(60)
  DEF MailboxInv, MailTypeOK, Messages, Nobody, NoAdding, FileHasMemory, AddingIsNew, KnownIds, HandedOver, ClaimsExist, Kept,
      Enqueues, CrashAndRestart, Started, Reloaded, TransitionFree, turnVars, senderVars
<1> QED  BY <1>2, <1>3, <1>4 DEF MailboxInv

\* The invariant holds in every reachable state.
THEOREM MailboxInvariant == MailSpec => []MailboxInv
<1>1. MailInit => MailboxInv
  <2> SUFFICES ASSUME MailInit  PROVE MailboxInv
    OBVIOUS
  <2>1. MailTypeOK
    BY MailboxAssumption, AddingRecords DEF MailInit, MailTypeOK, Messages
  <2>2. FileHasMemory /\ AddingIsNew /\ KnownIds
    BY MailboxAssumption, FS_EmptySet
    DEF MailInit, FileHasMemory, AddingIsNew, KnownIds, NoAdding, Nobody, Messages
  <2>3. HandedOver /\ ClaimsExist /\ Kept
    BY DEF MailInit, HandedOver, ClaimsExist, Kept
  <2> QED  BY <2>1, <2>2, <2>3 DEF MailboxInv
<1>2. MailboxInv /\ [MailNext]_mailVars => MailboxInv'
  <2> SUFFICES ASSUME MailboxInv, [MailNext]_mailVars  PROVE MailboxInv'
    OBVIOUS
  <2>1. CASE \E m \in Inputs, asInput \in BOOLEAN : Send(m, asInput)
    BY <2>1, SendingKeeps
  <2>2. CASE (\E c \in Completions : Offer(c)) \/ EnqueueOffered
    BY <2>2, OfferingKeeps
  <2>3. CASE Refuse \/ EnqueueWrites \/ EnqueueDone
    BY <2>3, RefusingKeeps, EnqueueWritesKeeps, EnqueueDoneKeeps
  <2>4. CASE BeginPendingTurn \/ BeginTurn \/ Drain \/ DrainOrSeal
    BY <2>4, TurnKeeps
  <2>5. CASE Complete \/ Discard \/ RecordCompletion \/ AcknowledgeMemory \/ AcknowledgeDisk
    BY <2>5, HandingOverKeeps
  <2>6. CASE AbortTurn \/ \E continue \in BOOLEAN : FinishTurn(continue)
    BY <2>6, EndingKeeps
  <2>7. CASE CrashAndRestart \/ Started
    BY <2>7, MailRestartKeeps
  <2>8. CASE UNCHANGED mailVars
    BY <2>8 DEF mailVars, turnVars, MailboxInv, MailTypeOK, FileHasMemory, AddingIsNew, KnownIds,
                HandedOver, ClaimsExist, Kept
  <2> QED
    BY <2>1, <2>2, <2>3, <2>4, <2>5, <2>6, <2>7, <2>8 DEF MailNext, Enqueue, Handle
<1> QED  BY <1>1, <1>2, PTL DEF MailSpec

-----------------------------------------------------------------------------
(* The theorems *)

\* No crash loses a message whose sender was told that it is accepted.
THEOREM NothingAcceptedIsLost == MailSpec => []AcceptedIsKept
<1>1. MailboxInv => AcceptedIsKept
  BY DEF MailboxInv, AcceptedIsKept, Kept, FileHasMemory
<1> QED  BY <1>1, MailboxInvariant, PTL

\* A turn takes what is in the memory, which has nothing that was handled while a turn takes.
THEOREM NothingHandledAgain == MailSpec => HandledOnce
<1>1. MailboxInv /\ [MailNext]_mailVars => [(claimed' \ claimed) \cap acked = {}]_mailVars
  <2> SUFFICES ASSUME MailboxInv, MailNext  PROVE (claimed' \ claimed) \cap acked = {}
    BY DEF mailVars
  <2>1. CASE Drain \/ DrainOrSeal
    BY <2>1 DEF Drain, DrainOrSeal, MailboxInv, HandedOver
  <2>2. CASE EnqueueDone
    <3>1. claimed' \ claimed \subseteq {adding.m}
      BY <2>2 DEF EnqueueDone
    <3>2. adding.m \notin acked
      BY <2>2 DEF EnqueueDone, MailboxInv, AddingIsNew, KnownIds, Messages
    <3> QED  BY <3>1, <3>2
  <2>3. CASE AcknowledgeDisk
    BY <2>3 DEF AcknowledgeDisk
  <2>4. claimed' = claimed \/ claimed' = {} \/ Drain \/ DrainOrSeal \/ EnqueueDone
           \/ AcknowledgeDisk
    BY DEF MailNext, Enqueue, Handle, Send, Offer, EnqueueOffered, Refuse, EnqueueWrites,
           BeginPendingTurn, BeginTurn, Complete, Discard, RecordCompletion, AcknowledgeMemory,
           AbortTurn, FinishTurn, CrashAndRestart, Started, turnVars
  <2> QED  BY <2>1, <2>2, <2>3, <2>4
<1> QED  BY <1>1, MailboxInvariant, PTL DEF MailSpec, HandledOnce

\* The turn compares numbers only, but it has taken nothing that is not there.
THEOREM SealsAreComplete == MailSpec => SealLeavesNothing
<1>1. MailboxInv /\ [MailNext]_mailVars => [turn = "open" /\ turn' = "sealed" => memory \subseteq claimed]_mailVars
  <2> SUFFICES ASSUME MailboxInv, MailNext, turn = "open", turn' = "sealed"
               PROVE  memory \subseteq claimed
    BY DEF mailVars
  <2>1. DrainOrSeal
    BY DEF MailNext, Enqueue, Handle, Send, Offer, EnqueueOffered, Refuse, EnqueueWrites, EnqueueDone,
           BeginPendingTurn, BeginTurn, Drain, Complete, Discard, RecordCompletion,
           AcknowledgeMemory, AcknowledgeDisk, AbortTurn, FinishTurn, CrashAndRestart, Started,
           turnVars
  <2>2. claimed \subseteq memory /\ IsFiniteSet(memory)
    BY <2>1, FS_Subset DEF DrainOrSeal, MailboxInv, ClaimsExist, FileHasMemory
  <2>3. ~(Cardinality(memory) > Cardinality(claimed))
    BY <2>1 DEF DrainOrSeal
  <2>4. Cardinality(memory) \in Nat /\ Cardinality(claimed) \in Nat
    BY <2>2, FS_Subset, FS_CardinalityType
  <2>5. Cardinality(claimed) <= Cardinality(memory)
          /\ (Cardinality(claimed) = Cardinality(memory) => claimed = memory)
    BY <2>2, FS_Subset
  <2> QED  BY <2>3, <2>4, <2>5
<1> QED  BY <1>1, MailboxInvariant, PTL DEF MailSpec, SealLeavesNothing
=============================================================================
