---------------------------- MODULE SessionLease ----------------------------
(***************************************************************************)
(* packages/cli/src/agent/runtime/SessionLease.ts: the lock file that lets *)
(* one process run a session. Every file system call is a step of its own, *)
(* and a process may crash between any two of them. The lock is a path     *)
(* that names a file: a file that was unlinked keeps its writer but is     *)
(* nobody's lock any more, and nobody reads it.                            *)
(***************************************************************************)
EXTENDS Integers, FiniteSets

CONSTANTS
  Procs,      \* processes that want the session
  MaxFiles,   \* bound: lock files ever created
  MaxCrashes, \* bound: crashes
  MaxBlind    \* bound: start times of processes that could not be read

ASSUME LeaseAssumption ==
  /\ MaxFiles \in Nat \ {0} /\ MaxCrashes \in Nat /\ MaxBlind \in Nat
  /\ "nobody" \notin Procs

VARIABLES
  path,      \* the file the lock path names, 0 if there is none
  record,    \* what that file says: Empty before it is written
  files,     \* files created so far
  pc,        \* where each process is in acquire and release
  mine,      \* the file each process created
  life,      \* incarnation of each process: pid and start time
  blind,     \* start times that could not be read so far
  takeovers, \* history: lock files removed because their owner looked dead
  rivals     \* history: somebody else was busy with the lock since acquire began

vars == <<path, record, files, pc, mine, life, blind, takeovers, rivals>>

\* A record names its process; that it knows the start time is not certain.
Record == [proc : Procs, life : 0 .. MaxCrashes, known : BOOLEAN]
Empty == [proc |-> "nobody", life |-> 0, known |-> FALSE]
Idle == {"idle", "refused", "dead"}
Pcs == {"idle", "create", "write", "read", "reread", "unlink", "recreate",
        "holding", "remove", "refused", "dead"}

TypeOK ==
  /\ path \in 0 .. files /\ files \in 0 .. MaxFiles
  /\ record \in {Empty} \cup Record
  /\ pc \in [Procs -> Pcs] /\ mine \in [Procs -> 0 .. files]
  /\ life \in [Procs -> 0 .. MaxCrashes] /\ blind \in 0 .. MaxBlind
  /\ takeovers \in 0 .. MaxFiles /\ rivals \subseteq Procs

Init ==
  /\ path = 0 /\ record = Empty /\ files = 0
  /\ pc = [p \in Procs |-> "idle"]
  /\ mine = [p \in Procs |-> 0]
  /\ life = [p \in Procs |-> 0]
  /\ blind = 0 /\ takeovers = 0 /\ rivals = {}

Goto(p, to) == pc' = [pc EXCEPT ![p] = to]
Names(o, p) == o.proc = p /\ o.life = life[p]
Busy == {p \in Procs : pc[p] \notin Idle}

\* captureProcessIdentity: the start time of a process is read, or cannot be.
Captures(seen) ==
  IF seen THEN UNCHANGED blind ELSE blind < MaxBlind /\ blind' = blind + 1

Alive_AnyPid(o, seen) ==   \* mutant of Alive: the start time is not compared
  o # Empty /\ pc[o.proc] # "dead"

\* isProcessRunning and processIdentityMatches: without a start time in the record the pid
\* decides; one that cannot be read now matches none.
Alive(o, seen) ==
  o # Empty /\ pc[o.proc] # "dead" /\ (~o.known \/ (seen /\ life[o.proc] = o.life))

-----------------------------------------------------------------------------
(* acquire *)

Begin(p) ==
  /\ pc[p] \in {"idle", "refused"}
  /\ Goto(p, "create")
  /\ rivals' = (IF Busy = {} THEN rivals \ {p} ELSE rivals \cup {p}) \cup Busy
  /\ UNCHANGED <<path, record, files, mine, life, takeovers, blind>>

Create_Overwrite(p) ==   \* mutant of Create: open with 'w'
  /\ pc[p] \in {"create", "recreate"}
  /\ files < MaxFiles
  /\ files' = files + 1 /\ path' = files' /\ mine' = [mine EXCEPT ![p] = files']
  /\ record' = Empty
  /\ Goto(p, "write")
  /\ UNCHANGED <<life, takeovers, rivals, blind>>

\* open with 'wx': the new file is empty.
Create(p) ==
  /\ pc[p] \in {"create", "recreate"}
  /\ IF path = 0
     THEN /\ files < MaxFiles
          /\ files' = files + 1 /\ path' = files' /\ mine' = [mine EXCEPT ![p] = files']
          /\ record' = Empty
          /\ Goto(p, "write")
     ELSE /\ Goto(p, IF pc[p] = "create" THEN "read" ELSE "refused")
          /\ UNCHANGED <<path, record, files, mine>>
  /\ UNCHANGED <<life, takeovers, rivals, blind>>

\* The record goes to the file that was opened, whatever the path names by now.
Write(p) ==
  /\ pc[p] = "write"
  /\ \E known \in BOOLEAN :
       /\ Captures(known)
       /\ record' = IF path = mine[p] THEN [proc |-> p, life |-> life[p], known |-> known]
                    ELSE record
  /\ Goto(p, "holding")
  /\ UNCHANGED <<path, files, mine, life, takeovers, rivals>>

\* writeFile fails: the path is unlinked and the error thrown.
WriteFails(p) ==
  /\ pc[p] = "write"
  /\ path' = 0 /\ record' = Empty /\ Goto(p, "idle")
  /\ UNCHANGED <<files, mine, life, takeovers, rivals, blind>>

\* readLeaseAfterCreate: an unreadable record is read once more after 10 ms. A live
\* owner refuses the caller; a dead, missing or unreadable one is taken over.
Read(p) ==
  /\ pc[p] \in {"read", "reread"}
  /\ \E seen \in BOOLEAN :
       /\ Captures(seen)
       /\ Goto(p, IF Alive(record, seen) THEN "refused"
                  ELSE IF pc[p] = "read" /\ record = Empty THEN "reread" ELSE "unlink")
  /\ UNCHANGED <<path, record, files, mine, life, takeovers, rivals>>

\* unlink by path: it removes whatever file is the lock now.
TakeOver(p) ==
  /\ pc[p] = "unlink"
  /\ path' = 0 /\ record' = Empty
  /\ takeovers' = IF path = 0 THEN takeovers ELSE takeovers + 1
  /\ Goto(p, "recreate")
  /\ UNCHANGED <<files, mine, life, rivals, blind>>

-----------------------------------------------------------------------------
(* release *)

\* Only a record of its own lets a holder remove the lock.
Confirm(p) ==
  /\ pc[p] = "holding"
  /\ Goto(p, IF Names(record, p) THEN "remove" ELSE "idle")
  /\ UNCHANGED <<path, record, files, mine, life, takeovers, rivals, blind>>

Remove(p) ==
  /\ pc[p] = "remove"
  /\ path' = 0 /\ record' = Empty /\ Goto(p, "idle")
  /\ UNCHANGED <<files, mine, life, takeovers, rivals, blind>>

-----------------------------------------------------------------------------

Crash(p) ==
  /\ pc[p] \notin Idle /\ life[p] < MaxCrashes
  /\ Goto(p, "dead")
  /\ UNCHANGED <<path, record, files, mine, life, takeovers, rivals, blind>>

\* The same pid again, another process.
Restart(p) ==
  /\ pc[p] = "dead"
  /\ life' = [life EXCEPT ![p] = @ + 1]
  /\ Goto(p, "idle")
  /\ UNCHANGED <<path, record, files, mine, takeovers, rivals, blind>>

Acquire(p) == Create(p) \/ Write(p) \/ WriteFails(p) \/ Read(p) \/ TakeOver(p)

Next ==
  \E p \in Procs :
    Begin(p) \/ Acquire(p) \/ Confirm(p) \/ Remove(p) \/ Crash(p) \/ Restart(p)

Spec == Init /\ [][Next]_vars

-----------------------------------------------------------------------------
(* Properties *)

Holders == {p \in Procs : pc[p] = "holding"}

\* As long as no lock was taken over, one process at most holds the lease, and the
\* lock names the file it wrote: two holders need a takeover.
ExclusiveUntilTakeover ==
  /\ TypeOK
  /\ takeovers = 0 =>
       /\ Cardinality(Holders) <= 1
       /\ \A p \in Holders : path = mine[p]

\* A lease left by a dead process refuses nobody, even when its pid runs again: a refusal
\* needs another process that was busy with the lock during the attempt. The exception is a
\* record without a start time: whoever got the pid of its process stands for it.
RefusedByARival ==
  [][\A p \in Procs : pc'[p] = "refused" /\ pc[p] # "refused" =>
       p \in rivals \/ (record # Empty /\ ~record.known /\ record.life < life[record.proc])]_vars

\* Stated by the token budget design: the lease is the single-writer boundary.
SingleHolder == Cardinality(Holders) <= 1
=============================================================================
