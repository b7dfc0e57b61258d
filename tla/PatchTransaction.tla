-------------------------- MODULE PatchTransaction --------------------------
(***************************************************************************)
(* packages/cli/src/tools/builtin/file/applyPatchTransaction.ts and        *)
(* PatchTransactionCoordinator.ts: a patch of several files that is        *)
(* published by renames, undone from backups when an operation fails, and  *)
(* undone or tidied up from its journal by the next process that takes the *)
(* workspace lock. A process may crash between any two file operations.    *)
(* Each process carries out one patch at most, so a patch is named by its  *)
(* process. Directories and power loss (the fsyncs) are left out.          *)
(***************************************************************************)
EXTENDS Integers, FiniteSets, FiniteSetsExt

CONSTANTS
  Procs,       \* processes; a patch has the name of its process
  Nobody,
  Files,       \* 1 .. n, in the order of a plan's changes
  Existing,    \* the files there are at first
  Plans,       \* bound: what a patch may do to the files; keeping all of them is one
  MaxMishaps,  \* bound: file operations that fail, aborts, stalls and crashes
  Shared       \* bound: files an editor or a shell command may write, once each

\* A patch is planned for known files, and a pass has a first and a last file.
ASSUME PatchAssumption ==
  /\ Nobody \notin Procs
  /\ Plans \subseteq [Files -> {"keep", "add", "update", "delete"}]
  /\ \A S \in SUBSET Files : S # {} => Min(S) \in S /\ Max(S) \in S

VARIABLES
  disk,       \* per file: whose content it has
  stage,      \* per patch: files whose staged content exists
  backup,     \* per patch and file: the content that was moved aside
  journal,    \* per patch: the phase in its journal
  plan,       \* per patch and file: what the patch does to it
  old,        \* per patch: the disk it was planned against
  published,  \* per patch: files renamed into place (in memory)
  lock,       \* the process that created the workspace lock there is
  signed,     \* that lock names its process
  pc,
  at,         \* per process: the patch whose journal it has in hand
  todo,       \* per process: files the current pass has yet to handle
  err,        \* per process: an operation of the pass failed
  outcome,    \* per patch: what its caller was told
  last,       \* history: the patch planned last
  judged,     \* history: per process: the lock it is about to remove as a dead process's
  robbed,     \* history: processes that lived when another removed their lock unjudged
  unsound,    \* history: patches whose rollback began with a backup missing, or committed
  touched,    \* history: files an outsider wrote
  faults, crashes

diskVars == <<disk, stage, backup, journal>>
planVars == <<plan, old, published, outcome, last>>
lockVars == <<lock, signed, judged, robbed>>
history == <<unsound, touched, faults, crashes>>
vars == <<diskVars, planVars, lockVars, history, pc, at, todo, err>>

Absent == "none"
NoFile == [f \in Files |-> Absent]
Unplanned == [t \in Procs |-> [f \in Files |-> "keep"]]
Contents == Procs \cup {Absent, "old", "theirs"}
Changed(t) == {f \in Files : plan[t][f] # "keep"}
HasNew(t) == {f \in Files : plan[t][f] \in {"add", "update"}}
HadOld(t) == {f \in Files : plan[t][f] \in {"update", "delete"}}
MissingBackups(t) == {f \in HadOld(t) : backup[t][f] = Absent}
Working == {p \in Procs : pc[p] \notin {"wait", "sign", "unlink", "done", "dead"}}

Committing == {"mkdir", "journal", "stage", "verify", "backup", "publish", "mark"}
Undoing == {"unpublish", "restore", "return", "undo", "putBack", "cleanup"}
Pcs == Committing \cup Undoing \cup
       {"wait", "sign", "unlink", "scan", "forget", "plan", "unstage", "settle",
        "close", "release", "unlock", "done", "dead"}

TypeOK ==
  /\ disk \in [Files -> Contents]
  /\ stage \in [Procs -> SUBSET Files] /\ published \in [Procs -> SUBSET Files]
  /\ backup \in [Procs -> [Files -> Contents]] /\ old \in [Procs -> [Files -> Contents]]
  /\ journal \in [Procs -> {"none", "preparing", "committed"}]
  /\ plan \in [Procs -> [Files -> {"keep", "add", "update", "delete"}]]
  /\ lock \in Procs \cup {Nobody} /\ signed \in BOOLEAN
  /\ judged \in [Procs -> Procs \cup {Nobody}] /\ robbed \subseteq Procs
  /\ last \in Procs \cup {Nobody}
  /\ pc \in [Procs -> Pcs] /\ at \in [Procs -> Procs \cup {Nobody}]
  /\ todo \in [Procs -> SUBSET Files] /\ err \in [Procs -> BOOLEAN]
  /\ outcome \in [Procs -> {"open", "success", "failed", "aggregate"}]
  /\ unsound \subseteq Procs /\ touched \subseteq Files

Init ==
  /\ disk = [f \in Files |-> IF f \in Existing THEN "old" ELSE Absent]
  /\ stage = [p \in Procs |-> {}] /\ published = [p \in Procs |-> {}]
  /\ backup = [p \in Procs |-> NoFile] /\ old = [p \in Procs |-> NoFile]
  /\ journal = [p \in Procs |-> "none"]
  /\ plan = Unplanned
  /\ lock = Nobody /\ signed = FALSE /\ last = Nobody
  /\ judged = [p \in Procs |-> Nobody] /\ robbed = {}
  /\ pc = [p \in Procs |-> "wait"] /\ at = [p \in Procs |-> Nobody]
  /\ todo = [p \in Procs |-> {}] /\ err = [p \in Procs |-> FALSE]
  /\ outcome = [p \in Procs |-> "open"]
  /\ unsound = {} /\ touched = {} /\ faults = 0 /\ crashes = 0

At(p, from) == pc[p] = from
Goto(p, to) == pc' = [pc EXCEPT ![p] = to]
\* The next pass of p: where it goes and the files it has to handle.
Pass(p, to, files) == Goto(p, to) /\ todo' = [todo EXCEPT ![p] = files]
Handled(p, f) == todo' = [todo EXCEPT ![p] = @ \ {f}]
\* What p had in memory goes with it.
Ends(p, how) ==
  /\ Pass(p, how, {})
  /\ published' = [published EXCEPT ![p] = {}]
  /\ at' = [at EXCEPT ![p] = Nobody] /\ err' = [err EXCEPT ![p] = FALSE]
Write(f, c) == disk' = [disk EXCEPT ![f] = c]
Drop(t, f) == backup' = [backup EXCEPT ![t][f] = Absent]

\* Something goes wrong once more.
Fault == faults + crashes < MaxMishaps /\ faults' = faults + 1 /\ UNCHANGED <<touched, crashes>>

-----------------------------------------------------------------------------
(* withPatchWorkspaceLock *)

\* The lock file is created empty and names its process a moment later.
OpenLock(p) ==
  /\ At(p, "wait") /\ lock = Nobody
  /\ lock' = p /\ signed' = FALSE /\ Goto(p, "sign")
  /\ UNCHANGED <<diskVars, planVars, judged, robbed, history, at, todo, err>>

\* Whose file was removed meanwhile writes to one that nobody sees.
SignLock(p) ==
  /\ At(p, "sign") /\ Goto(p, "scan")
  /\ signed' = (signed \/ lock = p)
  /\ UNCHANGED <<diskVars, planVars, lock, judged, robbed, history, at, todo, err>>

JudgeDead_AnyOwner(p) ==   \* mutant of JudgeDead: the owner may be running
  /\ At(p, "wait") /\ lock # Nobody /\ signed
  /\ judged' = [judged EXCEPT ![p] = lock] /\ Goto(p, "unlink")
  /\ UNCHANGED <<diskVars, planVars, lock, signed, robbed, history, at, todo, err>>

JudgeDead_Never(p) ==   \* mutant of JudgeDead: only a missing lock lets a waiter in
  /\ FALSE /\ At(p, "wait")
  /\ judged' = [judged EXCEPT ![p] = lock] /\ Goto(p, "unlink")
  /\ UNCHANGED <<diskVars, planVars, lock, signed, robbed, history, at, todo, err>>

\* removeDeadLock: the process that the lock names is dead. A pid is taken to be that of the
\* process still: where it was given away again, waiters only give up at their deadline.
JudgeDead(p) ==
  /\ At(p, "wait") /\ lock # Nobody /\ signed /\ pc[lock] = "dead"
  /\ judged' = [judged EXCEPT ![p] = lock] /\ Goto(p, "unlink")
  /\ UNCHANGED <<diskVars, planVars, lock, signed, robbed, history, at, todo, err>>

\* A lock that names nobody is judged by its age, whatever became of its process.
JudgeOld(p) ==
  /\ At(p, "wait") /\ lock # Nobody /\ ~signed
  /\ IF pc[lock] = "dead" THEN UNCHANGED <<touched, faults, crashes>> ELSE Fault
  /\ Goto(p, "unlink")
  /\ UNCHANGED <<diskVars, planVars, lockVars, unsound, at, todo, err>>

\* The path is removed, whichever lock is there by now. A lock of its own or of the dead
\* process it judged may be removed, that of a living one must not.
Removes(p) ==
  /\ lock' = Nobody /\ signed' = FALSE
  /\ robbed' = IF lock \in {Nobody, p, judged[p]} \/ pc[lock] = "dead" THEN robbed
               ELSE robbed \cup {lock}
  /\ judged' = [judged EXCEPT ![p] = Nobody]

Unlink(p) ==
  /\ At(p, "unlink") /\ Removes(p) /\ Goto(p, "wait")
  /\ UNCHANGED <<diskVars, planVars, history, at, todo, err>>

\* The deadline passed: the workspace is busy.
GiveUp(p) ==
  /\ At(p, "wait") /\ lock # Nobody
  /\ Goto(p, "done")
  /\ UNCHANGED <<diskVars, planVars, lockVars, history, at, todo, err>>

\* releaseLock: only a lock that still names the caller is removed, by its path.
Release(p) ==
  /\ At(p, "release") /\ Ends(p, IF lock = p THEN "unlock" ELSE "done")
  /\ UNCHANGED <<diskVars, plan, old, outcome, last, lockVars, history>>

Unlock(p) ==
  /\ At(p, "unlock") /\ Removes(p) /\ Goto(p, "done")
  /\ UNCHANGED <<diskVars, planVars, history, at, todo, err>>

-----------------------------------------------------------------------------
(* recoverWorkspacePatchTransactionsUnderLock *)

Scan(p) ==
  /\ At(p, "scan")
  /\ IF \A t \in Procs : journal[t] = "none"
     THEN Goto(p, "plan") /\ UNCHANGED <<at, todo>>
     ELSE \E t \in Procs :
            /\ journal[t] # "none"
            /\ at' = [at EXCEPT ![p] = t] /\ Pass(p, "undo", Changed(t))
  /\ UNCHANGED <<diskVars, planVars, lockVars, history, err>>

IsOwnAddition_Never(t, f) ==   \* mutant of IsOwnAddition: additions are kept
  FALSE /\ plan[t][f] = "add"

\* A file that was only added is recognised by its hash.
IsOwnAddition(t, f) == plan[t][f] = "add" /\ f \notin stage[t] /\ disk[f] = t

\* One entry of recoverJournal. The removal of the file and the rename of its backup
\* are two operations; the removal of leftovers is one step with the first or second.
UndoEntry(p) ==
  LET t == at[p] f == Max(todo[p]) IN
  /\ At(p, "undo") /\ todo[p] # {}
  /\ IF journal[t] = "preparing" /\ backup[t][f] # Absent
     THEN Write(f, Absent) /\ Goto(p, "putBack") /\ UNCHANGED <<stage, backup, todo>>
     ELSE /\ IF journal[t] = "preparing" /\ IsOwnAddition(t, f)
             THEN Write(f, Absent) ELSE UNCHANGED disk
          /\ stage' = [stage EXCEPT ![t] = @ \ {f}] /\ Drop(t, f)
          /\ Handled(p, f) /\ UNCHANGED pc
  /\ UNCHANGED <<journal, planVars, lockVars, history, at, err>>

PutBack(p) ==
  LET t == at[p] f == Max(todo[p]) IN
  /\ At(p, "putBack")
  /\ Write(f, backup[t][f]) /\ Drop(t, f) /\ stage' = [stage EXCEPT ![t] = @ \ {f}]
  /\ Pass(p, "undo", todo[p] \ {f})
  /\ UNCHANGED <<journal, planVars, lockVars, history, at, err>>

\* A failed entry fails the recovery, after the other entries were handled.
Undone(p) ==
  /\ At(p, "undo") /\ todo[p] = {}
  /\ Goto(p, IF err[p] THEN "release" ELSE "forget")
  /\ UNCHANGED <<diskVars, planVars, lockVars, history, at, todo, err>>

Forget(p) ==
  /\ At(p, "forget")
  /\ journal' = [journal EXCEPT ![at[p]] = "none"]
  /\ Goto(p, "scan") /\ at' = [at EXCEPT ![p] = Nobody]
  /\ UNCHANGED <<disk, stage, backup, planVars, lockVars, history, todo, err>>

-----------------------------------------------------------------------------
(* commitLocalPatchTransaction *)

Possible(f, change) ==
  \/ change = "keep"
  \/ change = "add" /\ disk[f] = Absent
  \/ change \in {"update", "delete"} /\ disk[f] # Absent

\* A session that starts up only recovers: its plan is empty. No earlier patch has a
\* journal by now, so what is recorded of them is dropped.
Plan(p) ==
  /\ At(p, "plan")
  /\ \E q \in Plans :
       /\ \A f \in Files : Possible(f, q[f])
       /\ IF \A f \in Files : q[f] = "keep"
          THEN Goto(p, "release") /\ UNCHANGED planVars
          ELSE /\ plan' = [Unplanned EXCEPT ![p] = q]
               /\ old' = [t \in Procs |-> IF t = p THEN disk ELSE NoFile]
               /\ outcome' = [t \in Procs |-> "open"]
               /\ last' = p /\ Goto(p, "mkdir") /\ UNCHANGED published
  /\ UNCHANGED <<diskVars, lockVars, history, at, todo, err>>

MakeParents(p) ==
  /\ At(p, "mkdir") /\ Goto(p, "journal")
  /\ UNCHANGED <<diskVars, planVars, lockVars, history, at, todo, err>>

WriteJournal(p) ==
  /\ At(p, "journal")
  /\ journal' = [journal EXCEPT ![p] = "preparing"]
  /\ at' = [at EXCEPT ![p] = p] /\ Pass(p, "stage", HasNew(p))
  /\ UNCHANGED <<disk, stage, backup, planVars, lockVars, history, err>>

StageFile(p) ==
  LET f == Min(todo[p]) IN
  /\ At(p, "stage") /\ todo[p] # {}
  /\ stage' = [stage EXCEPT ![p] = @ \cup {f}] /\ Handled(p, f)
  /\ UNCHANGED <<disk, backup, journal, planVars, lockVars, history, pc, at, err>>

VerifyFile(p) ==
  LET f == Min(todo[p]) IN
  /\ At(p, "verify") /\ todo[p] # {}
  /\ disk[f] = old[p][f] /\ Handled(p, f)
  /\ UNCHANGED <<diskVars, planVars, lockVars, history, pc, at, err>>

BackUp(p) ==
  LET f == Min(todo[p]) IN
  /\ At(p, "backup") /\ todo[p] # {}
  /\ backup' = [backup EXCEPT ![p][f] = disk[f]] /\ Write(f, Absent) /\ Handled(p, f)
  /\ UNCHANGED <<stage, journal, planVars, lockVars, history, pc, at, err>>

Publish(p) ==
  LET f == Min(todo[p]) IN
  /\ At(p, "publish") /\ todo[p] # {}
  /\ Write(f, p) /\ stage' = [stage EXCEPT ![p] = @ \ {f}]
  /\ published' = [published EXCEPT ![p] = @ \cup {f}] /\ Handled(p, f)
  /\ UNCHANGED <<backup, journal, plan, old, outcome, last, lockVars, history, pc, at, err>>

\* The passes follow each other once every file is handled.
NextPass(p) ==
  /\ todo[p] = {}
  /\ \/ At(p, "stage") /\ Pass(p, "verify", Changed(p))
     \/ At(p, "verify") /\ Pass(p, "backup", HadOld(p))
     \/ At(p, "backup") /\ Pass(p, "publish", HasNew(p))
     \/ At(p, "publish") /\ Pass(p, "mark", {})
     \/ At(p, "unpublish") /\ Pass(p, "restore", HadOld(p))
     \/ At(p, "restore") /\ Pass(p, "unstage", {})
  /\ UNCHANGED <<diskVars, planVars, lockVars, history, at, err>>

MarkCommitted(p) ==
  /\ At(p, "mark")
  /\ journal' = [journal EXCEPT ![p] = "committed"]
  /\ Pass(p, "cleanup", HadOld(p))
  /\ UNCHANGED <<disk, stage, backup, planVars, lockVars, history, at, err>>

\* The backups are removed in any order; a failure leaves the journal to recovery.
CleanUp(p) ==
  /\ At(p, "cleanup")
  /\ \E f \in todo[p] : Drop(p, f) /\ Handled(p, f)
  /\ UNCHANGED <<disk, stage, journal, planVars, lockVars, history, pc, at, err>>

Ended(p, told) ==
  /\ outcome' = [outcome EXCEPT ![p] = told]
  /\ UNCHANGED <<plan, old, published, last>>

CleanedUp(p) ==
  /\ At(p, "cleanup") /\ todo[p] = {}
  /\ IF err[p] THEN Goto(p, "release") /\ Ended(p, "success")
     ELSE Goto(p, "close") /\ UNCHANGED planVars
  /\ UNCHANGED <<diskVars, lockVars, history, at, todo, err>>

CloseJournal(p) ==
  /\ At(p, "close")
  /\ journal' = [journal EXCEPT ![p] = "none"]
  /\ Goto(p, "release") /\ Ended(p, "success")
  /\ UNCHANGED <<disk, stage, backup, lockVars, history, at, todo, err>>

-----------------------------------------------------------------------------
(* rollbackLocalPatch *)

Unpublish(p) ==
  /\ At(p, "unpublish")
  /\ \E f \in todo[p] : Write(f, Absent) /\ Handled(p, f)
  /\ UNCHANGED <<stage, backup, journal, planVars, lockVars, history, pc, at, err>>

\* The file is removed whether or not its backup was ever made.
RemoveForRestore(p) ==
  LET f == Max(todo[p]) IN
  /\ At(p, "restore") /\ todo[p] # {}
  /\ Write(f, Absent) /\ Goto(p, "return")
  /\ UNCHANGED <<stage, backup, journal, planVars, lockVars, history, at, todo, err>>

Return(p) ==
  LET f == Max(todo[p]) IN
  /\ At(p, "return")
  /\ IF backup[p][f] = Absent
     THEN err' = [err EXCEPT ![p] = TRUE] /\ UNCHANGED <<disk, backup>>
     ELSE Write(f, backup[p][f]) /\ Drop(p, f) /\ UNCHANGED err
  /\ Pass(p, "restore", todo[p] \ {f})
  /\ UNCHANGED <<stage, journal, planVars, lockVars, history, at>>

Unstage(p) ==
  /\ At(p, "unstage")
  /\ stage' = [stage EXCEPT ![p] = {}] /\ Goto(p, "settle")
  /\ UNCHANGED <<disk, backup, journal, planVars, lockVars, history, at, todo, err>>

Settle_Always(p) ==   \* mutant of Settle: the journal goes although the rollback failed
  /\ At(p, "settle")
  /\ Ended(p, IF err[p] THEN "aggregate" ELSE "failed")
  /\ journal' = [journal EXCEPT ![p] = "none"]
  /\ Goto(p, "release")
  /\ UNCHANGED <<disk, stage, backup, lockVars, history, at, todo, err>>

\* A complete rollback takes its journal with it.
Settle(p) ==
  /\ At(p, "settle")
  /\ Ended(p, IF err[p] THEN "aggregate" ELSE "failed")
  /\ journal' = IF err[p] \/ at[p] # p THEN journal ELSE [journal EXCEPT ![p] = "none"]
  /\ Goto(p, "release")
  /\ UNCHANGED <<disk, stage, backup, lockVars, history, at, todo, err>>

-----------------------------------------------------------------------------
(* What goes wrong *)

\* The catch of the commit: a failed operation, an abort or a file that changed. The
\* journal may have been written although writing it failed (the chmod that follows).
RollBack(p) ==
  /\ journal' \in {journal} \cup
       (IF pc[p] = "journal" THEN {[journal EXCEPT ![p] = "preparing"]} ELSE {}) \cup
       (IF pc[p] = "mark" THEN {[journal EXCEPT ![p] = "committed"]} ELSE {})
  /\ unsound' = IF MissingBackups(p) # {} \/ journal'[p] = "committed"
                THEN unsound \cup {p} ELSE unsound
  /\ Pass(p, "unpublish", published[p])
  /\ UNCHANGED <<disk, stage, backup, planVars, lockVars, at, err>>

\* Opening or writing the lock fails: the path is removed, also when it is another's lock.
LockFails(p) ==
  /\ pc[p] \in {"wait", "sign"} /\ Fault /\ Removes(p) /\ Goto(p, "done")
  /\ UNCHANGED <<diskVars, planVars, unsound, at, todo, err>>

Fail(p) == pc[p] \in Committing /\ Fault /\ RollBack(p)

Changed_Meanwhile(p) ==
  /\ At(p, "verify") /\ todo[p] # {} /\ disk[Min(todo[p])] # old[p][Min(todo[p])]
  /\ RollBack(p) /\ UNCHANGED <<touched, faults, crashes>>

\* Rollback, recovery and cleanup go on after a failed operation and remember it.
Skip(p) ==
  /\ pc[p] \in Undoing /\ todo[p] # {} /\ Fault
  /\ err' = [err EXCEPT ![p] = TRUE]
  /\ LET f == IF pc[p] \in {"unpublish", "cleanup"} THEN CHOOSE g \in todo[p] : TRUE
              ELSE Max(todo[p])
         to == CASE pc[p] = "return" -> "restore" [] pc[p] = "putBack" -> "undo"
                 [] OTHER -> pc[p]
     IN Pass(p, to, todo[p] \ {f})
  /\ UNCHANGED <<diskVars, planVars, lockVars, unsound, at>>

\* A journal that cannot be read or removed: recovery fails; the caller of a committed patch
\* and of a rolled back one sees an error; a stage that cannot be removed is reported.
KeepsJournal(p) ==
  /\ pc[p] \in {"scan", "forget", "close", "settle", "unstage"} /\ Fault
  /\ At(p, "settle") => ~err[p] /\ at[p] = p
  /\ IF At(p, "unstage")
     THEN err' = [err EXCEPT ![p] = TRUE] /\ Goto(p, "settle") /\ UNCHANGED planVars
     ELSE /\ Goto(p, "release") /\ UNCHANGED err
          /\ IF pc[p] \in {"scan", "forget"} THEN UNCHANGED planVars
             ELSE Ended(p, "failed")
  /\ UNCHANGED <<diskVars, lockVars, unsound, at, todo>>

\* A waiter that crashes leaves nothing behind, as one that gives up.
Crash(p) ==
  /\ p \in Working \/ At(p, "sign")
  /\ faults + crashes < MaxMishaps
  /\ crashes' = crashes + 1 /\ Ends(p, "dead")
  /\ UNCHANGED <<diskVars, plan, old, outcome, last, lockVars, unsound, touched, faults>>

Outside(f) ==
  /\ f \in Shared \ touched
  /\ touched' = touched \cup {f} /\ Write(f, "theirs")
  /\ UNCHANGED <<stage, backup, journal, planVars, lockVars, unsound, faults,
                 crashes, pc, at, todo, err>>

Recover(p) == Scan(p) \/ UndoEntry(p) \/ PutBack(p) \/ Undone(p) \/ Forget(p)
Commit(p) ==
  \/ Plan(p) \/ MakeParents(p) \/ WriteJournal(p) \/ StageFile(p) \/ VerifyFile(p)
  \/ BackUp(p) \/ Publish(p) \/ NextPass(p) \/ MarkCommitted(p)
  \/ CleanUp(p) \/ CleanedUp(p) \/ CloseJournal(p) \/ Changed_Meanwhile(p)
Undo(p) == Unpublish(p) \/ RemoveForRestore(p) \/ Return(p) \/ Unstage(p) \/ Settle(p)
Works(p) == robbed = {} /\ (Recover(p) \/ Commit(p) \/ Undo(p))
Falters(p) == robbed = {} /\ (Fail(p) \/ Skip(p) \/ KeepsJournal(p))

\* Bound: once a living process was robbed, two may be at work on the same files. What
\* they do to them is not followed: each comes to its end, and the lock goes on.
Overlaps(p) ==
  /\ robbed # {} /\ p \in Working /\ pc[p] \notin {"release", "unlock"}
  /\ Goto(p, "release")
  /\ UNCHANGED <<diskVars, planVars, lockVars, history, at, todo, err>>

Goes(p) ==
  \/ OpenLock(p) \/ SignLock(p) \/ JudgeDead(p) \/ JudgeOld(p) \/ Unlink(p)
  \/ Works(p) \/ Overlaps(p) \/ Release(p) \/ Unlock(p)

Next ==
  \/ \E p \in Procs : Goes(p) \/ GiveUp(p) \/ LockFails(p) \/ Falters(p) \/ Crash(p)
  \/ \E f \in Files : robbed = {} /\ Outside(f)

\* A process that lives goes on; nothing else has to happen. Before a lock that names
\* nobody it may reach its deadline first: the lock is only removed after a longer time.
Fairness == \A p \in Procs : WF_vars(Goes(p) \/ (~signed /\ GiveUp(p)))
Spec == Init /\ [][Next]_vars /\ Fairness

-----------------------------------------------------------------------------
(* Properties *)

Theirs(f) == f \in touched /\ disk[f] = "theirs"
AllOld(t) == \A f \in Changed(t) : disk[f] = old[t][f] \/ Theirs(f)
AllNew(t) ==
  \A f \in Changed(t) : disk[f] = (IF f \in HasNew(t) THEN t ELSE Absent) \/ Theirs(f)

\* The patch planned last is over: its process is through with it, or died, and no
\* journal is left for recovery to act on.
Settled(t) ==
  /\ t = last /\ journal[t] = "none" /\ pc[t] \in {"release", "unlock", "done", "dead"}
  /\ \A p \in Procs \ {t} : at[p] # t

\* Whatever operation fails and wherever processes crash, also during recovery, a patch
\* leaves all of its files as they were or all of them changed, and success means
\* changed. The exceptions: a rollback that began when a backup was missing or after the
\* journal said committed, and a workspace in which a living process was robbed.
AtomicOnceBackedUp ==
  robbed = {} => \A t \in Procs : Settled(t) /\ t \notin unsound =>
    (outcome[t] # "success" /\ AllOld(t)) \/ AllNew(t)

\* At any moment a staged or a backed up file has a journal that recovery will find, so
\* neither is ever lost sight of, unless a living process was robbed.
ArtefactsHaveAJournal ==
  robbed = {} => \A t \in Procs : stage[t] # {} \/ backup[t] # NoFile => journal[t] # "none"

\* One process at a time works on the workspace, recovery included, and nobody is at work
\* beside it but those whose lock was removed by its path while they lived: by a waiter
\* that had judged an older lock dead, by one that found the lock without a name for too
\* long, by a failure to take a lock, or by a release that came late.
OneWorker == TypeOK /\ Cardinality(Working \ robbed) <= 1

\* Who waits for the workspace gets its turn or is told that it is busy, also after the
\* holder died: nobody waits for ever.
WaitersGetTheirTurn == <>(\A p \in Procs : pc[p] \in {"done", "dead"})

\* Stated by the tool: the full patch is all-or-nothing.
AllOrNothing ==
  robbed = {} =>
    \A t \in Procs : Settled(t) /\ crashes = 0 => AllOld(t) \/ AllNew(t)
=============================================================================
