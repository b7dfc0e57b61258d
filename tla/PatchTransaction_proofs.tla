---------------------- MODULE PatchTransaction_proofs ----------------------
(***************************************************************************)
(* For any number of processes, files, failures, crashes and writes of     *)
(* others: one process at a time works on the workspace, what a patch      *)
(* staged or moved aside has a journal, and a patch whose rollback found   *)
(* its backups is all or nothing, however often it is cut short.           *)
(***************************************************************************)
EXTENDS PatchTransaction, FiniteSetTheorems, TLAPS

-----------------------------------------------------------------------------
(* The inductive invariant, part by part *)

\* Who works, or is about to, holds the lock unless it was robbed of it; a waiter about to
\* remove a lock has judged that of a dead process.
Holding == Working \cup {p \in Procs : pc[p] = "sign"}
HoldersInv ==
  /\ \A p \in Holding \ robbed : lock = p
  /\ \A p \in Procs : judged[p] # Nobody => pc[judged[p]] = "dead"
LockInv == robbed = {} /\ HoldersInv

\* A plan fits the files it was made for, and what a patch staged or moved aside is of its plan.
Planned ==
  \A t \in Procs :
    /\ \A f \in Files : plan[t][f] = "add" => old[t][f] = Absent
    /\ \A f \in HadOld(t) : old[t][f] # Absent
    /\ stage[t] \subseteq HasNew(t)
    /\ \A f \in Files : backup[t][f] # Absent => f \in HadOld(t)

\* What was staged or moved aside has a journal, and only the patch planned last has one.
Journalled ==
  \A t \in Procs : stage[t] # {} \/ backup[t] # NoFile => journal[t] # "none"
LastHasJournal == \A t \in Procs : journal[t] # "none" => last = t

Kept(t, f) == disk[f] = old[t][f] \/ Theirs(f)
Given(t, f) == disk[f] = (IF f \in HasNew(t) THEN t ELSE Absent) \/ Theirs(f)
Gone(f) == disk[f] = Absent \/ Theirs(f)
Saved(t, f) == backup[t][f] # Absent

\* A file that is not as it was has a backup to put back, or is recognised as added.
Recoverable(t, f) ==
  IF Saved(t, f)
  THEN backup[t][f] = old[t][f] \/ (f \in touched /\ backup[t][f] = "theirs")
  ELSE Kept(t, f) \/ IsOwnAddition(t, f)

\* What the journal of a patch, or its absence after the last one, says of the disk.
JournalIsTrue(t) ==
  /\ journal[t] = "preparing" => outcome[t] # "success"
  /\ journal[t] = "preparing" /\ t \notin unsound => \A f \in Changed(t) : Recoverable(t, f)
  /\ journal[t] = "committed" /\ t \notin unsound => \A f \in Changed(t) : Given(t, f)
  /\ journal[t] = "none" /\ t = last /\ t \notin unsound =>
       \/ outcome[t] # "success" /\ \A f \in Changed(t) : Kept(t, f)
       \/ \A f \in Changed(t) : Given(t, f)
JournalsAreTrue == \A t \in Procs : JournalIsTrue(t)

\* Files are renamed into place in the commit only.
PublishedInCommit ==
  \A p \in Procs :
    pc[p] \in {"wait", "sign", "unlink", "scan", "undo", "putBack", "forget", "plan"} =>
      published[p] = {}

\* Where the worker stands, what it has done: its recovery, its commit up to the mark,
\* after it, and its rollback.
RecoveryInv(p) ==
  LET t == at[p] IN
  /\ pc[p] \in {"undo", "putBack", "forget"} => t \in Procs /\ journal[t] # "none"
  /\ pc[p] = "putBack" =>
       todo[p] # {} /\ journal[t] = "preparing" /\ Saved(t, Max(todo[p]))
  /\ pc[p] \in {"undo", "putBack"} /\ ~err[p] =>
       /\ stage[t] \subseteq todo[p]
       /\ \A f \in Files : Saved(t, f) => f \in todo[p]
       /\ journal[t] = "preparing" /\ t \notin unsound =>
            \A f \in Changed(t) \ todo[p] : Kept(t, f)
  /\ pc[p] = "forget" =>
       /\ stage[t] = {} /\ backup[t] = NoFile
       /\ journal[t] = "preparing" /\ t \notin unsound => \A f \in Changed(t) : Kept(t, f)
  /\ pc[p] = "plan" => \A q \in Procs : journal[q] = "none"

CommitInv(p) ==
  /\ pc[p] \in {"mkdir", "journal", "stage", "verify", "backup", "publish", "mark"} =>
       last = p /\ outcome[p] = "open"
  /\ pc[p] \in {"mkdir", "journal"} => journal[p] = "none"
  /\ pc[p] \in {"stage", "verify", "backup", "publish", "mark"} => journal[p] = "preparing"
  /\ pc[p] \in {"mkdir", "journal", "stage", "verify"} =>
       /\ published[p] = {} /\ backup[p] = NoFile
       /\ \A f \in Changed(p) : Kept(p, f)
  /\ pc[p] = "stage" => todo[p] \subseteq HasNew(p)
  /\ pc[p] = "backup" =>
       /\ published[p] = {} /\ todo[p] \subseteq HadOld(p)
       /\ \A f \in Changed(p) : IF f \in HadOld(p) \ todo[p] THEN Saved(p, f) /\ Gone(f)
                                ELSE Kept(p, f)
  /\ pc[p] = "publish" =>
       /\ published[p] = HasNew(p) \ todo[p] /\ todo[p] \subseteq HasNew(p)
       /\ stage[p] \subseteq todo[p]
       /\ \A f \in HadOld(p) : Saved(p, f)
       /\ \A f \in Changed(p) : IF f \in todo[p] THEN Gone(f) ELSE Given(p, f)
  /\ pc[p] = "mark" =>
       /\ published[p] = HasNew(p) /\ stage[p] = {}
       /\ \A f \in HadOld(p) : Saved(p, f)
       /\ \A f \in Changed(p) : Given(p, f)

CleanupInv(p) ==
  /\ pc[p] \in {"cleanup", "close"} =>
       last = p /\ journal[p] = "committed" /\ stage[p] = {}
  /\ pc[p] = "cleanup" /\ ~err[p] => \A f \in Files : Saved(p, f) => f \in todo[p]
  /\ pc[p] = "close" => backup[p] = NoFile

\* A sound rollback has a backup for each file it is going to remove.
RollbackInv(p) ==
  /\ pc[p] \in {"unpublish", "restore", "return", "unstage", "settle"} =>
       /\ last = p /\ outcome[p] = "open"
       /\ p \notin unsound => journal[p] # "committed"
  /\ pc[p] \in {"restore", "return"} => todo[p] \subseteq HadOld(p)
  /\ pc[p] = "return" => todo[p] # {}
  /\ pc[p] = "unpublish" =>
       /\ todo[p] \subseteq HasNew(p)
       /\ journal[p] = "none" => todo[p] = {}
       /\ p \notin unsound =>
            /\ \A f \in HadOld(p) : Saved(p, f)
            /\ \A f \in Changed(p) \ HadOld(p) : f \in todo[p] \/ err[p] \/ Kept(p, f)
  /\ pc[p] \in {"restore", "return"} /\ p \notin unsound =>
       /\ \A f \in todo[p] : Saved(p, f)
       /\ \A f \in Changed(p) \ todo[p] : err[p] \/ Kept(p, f)
  /\ pc[p] \in {"restore", "return"} /\ ~err[p] =>
       \A f \in Files : Saved(p, f) => f \in todo[p]
  /\ pc[p] \in {"unstage", "settle"} /\ ~err[p] =>
       /\ backup[p] = NoFile
       /\ p \notin unsound => \A f \in Changed(p) : Kept(p, f)
  /\ pc[p] = "settle" /\ ~err[p] => stage[p] = {}

WorkInv == \A p \in Procs : RecoveryInv(p) /\ CommitInv(p) /\ CleanupInv(p) /\ RollbackInv(p)

PatchInv ==
  /\ TypeOK /\ LockInv /\ Planned /\ LastHasJournal /\ Journalled
  /\ JournalsAreTrue /\ PublishedInCommit /\ WorkInv

\* The lock protocol goes on when a process was robbed; the files are followed till then.
Inv == TypeOK /\ HoldersInv /\ (robbed = {} => PatchInv)

-----------------------------------------------------------------------------
(* Types *)

LEMMA PassTyped ==
  ASSUME TypeOK, NEW p \in Procs, NEW to \in Pcs, NEW S \in SUBSET Files, Pass(p, to, S)
  PROVE  pc' \in [Procs -> Pcs] /\ todo' \in [Procs -> SUBSET Files]
BY DEF TypeOK, Pass, Goto

LEMMA GotoTyped ==
  ASSUME TypeOK, NEW p \in Procs, NEW to \in Pcs, Goto(p, to)
  PROVE  pc' \in [Procs -> Pcs]
BY DEF TypeOK, Goto

LEMMA WriteTyped ==
  ASSUME TypeOK, NEW f, NEW c \in Contents, Write(f, c)
  PROVE  disk' \in [Files -> Contents]
BY DEF TypeOK, Write

LEMMA DropTyped ==
  ASSUME TypeOK, NEW t, NEW f, Drop(t, f)
  PROVE  backup' \in [Procs -> [Files -> Contents]]
<1>1. backup \in [Procs -> [Files -> Contents]] /\ Absent \in Contents
  BY DEF TypeOK, Contents
<1>2. CASE t \in Procs
  <2>1. [backup[t] EXCEPT ![f] = Absent] \in [Files -> Contents]
    BY <1>1, <1>2
  <2> QED  BY <1>1, <2>1 DEF Drop
<1>3. CASE t \notin Procs
  <2>1. backup' = [q \in Procs |-> backup[q]]
    BY <1>1, <1>3 DEF Drop
  <2> QED  BY <1>1, <2>1
<1> QED  BY <1>2, <1>3

LEMMA LockTypesKept ==
  ASSUME TypeOK, NEW p \in Procs,
         \/ OpenLock(p) \/ SignLock(p) \/ JudgeDead(p) \/ JudgeOld(p) \/ Unlink(p) \/ GiveUp(p)
         \/ Unlock(p) \/ LockFails(p) \/ Overlaps(p) \/ Release(p) \/ Crash(p)
  PROVE  TypeOK'
<1> USE DEF diskVars, planVars, lockVars, history, At
<1>1. UNCHANGED <<disk, stage, backup, journal, plan, old, outcome, last, unsound, touched>>
  BY DEF OpenLock, SignLock, JudgeDead, JudgeOld, Unlink, GiveUp, Unlock, LockFails, Overlaps,
         Release, Crash, Fault
<1>2. /\ lock' \in Procs \cup {Nobody} /\ signed' \in BOOLEAN
      /\ judged' \in [Procs -> Procs \cup {Nobody}] /\ robbed' \subseteq Procs
  <2>1. CASE Unlink(p) \/ Unlock(p) \/ LockFails(p)
    BY <2>1 DEF Unlink, Unlock, LockFails, Removes, TypeOK
  <2>2. CASE OpenLock(p) \/ SignLock(p) \/ JudgeDead(p)
    <3>1. lock' \in {lock, p} /\ robbed' = robbed
      BY <2>2 DEF OpenLock, SignLock, JudgeDead
    <3>2. judged' = judged \/ judged' = [judged EXCEPT ![p] = lock]
      BY <2>2 DEF OpenLock, SignLock, JudgeDead
    <3>3. signed' = signed \/ signed' = FALSE \/ signed' = (signed \/ lock = p)
      BY <2>2 DEF OpenLock, SignLock, JudgeDead
    <3>4. signed' \in BOOLEAN
      BY <3>3 DEF TypeOK
    <3>5. lock' \in Procs \cup {Nobody} /\ robbed' \subseteq Procs
      BY <3>1 DEF TypeOK
    <3>6. judged' \in [Procs -> Procs \cup {Nobody}]
      <4>1. judged \in [Procs -> Procs \cup {Nobody}] /\ lock \in Procs \cup {Nobody}
        BY DEF TypeOK
      <4> QED  BY <3>2, <4>1
    <3> QED  BY <3>4, <3>5, <3>6
  <2>3. CASE UNCHANGED lockVars
    BY <2>3 DEF TypeOK
  <2> QED  BY <2>1, <2>2, <2>3 DEF JudgeOld, GiveUp, Overlaps, Release, Crash
<1>3. CASE Release(p) \/ Crash(p)
  <2>1. PICK to \in {"unlock", "done", "dead"} : Ends(p, to)
    BY <1>3 DEF Release, Crash
  <2>2. Pass(p, to, {}) /\ {} \in SUBSET Files /\ to \in Pcs
    BY <2>1 DEF Ends, Pcs
  <2>3. pc' \in [Procs -> Pcs] /\ todo' \in [Procs -> SUBSET Files]
    BY <2>2, PassTyped
  <2>4. /\ published' \in [Procs -> SUBSET Files] /\ at' \in [Procs -> Procs \cup {Nobody}]
        /\ err' \in [Procs -> BOOLEAN]
    BY <2>1 DEF Ends, TypeOK
  <2> QED  BY <1>1, <1>2, <2>3, <2>4 DEF TypeOK
<1>4. CASE ~(Release(p) \/ Crash(p))
  <2>1. UNCHANGED <<published, at, todo, err>>
    BY <1>4 DEF OpenLock, SignLock, JudgeDead, JudgeOld, Unlink, GiveUp, Unlock, LockFails,
                Overlaps
  <2>2. PICK to \in {"sign", "scan", "unlink", "wait", "done", "release"} : Goto(p, to)
    BY <1>4 DEF OpenLock, SignLock, JudgeDead, JudgeOld, Unlink, GiveUp, Unlock, LockFails,
                Overlaps
  <2>3. pc' \in [Procs -> Pcs]
    BY <2>2, GotoTyped DEF Pcs
  <2> QED  BY <1>1, <1>2, <2>1, <2>3 DEF TypeOK
<1> QED  BY <1>3, <1>4

LEMMA WorkTypesKept ==
  ASSUME TypeOK, WorkInv, NEW r \in Procs,
         Recover(r) \/ Commit(r) \/ Undo(r) \/ Fail(r) \/ Skip(r) \/ KeepsJournal(r)
  PROVE  TypeOK'
<1> USE PatchAssumption DEF diskVars, planVars, lockVars, history, At, Handled
<1>7. ASSUME NEW p \in Procs, Scan(p)
      PROVE  TypeOK'
  <2> USE DEF Pcs, Committing, Undoing
  <2>1. UNCHANGED <<disk, stage, backup, journal, plan, old, published, outcome, last, unsound,
                    touched, lockVars, err>>
    BY <1>7 DEF Scan
  <2>2. CASE \A t \in Procs : journal[t] = "none"
    <3>1. Goto(p, "plan") /\ UNCHANGED <<at, todo>>
      BY <1>7, <2>2 DEF Scan
    <3>2. pc' \in [Procs -> Pcs]
      BY <3>1, GotoTyped
    <3> QED  BY <2>1, <3>1, <3>2 DEF TypeOK
  <2>3. CASE ~\A t \in Procs : journal[t] = "none"
    <3>1. PICK t \in Procs : at' = [at EXCEPT ![p] = t] /\ Pass(p, "undo", Changed(t))
      BY <1>7, <2>3 DEF Scan, TypeOK
    <3>2. at' \in [Procs -> Procs \cup {Nobody}]
      BY <3>1 DEF TypeOK
    <3>3. Changed(t) \subseteq Files
      BY DEF Changed, TypeOK
    <3>4. pc' \in [Procs -> Pcs] /\ todo' \in [Procs -> SUBSET Files]
      BY <3>1, <3>3, PassTyped
    <3> QED  BY <2>1, <3>2, <3>4 DEF TypeOK
  <2> QED  BY <2>2, <2>3 DEF TypeOK
<1>8. ASSUME NEW p \in Procs, UndoEntry(p)
      PROVE  TypeOK'
  <2> DEFINE t == at[p]
             f == Max(todo[p])
  <2>1. UNCHANGED <<journal, plan, old, published, outcome, last, unsound, touched, lockVars, at, err>>
    BY <1>8 DEF UndoEntry
  <2>2. CASE journal[t] = "preparing" /\ backup[t][f] # Absent
    <3>1. Write(f, Absent) /\ Goto(p, "putBack") /\ UNCHANGED <<stage, backup, todo>>
      BY <1>8, <2>2 DEF UndoEntry
    <3>2. pc' \in [Procs -> Pcs] /\ disk' \in [Files -> Contents]
      BY <3>1, GotoTyped, WriteTyped DEF Pcs, Undoing, Contents
    <3> QED  BY <2>1, <3>1, <3>2 DEF TypeOK
  <2>3. CASE ~(journal[t] = "preparing" /\ backup[t][f] # Absent)
    <3>1. /\ stage' = [stage EXCEPT ![t] = @ \ {f}] /\ Drop(t, f) /\ Handled(p, f) /\ UNCHANGED pc
          /\ Write(f, Absent) \/ UNCHANGED disk
      BY <1>8, <2>3 DEF UndoEntry
    <3>2. disk' \in [Files -> Contents]
      <4>1. CASE Write(f, Absent)
        BY <4>1, WriteTyped DEF Contents
      <4>2. CASE UNCHANGED disk
        BY <4>2 DEF TypeOK
      <4> QED  BY <3>1, <4>1, <4>2
    <3>3. backup' \in [Procs -> [Files -> Contents]]
      BY <3>1, DropTyped
    <3> HIDE DEF t, f
    <3>4. stage' \in [Procs -> SUBSET Files] /\ todo' \in [Procs -> SUBSET Files]
      BY <3>1 DEF TypeOK
    <3> QED  BY <2>1, <3>1, <3>2, <3>3, <3>4 DEF TypeOK
  <2> QED  BY <2>2, <2>3 DEF TypeOK
<1>9. ASSUME NEW p \in Procs, PutBack(p)
      PROVE  TypeOK'
  <2> DEFINE t == at[p]
             f == Max(todo[p])
  <2>1. UNCHANGED <<journal, plan, old, published, outcome, last, unsound, touched, lockVars, at, err>>
    BY <1>9 DEF PutBack
  <2>2. t \in Procs /\ f \in Files
    BY <1>9 DEF PutBack, WorkInv, RecoveryInv, TypeOK
  <2>3. /\ Write(f, backup[t][f]) /\ Drop(t, f) /\ stage' = [stage EXCEPT ![t] = @ \ {f}]
        /\ Pass(p, "undo", todo[p] \ {f})
    BY <1>9 DEF PutBack, TypeOK
  <2> HIDE DEF t, f
  <2>4. backup[t][f] \in Contents
    BY <2>2 DEF TypeOK
  <2>5. disk' \in [Files -> Contents]
    BY <2>3, <2>4, WriteTyped
  <2>6. backup' \in [Procs -> [Files -> Contents]]
    BY <2>3, DropTyped
  <2>7. stage' \in [Procs -> SUBSET Files]
    BY <2>2, <2>3 DEF TypeOK
  <2>8. pc' \in [Procs -> Pcs] /\ todo' \in [Procs -> SUBSET Files]
    <3>1. todo[p] \ {f} \in SUBSET Files /\ "undo" \in Pcs
      BY DEF Pcs, Undoing, TypeOK
    <3> QED  BY <2>3, <3>1, PassTyped
  <2> QED  BY <2>1, <2>5, <2>6, <2>7, <2>8 DEF TypeOK
<1>10. ASSUME NEW p \in Procs, Undone(p)
      PROVE  TypeOK'
  <2>1. UNCHANGED <<disk, stage, backup, journal, plan, old, published, outcome, last, unsound,
                    touched, lockVars, at, todo, err>>
    BY <1>10 DEF Undone
  <2>2. Goto(p, "release") \/ Goto(p, "forget")
    BY <1>10 DEF Undone, TypeOK
  <2>3. pc' \in [Procs -> Pcs]
    BY <2>2, GotoTyped DEF Pcs, Committing, Undoing
  <2> QED  BY <2>1, <2>2, <2>3 DEF TypeOK
<1>11. ASSUME NEW p \in Procs, Forget(p)
      PROVE  TypeOK'
  <2>1. UNCHANGED <<disk, stage, backup, plan, old, published, outcome, last, unsound, touched,
                    lockVars, todo, err>>
    BY <1>11 DEF Forget
  <2>2. Goto(p, "scan")
    BY <1>11 DEF Forget, TypeOK
  <2>3. pc' \in [Procs -> Pcs]
    BY <2>2, GotoTyped DEF Pcs, Committing, Undoing
  <2>4. journal' \in [Procs -> {"none", "preparing", "committed"}]
    BY <1>11 DEF Forget, TypeOK
  <2>5. at' \in [Procs -> Procs \cup {Nobody}]
    BY <1>11 DEF Forget, TypeOK
  <2> QED  BY <2>1, <2>2, <2>3, <2>4, <2>5 DEF TypeOK
<1>12. ASSUME NEW p \in Procs, Plan(p)
      PROVE  TypeOK'
  <2>1. UNCHANGED <<disk, stage, backup, journal, published, unsound, touched, lockVars, at, todo, err>>
    BY <1>12 DEF Plan
  <2>2. PICK q \in Plans :
          \/ Goto(p, "release") /\ UNCHANGED <<plan, old, outcome, last>>
          \/ /\ plan' = [Unplanned EXCEPT ![p] = q]
             /\ old' = [t \in Procs |-> IF t = p THEN disk ELSE NoFile]
             /\ outcome' = [t \in Procs |-> "open"] /\ last' = p /\ Goto(p, "mkdir")
    BY <1>12 DEF Plan, TypeOK
  <2>3. pc' \in [Procs -> Pcs]
    BY <2>2, GotoTyped DEF Pcs, Committing
  <2>4. CASE UNCHANGED <<plan, old, outcome, last>>
    BY <2>1, <2>3, <2>4 DEF TypeOK
  <2>5. CASE ~UNCHANGED <<plan, old, outcome, last>>
    <3>1. plan' \in [Procs -> [Files -> {"keep", "add", "update", "delete"}]]
      <4>1. Unplanned \in [Procs -> [Files -> {"keep", "add", "update", "delete"}]]
        BY DEF Unplanned, TypeOK
      <4>2. q \in [Files -> {"keep", "add", "update", "delete"}]
        BY DEF TypeOK
      <4>3. plan' = [Unplanned EXCEPT ![p] = q]
        BY <2>2, <2>5 DEF TypeOK
      <4> QED  BY <4>1, <4>2, <4>3 DEF TypeOK
    <3>2. old' \in [Procs -> [Files -> Contents]]
      BY <2>2, <2>5 DEF NoFile, Contents, TypeOK
    <3>3. last' \in Procs \cup {Nobody} /\ outcome' \in [Procs -> {"open", "success", "failed", "aggregate"}]
      BY <2>2, <2>5 DEF TypeOK
    <3> QED  BY <2>1, <2>3, <3>1, <3>2, <3>3 DEF TypeOK
  <2> QED  BY <2>4, <2>5 DEF TypeOK
<1>13. ASSUME NEW p \in Procs, MakeParents(p)
      PROVE  TypeOK'
  <2>1. UNCHANGED <<disk, stage, backup, journal, plan, old, published, outcome, last, unsound,
                    touched, lockVars, at, todo, err>>
    BY <1>13 DEF MakeParents
  <2>2. Goto(p, "journal")
    BY <1>13 DEF MakeParents, TypeOK
  <2>3. pc' \in [Procs -> Pcs]
    BY <2>2, GotoTyped DEF Pcs, Committing, Undoing
  <2> QED  BY <2>1, <2>2, <2>3 DEF TypeOK
<1>14. ASSUME NEW p \in Procs, WriteJournal(p)
      PROVE  TypeOK'
  <2>1. UNCHANGED <<disk, stage, backup, plan, old, published, outcome, last, unsound, touched, lockVars, err>>
    BY <1>14 DEF WriteJournal
  <2>2. journal' = [journal EXCEPT ![p] = "preparing"] /\ at' = [at EXCEPT ![p] = p]
        /\ Pass(p, "stage", HasNew(p))
    BY <1>14 DEF WriteJournal, TypeOK
  <2>3. journal' \in [Procs -> {"none", "preparing", "committed"}] /\ at' \in [Procs -> Procs \cup {Nobody}]
    BY <2>2 DEF TypeOK
  <2>4. pc' \in [Procs -> Pcs] /\ todo' \in [Procs -> SUBSET Files]
    <3>1. HasNew(p) \in SUBSET Files /\ "stage" \in Pcs
      BY DEF HasNew, Pcs, Committing, TypeOK
    <3> QED  BY <2>2, <3>1, PassTyped
  <2> QED  BY <2>1, <2>3, <2>4 DEF TypeOK
<1>15. ASSUME NEW p \in Procs, StageFile(p)
      PROVE  TypeOK'
  <2>1. UNCHANGED <<disk, backup, journal, plan, old, published, outcome, last, unsound, touched,
                    lockVars, pc, at, err>>
    BY <1>15 DEF StageFile
  <2>2. stage' = [stage EXCEPT ![p] = @ \cup {Min(todo[p])}] /\ Min(todo[p]) \in Files
    BY <1>15 DEF StageFile, TypeOK
  <2>3. stage' \in [Procs -> SUBSET Files]
    BY <2>2 DEF TypeOK
  <2>4. todo' \in [Procs -> SUBSET Files]
    BY <1>15 DEF StageFile, TypeOK
  <2> QED  BY <2>1, <2>2, <2>3, <2>4 DEF TypeOK
<1>16. ASSUME NEW p \in Procs, VerifyFile(p)
      PROVE  TypeOK'
  <2>1. UNCHANGED <<disk, stage, backup, journal, plan, old, published, outcome, last, unsound,
                    touched, lockVars, pc, at, err>>
    BY <1>16 DEF VerifyFile
  <2>2. todo' \in [Procs -> SUBSET Files]
    BY <1>16 DEF VerifyFile, TypeOK
  <2> QED  BY <2>1, <2>2 DEF TypeOK
<1>17. ASSUME NEW p \in Procs, BackUp(p)
      PROVE  TypeOK'
  <2>1. UNCHANGED <<stage, journal, plan, old, published, outcome, last, unsound, touched, lockVars, pc,
                    at, err>>
    BY <1>17 DEF BackUp
  <2>2. Min(todo[p]) \in Files
    BY <1>17 DEF BackUp, TypeOK
  <2>3. disk' \in [Files -> Contents]
    BY <1>17, WriteTyped DEF BackUp, Contents
  <2>4. backup' \in [Procs -> [Files -> Contents]]
    BY <1>17, <2>2 DEF BackUp, TypeOK
  <2>5. todo' \in [Procs -> SUBSET Files]
    BY <1>17 DEF BackUp, TypeOK
  <2> QED  BY <2>1, <2>2, <2>3, <2>4, <2>5 DEF TypeOK
<1>18. ASSUME NEW p \in Procs, Publish(p)
      PROVE  TypeOK'
  <2>1. UNCHANGED <<backup, journal, plan, old, outcome, last, unsound, touched, lockVars, pc, at, err>>
    BY <1>18 DEF Publish
  <2>2. Min(todo[p]) \in Files
    BY <1>18 DEF Publish, TypeOK
  <2>3. disk' \in [Files -> Contents]
    BY <1>18, WriteTyped DEF Publish, Contents
  <2>4. stage' \in [Procs -> SUBSET Files]
    BY <1>18 DEF Publish, TypeOK
  <2>5. published' \in [Procs -> SUBSET Files]
    BY <1>18, <2>2 DEF Publish, TypeOK
  <2>6. todo' \in [Procs -> SUBSET Files]
    BY <1>18 DEF Publish, TypeOK
  <2> QED  BY <2>1, <2>2, <2>3, <2>4, <2>5, <2>6 DEF TypeOK
<1>19. ASSUME NEW p \in Procs, NextPass(p)
      PROVE  TypeOK'
  <2>1. UNCHANGED <<disk, stage, backup, journal, plan, old, published, outcome, last, unsound,
                    touched, lockVars, at, err>>
    BY <1>19 DEF NextPass
  <2>2. \E to \in Pcs, S \in SUBSET Files : Pass(p, to, S)
    <3>1. /\ Changed(p) \in SUBSET Files /\ HadOld(p) \in SUBSET Files /\ HasNew(p) \in SUBSET Files
          /\ {} \in SUBSET Files
          /\ {"verify", "backup", "publish", "mark", "restore", "unstage"} \subseteq Pcs
      BY DEF Changed, HadOld, HasNew, Pcs, Committing, Undoing, TypeOK
    <3> QED  BY <1>19, <3>1 DEF NextPass, TypeOK
  <2>3. pc' \in [Procs -> Pcs] /\ todo' \in [Procs -> SUBSET Files]
    BY <2>2, PassTyped
  <2> QED  BY <2>1, <2>3 DEF TypeOK
<1>20. ASSUME NEW p \in Procs, MarkCommitted(p)
      PROVE  TypeOK'
  <2>1. UNCHANGED <<disk, stage, backup, plan, old, published, outcome, last, unsound, touched,
                    lockVars, at, err>>
    BY <1>20 DEF MarkCommitted
  <2>2. journal' = [journal EXCEPT ![p] = "committed"] /\ Pass(p, "cleanup", HadOld(p))
    BY <1>20 DEF MarkCommitted, TypeOK
  <2>3. journal' \in [Procs -> {"none", "preparing", "committed"}]
    BY <2>2 DEF TypeOK
  <2>4. pc' \in [Procs -> Pcs] /\ todo' \in [Procs -> SUBSET Files]
    <3>1. HadOld(p) \in SUBSET Files /\ "cleanup" \in Pcs
      BY DEF HadOld, Pcs, Undoing, TypeOK
    <3> QED  BY <2>2, <3>1, PassTyped
  <2> QED  BY <2>1, <2>3, <2>4 DEF TypeOK
<1>21. ASSUME NEW p \in Procs, CleanUp(p)
      PROVE  TypeOK'
  <2>1. UNCHANGED <<disk, stage, journal, plan, old, published, outcome, last, unsound, touched,
                    lockVars, pc, at, err>>
    BY <1>21 DEF CleanUp
  <2>2. PICK f \in todo[p] : Drop(p, f) /\ Handled(p, f)
    BY <1>21 DEF CleanUp, TypeOK
  <2>3. backup' \in [Procs -> [Files -> Contents]]
    BY <2>2, DropTyped
  <2>4. todo' \in [Procs -> SUBSET Files]
    BY <2>2 DEF TypeOK
  <2> QED  BY <2>1, <2>2, <2>3, <2>4 DEF TypeOK
<1>22. ASSUME NEW p \in Procs, CleanedUp(p)
      PROVE  TypeOK'
  <2>1. UNCHANGED <<disk, stage, backup, journal, plan, old, published, last, unsound, touched,
                    lockVars, at, todo, err>>
    BY <1>22 DEF CleanedUp, Ended
  <2>2. outcome' \in [Procs -> {"open", "success", "failed", "aggregate"}]
    <3>1. outcome' = outcome \/ outcome' = [outcome EXCEPT ![p] = "success"]
      BY <1>22 DEF CleanedUp, Ended
    <3> QED  BY <3>1 DEF TypeOK
  <2>3. Goto(p, "release") \/ Goto(p, "close")
    BY <1>22 DEF CleanedUp, TypeOK
  <2>4. pc' \in [Procs -> Pcs]
    BY <2>3, GotoTyped DEF Pcs
  <2> QED  BY <2>1, <2>2, <2>4 DEF TypeOK
<1>23. ASSUME NEW p \in Procs, CloseJournal(p)
      PROVE  TypeOK'
  <2>1. UNCHANGED <<disk, stage, backup, plan, old, published, last, unsound, touched, lockVars, at, todo, err>>
    BY <1>23 DEF CloseJournal, Ended
  <2>2. Goto(p, "release")
    BY <1>23 DEF CloseJournal, TypeOK
  <2>3. pc' \in [Procs -> Pcs]
    BY <2>2, GotoTyped DEF Pcs, Committing, Undoing
  <2>4. journal' \in [Procs -> {"none", "preparing", "committed"}]
    BY <1>23 DEF CloseJournal, TypeOK
  <2>5. outcome' \in [Procs -> {"open", "success", "failed", "aggregate"}]
    BY <1>23 DEF CloseJournal, Ended, TypeOK
  <2> QED  BY <2>1, <2>2, <2>3, <2>4, <2>5 DEF TypeOK
<1>24. ASSUME NEW p \in Procs, Changed_Meanwhile(p)
      PROVE  TypeOK'
  <2>1. UNCHANGED <<disk, stage, backup, plan, old, published, outcome, last, touched, lockVars, at, err>>
    BY <1>24 DEF Changed_Meanwhile, RollBack
  <2>2. RollBack(p)
    BY <1>24 DEF Changed_Meanwhile, TypeOK
  <2>3. Pass(p, "unpublish", published[p]) /\ published[p] \in SUBSET Files
    BY <2>2 DEF RollBack, TypeOK
  <2>4. pc' \in [Procs -> Pcs] /\ todo' \in [Procs -> SUBSET Files]
    BY <2>3, PassTyped DEF Pcs, Undoing
  <2>5. journal' \in [Procs -> {"none", "preparing", "committed"}]
    BY <2>2 DEF RollBack, TypeOK
  <2>6. unsound' \subseteq Procs
    BY <2>2 DEF RollBack, TypeOK
  <2> QED  BY <2>1, <2>2, <2>3, <2>4, <2>5, <2>6 DEF TypeOK
<1>25. ASSUME NEW p \in Procs, Unpublish(p)
      PROVE  TypeOK'
  <2>1. UNCHANGED <<stage, backup, journal, plan, old, published, outcome, last, unsound, touched,
                    lockVars, pc, at, err>>
    BY <1>25 DEF Unpublish
  <2>2. PICK f \in todo[p] : Write(f, Absent) /\ Handled(p, f)
    BY <1>25 DEF Unpublish, TypeOK
  <2>3. disk' \in [Files -> Contents]
    BY <2>2, WriteTyped DEF Contents
  <2>4. todo' \in [Procs -> SUBSET Files]
    BY <2>2 DEF TypeOK
  <2> QED  BY <2>1, <2>2, <2>3, <2>4 DEF TypeOK
<1>26. ASSUME NEW p \in Procs, RemoveForRestore(p)
      PROVE  TypeOK'
  <2>1. UNCHANGED <<stage, backup, journal, plan, old, published, outcome, last, unsound, touched,
                    lockVars, at, todo, err>>
    BY <1>26 DEF RemoveForRestore
  <2>2. Goto(p, "return")
    BY <1>26 DEF RemoveForRestore, TypeOK
  <2>3. pc' \in [Procs -> Pcs]
    BY <2>2, GotoTyped DEF Pcs, Committing, Undoing
  <2>4. disk' \in [Files -> Contents]
    BY <1>26, WriteTyped DEF RemoveForRestore, Contents
  <2> QED  BY <2>1, <2>2, <2>3, <2>4 DEF TypeOK
<1>27. ASSUME NEW p \in Procs, Return(p)
      PROVE  TypeOK'
  <2> DEFINE f == Max(todo[p])
  <2>1. UNCHANGED <<stage, journal, plan, old, published, outcome, last, unsound, touched, lockVars, at>>
    BY <1>27 DEF Return
  <2>2. pc' \in [Procs -> Pcs] /\ todo' \in [Procs -> SUBSET Files]
    <3>1. Pass(p, "restore", todo[p] \ {f})
      BY <1>27 DEF Return, TypeOK
    <3>2. todo[p] \ {f} \in SUBSET Files /\ "restore" \in Pcs
      BY DEF Pcs, Undoing, TypeOK
    <3> QED  BY <3>1, <3>2, PassTyped
  <2>3. CASE backup[p][f] = Absent
    <3>1. err' = [err EXCEPT ![p] = TRUE] /\ UNCHANGED <<disk, backup>>
      BY <1>27, <2>3 DEF Return
    <3> QED  BY <2>1, <2>2, <3>1 DEF TypeOK
  <2>4. CASE backup[p][f] # Absent
    <3>1. Write(f, backup[p][f]) /\ Drop(p, f) /\ UNCHANGED err
      BY <1>27, <2>4 DEF Return
    <3>2. f \in Files /\ backup[p][f] \in Contents
      <4>1. todo[p] # {} /\ todo[p] \subseteq Files
        BY <1>27 DEF Return, WorkInv, RollbackInv, TypeOK
      <4>2. f \in Files
        BY <4>1
      <4> HIDE DEF f
      <4> QED  BY <4>2 DEF TypeOK
    <3> HIDE DEF f
    <3>3. disk' \in [Files -> Contents]
      BY <3>1, <3>2, WriteTyped
    <3>4. backup' \in [Procs -> [Files -> Contents]]
      BY <3>1, DropTyped
    <3> QED  BY <2>1, <2>2, <3>1, <3>3, <3>4 DEF TypeOK
  <2> QED  BY <2>3, <2>4 DEF TypeOK
<1>28. ASSUME NEW p \in Procs, Unstage(p)
      PROVE  TypeOK'
  <2>1. UNCHANGED <<disk, backup, journal, plan, old, published, outcome, last, unsound, touched,
                    lockVars, at, todo, err>>
    BY <1>28 DEF Unstage
  <2>2. Goto(p, "settle")
    BY <1>28 DEF Unstage, TypeOK
  <2>3. pc' \in [Procs -> Pcs]
    BY <2>2, GotoTyped DEF Pcs, Committing, Undoing
  <2>4. stage' \in [Procs -> SUBSET Files]
    BY <1>28 DEF Unstage, TypeOK
  <2> QED  BY <2>1, <2>2, <2>3, <2>4 DEF TypeOK
<1>29. ASSUME NEW p \in Procs, Settle(p)
      PROVE  TypeOK'
  <2>1. UNCHANGED <<disk, stage, backup, plan, old, published, last, unsound, touched, lockVars, at, todo, err>>
    BY <1>29 DEF Settle, Ended
  <2>2. Goto(p, "release")
    BY <1>29 DEF Settle, TypeOK
  <2>3. pc' \in [Procs -> Pcs]
    BY <2>2, GotoTyped DEF Pcs, Committing, Undoing
  <2>4. journal' \in [Procs -> {"none", "preparing", "committed"}]
    BY <1>29 DEF Settle, TypeOK
  <2>5. outcome' \in [Procs -> {"open", "success", "failed", "aggregate"}]
    BY <1>29 DEF Settle, Ended, TypeOK
  <2> QED  BY <2>1, <2>2, <2>3, <2>4, <2>5 DEF TypeOK
<1>30. ASSUME NEW p \in Procs, Fail(p)
      PROVE  TypeOK'
  <2>1. UNCHANGED <<disk, stage, backup, plan, old, published, outcome, last, touched, lockVars, at, err>>
    BY <1>30 DEF Fail, RollBack, Fault
  <2>2. RollBack(p)
    BY <1>30 DEF Fail, TypeOK
  <2>3. Pass(p, "unpublish", published[p]) /\ published[p] \in SUBSET Files
    BY <2>2 DEF RollBack, TypeOK
  <2>4. pc' \in [Procs -> Pcs] /\ todo' \in [Procs -> SUBSET Files]
    BY <2>3, PassTyped DEF Pcs, Undoing
  <2>5. journal' \in [Procs -> {"none", "preparing", "committed"}]
    BY <2>2 DEF RollBack, TypeOK
  <2>6. unsound' \subseteq Procs
    BY <2>2 DEF RollBack, TypeOK
  <2> QED  BY <2>1, <2>2, <2>3, <2>4, <2>5, <2>6 DEF TypeOK
<1>31. ASSUME NEW p \in Procs, Skip(p)
      PROVE  TypeOK'
  <2>1. UNCHANGED <<disk, stage, backup, journal, plan, old, published, outcome, last, unsound,
                    touched, lockVars, at>>
    BY <1>31 DEF Skip, Fault
  <2>2. PICK f, to : Pass(p, to, todo[p] \ {f}) /\ to \in Pcs /\ todo[p] \ {f} \in SUBSET Files
    <3>1. pc[p] \in Pcs /\ {"restore", "undo"} \subseteq Pcs /\ todo[p] \in SUBSET Files
      BY DEF TypeOK, Pcs, Undoing
    <3>2. \E f, to : Pass(p, to, todo[p] \ {f}) /\ to \in {pc[p], "restore", "undo"}
      BY <1>31 DEF Skip
    <3> QED  BY <3>1, <3>2
  <2>3. pc' \in [Procs -> Pcs] /\ todo' \in [Procs -> SUBSET Files]
    BY <2>2, PassTyped
  <2>4. err' \in [Procs -> BOOLEAN]
    BY <1>31 DEF Skip, TypeOK
  <2> QED  BY <2>1, <2>2, <2>3, <2>4 DEF TypeOK
<1>32. ASSUME NEW p \in Procs, KeepsJournal(p)
      PROVE  TypeOK'
  <2>1. UNCHANGED <<disk, stage, backup, journal, plan, old, published, last, unsound, touched,
                    lockVars, at, todo>>
    BY <1>32 DEF KeepsJournal, Ended, Fault
  <2>2. outcome' \in [Procs -> {"open", "success", "failed", "aggregate"}]
    <3>1. outcome' = outcome \/ outcome' = [outcome EXCEPT ![p] = "failed"]
      BY <1>32 DEF KeepsJournal, Ended
    <3> QED  BY <3>1 DEF TypeOK
  <2>3. Goto(p, "settle") \/ Goto(p, "release")
    BY <1>32 DEF KeepsJournal, TypeOK
  <2>4. pc' \in [Procs -> Pcs]
    BY <2>3, GotoTyped DEF Pcs
  <2>5. err' \in [Procs -> BOOLEAN]
    <3>1. err' = err \/ err' = [err EXCEPT ![p] = TRUE]
      BY <1>32 DEF KeepsJournal
    <3> QED  BY <3>1 DEF TypeOK
  <2> QED  BY <2>1, <2>2, <2>4, <2>5 DEF TypeOK
<1> QED  BY <1>7, <1>8, <1>9, <1>10, <1>11, <1>12, <1>13, <1>14, <1>15, <1>16, <1>17, <1>18,
            <1>19, <1>20, <1>21, <1>22, <1>23, <1>24, <1>25, <1>26, <1>27, <1>28, <1>29, <1>30,
            <1>31, <1>32 DEF Recover, Commit, Undo

LEMMA TypesKept ==
  ASSUME TypeOK, robbed = {} => WorkInv, [Next]_vars
  PROVE  TypeOK'
<1>1. CASE UNCHANGED vars
  BY <1>1 DEF vars, diskVars, planVars, lockVars, history, TypeOK
<1>2. ASSUME NEW f \in Files, robbed = {}, Outside(f)
      PROVE  TypeOK'
  BY <1>2 DEF Outside, Write, Contents, TypeOK, planVars, lockVars
<1>3. ASSUME NEW p \in Procs, Works(p) \/ Falters(p)
      PROVE  TypeOK'
  BY <1>3, WorkTypesKept DEF Works, Falters
<1>4. ASSUME NEW p \in Procs, Goes(p) \/ GiveUp(p) \/ LockFails(p) \/ Crash(p), ~Works(p)
      PROVE  TypeOK'
  BY <1>4, LockTypesKept DEF Goes
<1> QED  BY <1>1, <1>2, <1>3, <1>4 DEF Next

-----------------------------------------------------------------------------
(* What most steps keep *)

\* The worker goes on: it keeps the lock, and nobody else works.
LEMMA OneGoesOn ==
  ASSUME PatchInv, NEW p \in Working, pc' \in [Procs -> Pcs], UNCHANGED lockVars,
         \A q \in Procs \ {p} : pc'[q] = pc[q],
         pc'[p] \notin {"wait", "sign", "unlink"}
  PROVE  /\ LockInv'
         /\ \A q \in Procs \ {p} : pc'[q] \in {"wait", "sign", "unlink", "done", "dead"}
<1>1. p \in Procs /\ lock = p /\ pc[p] \notin {"wait", "sign", "unlink", "done", "dead"}
  BY DEF PatchInv, LockInv, HoldersInv, Holding, Working
<1>2. ASSUME NEW q \in Procs \ {p}
      PROVE  pc'[q] \in {"wait", "unlink", "done", "dead"}
  <2>1. q \notin Holding
    BY <1>1, <1>2 DEF PatchInv, LockInv, HoldersInv
  <2> QED  BY <1>2, <2>1 DEF Working, Holding
<1>3. Holding' \subseteq {p} /\ robbed' = {} /\ lock' = p
  BY <1>1, <1>2 DEF Holding, Working, PatchInv, LockInv, lockVars
<1>4. \A q \in Procs : judged'[q] # Nobody => pc'[judged'[q]] = "dead"
  BY <1>1 DEF PatchInv, TypeOK, LockInv, HoldersInv, lockVars
<1> QED  BY <1>2, <1>3, <1>4 DEF LockInv, HoldersInv

\* Who does not work, or has just begun or ended, has nothing to account for.
LEMMA NothingInHand ==
  ASSUME NEW q \in Procs,
         pc'[q] \in {"wait", "sign", "unlink", "scan", "release", "unlock", "done", "dead"}
  PROVE  RecoveryInv(q)' /\ CommitInv(q)' /\ CleanupInv(q)' /\ RollbackInv(q)'
BY DEF RecoveryInv, CommitInv, CleanupInv, RollbackInv

LEMMA OneWorksOn ==
  ASSUME PatchInv, NEW p \in Working, pc' \in [Procs -> Pcs], UNCHANGED lockVars,
         \A q \in Procs \ {p} : pc'[q] = pc[q] /\ published'[q] = published[q],
         pc'[p] \notin {"wait", "sign", "unlink"},
         pc'[p] \in {"scan", "undo", "putBack", "forget", "plan"} => published'[p] = {},
         RecoveryInv(p)', CommitInv(p)', CleanupInv(p)', RollbackInv(p)'
  PROVE  LockInv' /\ PublishedInCommit' /\ WorkInv'
<1>1. LockInv' /\ \A q \in Procs \ {p} : pc'[q] \in {"wait", "sign", "unlink", "done", "dead"}
  BY OneGoesOn
<1>2. PublishedInCommit'
  BY DEF PatchInv, PublishedInCommit
<1> QED  BY <1>1, <1>2, NothingInHand DEF WorkInv

\* The plans, the disk and the journals stay.
LEMMA DataKept ==
  ASSUME PatchInv, UNCHANGED <<diskVars, plan, old, outcome, last, unsound, touched>>
  PROVE  Planned' /\ LastHasJournal' /\ Journalled' /\ JournalsAreTrue'
<1>1. UNCHANGED <<disk, stage, backup, journal>>
  BY DEF diskVars
<1>2. \A t : HadOld(t)' = HadOld(t) /\ HasNew(t)' = HasNew(t) /\ Changed(t)' = Changed(t)
  BY DEF HadOld, HasNew, Changed
<1>3. \A t, f : /\ Kept(t, f)' = Kept(t, f) /\ Given(t, f)' = Given(t, f)
                /\ Recoverable(t, f)' = Recoverable(t, f)
  BY <1>1, <1>2 DEF Kept, Given, Recoverable, Theirs, Saved, IsOwnAddition
<1>4. Planned' /\ LastHasJournal' /\ Journalled'
  BY <1>1, <1>2 DEF PatchInv, Planned, LastHasJournal, Journalled
<1>5. JournalsAreTrue'
  BY <1>1, <1>2, <1>3 DEF PatchInv, JournalsAreTrue, JournalIsTrue
<1> QED  BY <1>4, <1>5

\* A step that changes the disk is about the patch planned last.
LEMMA JournalOfLast ==
  ASSUME LastHasJournal', NEW t \in Procs, last' = t, JournalIsTrue(t)',
         journal' \in [Procs -> {"none", "preparing", "committed"}]
  PROVE  JournalsAreTrue'
BY DEF LastHasJournal, JournalsAreTrue, JournalIsTrue

LEMMA InitPatch == Init => Inv
<1> SUFFICES ASSUME Init  PROVE Inv
  OBVIOUS
<1> USE PatchAssumption DEF Init
<1>1. TypeOK
  BY DEF TypeOK, Pcs, Committing, Undoing, Contents, NoFile, Unplanned
<1>2. LockInv /\ LastHasJournal /\ Journalled /\ PublishedInCommit
  BY DEF LockInv, HoldersInv, Holding, Working, LastHasJournal, Journalled, PublishedInCommit
<1>3. Planned
  BY DEF Planned, HadOld, HasNew, NoFile, Unplanned
<1>4. JournalsAreTrue
  BY DEF JournalsAreTrue, JournalIsTrue
<1>5. WorkInv
  BY DEF WorkInv, RecoveryInv, CommitInv, CleanupInv, RollbackInv
<1> QED  BY <1>1, <1>2, <1>3, <1>4, <1>5 DEF Inv, PatchInv, LockInv

-----------------------------------------------------------------------------
(* The workspace lock *)

\* Nothing but the lock and where the process stands changes: the files keep their order.
LEMMA WorkUntouched ==
  ASSUME PatchInv, TypeOK', LockInv', NEW p \in Procs,
         UNCHANGED <<diskVars, planVars, unsound, touched, at, todo, err>>,
         pc[p] \in {"wait", "sign", "unlink", "unlock"},
         pc'[p] \in {"wait", "sign", "scan", "unlink", "done"},
         pc[p] = "unlock" => pc'[p] = "done",
         \A q \in Procs \ {p} : pc'[q] = pc[q]
  PROVE  PatchInv'
<1>1. Planned' /\ LastHasJournal' /\ Journalled' /\ JournalsAreTrue'
  BY DataKept DEF planVars
<1>2. PublishedInCommit'
  BY DEF PatchInv, PublishedInCommit, planVars
<1>3. ASSUME NEW q \in Procs
      PROVE  RecoveryInv(q)' /\ CommitInv(q)' /\ CleanupInv(q)' /\ RollbackInv(q)'
  <2>1. CASE q = p
    BY <2>1, NothingInHand
  <2>2. CASE q # p
    <3>1. pc'[q] = pc[q] /\ RecoveryInv(q) /\ CommitInv(q) /\ CleanupInv(q) /\ RollbackInv(q)
      BY <2>2 DEF PatchInv, WorkInv
    <3>2. UNCHANGED <<disk, stage, backup, journal, plan, old, published, outcome, last, unsound,
                      touched, at, todo, err>>
      BY DEF diskVars, planVars
    <3>3. HadOld(q)' = HadOld(q) /\ HasNew(q)' = HasNew(q) /\ \A t : Changed(t)' = Changed(t)
      BY <3>2 DEF HadOld, HasNew, Changed
    <3>4. \A t, f : /\ Kept(t, f)' = Kept(t, f) /\ Given(t, f)' = Given(t, f)
                    /\ Saved(t, f)' = Saved(t, f) /\ Gone(f)' = Gone(f)
      BY <3>2 DEF Kept, Given, Gone, Saved, Theirs, HasNew
    <3>5. RecoveryInv(q)'
      BY <3>1, <3>2, <3>3, <3>4, Zenon DEF RecoveryInv
    <3>6. CommitInv(q)'
      BY <3>1, <3>2, <3>3, <3>4 DEF CommitInv
    <3>7. CleanupInv(q)' /\ RollbackInv(q)'
      BY <3>1, <3>2, <3>3, <3>4 DEF CleanupInv, RollbackInv
    <3> QED  BY <3>5, <3>6, <3>7
  <2> QED  BY <2>1, <2>2
<1> QED  BY <1>1, <1>2, <1>3 DEF PatchInv, WorkInv

\* Whoever removes a lock by its path robs the process that lives with it.
LEMMA RemovalKeeps ==
  ASSUME TypeOK, TypeOK', HoldersInv, NEW p \in Procs, Removes(p),
         pc'[p] \in {"wait", "done"}, pc[p] # "dead", \A q \in Procs \ {p} : pc'[q] = pc[q]
  PROVE  HoldersInv' /\ robbed \subseteq robbed'
<1>1. lock' = Nobody /\ robbed \subseteq robbed'
  BY DEF Removes
<1>2. ASSUME NEW q \in Holding'  PROVE q \in robbed'
  <2>1. q \in Procs \ {p} /\ pc[q] \notin {"wait", "unlink", "done", "dead"} /\ q \in Holding
    BY <1>2 DEF Holding, Working
  <2>2. CASE q \in robbed
    BY <1>1, <2>2
  <2>3. CASE q \notin robbed
    <3>1. lock = q /\ lock # Nobody /\ lock # p /\ pc[lock] # "dead"
      BY <2>1, <2>3, PatchAssumption DEF HoldersInv
    <3>2. lock # judged[p]
      BY <3>1 DEF HoldersInv
    <3> QED  BY <3>1, <3>2 DEF Removes
  <2> QED  BY <2>2, <2>3
<1>3. ASSUME NEW q \in Procs, judged'[q] # Nobody
      PROVE  pc'[judged'[q]] = "dead"
  <2>1. judged'[q] = judged[q] /\ judged[q] \in Procs
    BY <1>3 DEF Removes, TypeOK
  <2> QED  BY <1>3, <2>1 DEF HoldersInv
<1> QED  BY <1>1, <1>2, <1>3 DEF HoldersInv

LEMMA LockKeeps ==
  ASSUME Inv, TypeOK', NEW p \in Procs,
         \/ OpenLock(p) \/ SignLock(p) \/ JudgeDead(p) \/ JudgeOld(p) \/ Unlink(p) \/ GiveUp(p)
         \/ Unlock(p) \/ LockFails(p)
  PROVE  Inv'
<1> USE DEF At, Goto
<1>1. UNCHANGED <<diskVars, planVars, unsound, touched, at, todo, err>>
  BY DEF OpenLock, SignLock, JudgeDead, JudgeOld, Unlink, GiveUp, Unlock, LockFails, history, Fault
<1>2. /\ pc[p] \in {"wait", "sign", "unlink", "unlock"}
      /\ pc'[p] \in {"wait", "sign", "scan", "unlink", "done"}
      /\ pc[p] = "unlock" => pc'[p] = "done"
      /\ \A q \in Procs \ {p} : pc'[q] = pc[q]
  BY DEF OpenLock, SignLock, JudgeDead, JudgeOld, Unlink, GiveUp, Unlock, LockFails, Inv, TypeOK
<1>3. HoldersInv' /\ robbed \subseteq robbed'
  <2>1. \A q \in Procs \ {p} : q \in Holding' <=> q \in Holding
    BY <1>2 DEF Holding, Working
  <2>2. \A q \in Procs : pc[q] = "dead" => pc'[q] = "dead"
    BY <1>2
  <2>3. CASE OpenLock(p)
    <3>1. Holding \ robbed = {}
      BY <2>3, PatchAssumption DEF OpenLock, Inv, HoldersInv, Holding, Working
    <3> QED  BY <1>2, <2>1, <2>2, <2>3, <3>1 DEF OpenLock, Inv, TypeOK, HoldersInv, Holding, Working
  <2>4. CASE SignLock(p)
    <3>1. Holding' = Holding
      BY <1>2, <2>1, <2>4 DEF SignLock, Holding, Working, Inv, TypeOK
    <3> QED  BY <2>2, <2>4, <3>1 DEF SignLock, Inv, TypeOK, HoldersInv
  <2>5. CASE JudgeDead(p)
    <3>1. Holding' \subseteq Holding /\ pc[lock] = "dead" /\ lock \in Procs
      BY <1>2, <2>1, <2>5 DEF JudgeDead, Holding, Working, Inv, TypeOK
    <3>2. judged' = [judged EXCEPT ![p] = lock] /\ UNCHANGED <<lock, robbed>>
      BY <2>5 DEF JudgeDead
    <3> QED  BY <2>2, <3>1, <3>2 DEF Inv, TypeOK, HoldersInv
  <2>6. CASE JudgeOld(p) \/ GiveUp(p)
    <3>1. Holding' \subseteq Holding
      BY <1>2, <2>1, <2>6 DEF JudgeOld, GiveUp, Holding, Working, Inv, TypeOK
    <3> QED  BY <2>2, <2>6, <3>1 DEF JudgeOld, GiveUp, Inv, TypeOK, HoldersInv, lockVars
  <2>7. CASE Unlink(p) \/ Unlock(p) \/ LockFails(p)
    <3>1. Removes(p) /\ pc'[p] \in {"wait", "done"} /\ pc[p] # "dead"
      BY <2>7 DEF Unlink, Unlock, LockFails, Inv, TypeOK
    <3> QED  BY <1>2, <3>1, RemovalKeeps DEF Inv
  <2> QED  BY <2>3, <2>4, <2>5, <2>6, <2>7
<1>4. ASSUME robbed' = {}  PROVE PatchInv'
  <2>1. PatchInv /\ LockInv'
    BY <1>3, <1>4 DEF Inv, LockInv
  <2> QED  BY <1>1, <1>2, <2>1, WorkUntouched
<1> QED  BY <1>3, <1>4 DEF Inv

\* The worker is through, or dies.
LEMMA LeavingKeeps ==
  ASSUME Inv, TypeOK', NEW p \in Procs, Release(p) \/ Crash(p) \/ Overlaps(p)
  PROVE  Inv'
<1> USE DEF At, Ends, Pass, Goto
<1>1. /\ p \in Holding /\ pc'[p] \in {"unlock", "done", "dead", "release"}
      /\ pc[p] # "dead" /\ (pc'[p] \in {"unlock", "release"} => p \in Working)
      /\ UNCHANGED lockVars /\ \A q \in Procs \ {p} : pc'[q] = pc[q]
  BY DEF Release, Crash, Overlaps, Holding, Working, Inv, TypeOK
<1>2. HoldersInv' /\ UNCHANGED robbed
  <2>1. Holding' \subseteq Holding /\ \A q \in Procs : pc[q] = "dead" => pc'[q] = "dead"
    BY <1>1 DEF Holding, Working
  <2> QED  BY <1>1, <2>1 DEF Inv, TypeOK, HoldersInv, lockVars
<1>3. ASSUME robbed' = {}  PROVE PatchInv'
  <2>1. PatchInv /\ LockInv'
    BY <1>2, <1>3 DEF Inv, LockInv
  <2>2. /\ pc'[p] \in {"unlock", "done", "dead"}
        /\ UNCHANGED <<diskVars, plan, old, outcome, last, unsound, touched>>
        /\ \A q \in Procs \ {p} : published'[q] = published[q]
    BY <1>2, <1>3 DEF Release, Crash, Overlaps, history, Inv, TypeOK
  <2>3. Planned' /\ LastHasJournal' /\ Journalled' /\ JournalsAreTrue'
    BY <2>1, <2>2, DataKept
  <2>4. \A q \in Procs \ {p} : pc'[q] \in {"wait", "sign", "unlink", "done", "dead"}
    <3>1. \A q \in Procs \ {p} : q \notin Holding
      BY <1>1, <2>1 DEF PatchInv, LockInv, HoldersInv
    <3> QED  BY <1>1, <3>1 DEF Holding, Working
  <2>5. PublishedInCommit'
    BY <1>1, <2>1, <2>2 DEF PatchInv, PublishedInCommit
  <2>6. WorkInv'
    BY <2>2, <2>4, NothingInHand DEF WorkInv
  <2> QED  BY <2>1, <2>3, <2>5, <2>6 DEF PatchInv
<1> QED  BY <1>2, <1>3 DEF Inv

-----------------------------------------------------------------------------
(* Recovery *)

\* The one journal is that of the patch planned last.
LEMMA InHand ==
  ASSUME PatchInv, NEW p \in Procs, pc[p] \in {"undo", "putBack", "forget"}
  PROVE  /\ at[p] \in Procs /\ journal[at[p]] \in {"preparing", "committed"} /\ last = at[p]
         /\ p \in Working
         /\ JournalIsTrue(at[p]) /\ RecoveryInv(p)
BY DEF PatchInv, TypeOK, WorkInv, RecoveryInv, LastHasJournal, JournalsAreTrue, Working

LEMMA ScanKeeps ==
  ASSUME PatchInv, TypeOK', NEW p \in Procs, Scan(p)
  PROVE  PatchInv'
<1>1. /\ p \in Working /\ pc' \in [Procs -> Pcs] /\ pc'[p] \in {"undo", "plan"}
      /\ \A q \in Procs \ {p} : pc'[q] = pc[q] /\ published'[q] = published[q]
      /\ UNCHANGED <<diskVars, plan, old, outcome, last, unsound, touched, lockVars, err, published>>
  BY DEF Scan, At, Pass, Goto, Working, history, planVars, PatchInv, TypeOK
<1>2. Planned' /\ LastHasJournal' /\ Journalled' /\ JournalsAreTrue'
  BY <1>1, DataKept
<1>3. RecoveryInv(p)'
  <2>1. CASE \A t \in Procs : journal[t] = "none"
    BY <1>1, <2>1 DEF Scan, At, Goto, PatchInv, TypeOK, RecoveryInv, diskVars
  <2>2. CASE ~\A t \in Procs : journal[t] = "none"
    <3>1. PICK t \in Procs : journal[t] # "none" /\ at' = [at EXCEPT ![p] = t]
                              /\ Pass(p, "undo", Changed(t))
      BY <2>2 DEF Scan
    <3>2. at'[p] = t /\ todo'[p] = Changed(t) /\ pc'[p] = "undo"
      BY <3>1 DEF Pass, Goto, PatchInv, TypeOK
    <3>3. HadOld(t) \subseteq Changed(t) /\ HasNew(t) \subseteq Changed(t) /\ Changed(t)' = Changed(t)
      BY <1>1 DEF HadOld, HasNew, Changed
    <3>4. stage[t] \subseteq Changed(t) /\ \A f \in Files : backup[t][f] # Absent => f \in Changed(t)
      BY <3>3 DEF PatchInv, Planned
    <3> QED  BY <1>1, <3>1, <3>2, <3>3, <3>4 DEF RecoveryInv, Saved, diskVars
  <2> QED  BY <2>1, <2>2
<1>4. CommitInv(p)' /\ CleanupInv(p)' /\ RollbackInv(p)'
  BY <1>1 DEF CommitInv, CleanupInv, RollbackInv
<1>5. published'[p] = {}
  BY <1>1 DEF PatchInv, PublishedInCommit, Scan, At
<1> QED  BY <1>1, <1>2, <1>3, <1>4, <1>5, OneWorksOn DEF PatchInv

LEMMA UndoneKeeps ==
  ASSUME PatchInv, TypeOK', NEW p \in Procs, Undone(p)
  PROVE  PatchInv'
<1>1. /\ p \in Working /\ pc' \in [Procs -> Pcs] /\ pc[p] = "undo" /\ todo[p] = {}
      /\ pc'[p] = IF err[p] THEN "release" ELSE "forget"
      /\ \A q \in Procs \ {p} : pc'[q] = pc[q] /\ published'[q] = published[q]
      /\ UNCHANGED <<diskVars, plan, old, outcome, last, unsound, touched, lockVars, err, at, todo, published>>
  BY DEF Undone, At, Goto, Working, history, planVars, PatchInv, TypeOK
<1>2. Planned' /\ LastHasJournal' /\ Journalled' /\ JournalsAreTrue'
  BY <1>1, DataKept
<1>3. CASE ~err[p]
  <2>1. at[p] \in Procs /\ journal[at[p]] # "none" /\ RecoveryInv(p)
    BY <1>1, InHand
  <2>2. stage[at[p]] = {} /\ \A f \in Files : backup[at[p]][f] = Absent
    BY <1>1, <1>3, <2>1 DEF RecoveryInv, Saved
  <2>3. backup[at[p]] = NoFile
    BY <2>1, <2>2 DEF PatchInv, TypeOK, NoFile
  <2>4. journal[at[p]] = "preparing" /\ at[p] \notin unsound => \A f \in Changed(at[p]) : Kept(at[p], f)
    BY <1>1, <1>3, <2>1 DEF RecoveryInv
  <2>5. RecoveryInv(p)'
    BY <1>1, <1>3, <2>1, <2>2, <2>3, <2>4 DEF RecoveryInv, Kept, Theirs, Changed, NoFile, diskVars
  <2>6. CommitInv(p)' /\ CleanupInv(p)' /\ RollbackInv(p)'
    BY <1>1, <1>3 DEF CommitInv, CleanupInv, RollbackInv
  <2>7. published'[p] = {}
    BY <1>1 DEF PatchInv, PublishedInCommit
  <2> QED  BY <1>1, <1>2, <1>3, <2>5, <2>6, <2>7, OneWorksOn DEF PatchInv
<1>4. CASE err[p]
  <2>1. RecoveryInv(p)' /\ CommitInv(p)' /\ CleanupInv(p)' /\ RollbackInv(p)'
    BY <1>1, <1>4, NothingInHand
  <2> QED  BY <1>1, <1>2, <1>4, <2>1, OneWorksOn DEF PatchInv
<1> QED  BY <1>3, <1>4

LEMMA ForgetKeeps ==
  ASSUME PatchInv, TypeOK', NEW p \in Procs, Forget(p)
  PROVE  PatchInv'
<1>0. PICK t \in Procs : t = at[p]
  BY InHand DEF Forget, At
<1>1. /\ p \in Working /\ pc' \in [Procs -> Pcs] /\ pc[p] = "forget" /\ pc'[p] = "scan"
      /\ \A q \in Procs \ {p} : pc'[q] = pc[q] /\ published'[q] = published[q]
      /\ UNCHANGED <<disk, stage, backup, plan, old, outcome, last, unsound, touched, lockVars, err,
                     todo, published>>
      /\ journal' = [journal EXCEPT ![t] = "none"]
  BY <1>0 DEF Forget, At, Goto, Working, history, planVars, PatchInv, TypeOK
<1>2. t \in Procs /\ journal[t] \in {"preparing", "committed"} /\ last = t /\ JournalIsTrue(t) /\ RecoveryInv(p)
  BY <1>0, <1>1, InHand
<1>3. stage[t] = {} /\ backup[t] = NoFile
      /\ (journal[t] = "preparing" /\ t \notin unsound => \A f \in Changed(t) : Kept(t, f))
  BY <1>0, <1>1, <1>2 DEF RecoveryInv
<1>4. \A q \in Procs : journal'[q] = IF q = t THEN "none" ELSE journal[q]
  BY <1>1, <1>2 DEF PatchInv, TypeOK
<1>5. Planned'
  BY <1>1 DEF PatchInv, Planned, HadOld, HasNew
<1>6. LastHasJournal' /\ Journalled'
  BY <1>1, <1>3, <1>4 DEF PatchInv, LastHasJournal, Journalled, NoFile
<1>7. JournalIsTrue(t)'
  <2>1. \/ outcome[t] # "success" /\ (t \notin unsound => \A f \in Changed(t) : Kept(t, f))
        \/ t \notin unsound => \A f \in Changed(t) : Given(t, f)
    BY <1>2, <1>3 DEF JournalIsTrue
  <2>2. Changed(t)' = Changed(t) /\ \A f : Kept(t, f)' = Kept(t, f) /\ Given(t, f)' = Given(t, f)
    BY <1>1 DEF Changed, Kept, Given, HasNew, Theirs
  <2> QED  BY <1>1, <1>2, <1>4, <2>1, <2>2 DEF JournalIsTrue
<1>8. JournalsAreTrue'
  BY <1>1, <1>2, <1>6, <1>7, JournalOfLast DEF TypeOK
<1>9. RecoveryInv(p)' /\ CommitInv(p)' /\ CleanupInv(p)' /\ RollbackInv(p)'
  BY <1>1, NothingInHand
<1>10. published'[p] = {}
  BY <1>1 DEF PatchInv, PublishedInCommit
<1> QED  BY <1>1, <1>5, <1>6, <1>8, <1>9, <1>10, OneWorksOn DEF PatchInv

\* One file of the patch in hand is put back, or needs no more than tidying up.
LEMMA UndoEntryKeeps ==
  ASSUME PatchInv, TypeOK', NEW p \in Procs, UndoEntry(p)
  PROVE  PatchInv'
<1>0. PICK t \in Procs : t = at[p]
  BY InHand DEF UndoEntry, At
<1>3. PICK f \in Files : f = Max(todo[p]) /\ f \in todo[p]
  BY PatchAssumption DEF UndoEntry, PatchInv, TypeOK
<1>1. /\ p \in Working /\ pc' \in [Procs -> Pcs] /\ pc[p] = "undo" /\ todo[p] # {}
      /\ pc'[p] \in {"undo", "putBack"}
      /\ \A q \in Procs \ {p} : pc'[q] = pc[q] /\ published'[q] = published[q]
      /\ UNCHANGED <<journal, plan, old, outcome, last, unsound, touched, lockVars, err, at, published>>
      /\ \/ /\ journal[t] = "preparing" /\ backup[t][f] # Absent /\ disk' = [disk EXCEPT ![f] = Absent]
            /\ pc'[p] = "putBack" /\ UNCHANGED <<stage, backup, todo>>
         \/ /\ ~(journal[t] = "preparing" /\ backup[t][f] # Absent)
            /\ IF journal[t] = "preparing" /\ IsOwnAddition(t, f)
               THEN disk' = [disk EXCEPT ![f] = Absent] ELSE UNCHANGED disk
            /\ stage' = [stage EXCEPT ![t] = @ \ {f}]
            /\ backup' = [backup EXCEPT ![t][f] = Absent]
            /\ todo' = [todo EXCEPT ![p] = @ \ {f}] /\ pc'[p] = "undo"
  BY <1>0, <1>3 DEF UndoEntry, At, Goto, Write, Drop, Handled, Working, history, planVars, PatchInv, TypeOK
<1>2. t \in Procs /\ journal[t] \in {"preparing", "committed"} /\ last = t /\ JournalIsTrue(t) /\ RecoveryInv(p)
  BY <1>0, <1>1, InHand
<1>4. at'[p] = t
  BY <1>0, <1>1
<1>5. /\ \A q \in Procs \ {t} : stage'[q] = stage[q] /\ backup'[q] = backup[q]
      /\ \A g \in Files \ {f} : backup'[t][g] = backup[t][g] /\ disk'[g] = disk[g]
                                /\ (g \in stage'[t] <=> g \in stage[t])
      /\ stage'[t] \subseteq stage[t]
      /\ (backup'[t][f] # Absent => backup[t][f] # Absent)
  BY <1>1, <1>2, <1>3 DEF PatchInv, TypeOK
<1>6. \A q : HadOld(q)' = HadOld(q) /\ HasNew(q)' = HasNew(q) /\ Changed(q)' = Changed(q)
  BY <1>1 DEF HadOld, HasNew, Changed
<1>7. Planned'
  <2>1. \A q \in Procs : stage'[q] \subseteq stage[q]
    BY <1>5
  <2>2. \A q \in Procs : \A g \in Files : backup'[q][g] # Absent => backup[q][g] # Absent
    BY <1>5
  <2> QED  BY <1>1, <1>6, <2>1, <2>2 DEF PatchInv, Planned
<1>8. LastHasJournal' /\ Journalled'
  <2>1. \A q \in Procs : journal[q] # "none" => q = t
    BY <1>2 DEF PatchInv, LastHasJournal
  <2> QED  BY <1>1, <1>2, <1>5, <2>1 DEF PatchInv, LastHasJournal, Journalled, NoFile
<1>9. \A g \in Files \ {f} : /\ Kept(t, g)' = Kept(t, g) /\ Given(t, g)' = Given(t, g)
                             /\ Recoverable(t, g)' = Recoverable(t, g) /\ Saved(t, g)' = Saved(t, g)
  BY <1>1, <1>5, <1>6 DEF Kept, Given, Recoverable, Theirs, Saved, IsOwnAddition
<1>10. journal[t] = "preparing" /\ t \notin unsound /\ f \in Changed(t) =>
         Recoverable(t, f)' /\ (pc'[p] = "undo" => Kept(t, f)')
  <2> SUFFICES ASSUME journal[t] = "preparing", t \notin unsound, f \in Changed(t)
               PROVE  Recoverable(t, f)' /\ (pc'[p] = "undo" => Kept(t, f)')
    OBVIOUS
  <2>1. Recoverable(t, f)
    BY <1>2 DEF JournalIsTrue
  <2>2. CASE backup[t][f] # Absent
    BY <1>1, <2>1, <2>2 DEF Recoverable, Saved
  <2>3. CASE backup[t][f] = Absent /\ IsOwnAddition(t, f)
    <3>1. disk'[f] = Absent /\ backup'[t][f] = Absent
      BY <1>1, <1>2, <1>3, <2>3 DEF PatchInv, TypeOK
    <3>2. old[t][f] = Absent
      BY <1>2, <1>3, <2>3 DEF PatchInv, Planned, IsOwnAddition
    <3> QED  BY <1>1, <3>1, <3>2 DEF Recoverable, Kept, Saved
  <2>4. CASE backup[t][f] = Absent /\ ~IsOwnAddition(t, f)
    <3>1. Kept(t, f) /\ disk' = disk /\ backup'[t][f] = Absent
      BY <1>1, <1>2, <1>3, <2>1, <2>4 DEF PatchInv, TypeOK, Recoverable, Saved
    <3> QED  BY <1>1, <3>1 DEF Recoverable, Kept, Saved, Theirs
  <2> QED  BY <2>2, <2>3, <2>4
<1>11. JournalIsTrue(t)'
  <2>1. journal[t] = "committed" => disk' = disk
    BY <1>1
  <2>2. journal[t] = "committed" => \A g : Given(t, g)' = Given(t, g)
    BY <1>1, <1>6, <2>1 DEF Given, Theirs
  <2>3. Changed(t) \subseteq Files
    BY DEF Changed
  <2> QED  BY <1>1, <1>2, <1>6, <1>9, <1>10, <2>2, <2>3 DEF JournalIsTrue
<1>12. JournalsAreTrue'
  BY <1>1, <1>2, <1>8, <1>11, JournalOfLast DEF TypeOK
<1>13. RecoveryInv(p)'
  <2>1. pc'[p] = "putBack" => todo' = todo /\ journal[t] = "preparing" /\ backup'[t][f] # Absent
    BY <1>1
  <2>2. pc'[p] = "undo" => /\ todo'[p] = todo[p] \ {f} /\ f \notin stage'[t] /\ backup'[t][f] = Absent
    BY <1>1, <1>2, <1>3 DEF PatchInv, TypeOK
  <2>3. ASSUME ~err'[p]
        PROVE  /\ stage'[t] \subseteq todo'[p]
               /\ \A g \in Files : backup'[t][g] # Absent => g \in todo'[p]
    <3>1. stage[t] \subseteq todo[p] /\ \A g \in Files : backup[t][g] # Absent => g \in todo[p]
      BY <1>0, <1>1, <1>2, <2>3 DEF RecoveryInv, Saved
    <3> QED  BY <1>1, <1>3, <1>5, <2>1, <2>2, <3>1
  <2>4. ASSUME ~err'[p], journal[t] = "preparing", t \notin unsound, NEW g \in Changed(t) \ todo'[p]
        PROVE  Kept(t, g)'
    <3>1. \A h \in Changed(t) \ todo[p] : Kept(t, h)
      BY <1>0, <1>1, <1>2, <2>4 DEF RecoveryInv
    <3>2. CASE g = f
      BY <1>1, <1>3, <1>10, <2>1, <2>4, <3>2
    <3>3. CASE g # f
      BY <1>1, <1>9, <2>1, <2>2, <2>4, <3>1, <3>3 DEF Changed
    <3> QED  BY <3>2, <3>3
  <2> QED  BY <1>1, <1>2, <1>3, <1>4, <1>6, <2>1, <2>3, <2>4 DEF RecoveryInv, Saved
<1>14. CommitInv(p)' /\ CleanupInv(p)' /\ RollbackInv(p)'
  BY <1>1 DEF CommitInv, CleanupInv, RollbackInv
<1>15. published'[p] = {}
  BY <1>1 DEF PatchInv, PublishedInCommit
<1> QED  BY <1>1, <1>7, <1>8, <1>12, <1>13, <1>14, <1>15, OneWorksOn DEF PatchInv

\* The backup is renamed to where the file was removed.
LEMMA PutBackKeeps ==
  ASSUME PatchInv, TypeOK', NEW p \in Procs, PutBack(p)
  PROVE  PatchInv'
<1>0. PICK t \in Procs : t = at[p]
  BY InHand DEF PutBack, At
<1>1. pc[p] = "putBack"
  BY DEF PutBack, At
<1>2. /\ t \in Procs /\ last = t /\ JournalIsTrue(t) /\ RecoveryInv(p) /\ p \in Working
      /\ journal[t] = "preparing" /\ todo[p] # {} /\ Saved(t, Max(todo[p]))
  BY <1>0, <1>1, InHand DEF RecoveryInv
<1>3. PICK f \in Files : f = Max(todo[p]) /\ f \in todo[p]
  BY <1>2, PatchAssumption DEF PatchInv, TypeOK
<1>4. /\ pc' \in [Procs -> Pcs] /\ pc'[p] = "undo"
      /\ \A q \in Procs \ {p} : pc'[q] = pc[q] /\ published'[q] = published[q]
      /\ UNCHANGED <<journal, plan, old, outcome, last, unsound, touched, lockVars, err, at, published>>
      /\ disk' = [disk EXCEPT ![f] = backup[t][f]]
      /\ backup' = [backup EXCEPT ![t][f] = Absent]
      /\ stage' = [stage EXCEPT ![t] = @ \ {f}]
      /\ todo' = [todo EXCEPT ![p] = todo[p] \ {f}]
  BY <1>0, <1>3 DEF PutBack, At, Pass, Goto, Write, Drop, history, planVars, PatchInv, TypeOK
<1>5. /\ \A q \in Procs \ {t} : stage'[q] = stage[q] /\ backup'[q] = backup[q]
      /\ \A g \in Files \ {f} : backup'[t][g] = backup[t][g] /\ disk'[g] = disk[g]
                                /\ (g \in stage'[t] <=> g \in stage[t])
      /\ stage'[t] = stage[t] \ {f} /\ todo'[p] = todo[p] \ {f}
      /\ backup'[t][f] = Absent /\ disk'[f] = backup[t][f]
  BY <1>0, <1>3, <1>4 DEF PatchInv, TypeOK
<1>6. \A q : HadOld(q)' = HadOld(q) /\ HasNew(q)' = HasNew(q) /\ Changed(q)' = Changed(q)
  BY <1>4 DEF HadOld, HasNew, Changed
<1>7. Planned'
  <2>1. \A q \in Procs : stage'[q] \subseteq stage[q]
    BY <1>5
  <2>2. \A q \in Procs : \A g \in Files : backup'[q][g] # Absent => backup[q][g] # Absent
    BY <1>5
  <2> QED  BY <1>4, <1>6, <2>1, <2>2 DEF PatchInv, Planned
<1>8. LastHasJournal' /\ Journalled'
  <2>1. \A q \in Procs : journal[q] # "none" => q = t
    BY <1>2 DEF PatchInv, LastHasJournal
  <2> QED  BY <1>2, <1>4, <1>5, <2>1 DEF PatchInv, LastHasJournal, Journalled, NoFile
<1>9. \A g \in Files \ {f} : /\ Kept(t, g)' = Kept(t, g)
                             /\ Recoverable(t, g)' = Recoverable(t, g)
  BY <1>4, <1>5, <1>6 DEF Kept, Recoverable, Theirs, Saved, IsOwnAddition
<1>10. t \notin unsound /\ f \in Changed(t) => Recoverable(t, f)' /\ Kept(t, f)'
  <2> SUFFICES ASSUME t \notin unsound, f \in Changed(t)
               PROVE  Recoverable(t, f)' /\ Kept(t, f)'
    OBVIOUS
  <2>1. Recoverable(t, f)
    BY <1>2 DEF JournalIsTrue
  <2> QED  BY <1>2, <1>3, <1>4, <1>5, <2>1 DEF Recoverable, Saved, Kept, Theirs
<1>11. JournalIsTrue(t)'
  BY <1>2, <1>4, <1>6, <1>9, <1>10 DEF JournalIsTrue, Changed
<1>12. JournalsAreTrue'
  BY <1>2, <1>4, <1>8, <1>11, JournalOfLast DEF TypeOK
<1>13. RecoveryInv(p)'
  <2>1. ASSUME ~err'[p]
        PROVE  /\ stage'[t] \subseteq todo'[p]
               /\ \A g \in Files : backup'[t][g] # Absent => g \in todo'[p]
    <3>1. stage[t] \subseteq todo[p] /\ \A g \in Files : backup[t][g] # Absent => g \in todo[p]
      BY <1>0, <1>1, <1>2, <1>4, <2>1 DEF RecoveryInv, Saved
    <3> QED  BY <1>5, <3>1
  <2>2. ASSUME ~err'[p], t \notin unsound, NEW g \in Changed(t) \ todo'[p]
        PROVE  Kept(t, g)'
    <3>1. \A h \in Changed(t) \ todo[p] : Kept(t, h)
      BY <1>0, <1>1, <1>2, <1>4, <2>2 DEF RecoveryInv
    <3>2. CASE g = f
      BY <1>10, <2>2, <3>2
    <3>3. CASE g # f
      BY <1>5, <1>9, <2>2, <3>1, <3>3 DEF Changed
    <3> QED  BY <3>2, <3>3
  <2> QED  BY <1>0, <1>2, <1>4, <1>6, <2>1, <2>2 DEF RecoveryInv, Saved
<1>14. CommitInv(p)' /\ CleanupInv(p)' /\ RollbackInv(p)'
  BY <1>4 DEF CommitInv, CleanupInv, RollbackInv
<1>15. published'[p] = {}
  BY <1>1, <1>4 DEF PatchInv, PublishedInCommit
<1> QED  BY <1>2, <1>4, <1>7, <1>8, <1>12, <1>13, <1>14, <1>15, OneWorksOn DEF PatchInv

-----------------------------------------------------------------------------
(* Commit *)

\* Where the worker of a commit or a rollback stands.
LEMMA InCommit ==
  ASSUME PatchInv, NEW p \in Procs,
         pc[p] \in {"mkdir", "journal", "stage", "verify", "backup", "publish", "mark", "cleanup",
                    "close", "unpublish", "restore", "return", "unstage", "settle"}
  PROVE  /\ p \in Working /\ last = p
         /\ JournalIsTrue(p) /\ CommitInv(p) /\ CleanupInv(p) /\ RollbackInv(p)
         /\ \A q \in Procs \ {p} : journal[q] = "none"
BY DEF PatchInv, WorkInv, CommitInv, CleanupInv, RollbackInv, JournalsAreTrue, LastHasJournal, Working

\* No other patch has left anything when a patch is planned.
LEMMA PlanKeeps ==
  ASSUME PatchInv, TypeOK', NEW p \in Procs, Plan(p)
  PROVE  PatchInv'
<1>1. /\ p \in Working /\ pc[p] = "plan" /\ pc' \in [Procs -> Pcs] /\ pc'[p] \in {"release", "mkdir"}
      /\ \A q \in Procs \ {p} : pc'[q] = pc[q]
      /\ UNCHANGED <<disk, stage, backup, journal, unsound, touched, lockVars, at, todo, err, published>>
  BY DEF Plan, At, Goto, Working, history, planVars, diskVars, PatchInv, TypeOK
<1>2. published[p] = {} /\ \A q \in Procs : journal[q] = "none"
  BY <1>1 DEF PatchInv, PublishedInCommit, WorkInv, RecoveryInv
<1>3. \A q \in Procs : stage[q] = {} /\ backup[q] = NoFile
  BY <1>2 DEF PatchInv, Journalled
<1>4. CASE UNCHANGED <<plan, old, outcome, last>> /\ pc'[p] = "release"
  <2>1. Planned' /\ LastHasJournal' /\ Journalled' /\ JournalsAreTrue'
    BY <1>1, <1>4, DataKept DEF diskVars
  <2>2. RecoveryInv(p)' /\ CommitInv(p)' /\ CleanupInv(p)' /\ RollbackInv(p)'
    BY <1>4, NothingInHand
  <2> QED  BY <1>1, <1>4, <2>1, <2>2, OneWorksOn DEF PatchInv
<1>5. CASE ~(UNCHANGED <<plan, old, outcome, last>> /\ pc'[p] = "release")
  <2>1. PICK q \in Plans : /\ \A f \in Files : Possible(f, q[f])
                           /\ plan' = [Unplanned EXCEPT ![p] = q]
                           /\ old' = [t \in Procs |-> IF t = p THEN disk ELSE NoFile]
                           /\ outcome' = [t \in Procs |-> "open"]
                           /\ last' = p /\ pc'[p] = "mkdir"
    <3>1. PICK q \in Plans :
            /\ \A f \in Files : Possible(f, q[f])
            /\ IF \A f \in Files : q[f] = "keep"
               THEN Goto(p, "release") /\ UNCHANGED planVars
               ELSE /\ plan' = [Unplanned EXCEPT ![p] = q]
                    /\ old' = [t \in Procs |-> IF t = p THEN disk ELSE NoFile]
                    /\ outcome' = [t \in Procs |-> "open"]
                    /\ last' = p /\ Goto(p, "mkdir")
      BY DEF Plan
    <3>2. \A x : Goto(p, x) => pc'[p] = x
      BY DEF Goto, PatchInv, TypeOK
    <3>3. ~\A f \in Files : q[f] = "keep"
      BY <1>5, <3>1, <3>2 DEF planVars
    <3> QED  BY <3>1, <3>2, <3>3
  <2>2. /\ plan'[p] = q /\ old'[p] = disk /\ outcome'[p] = "open"
        /\ \A t \in Procs \ {p} : \A f \in Files : plan'[t][f] = "keep"
    BY <2>1 DEF Unplanned
  <2>3. Planned'
    <3>1. ASSUME NEW f \in Files
          PROVE  /\ plan'[p][f] = "add" => old'[p][f] = Absent
                 /\ plan'[p][f] \in {"update", "delete"} => old'[p][f] # Absent
      BY <2>1, <2>2 DEF Possible
    <3>2. \A t \in Procs : stage'[t] = {} /\ \A f \in Files : backup'[t][f] = Absent
      BY <1>1, <1>3 DEF NoFile
    <3>3. \A t \in Procs \ {p} : \A f \in Files : plan'[t][f] # "add" /\ plan'[t][f] \notin {"update", "delete"}
      BY <2>2
    <3> QED  BY <3>1, <3>2, <3>3 DEF Planned, HadOld
  <2>4. LastHasJournal' /\ Journalled'
    BY <1>1, <1>2, <1>3 DEF LastHasJournal, Journalled
  <2>5. \A f \in Changed(p)' : Kept(p, f)'
    BY <1>1, <2>2 DEF Kept
  <2>6. JournalsAreTrue'
    <3>1. JournalIsTrue(p)'
      BY <1>1, <1>2, <2>2, <2>5 DEF JournalIsTrue
    <3> QED  BY <2>1, <2>4, <3>1, JournalOfLast DEF TypeOK
  <2>7. RecoveryInv(p)' /\ CommitInv(p)' /\ CleanupInv(p)' /\ RollbackInv(p)'
    BY <1>1, <1>2, <1>3, <2>1, <2>2, <2>5 DEF RecoveryInv, CommitInv, CleanupInv, RollbackInv, NoFile
  <2> QED  BY <1>1, <1>2, <2>1, <2>3, <2>4, <2>6, <2>7, OneWorksOn DEF PatchInv
<1> QED  BY <1>4, <1>5

\* The steps that only look, and go from one pass to the next.
LEMMA PassesKeep ==
  ASSUME PatchInv, TypeOK', NEW p \in Procs, MakeParents(p) \/ VerifyFile(p) \/ NextPass(p)
  PROVE  PatchInv'
<1> USE DEF At, Goto, Pass, Handled
<1>1. /\ p \in Working /\ last = p /\ CommitInv(p) /\ CleanupInv(p) /\ RollbackInv(p)
      /\ pc' \in [Procs -> Pcs]
      /\ \A q \in Procs \ {p} : pc'[q] = pc[q] /\ published'[q] = published[q]
      /\ UNCHANGED <<diskVars, plan, old, outcome, last, unsound, touched, lockVars, at, err, published>>
  <2>1. pc[p] \in {"mkdir", "stage", "verify", "backup", "publish", "unpublish", "restore"}
    BY DEF MakeParents, VerifyFile, NextPass
  <2>2. /\ pc' \in [Procs -> Pcs]
        /\ \A q \in Procs \ {p} : pc'[q] = pc[q]
    BY DEF MakeParents, VerifyFile, NextPass, PatchInv, TypeOK
  <2>3. UNCHANGED <<diskVars, planVars, lockVars, history, at, err>>
    BY DEF MakeParents, VerifyFile, NextPass
  <2> QED  BY <2>1, <2>2, <2>3, InCommit DEF planVars, history
<1>2. Planned' /\ LastHasJournal' /\ Journalled' /\ JournalsAreTrue'
  BY <1>1, DataKept
<1>3. /\ UNCHANGED <<disk, stage, backup, journal, outcome[p], published[p], err[p]>>
      /\ HadOld(p)' = HadOld(p) /\ HasNew(p)' = HasNew(p) /\ Changed(p)' = Changed(p)
      /\ \A f : /\ Kept(p, f)' = Kept(p, f) /\ Given(p, f)' = Given(p, f) /\ Gone(f)' = Gone(f)
                /\ Saved(p, f)' = Saved(p, f)
  BY <1>1 DEF diskVars, HadOld, HasNew, Changed, Kept, Given, Gone, Saved, Theirs
<1>4. HadOld(p) \subseteq Changed(p) /\ HasNew(p) \subseteq Changed(p) /\ HadOld(p) \subseteq Files
  BY DEF HadOld, HasNew, Changed
<1>5. CommitInv(p)' /\ CleanupInv(p)' /\ RollbackInv(p)'
  <2>1. CASE MakeParents(p)
    <3>1. pc[p] = "mkdir" /\ pc'[p] = "journal"
      BY <2>1 DEF MakeParents, PatchInv, TypeOK
    <3> QED  BY <1>1, <1>3, <3>1 DEF CommitInv, CleanupInv, RollbackInv
  <2>2. CASE VerifyFile(p)
    <3>1. pc[p] = "verify" /\ pc'[p] = "verify"
      BY <2>2 DEF VerifyFile
    <3> QED  BY <1>1, <1>3, <3>1 DEF CommitInv, CleanupInv, RollbackInv
  <2>3. CASE NextPass(p) /\ pc[p] = "stage"
    <3>1. pc'[p] = "verify"
      BY <2>3 DEF NextPass, PatchInv, TypeOK
    <3> QED  BY <1>1, <1>3, <2>3, <3>1 DEF CommitInv, CleanupInv, RollbackInv
  <2>4. CASE NextPass(p) /\ pc[p] = "verify"
    <3>1. pc'[p] = "backup" /\ todo'[p] = HadOld(p)
      BY <2>4 DEF NextPass, PatchInv, TypeOK
    <3> QED  BY <1>1, <1>3, <2>4, <3>1 DEF CommitInv, CleanupInv, RollbackInv
  <2>5. CASE NextPass(p) /\ pc[p] = "backup"
    <3>1. pc'[p] = "publish" /\ todo'[p] = HasNew(p) /\ todo[p] = {}
      BY <2>5 DEF NextPass, PatchInv, TypeOK
    <3>2. \A f \in Changed(p) : Gone(f) /\ (f \in HadOld(p) => Saved(p, f))
      <4>1. \A f \in Changed(p) \ HadOld(p) : f \in Files /\ plan[p][f] = "add" /\ old[p][f] = Absent
        BY DEF Changed, HadOld, PatchInv, Planned, TypeOK
      <4>2. \A f \in Changed(p) : IF f \in HadOld(p) THEN Saved(p, f) /\ Gone(f) ELSE Kept(p, f)
        BY <1>1, <2>5, <3>1 DEF CommitInv
      <4> QED  BY <4>1, <4>2 DEF Kept, Gone
    <3>3. \A f \in Changed(p) \ HasNew(p) : Given(p, f)
      BY <3>2 DEF Given, Gone
    <3>4. stage[p] \subseteq HasNew(p)
      BY DEF PatchInv, Planned
    <3>5. CommitInv(p)'
      BY <1>1, <1>3, <1>4, <2>5, <3>1, <3>2, <3>3, <3>4 DEF CommitInv
    <3> QED  BY <3>1, <3>5 DEF CleanupInv, RollbackInv
  <2>6. CASE NextPass(p) /\ pc[p] = "publish"
    <3>1. pc'[p] = "mark" /\ todo[p] = {}
      BY <2>6 DEF NextPass, PatchInv, TypeOK
    <3> QED  BY <1>1, <1>3, <2>6, <3>1 DEF CommitInv, CleanupInv, RollbackInv
  <2>7. CASE NextPass(p) /\ pc[p] = "unpublish"
    <3>1. pc'[p] = "restore" /\ todo'[p] = HadOld(p) /\ todo[p] = {}
      BY <2>7 DEF NextPass, PatchInv, TypeOK
    <3>2. \A f \in Files : Saved(p, f) => f \in HadOld(p)
      BY DEF PatchInv, Planned, Saved
    <3>3. RollbackInv(p)'
      BY <1>1, <1>3, <2>7, <3>1, <3>2 DEF RollbackInv
    <3> QED  BY <3>1, <3>3 DEF CommitInv, CleanupInv
  <2>8. CASE NextPass(p) /\ pc[p] = "restore"
    <3>1. pc'[p] = "unstage" /\ todo[p] = {}
      BY <2>8 DEF NextPass, PatchInv, TypeOK
    <3>2. ~err[p] => backup[p] = NoFile
      <4>1. ~err[p] => \A f \in Files : backup[p][f] = Absent
        BY <1>1, <2>8, <3>1 DEF RollbackInv, Saved
      <4> QED  BY <4>1 DEF PatchInv, TypeOK, NoFile
    <3>3. RollbackInv(p)'
      BY <1>1, <1>3, <2>8, <3>1, <3>2 DEF RollbackInv, NoFile
    <3> QED  BY <3>1, <3>3 DEF CommitInv, CleanupInv
  <2> QED  BY <2>1, <2>2, <2>3, <2>4, <2>5, <2>6, <2>7, <2>8 DEF NextPass
<1>6. pc'[p] \in {"journal", "verify", "backup", "publish", "mark", "restore", "unstage"}
  BY DEF MakeParents, VerifyFile, NextPass, PatchInv, TypeOK
<1>7. RecoveryInv(p)'
  BY <1>6 DEF RecoveryInv
<1> QED  BY <1>1, <1>2, <1>5, <1>6, <1>7, OneWorksOn DEF PatchInv

\* What the disk, the stage and the backups of one file have to do with the other files:
\* nothing.
LEMMA OneFile ==
  ASSUME PatchInv, TypeOK', NEW p \in Procs, last = p, NEW f \in Files,
         UNCHANGED <<journal, plan, old, last, touched, unsound, outcome>>,
         \A q \in Procs : journal[q] # "none" => q = p,
         \A q \in Procs \ {p} : stage'[q] = stage[q] /\ backup'[q] = backup[q],
         \A g \in Files \ {f} : /\ disk'[g] = disk[g] /\ backup'[p][g] = backup[p][g]
                                /\ (g \in stage'[p] <=> g \in stage[p]),
         f \in stage'[p] => f \in HasNew(p),
         backup'[p][f] # Absent => f \in HadOld(p),
         stage'[p] # {} \/ backup'[p] # NoFile => journal[p] # "none",
         journal[p] = "preparing" /\ p \notin unsound /\ f \in Changed(p) => Recoverable(p, f)',
         journal[p] # "preparing" /\ p \notin unsound => disk' = disk
  PROVE  /\ Planned' /\ LastHasJournal' /\ Journalled' /\ JournalsAreTrue'
         /\ HadOld(p)' = HadOld(p) /\ HasNew(p)' = HasNew(p) /\ Changed(p)' = Changed(p)
         /\ \A g \in Files \ {f} : /\ Kept(p, g)' = Kept(p, g) /\ Given(p, g)' = Given(p, g)
                                   /\ Gone(g)' = Gone(g) /\ Saved(p, g)' = Saved(p, g)
<1>1. \A q : HadOld(q)' = HadOld(q) /\ HasNew(q)' = HasNew(q) /\ Changed(q)' = Changed(q)
  BY DEF HadOld, HasNew, Changed
<1>2. \A g \in Files \ {f} : /\ Kept(p, g)' = Kept(p, g) /\ Given(p, g)' = Given(p, g)
                             /\ Gone(g)' = Gone(g) /\ Saved(p, g)' = Saved(p, g)
                             /\ Recoverable(p, g)' = Recoverable(p, g)
  BY <1>1 DEF Kept, Given, Gone, Saved, Recoverable, IsOwnAddition, Theirs
<1>3. Planned'
  <2>1. stage'[p] \subseteq HasNew(p)
    <3>1. stage'[p] \subseteq Files /\ stage[p] \subseteq HasNew(p)
      BY DEF PatchInv, Planned, TypeOK
    <3> QED  BY <3>1
  <2>2. \A g \in Files : backup'[p][g] # Absent => g \in HadOld(p)
    BY DEF PatchInv, Planned
  <2>3. ASSUME NEW q \in Procs
        PROVE  /\ \A g \in Files : plan[q][g] = "add" => old[q][g] = Absent
               /\ \A g \in HadOld(q) : old[q][g] # Absent
               /\ stage'[q] \subseteq HasNew(q)
               /\ \A g \in Files : backup'[q][g] # Absent => g \in HadOld(q)
    <3>1. q # p => stage'[q] = stage[q] /\ backup'[q] = backup[q]
      OBVIOUS
    <3> QED  BY <2>1, <2>2, <3>1 DEF PatchInv, Planned
  <2> QED  BY <1>1, <2>3 DEF Planned
<1>4. LastHasJournal' /\ Journalled'
  BY DEF PatchInv, LastHasJournal, Journalled, NoFile
<1>5. JournalIsTrue(p)'
  <2>1. Changed(p) \subseteq Files /\ JournalIsTrue(p)
    BY DEF Changed, PatchInv, JournalsAreTrue
  <2>2. CASE journal[p] = "preparing" /\ p \notin unsound
    BY <1>1, <1>2, <2>1, <2>2 DEF JournalIsTrue
  <2>3. CASE disk' = disk /\ journal[p] # "preparing" /\ p \notin unsound
    <3>1. \A g : Kept(p, g)' = Kept(p, g) /\ Given(p, g)' = Given(p, g)
      BY <1>1, <2>3 DEF Kept, Given, Theirs
    <3> QED  BY <1>1, <2>1, <2>3, <3>1 DEF JournalIsTrue
  <2>4. CASE p \in unsound
    BY <2>1, <2>4 DEF JournalIsTrue
  <2> QED  BY <2>2, <2>3, <2>4
<1>6. JournalsAreTrue'
  BY <1>4, <1>5, JournalOfLast DEF TypeOK
<1> QED  BY <1>1, <1>2, <1>3, <1>4, <1>6

LEMMA StageFileKeeps ==
  ASSUME PatchInv, TypeOK', NEW p \in Procs, StageFile(p)
  PROVE  PatchInv'
<1>1. pc[p] = "stage"
  BY DEF StageFile, At
<1>2. /\ p \in Working /\ last = p /\ CommitInv(p) /\ \A q \in Procs \ {p} : journal[q] = "none"
  BY <1>1, InCommit
<1>3. PICK f \in Files : f = Min(todo[p]) /\ f \in todo[p]
  BY PatchAssumption DEF StageFile, PatchInv, TypeOK
<1>4. /\ UNCHANGED <<disk, backup, journal, planVars, lockVars, history, pc, at, err>>
      /\ stage' = [stage EXCEPT ![p] = @ \cup {f}] /\ todo' = [todo EXCEPT ![p] = @ \ {f}]
  BY <1>3 DEF StageFile, Handled
<1>5. /\ UNCHANGED <<plan, old, published, outcome, last, unsound, touched>>
      /\ todo'[p] = todo[p] \ {f} /\ stage'[p] = stage[p] \cup {f}
      /\ \A q \in Procs \ {p} : stage'[q] = stage[q]
  BY <1>4 DEF planVars, history, PatchInv, TypeOK
<1>6. f \in HasNew(p) /\ journal[p] = "preparing" /\ backup[p] = NoFile
      /\ \A g \in Changed(p) : Kept(p, g)
  BY <1>1, <1>2, <1>3 DEF CommitInv
<1>7. Recoverable(p, f)'
  <2>1. Kept(p, f)
    BY <1>6 DEF HasNew, Changed
  <2> QED  BY <1>4, <1>5, <1>6, <2>1 DEF Recoverable, Saved, Kept, Theirs, NoFile
<1>8. /\ Planned' /\ LastHasJournal' /\ Journalled' /\ JournalsAreTrue'
      /\ HasNew(p)' = HasNew(p) /\ Changed(p)' = Changed(p)
  <2>1. \A g \in Files \ {f} : g \in stage'[p] <=> g \in stage[p]
    BY <1>5
  <2>2. backup'[p][f] = Absent
    BY <1>4, <1>6 DEF NoFile
  <2> QED  BY <1>2, <1>4, <1>5, <1>6, <1>7, <2>1, <2>2, OneFile
<1>9. CommitInv(p)'
  <2>1. \A g : Kept(p, g)' = Kept(p, g)
    BY <1>4, <1>5 DEF Kept, Theirs
  <2>2. todo'[p] \subseteq HasNew(p)
    BY <1>1, <1>2, <1>5 DEF CommitInv
  <2> QED  BY <1>1, <1>2, <1>4, <1>5, <1>8, <2>1, <2>2 DEF CommitInv
<1>10. RecoveryInv(p)' /\ CleanupInv(p)' /\ RollbackInv(p)'
  BY <1>1, <1>4 DEF RecoveryInv, CleanupInv, RollbackInv
<1>11. pc' \in [Procs -> Pcs]
  BY DEF TypeOK
<1> QED  BY <1>1, <1>2, <1>4, <1>5, <1>8, <1>9, <1>10, <1>11, OneWorksOn DEF PatchInv

LEMMA WriteJournalKeeps ==
  ASSUME PatchInv, TypeOK', NEW p \in Procs, WriteJournal(p)
  PROVE  PatchInv'
<1>1. pc[p] = "journal"
  BY DEF WriteJournal, At
<1>2. /\ p \in Working /\ last = p /\ CommitInv(p) /\ \A q \in Procs \ {p} : journal[q] = "none"
  BY <1>1, InCommit
<1>3. /\ UNCHANGED <<disk, stage, backup, planVars, lockVars, history, err>>
      /\ pc'[p] = "stage" /\ todo'[p] = HasNew(p)
      /\ \A q \in Procs \ {p} : pc'[q] = pc[q]
      /\ \A q \in Procs : journal'[q] = IF q = p THEN "preparing" ELSE journal[q]
  BY DEF WriteJournal, Pass, Goto, PatchInv, TypeOK
<1>4. UNCHANGED <<plan, old, published, outcome, last, unsound, touched>>
  BY <1>3 DEF planVars, history
<1>5. /\ HadOld(p)' = HadOld(p) /\ HasNew(p)' = HasNew(p) /\ Changed(p)' = Changed(p)
      /\ \A g : Kept(p, g)' = Kept(p, g)
  BY <1>3, <1>4 DEF HadOld, HasNew, Changed, Kept, Theirs
<1>6. /\ backup[p] = NoFile /\ outcome[p] = "open" /\ published[p] = {}
      /\ \A g \in Changed(p) : Kept(p, g)
  BY <1>1, <1>2 DEF CommitInv
<1>7. Planned'
  BY <1>3, <1>4 DEF PatchInv, Planned, HadOld, HasNew
<1>8. LastHasJournal' /\ Journalled'
  BY <1>2, <1>3, <1>4 DEF PatchInv, LastHasJournal, Journalled
<1>9. JournalIsTrue(p)'
  BY <1>3, <1>4, <1>5, <1>6 DEF JournalIsTrue, Recoverable, Saved, NoFile, Changed
<1>10. JournalsAreTrue'
  BY <1>2, <1>4, <1>8, <1>9, JournalOfLast DEF TypeOK
<1>11. CommitInv(p)'
  BY <1>2, <1>3, <1>4, <1>5, <1>6 DEF CommitInv
<1>12. RecoveryInv(p)' /\ CleanupInv(p)' /\ RollbackInv(p)'
  BY <1>3 DEF RecoveryInv, CleanupInv, RollbackInv
<1>13. pc' \in [Procs -> Pcs]
  BY DEF TypeOK
<1> QED  BY <1>2, <1>3, <1>4, <1>7, <1>8, <1>10, <1>11, <1>12, <1>13, OneWorksOn DEF PatchInv

LEMMA BackUpKeeps ==
  ASSUME PatchInv, TypeOK', NEW p \in Procs, BackUp(p)
  PROVE  PatchInv'
<1>1. pc[p] = "backup"
  BY DEF BackUp, At
<1>2. /\ p \in Working /\ last = p /\ CommitInv(p) /\ \A q \in Procs \ {p} : journal[q] = "none"
  BY <1>1, InCommit
<1>3. PICK f \in Files : f = Min(todo[p]) /\ f \in todo[p]
  BY PatchAssumption DEF BackUp, PatchInv, TypeOK
<1>4. /\ UNCHANGED <<stage, journal, planVars, lockVars, history, pc, at, err>>
      /\ backup' = [backup EXCEPT ![p][f] = disk[f]] /\ disk' = [disk EXCEPT ![f] = Absent]
      /\ todo' = [todo EXCEPT ![p] = @ \ {f}]
  BY <1>3 DEF BackUp, Handled, Write
<1>5. /\ UNCHANGED <<plan, old, published, outcome, last, unsound, touched>>
      /\ todo'[p] = todo[p] \ {f} /\ backup'[p][f] = disk[f] /\ disk'[f] = Absent
      /\ \A q \in Procs \ {p} : backup'[q] = backup[q]
      /\ \A g \in Files \ {f} : backup'[p][g] = backup[p][g] /\ disk'[g] = disk[g]
  BY <1>4 DEF planVars, history, PatchInv, TypeOK
<1>6. f \in HadOld(p) /\ f \in Changed(p) /\ journal[p] = "preparing" /\ Kept(p, f)
  <2>1. f \in HadOld(p) /\ journal[p] = "preparing"
    BY <1>1, <1>2, <1>3 DEF CommitInv
  <2>2. f \in Changed(p)
    BY <2>1 DEF HadOld, Changed
  <2> QED  BY <1>1, <1>2, <1>3, <2>1, <2>2 DEF CommitInv
<1>7. disk[f] # Absent
  BY <1>6 DEF PatchInv, Planned, Kept, Theirs, Absent
<1>8. Recoverable(p, f)' /\ Saved(p, f)' /\ Gone(f)'
  BY <1>4, <1>5, <1>6, <1>7 DEF Recoverable, Saved, Gone, Kept, Theirs
<1>9. /\ Planned' /\ LastHasJournal' /\ Journalled' /\ JournalsAreTrue'
      /\ HadOld(p)' = HadOld(p) /\ HasNew(p)' = HasNew(p) /\ Changed(p)' = Changed(p)
      /\ \A g \in Files \ {f} : Kept(p, g)' = Kept(p, g) /\ Gone(g)' = Gone(g) /\ Saved(p, g)' = Saved(p, g)
  <2>1. f \in stage'[p] => f \in HasNew(p)
    BY <1>4 DEF PatchInv, Planned
  <2> QED  BY <1>2, <1>4, <1>5, <1>6, <1>8, <2>1, OneFile
<1>10. CommitInv(p)'
  <2>1. ASSUME NEW g \in Changed(p)
        PROVE  IF g \in HadOld(p) \ todo'[p] THEN Saved(p, g)' /\ Gone(g)' ELSE Kept(p, g)'
    <3>1. CASE g = f
      BY <1>5, <1>6, <1>8, <3>1
    <3>2. CASE g # f
      <4>1. g \in Files /\ (g \in todo'[p] <=> g \in todo[p])
        BY <1>5, <3>2 DEF Changed
      <4>2. IF g \in HadOld(p) \ todo[p] THEN Saved(p, g) /\ Gone(g) ELSE Kept(p, g)
        BY <1>1, <1>2, <2>1 DEF CommitInv
      <4> QED  BY <1>9, <3>2, <4>1, <4>2
    <3> QED  BY <3>1, <3>2
  <2>2. published'[p] = {} /\ todo'[p] \subseteq HadOld(p) /\ outcome'[p] = "open"
    BY <1>1, <1>2, <1>5 DEF CommitInv
  <2> QED  BY <1>1, <1>2, <1>4, <1>5, <1>6, <1>9, <2>1, <2>2 DEF CommitInv
<1>11. RecoveryInv(p)' /\ CleanupInv(p)' /\ RollbackInv(p)'
  BY <1>1, <1>4 DEF RecoveryInv, CleanupInv, RollbackInv
<1>12. pc' \in [Procs -> Pcs]
  BY DEF TypeOK
<1> QED  BY <1>1, <1>2, <1>4, <1>5, <1>9, <1>10, <1>11, <1>12, OneWorksOn DEF PatchInv

LEMMA PublishKeeps ==
  ASSUME PatchInv, TypeOK', NEW p \in Procs, Publish(p)
  PROVE  PatchInv'
<1>1. pc[p] = "publish"
  BY DEF Publish, At
<1>2. /\ p \in Working /\ last = p /\ CommitInv(p) /\ \A q \in Procs \ {p} : journal[q] = "none"
  BY <1>1, InCommit
<1>3. PICK f \in Files : f = Min(todo[p]) /\ f \in todo[p]
  BY PatchAssumption DEF Publish, PatchInv, TypeOK
<1>4. /\ UNCHANGED <<backup, journal, plan, old, outcome, last, lockVars, history, pc, at, err>>
      /\ disk' = [disk EXCEPT ![f] = p] /\ stage' = [stage EXCEPT ![p] = @ \ {f}]
      /\ published' = [published EXCEPT ![p] = @ \cup {f}]
      /\ todo' = [todo EXCEPT ![p] = @ \ {f}]
  BY <1>3 DEF Publish, Handled, Write
<1>5. /\ UNCHANGED <<unsound, touched>>
      /\ todo'[p] = todo[p] \ {f} /\ stage'[p] = stage[p] \ {f} /\ disk'[f] = p
      /\ published'[p] = published[p] \cup {f}
      /\ \A q \in Procs \ {p} : stage'[q] = stage[q] /\ published'[q] = published[q]
      /\ \A g \in Files \ {f} : disk'[g] = disk[g]
  BY <1>4 DEF history, PatchInv, TypeOK
<1>6. f \in HasNew(p) /\ journal[p] = "preparing"
  BY <1>1, <1>2, <1>3 DEF CommitInv
<1>7. p \notin unsound => Recoverable(p, f)'
  <2> SUFFICES ASSUME p \notin unsound  PROVE Recoverable(p, f)'
    OBVIOUS
  <2>1. CASE Saved(p, f)
    <3>1. Recoverable(p, f)
      BY <1>6 DEF PatchInv, JournalsAreTrue, JournalIsTrue, HasNew, Changed
    <3> QED  BY <1>4, <1>5, <2>1, <3>1 DEF Recoverable, Saved
  <2>2. CASE ~Saved(p, f)
    <3>1. plan[p][f] = "add"
      BY <1>1, <1>2, <1>6, <2>2 DEF CommitInv, HasNew, HadOld
    <3> QED  BY <1>4, <1>5, <2>2, <3>1 DEF Recoverable, Saved, IsOwnAddition
  <2> QED  BY <2>1, <2>2
<1>8. /\ Planned' /\ LastHasJournal' /\ Journalled' /\ JournalsAreTrue'
      /\ HadOld(p)' = HadOld(p) /\ HasNew(p)' = HasNew(p) /\ Changed(p)' = Changed(p)
      /\ \A g \in Files \ {f} : /\ Given(p, g)' = Given(p, g) /\ Gone(g)' = Gone(g)
                                /\ Saved(p, g)' = Saved(p, g)
  <2>1. backup'[p][f] # Absent => f \in HadOld(p)
    BY <1>4 DEF PatchInv, Planned
  <2>2. UNCHANGED <<journal, plan, old, last, touched, unsound, outcome>>
    BY <1>4, <1>5
  <2>3. \A g \in Files \ {f} : g \in stage'[p] <=> g \in stage[p]
    BY <1>5
  <2> QED  BY <1>2, <1>4, <1>5, <1>6, <1>7, <2>1, <2>2, <2>3, OneFile
<1>9. CommitInv(p)'
  <2>1. ASSUME NEW g \in Changed(p)
        PROVE  IF g \in todo'[p] THEN Gone(g)' ELSE Given(p, g)'
    <3>1. CASE g = f
      BY <1>5, <1>6, <1>8, <3>1 DEF Given
    <3>2. CASE g # f
      <4>1. g \in Files /\ (g \in todo'[p] <=> g \in todo[p])
        BY <1>5, <3>2 DEF Changed
      <4>2. IF g \in todo[p] THEN Gone(g) ELSE Given(p, g)
        BY <1>1, <1>2, <2>1 DEF CommitInv
      <4> QED  BY <1>8, <3>2, <4>1, <4>2
    <3> QED  BY <3>1, <3>2
  <2>2. /\ published'[p] = HasNew(p) \ todo'[p] /\ todo'[p] \subseteq HasNew(p)
        /\ stage'[p] \subseteq todo'[p] /\ outcome'[p] = "open"
    BY <1>1, <1>2, <1>3, <1>4, <1>5, <1>6 DEF CommitInv
  <2>3. \A g \in HadOld(p) : Saved(p, g)'
    BY <1>1, <1>2, <1>4 DEF CommitInv, Saved
  <2> QED  BY <1>1, <1>2, <1>4, <1>6, <1>8, <2>1, <2>2, <2>3 DEF CommitInv
<1>10. RecoveryInv(p)' /\ CleanupInv(p)' /\ RollbackInv(p)'
  BY <1>1, <1>4 DEF RecoveryInv, CleanupInv, RollbackInv
<1>11. pc' \in [Procs -> Pcs]
  BY DEF TypeOK
<1> QED  BY <1>1, <1>2, <1>4, <1>5, <1>8, <1>9, <1>10, <1>11, OneWorksOn DEF PatchInv

LEMMA MarkCommittedKeeps ==
  ASSUME PatchInv, TypeOK', NEW p \in Procs, MarkCommitted(p)
  PROVE  PatchInv'
<1>1. pc[p] = "mark"
  BY DEF MarkCommitted, At
<1>2. /\ p \in Working /\ last = p /\ CommitInv(p) /\ \A q \in Procs \ {p} : journal[q] = "none"
  BY <1>1, InCommit
<1>3. /\ UNCHANGED <<disk, stage, backup, planVars, lockVars, history, at, err>>
      /\ pc'[p] = "cleanup" /\ todo'[p] = HadOld(p)
      /\ \A q \in Procs \ {p} : pc'[q] = pc[q]
      /\ \A q \in Procs : journal'[q] = IF q = p THEN "committed" ELSE journal[q]
  BY DEF MarkCommitted, Pass, Goto, PatchInv, TypeOK
<1>4. UNCHANGED <<plan, old, published, outcome, last, unsound, touched>>
  BY <1>3 DEF planVars, history
<1>5. /\ HadOld(p)' = HadOld(p) /\ HasNew(p)' = HasNew(p) /\ Changed(p)' = Changed(p)
      /\ \A g : Given(p, g)' = Given(p, g) /\ Saved(p, g)' = Saved(p, g)
  BY <1>3, <1>4 DEF HadOld, HasNew, Changed, Given, Saved, Theirs
<1>6. stage[p] = {} /\ \A g \in Changed(p) : Given(p, g)
  BY <1>1, <1>2 DEF CommitInv
<1>7. Planned'
  BY <1>3, <1>4 DEF PatchInv, Planned, HadOld, HasNew
<1>8. LastHasJournal' /\ Journalled'
  BY <1>2, <1>3, <1>4 DEF PatchInv, LastHasJournal, Journalled
<1>9. JournalIsTrue(p)'
  BY <1>3, <1>5, <1>6 DEF JournalIsTrue
<1>10. JournalsAreTrue'
  BY <1>2, <1>4, <1>8, <1>9, JournalOfLast DEF TypeOK
<1>11. CleanupInv(p)'
  <2>1. \A g \in Files : Saved(p, g) => g \in HadOld(p)
    BY DEF PatchInv, Planned, Saved
  <2> QED  BY <1>2, <1>3, <1>4, <1>5, <1>6, <2>1 DEF CleanupInv
<1>12. RecoveryInv(p)' /\ CommitInv(p)' /\ RollbackInv(p)'
  BY <1>3 DEF RecoveryInv, CommitInv, RollbackInv
<1>13. pc' \in [Procs -> Pcs]
  BY DEF TypeOK
<1> QED  BY <1>2, <1>3, <1>4, <1>7, <1>8, <1>10, <1>11, <1>12, <1>13, OneWorksOn DEF PatchInv

LEMMA CleanUpKeeps ==
  ASSUME PatchInv, TypeOK', NEW p \in Procs, CleanUp(p)
  PROVE  PatchInv'
<1>1. pc[p] = "cleanup"
  BY DEF CleanUp, At
<1>2. /\ p \in Working /\ last = p /\ CleanupInv(p) /\ \A q \in Procs \ {p} : journal[q] = "none"
  BY <1>1, InCommit
<1>3. PICK f \in todo[p] : Drop(p, f) /\ Handled(p, f)
  BY DEF CleanUp
<1>4. f \in Files /\ UNCHANGED <<disk, stage, journal, planVars, lockVars, history, pc, at, err>>
  BY DEF CleanUp, PatchInv, TypeOK
<1>5. /\ UNCHANGED <<plan, old, published, outcome, last, unsound, touched>>
      /\ todo'[p] = todo[p] \ {f} /\ backup'[p][f] = Absent
      /\ \A q \in Procs \ {p} : backup'[q] = backup[q]
      /\ \A g \in Files \ {f} : backup'[p][g] = backup[p][g]
  BY <1>3, <1>4 DEF planVars, history, Drop, Handled, PatchInv, TypeOK
<1>6. journal[p] = "committed" /\ stage[p] = {}
  BY <1>1, <1>2 DEF CleanupInv
<1>7. Planned' /\ LastHasJournal' /\ Journalled' /\ JournalsAreTrue'
  <2>1. \A g \in Files \ {f} : g \in stage'[p] <=> g \in stage[p]
    BY <1>4
  <2>2. \A q \in Procs \ {p} : stage'[q] = stage[q] /\ backup'[q] = backup[q]
    BY <1>4, <1>5
  <2>3. f \notin stage'[p]
    BY <1>4, <1>6
  <2> QED  BY <1>2, <1>4, <1>5, <1>6, <2>1, <2>2, <2>3, OneFile
<1>8. CleanupInv(p)'
  <2>1. \A g \in Files : Saved(p, g)' => Saved(p, g) /\ g # f
    BY <1>5 DEF Saved
  <2> QED  BY <1>1, <1>2, <1>4, <1>5, <1>6, <2>1 DEF CleanupInv
<1>9. RecoveryInv(p)' /\ CommitInv(p)' /\ RollbackInv(p)'
  BY <1>1, <1>4 DEF RecoveryInv, CommitInv, RollbackInv
<1>10. pc' \in [Procs -> Pcs]
  BY DEF TypeOK
<1> QED  BY <1>1, <1>2, <1>4, <1>5, <1>7, <1>8, <1>9, <1>10, OneWorksOn DEF PatchInv

LEMMA CleanedUpKeeps ==
  ASSUME PatchInv, TypeOK', NEW p \in Procs, CleanedUp(p)
  PROVE  PatchInv'
<1>1. pc[p] = "cleanup" /\ todo[p] = {}
  BY DEF CleanedUp, At
<1>2. /\ p \in Working /\ last = p /\ CleanupInv(p) /\ JournalIsTrue(p)
      /\ \A q \in Procs \ {p} : journal[q] = "none"
  BY <1>1, InCommit
<1>3. journal[p] = "committed" /\ stage[p] = {}
  BY <1>1, <1>2 DEF CleanupInv
<1>4. /\ UNCHANGED <<diskVars, plan, old, published, last, lockVars, history, at, todo, err>>
      /\ \A q \in Procs \ {p} : pc'[q] = pc[q]
      /\ pc' \in [Procs -> Pcs]
      /\ \/ err[p] /\ pc'[p] = "release"
         \/ ~err[p] /\ pc'[p] = "close"
  BY DEF CleanedUp, Ended, Goto, planVars, PatchInv, TypeOK
<1>5. UNCHANGED <<disk, stage, backup, journal, unsound, touched>>
  BY <1>4 DEF diskVars, history
<1>6. Planned' /\ LastHasJournal' /\ Journalled'
  BY <1>4, <1>5 DEF PatchInv, Planned, LastHasJournal, Journalled, HadOld, HasNew
<1>7. JournalIsTrue(p)'
  <2>1. Changed(p)' = Changed(p) /\ \A f : Given(p, f)' = Given(p, f)
    BY <1>4, <1>5 DEF Changed, Given, HasNew, Theirs
  <2> QED  BY <1>2, <1>3, <1>5, <2>1 DEF JournalIsTrue
<1>8. JournalsAreTrue'
  BY <1>2, <1>4, <1>6, <1>7, JournalOfLast DEF TypeOK
<1>9. CASE pc'[p] = "release"
  BY <1>2, <1>4, <1>6, <1>8, <1>9, NothingInHand, OneWorksOn DEF PatchInv
<1>10. CASE pc'[p] = "close"
  <2>1. backup[p] = NoFile
    <3>1. \A f \in Files : backup[p][f] = Absent
      BY <1>1, <1>2, <1>4, <1>10 DEF CleanupInv, Saved
    <3> QED  BY <3>1 DEF PatchInv, TypeOK, NoFile
  <2>2. CleanupInv(p)'
    BY <1>2, <1>3, <1>4, <1>5, <1>10, <2>1 DEF CleanupInv, NoFile
  <2>3. RecoveryInv(p)' /\ CommitInv(p)' /\ RollbackInv(p)'
    BY <1>10 DEF RecoveryInv, CommitInv, RollbackInv
  <2> QED  BY <1>2, <1>4, <1>6, <1>8, <1>10, <2>2, <2>3, OneWorksOn DEF PatchInv
<1> QED  BY <1>4, <1>9, <1>10

\* A journal goes: with nothing left of the patch, and the disk all or nothing.
LEMMA JournalGoes ==
  ASSUME PatchInv, TypeOK', NEW p \in Procs, last = p, stage[p] = {}, backup[p] = NoFile,
         UNCHANGED <<disk, stage, backup, plan, old, last, unsound, touched>>,
         \A q \in Procs : journal'[q] = IF q = p THEN "none" ELSE journal[q],
         p \notin unsound => \/ outcome'[p] # "success" /\ \A f \in Changed(p) : Kept(p, f)
                             \/ \A f \in Changed(p) : Given(p, f)
  PROVE  Planned' /\ LastHasJournal' /\ Journalled' /\ JournalsAreTrue'
<1>1. Planned'
  BY DEF PatchInv, Planned, HadOld, HasNew
<1>2. LastHasJournal' /\ Journalled'
  BY DEF PatchInv, LastHasJournal, Journalled, NoFile
<1>3. JournalIsTrue(p)'
  <2>1. Changed(p)' = Changed(p) /\ \A f : Kept(p, f)' = Kept(p, f) /\ Given(p, f)' = Given(p, f)
    BY DEF Changed, Kept, Given, HasNew, Theirs
  <2> QED  BY <2>1 DEF JournalIsTrue
<1>4. JournalsAreTrue'
  BY <1>2, <1>3, JournalOfLast DEF TypeOK
<1> QED  BY <1>1, <1>2, <1>4

LEMMA CloseJournalKeeps ==
  ASSUME PatchInv, TypeOK', NEW p \in Procs, CloseJournal(p)
  PROVE  PatchInv'
<1>1. pc[p] = "close"
  BY DEF CloseJournal, At
<1>2. /\ p \in Working /\ last = p /\ CleanupInv(p) /\ JournalIsTrue(p)
  BY <1>1, InCommit
<1>3. /\ UNCHANGED <<disk, stage, backup, plan, old, published, last, unsound, touched, lockVars, at,
                     todo, err>>
      /\ pc'[p] = "release" /\ pc' \in [Procs -> Pcs]
      /\ \A q \in Procs \ {p} : pc'[q] = pc[q]
      /\ \A q \in Procs : journal'[q] = IF q = p THEN "none" ELSE journal[q]
  BY DEF CloseJournal, Ended, Goto, history, PatchInv, TypeOK
<1>4. journal[p] = "committed" /\ stage[p] = {} /\ backup[p] = NoFile
  BY <1>1, <1>2 DEF CleanupInv
<1>5. Planned' /\ LastHasJournal' /\ Journalled' /\ JournalsAreTrue'
  <2>1. p \notin unsound => \A f \in Changed(p) : Given(p, f)
    BY <1>2, <1>4 DEF JournalIsTrue
  <2> QED  BY <1>2, <1>3, <1>4, <2>1, JournalGoes
<1> QED  BY <1>2, <1>3, <1>5, NothingInHand, OneWorksOn DEF PatchInv

-----------------------------------------------------------------------------
(* Rollback *)

\* What the rollback finds, wherever the commit failed.
LEMMA RollBackKeeps ==
  ASSUME PatchInv, TypeOK', NEW p \in Procs, pc[p] \in Committing, RollBack(p), UNCHANGED touched
  PROVE  PatchInv'
<1>1. pc[p] \in {"mkdir", "journal", "stage", "verify", "backup", "publish", "mark"}
  BY DEF Committing
<1>2. /\ p \in Working /\ last = p /\ CommitInv(p) /\ JournalIsTrue(p)
      /\ \A q \in Procs \ {p} : journal[q] = "none"
  BY <1>1, InCommit
<1>3. /\ UNCHANGED <<disk, stage, backup, plan, old, published, outcome, last, touched, lockVars, at, err>>
      /\ pc'[p] = "unpublish" /\ todo'[p] = published[p] /\ pc' \in [Procs -> Pcs]
      /\ \A q \in Procs \ {p} : pc'[q] = pc[q]
  BY DEF RollBack, Pass, Goto, planVars, PatchInv, TypeOK
<1>4. /\ \A q \in Procs \ {p} : journal'[q] = journal[q]
      /\ \/ journal'[p] = journal[p]
         \/ pc[p] = "journal" /\ journal'[p] = "preparing"
         \/ pc[p] = "mark" /\ journal'[p] = "committed"
  BY DEF RollBack, PatchInv, TypeOK
<1>5. /\ p \notin unsound' => p \notin unsound /\ journal'[p] # "committed"
                                               /\ \A f \in HadOld(p) : Saved(p, f)
      /\ \A q \in Procs \ {p} : q \in unsound' <=> q \in unsound
  BY DEF RollBack, MissingBackups, Saved
<1>6. /\ HadOld(p)' = HadOld(p) /\ HasNew(p)' = HasNew(p) /\ Changed(p)' = Changed(p)
      /\ \A f : /\ Kept(p, f)' = Kept(p, f) /\ Given(p, f)' = Given(p, f) /\ Saved(p, f)' = Saved(p, f)
                /\ Recoverable(p, f)' = Recoverable(p, f)
  BY <1>3 DEF HadOld, HasNew, Changed, Kept, Given, Saved, Recoverable, IsOwnAddition, Theirs
<1>7. Planned'
  BY <1>3 DEF PatchInv, Planned, HadOld, HasNew
<1>8. LastHasJournal'
  BY <1>2, <1>3, <1>4 DEF PatchInv, LastHasJournal
<1>9. Journalled'
  <2>1. \A q \in Procs : journal[q] # "none" => journal'[q] # "none"
    BY <1>4
  <2> QED  BY <1>3, <2>1 DEF PatchInv, Journalled, NoFile
<1>10. JournalIsTrue(p)'
  <2>1. CASE journal'[p] = journal[p]
    BY <1>2, <1>3, <1>5, <1>6, <2>1 DEF JournalIsTrue
  <2>2. CASE pc[p] = "journal" /\ journal'[p] = "preparing"
    <3>1. backup[p] = NoFile /\ outcome[p] = "open" /\ \A f \in Changed(p) : Kept(p, f)
      BY <1>2, <2>2 DEF CommitInv
    <3>2. \A f \in Changed(p) : Recoverable(p, f)
      BY <3>1 DEF Recoverable, Saved, NoFile, Changed
    <3> QED  BY <1>3, <1>6, <2>2, <3>1, <3>2 DEF JournalIsTrue
  <2>3. CASE journal'[p] = "committed"
    BY <1>5, <2>3 DEF JournalIsTrue
  <2> QED  BY <1>4, <2>1, <2>2, <2>3
<1>11. JournalsAreTrue'
  BY <1>2, <1>3, <1>8, <1>10, JournalOfLast DEF TypeOK
<1>12. RollbackInv(p)'
  <2>1. outcome[p] = "open" /\ published[p] \subseteq HasNew(p)
    BY <1>1, <1>2 DEF CommitInv
  <2>2. journal'[p] = "none" => published[p] = {}
    BY <1>1, <1>2, <1>4 DEF CommitInv
  <2>3. ASSUME NEW f \in Changed(p) \ HadOld(p)
        PROVE  f \in published[p] \/ Kept(p, f)
    <3>1. f \in Files /\ plan[p][f] = "add" /\ old[p][f] = Absent /\ f \in HasNew(p)
      BY DEF Changed, HadOld, HasNew, PatchInv, Planned, TypeOK
    <3>2. CASE pc[p] \in {"mkdir", "journal", "stage", "verify", "backup"}
      BY <1>2, <3>2 DEF CommitInv
    <3>3. CASE pc[p] = "publish"
      BY <1>2, <3>1, <3>3 DEF CommitInv, Gone, Kept
    <3>4. CASE pc[p] = "mark"
      BY <1>2, <3>1, <3>4 DEF CommitInv
    <3> QED  BY <1>1, <3>2, <3>3, <3>4
  <2> QED  BY <1>2, <1>3, <1>5, <1>6, <2>1, <2>2, <2>3 DEF RollbackInv
<1>13. RecoveryInv(p)' /\ CommitInv(p)' /\ CleanupInv(p)'
  BY <1>3 DEF RecoveryInv, CommitInv, CleanupInv
<1> QED  BY <1>2, <1>3, <1>7, <1>8, <1>9, <1>11, <1>12, <1>13, OneWorksOn DEF PatchInv

LEMMA UnpublishKeeps ==
  ASSUME PatchInv, TypeOK', NEW p \in Procs, Unpublish(p)
  PROVE  PatchInv'
<1>1. pc[p] = "unpublish"
  BY DEF Unpublish, At
<1>2. /\ p \in Working /\ last = p /\ RollbackInv(p) /\ JournalIsTrue(p)
      /\ \A q \in Procs \ {p} : journal[q] = "none"
  BY <1>1, InCommit
<1>3. PICK f \in todo[p] : Write(f, Absent) /\ Handled(p, f)
  BY DEF Unpublish
<1>4. f \in Files /\ UNCHANGED <<stage, backup, journal, planVars, lockVars, history, pc, at, err>>
  BY DEF Unpublish, PatchInv, TypeOK
<1>5. /\ UNCHANGED <<plan, old, published, outcome, last, unsound, touched>>
      /\ todo'[p] = todo[p] \ {f} /\ disk'[f] = Absent
      /\ \A g \in Files \ {f} : disk'[g] = disk[g]
  BY <1>3, <1>4 DEF planVars, history, Write, Handled, PatchInv, TypeOK
<1>6. f \in HasNew(p) /\ journal[p] # "none"
  BY <1>1, <1>2, <1>3 DEF RollbackInv
<1>7. p \notin unsound =>
        /\ journal[p] = "preparing" /\ \A g \in HadOld(p) : Saved(p, g)
        /\ \A g \in Changed(p) \ HadOld(p) : g \in todo[p] \/ err[p] \/ Kept(p, g)
  BY <1>1, <1>2, <1>6 DEF RollbackInv, PatchInv, TypeOK
<1>8. f \notin HadOld(p) => Kept(p, f)'
  <2>1. f \notin HadOld(p) => old[p][f] = Absent
    BY <1>6 DEF HadOld, HasNew, PatchInv, Planned
  <2> QED  BY <1>5, <2>1 DEF Kept
<1>9. p \notin unsound => Recoverable(p, f)'
  <2>1. CASE f \in HadOld(p) /\ p \notin unsound
    <3>1. Saved(p, f) /\ Recoverable(p, f)
      BY <1>2, <1>7, <2>1 DEF JournalIsTrue, HadOld, Changed
    <3> QED  BY <1>4, <1>5, <3>1 DEF Recoverable, Saved
  <2>2. CASE f \notin HadOld(p)
    <3>1. ~Saved(p, f)
      BY <1>4, <2>2 DEF PatchInv, Planned, Saved
    <3> QED  BY <1>4, <1>8, <2>2, <3>1 DEF Recoverable, Saved
  <2> QED  BY <2>1, <2>2
<1>10. /\ Planned' /\ LastHasJournal' /\ Journalled' /\ JournalsAreTrue'
       /\ HadOld(p)' = HadOld(p) /\ HasNew(p)' = HasNew(p) /\ Changed(p)' = Changed(p)
       /\ \A g \in Files \ {f} : Kept(p, g)' = Kept(p, g)
  <2>1. /\ f \in stage'[p] => f \in HasNew(p)
        /\ backup'[p][f] # Absent => f \in HadOld(p)
    BY <1>4, <1>6 DEF PatchInv, Planned
  <2> QED  BY <1>2, <1>4, <1>5, <1>6, <1>7, <1>9, <2>1, OneFile
<1>11. RollbackInv(p)'
  <2>1. p \notin unsound =>
          \A g \in Changed(p) \ HadOld(p) : g \in todo'[p] \/ err'[p] \/ Kept(p, g)'
    BY <1>4, <1>5, <1>7, <1>8, <1>10 DEF Changed
  <2> QED  BY <1>1, <1>2, <1>4, <1>5, <1>7, <1>10, <2>1 DEF RollbackInv, Saved
<1>12. RecoveryInv(p)' /\ CommitInv(p)' /\ CleanupInv(p)'
  BY <1>1, <1>4 DEF RecoveryInv, CommitInv, CleanupInv
<1>13. pc' \in [Procs -> Pcs]
  BY DEF TypeOK
<1> QED  BY <1>1, <1>2, <1>4, <1>5, <1>10, <1>11, <1>12, <1>13, OneWorksOn DEF PatchInv

LEMMA RemoveForRestoreKeeps ==
  ASSUME PatchInv, TypeOK', NEW p \in Procs, RemoveForRestore(p)
  PROVE  PatchInv'
<1>1. pc[p] = "restore" /\ todo[p] # {}
  BY DEF RemoveForRestore, At
<1>2. /\ p \in Working /\ last = p /\ RollbackInv(p) /\ JournalIsTrue(p)
      /\ \A q \in Procs \ {p} : journal[q] = "none"
  BY <1>1, InCommit
<1>3. PICK f \in Files : f = Max(todo[p]) /\ f \in todo[p]
  BY <1>1, PatchAssumption DEF PatchInv, TypeOK
<1>4. /\ UNCHANGED <<stage, backup, journal, planVars, lockVars, history, at, todo, err>>
      /\ pc'[p] = "return" /\ pc' \in [Procs -> Pcs]
      /\ \A q \in Procs \ {p} : pc'[q] = pc[q]
      /\ \A g \in Files \ {f} : disk'[g] = disk[g]
  BY <1>3 DEF RemoveForRestore, Goto, Write, PatchInv, TypeOK
<1>5. UNCHANGED <<plan, old, published, outcome, last, unsound, touched>>
  BY <1>4 DEF planVars, history
<1>6. p \notin unsound =>
        /\ Saved(p, f) /\ journal[p] = "preparing"
        /\ \A g \in todo[p] : Saved(p, g)
        /\ \A g \in Changed(p) \ todo[p] : err[p] \/ Kept(p, g)
  <2>1. p \notin unsound => Saved(p, f) /\ journal[p] # "committed"
    BY <1>1, <1>2, <1>3 DEF RollbackInv
  <2>2. Saved(p, f) => journal[p] # "none"
    BY DEF Saved, PatchInv, Journalled, NoFile
  <2> QED  BY <1>1, <1>2, <2>1, <2>2 DEF RollbackInv, PatchInv, TypeOK
<1>7. p \notin unsound => Recoverable(p, f)'
  <2> SUFFICES ASSUME p \notin unsound  PROVE Recoverable(p, f)'
    OBVIOUS
  <2>1. f \in Changed(p)
    BY <1>6 DEF Saved, PatchInv, Planned, HadOld, Changed
  <2>2. Recoverable(p, f)
    BY <1>2, <1>6, <2>1 DEF JournalIsTrue
  <2> QED  BY <1>4, <1>5, <1>6, <2>2 DEF Recoverable, Saved
<1>8. /\ Planned' /\ LastHasJournal' /\ Journalled' /\ JournalsAreTrue'
      /\ HadOld(p)' = HadOld(p) /\ HasNew(p)' = HasNew(p) /\ Changed(p)' = Changed(p)
      /\ \A g \in Files \ {f} : Kept(p, g)' = Kept(p, g)
  <2>1. /\ f \in stage'[p] => f \in HasNew(p)
        /\ backup'[p][f] # Absent => f \in HadOld(p)
        /\ stage'[p] # {} \/ backup'[p] # NoFile => journal[p] # "none"
    BY <1>4 DEF PatchInv, Planned, Journalled
  <2> QED  BY <1>2, <1>4, <1>5, <1>6, <1>7, <2>1, OneFile
<1>9. RollbackInv(p)'
  <2>1. p \notin unsound => \A g \in Changed(p) \ todo[p] : err[p] \/ Kept(p, g)'
    BY <1>3, <1>6, <1>8 DEF Changed
  <2> QED  BY <1>1, <1>2, <1>4, <1>5, <1>6, <1>8, <2>1 DEF RollbackInv, Saved
<1>10. RecoveryInv(p)' /\ CommitInv(p)' /\ CleanupInv(p)'
  BY <1>4 DEF RecoveryInv, CommitInv, CleanupInv
<1> QED  BY <1>2, <1>4, <1>5, <1>8, <1>9, <1>10, OneWorksOn DEF PatchInv

LEMMA ReturnKeeps ==
  ASSUME PatchInv, TypeOK', NEW p \in Procs, Return(p)
  PROVE  PatchInv'
<1>1. pc[p] = "return"
  BY DEF Return, At
<1>2. /\ p \in Working /\ last = p /\ RollbackInv(p) /\ JournalIsTrue(p)
      /\ \A q \in Procs \ {p} : journal[q] = "none"
  BY <1>1, InCommit
<1>3. PICK f \in Files : f = Max(todo[p]) /\ f \in todo[p] /\ f \in HadOld(p) /\ todo[p] \subseteq HadOld(p)
  <2>1. todo[p] # {} /\ todo[p] \subseteq HadOld(p)
    BY <1>1, <1>2 DEF RollbackInv
  <2>2. Max(todo[p]) \in todo[p]
    BY <2>1, PatchAssumption DEF PatchInv, TypeOK
  <2> QED  BY <2>1, <2>2 DEF HadOld
<1>4. /\ UNCHANGED <<stage, journal, planVars, lockVars, history, at>>
      /\ pc'[p] = "restore" /\ pc' \in [Procs -> Pcs] /\ todo'[p] = todo[p] \ {f}
      /\ \A q \in Procs \ {p} : pc'[q] = pc[q]
  BY <1>3 DEF Return, Pass, Goto, PatchInv, TypeOK
<1>5. UNCHANGED <<plan, old, published, outcome, last, unsound, touched>>
  BY <1>4 DEF planVars, history
<1>6. p \notin unsound =>
        /\ Saved(p, f) /\ journal[p] = "preparing"
        /\ \A g \in todo[p] : Saved(p, g)
        /\ \A g \in Changed(p) \ todo[p] : err[p] \/ Kept(p, g)
  <2>1. p \notin unsound => Saved(p, f) /\ journal[p] # "committed"
    BY <1>1, <1>2, <1>3 DEF RollbackInv
  <2>2. Saved(p, f) => journal[p] # "none"
    BY DEF Saved, PatchInv, Journalled, NoFile
  <2> QED  BY <1>1, <1>2, <2>1, <2>2 DEF RollbackInv, PatchInv, TypeOK
<1>7. RecoveryInv(p)' /\ CommitInv(p)' /\ CleanupInv(p)'
  BY <1>4 DEF RecoveryInv, CommitInv, CleanupInv
<1>8. CASE ~Saved(p, f)
  <2>1. /\ UNCHANGED <<disk, backup>> /\ err'[p] = TRUE /\ p \in unsound
    BY <1>3, <1>6, <1>8 DEF Return, Saved, PatchInv, TypeOK
  <2>2. Planned' /\ LastHasJournal' /\ Journalled' /\ JournalsAreTrue'
    BY <1>4, <1>5, <2>1, DataKept DEF diskVars
  <2>3. RollbackInv(p)'
    <3>1. HadOld(p)' = HadOld(p)
      BY <1>5 DEF HadOld
    <3> QED  BY <1>1, <1>2, <1>3, <1>4, <1>5, <2>1, <3>1 DEF RollbackInv
  <2> QED  BY <1>2, <1>4, <1>5, <1>7, <2>2, <2>3, OneWorksOn DEF PatchInv
<1>9. CASE Saved(p, f)
  <2>1. /\ disk' = [disk EXCEPT ![f] = backup[p][f]] /\ backup' = [backup EXCEPT ![p][f] = Absent]
        /\ UNCHANGED err
    BY <1>3, <1>9 DEF Return, Saved, Write, Drop
  <2>2. /\ disk'[f] = backup[p][f] /\ backup'[p][f] = Absent
        /\ \A q \in Procs \ {p} : backup'[q] = backup[q]
        /\ \A g \in Files \ {f} : disk'[g] = disk[g] /\ backup'[p][g] = backup[p][g]
    BY <2>1 DEF PatchInv, TypeOK
  <2>3. p \notin unsound => Kept(p, f)' /\ Recoverable(p, f)'
    <3> SUFFICES ASSUME p \notin unsound  PROVE Kept(p, f)' /\ Recoverable(p, f)'
      OBVIOUS
    <3>1. Recoverable(p, f)
      BY <1>2, <1>3, <1>6 DEF JournalIsTrue, HadOld, Changed
    <3> QED  BY <1>5, <1>9, <2>2, <3>1 DEF Recoverable, Saved, Kept, Theirs
  <2>4. /\ Planned' /\ LastHasJournal' /\ Journalled' /\ JournalsAreTrue'
        /\ HadOld(p)' = HadOld(p) /\ HasNew(p)' = HasNew(p) /\ Changed(p)' = Changed(p)
        /\ \A g \in Files \ {f} : Kept(p, g)' = Kept(p, g) /\ Saved(p, g)' = Saved(p, g)
    <3>1. f \in stage'[p] => f \in HasNew(p)
      BY <1>4 DEF PatchInv, Planned
    <3>2. journal[p] # "none"
      BY <1>9 DEF Saved, PatchInv, Journalled, NoFile
    <3>3. \A q \in Procs \ {p} : stage'[q] = stage[q]
      BY <1>4
    <3> QED  BY <1>2, <1>4, <1>5, <1>6, <2>2, <2>3, <3>1, <3>2, <3>3, OneFile
  <2>5. RollbackInv(p)'
    <3>1. p \notin unsound => /\ \A g \in todo'[p] : Saved(p, g)'
                              /\ \A g \in Changed(p) \ todo'[p] : err'[p] \/ Kept(p, g)'
      <4>1. Changed(p) \subseteq Files /\ todo[p] \subseteq Files
        BY <1>3 DEF Changed, HadOld
      <4> QED  BY <1>4, <1>6, <2>1, <2>3, <2>4, <4>1
    <3>2. ~err[p] => \A g \in Files : Saved(p, g)' => g \in todo'[p]
      <4>1. \A g \in Files : Saved(p, g)' => Saved(p, g) /\ g # f
        BY <2>2 DEF Saved
      <4> QED  BY <1>1, <1>2, <1>4, <4>1 DEF RollbackInv
    <3> QED  BY <1>1, <1>2, <1>3, <1>4, <1>5, <2>1, <2>4, <3>1, <3>2 DEF RollbackInv
  <2> QED  BY <1>2, <1>4, <1>5, <1>7, <2>4, <2>5, OneWorksOn DEF PatchInv
<1> QED  BY <1>8, <1>9

LEMMA UnstageKeeps ==
  ASSUME PatchInv, TypeOK', NEW p \in Procs, Unstage(p)
  PROVE  PatchInv'
<1>1. pc[p] = "unstage"
  BY DEF Unstage, At
<1>2. /\ p \in Working /\ last = p /\ RollbackInv(p) /\ JournalIsTrue(p)
  BY <1>1, InCommit
<1>3. /\ UNCHANGED <<disk, backup, journal, planVars, lockVars, history, at, todo, err>>
      /\ \A q \in Procs : stage'[q] = IF q = p THEN {} ELSE stage[q]
      /\ pc'[p] = "settle" /\ pc' \in [Procs -> Pcs]
      /\ \A q \in Procs \ {p} : pc'[q] = pc[q]
  BY DEF Unstage, Goto, PatchInv, TypeOK
<1>4. UNCHANGED <<plan, old, published, outcome, last, unsound, touched>>
  BY <1>3 DEF planVars, history
<1>5. Planned' /\ LastHasJournal' /\ Journalled'
  BY <1>3, <1>4 DEF PatchInv, Planned, LastHasJournal, Journalled, HadOld, HasNew, NoFile
<1>6. /\ Changed(p)' = Changed(p)
      /\ \A f : Kept(p, f)' = Kept(p, f) /\ Given(p, f)' = Given(p, f)
                /\ (Recoverable(p, f) => Recoverable(p, f)')
  BY <1>3, <1>4 DEF Changed, Kept, Given, HasNew, Recoverable, Saved, IsOwnAddition, Theirs
<1>7. JournalIsTrue(p)'
  BY <1>2, <1>3, <1>4, <1>6 DEF JournalIsTrue
<1>8. JournalsAreTrue'
  BY <1>2, <1>4, <1>5, <1>7, JournalOfLast DEF TypeOK
<1>9. RollbackInv(p)'
  BY <1>1, <1>2, <1>3, <1>4, <1>6 DEF RollbackInv, NoFile
<1>10. RecoveryInv(p)' /\ CommitInv(p)' /\ CleanupInv(p)'
  BY <1>3 DEF RecoveryInv, CommitInv, CleanupInv
<1> QED  BY <1>2, <1>3, <1>4, <1>5, <1>8, <1>9, <1>10, OneWorksOn DEF PatchInv

LEMMA SettleKeeps ==
  ASSUME PatchInv, TypeOK', NEW p \in Procs, Settle(p)
  PROVE  PatchInv'
<1>1. pc[p] = "settle"
  BY DEF Settle, At
<1>2. /\ p \in Working /\ last = p /\ RollbackInv(p) /\ JournalIsTrue(p)
  BY <1>1, InCommit
<1>3. /\ UNCHANGED <<disk, stage, backup, plan, old, published, last, lockVars, history, at, todo, err>>
      /\ outcome'[p] \in {"aggregate", "failed"}
      /\ pc'[p] = "release" /\ pc' \in [Procs -> Pcs]
      /\ \A q \in Procs \ {p} : pc'[q] = pc[q]
      /\ \/ journal' = journal
         \/ ~err[p] /\ \A q \in Procs : journal'[q] = IF q = p THEN "none" ELSE journal[q]
  BY DEF Settle, Ended, Goto, PatchInv, TypeOK
<1>4. UNCHANGED <<unsound, touched>>
  BY <1>3 DEF history
<1>5. Planned' /\ LastHasJournal' /\ Journalled' /\ JournalsAreTrue'
  <2>1. CASE journal' = journal
    <3>1. Planned' /\ LastHasJournal' /\ Journalled'
      BY <1>3, <2>1 DEF PatchInv, Planned, LastHasJournal, Journalled, HadOld, HasNew
    <3>2. JournalIsTrue(p)'
      <4>1. /\ Changed(p)' = Changed(p)
            /\ \A f : /\ Kept(p, f)' = Kept(p, f) /\ Given(p, f)' = Given(p, f)
                      /\ Recoverable(p, f)' = Recoverable(p, f)
        BY <1>3, <1>4 DEF Changed, Kept, Given, HasNew, Recoverable, Saved, IsOwnAddition, Theirs
      <4> QED  BY <1>2, <1>3, <1>4, <2>1, <4>1 DEF JournalIsTrue
    <3> QED  BY <1>2, <1>3, <3>1, <3>2, JournalOfLast DEF TypeOK
  <2>2. CASE ~err[p] /\ \A q \in Procs : journal'[q] = IF q = p THEN "none" ELSE journal[q]
    <3>1. /\ stage[p] = {} /\ backup[p] = NoFile
          /\ p \notin unsound => \A f \in Changed(p) : Kept(p, f)
      BY <1>1, <1>2, <2>2 DEF RollbackInv
    <3> QED  BY <1>2, <1>3, <1>4, <2>2, <3>1, JournalGoes
  <2> QED  BY <1>3, <2>1, <2>2
<1> QED  BY <1>2, <1>3, <1>5, NothingInHand, OneWorksOn DEF PatchInv

-----------------------------------------------------------------------------
(* What goes wrong *)

\* A failed operation of a pass that goes on is remembered, and excuses what it leaves.
LEMMA SkipKeeps ==
  ASSUME PatchInv, TypeOK', NEW p \in Procs, Skip(p)
  PROVE  PatchInv'
<1>1. /\ UNCHANGED <<diskVars, planVars, unsound, touched, lockVars, at>>
      /\ err'[p] = TRUE /\ pc' \in [Procs -> Pcs]
      /\ pc[p] \in {"unpublish", "restore", "return", "undo", "putBack", "cleanup"}
      /\ pc'[p] = (CASE pc[p] = "return" -> "restore" [] pc[p] = "putBack" -> "undo" [] OTHER -> pc[p])
      /\ todo'[p] \subseteq todo[p]
      /\ \A q \in Procs \ {p} : pc'[q] = pc[q]
  BY DEF Skip, Pass, Goto, Fault, Undoing, PatchInv, TypeOK
<1>2. /\ UNCHANGED <<disk, stage, backup, journal, plan, old, published, outcome, last>>
  BY <1>1 DEF diskVars, planVars
<1>3. Planned' /\ LastHasJournal' /\ Journalled' /\ JournalsAreTrue'
  BY <1>1, <1>2, DataKept
<1>4. HadOld(p)' = HadOld(p) /\ HasNew(p)' = HasNew(p) /\ \A t : Changed(t)' = Changed(t)
  BY <1>2 DEF HadOld, HasNew, Changed
<1>5. CASE pc[p] \in {"undo", "putBack"}
  <2>1. p \in Working /\ RecoveryInv(p) /\ pc'[p] = "undo"
    BY <1>1, <1>5, InHand
  <2>2. RecoveryInv(p)'
    BY <1>1, <1>2, <1>5, <2>1 DEF RecoveryInv
  <2>3. CommitInv(p)' /\ CleanupInv(p)' /\ RollbackInv(p)'
    BY <2>1 DEF CommitInv, CleanupInv, RollbackInv
  <2>4. published'[p] = {}
    BY <1>2, <1>5 DEF PatchInv, PublishedInCommit
  <2> QED  BY <1>1, <1>2, <1>3, <2>1, <2>2, <2>3, <2>4, OneWorksOn DEF PatchInv
<1>6. CASE pc[p] \in {"unpublish", "restore", "return", "cleanup"}
  <2>1. p \in Working /\ CleanupInv(p) /\ RollbackInv(p) /\ pc'[p] \in {"unpublish", "restore", "cleanup"}
    BY <1>1, <1>6, InCommit
  <2>2. CleanupInv(p)'
    BY <1>1, <1>2, <1>6, <2>1 DEF CleanupInv
  <2>3. RollbackInv(p)'
    <3>1. CASE pc[p] = "cleanup"
      BY <1>1, <3>1 DEF RollbackInv
    <3>2. CASE pc[p] = "unpublish"
      BY <1>1, <1>2, <1>4, <2>1, <3>2 DEF RollbackInv, Saved
    <3>3. CASE pc[p] \in {"restore", "return"}
      BY <1>1, <1>2, <1>4, <2>1, <3>3 DEF RollbackInv, Saved
    <3> QED  BY <1>6, <3>1, <3>2, <3>3
  <2>4. RecoveryInv(p)' /\ CommitInv(p)'
    BY <2>1 DEF RecoveryInv, CommitInv
  <2> QED  BY <1>1, <1>2, <1>3, <2>1, <2>2, <2>3, <2>4, OneWorksOn DEF PatchInv
<1> QED  BY <1>1, <1>5, <1>6

LEMMA KeepsJournalKeeps ==
  ASSUME PatchInv, TypeOK', NEW p \in Procs, KeepsJournal(p)
  PROVE  PatchInv'
<1>1. /\ UNCHANGED <<diskVars, plan, old, published, last, unsound, touched, lockVars, at, todo>>
      /\ pc' \in [Procs -> Pcs] /\ pc[p] \in {"scan", "forget", "close", "settle", "unstage"}
      /\ \A q \in Procs \ {p} : pc'[q] = pc[q]
      /\ \/ pc[p] = "unstage" /\ pc'[p] = "settle" /\ err'[p] = TRUE /\ outcome' = outcome
         \/ pc'[p] = "release" /\ (outcome' = outcome \/ (pc[p] \notin {"scan", "forget"} /\ outcome'[p] = "failed"))
  BY DEF KeepsJournal, At, Goto, Ended, Fault, planVars, PatchInv, TypeOK
<1>2. UNCHANGED <<disk, stage, backup, journal>>
  BY <1>1 DEF diskVars
<1>3. p \in Working
  BY <1>1 DEF Working
<1>4. Planned' /\ LastHasJournal' /\ Journalled' /\ JournalsAreTrue'
  <2>1. CASE outcome' = outcome
    BY <1>1, <2>1, DataKept
  <2>2. CASE pc[p] \notin {"scan", "forget"} /\ outcome'[p] = "failed"
    <3>1. last = p /\ JournalIsTrue(p)
      BY <1>1, <2>2, InCommit
    <3>2. Planned' /\ LastHasJournal' /\ Journalled'
      BY <1>1, <1>2 DEF PatchInv, Planned, LastHasJournal, Journalled, HadOld, HasNew
    <3>3. /\ Changed(p)' = Changed(p)
          /\ \A f : /\ Kept(p, f)' = Kept(p, f) /\ Given(p, f)' = Given(p, f)
                    /\ Recoverable(p, f)' = Recoverable(p, f)
      BY <1>1, <1>2 DEF Changed, Kept, Given, HasNew, Recoverable, Saved, IsOwnAddition, Theirs
    <3>4. JournalIsTrue(p)'
      BY <1>1, <1>2, <2>2, <3>1, <3>3 DEF JournalIsTrue
    <3> QED  BY <1>1, <3>1, <3>2, <3>4, JournalOfLast DEF TypeOK
  <2> QED  BY <1>1, <2>1, <2>2
<1>5. CASE pc'[p] = "release"
  BY <1>1, <1>3, <1>4, <1>5, NothingInHand, OneWorksOn DEF PatchInv
<1>6. CASE pc[p] = "unstage" /\ pc'[p] = "settle" /\ err'[p] = TRUE /\ outcome' = outcome
  <2>1. last = p /\ RollbackInv(p)
    BY <1>1, <1>6, InCommit
  <2>2. RollbackInv(p)'
    BY <1>1, <1>2, <1>6, <2>1 DEF RollbackInv
  <2>3. RecoveryInv(p)' /\ CommitInv(p)' /\ CleanupInv(p)'
    BY <1>6 DEF RecoveryInv, CommitInv, CleanupInv
  <2> QED  BY <1>1, <1>3, <1>4, <1>6, <2>2, <2>3, OneWorksOn DEF PatchInv
<1> QED  BY <1>1, <1>5, <1>6

\* What an outsider writes is the outsider's: no part of the invariant loses by it.
LEMMA OutsideKeeps ==
  ASSUME PatchInv, TypeOK', NEW f \in Files, Outside(f)
  PROVE  PatchInv'
<1>1. /\ UNCHANGED <<stage, backup, journal, planVars, unsound, lockVars, pc, at, todo, err>>
      /\ touched' = touched \cup {f} /\ disk'[f] = "theirs"
      /\ \A g \in Files \ {f} : disk'[g] = disk[g]
  BY DEF Outside, Write, PatchInv, TypeOK
<1>2. UNCHANGED <<plan, old, published, outcome, last>>
  BY <1>1 DEF planVars
<1>3. \A t : HadOld(t)' = HadOld(t) /\ HasNew(t)' = HasNew(t) /\ Changed(t)' = Changed(t)
             /\ Changed(t) \subseteq Files /\ HadOld(t) \subseteq Files
  BY <1>2 DEF HadOld, HasNew, Changed
<1>4. \A t : \A g \in Files : /\ Kept(t, g) => Kept(t, g)'
                              /\ Given(t, g) => Given(t, g)'
                              /\ Gone(g) => Gone(g)'
                              /\ Recoverable(t, g) => Recoverable(t, g)'
  BY <1>1, <1>2, <1>3 DEF Kept, Given, Gone, Recoverable, Saved, IsOwnAddition, Theirs
<1>5. \A t, g : Saved(t, g)' = Saved(t, g)
  BY <1>1 DEF Saved
<1>6. Planned' /\ LastHasJournal' /\ Journalled' /\ PublishedInCommit'
  BY <1>1, <1>2, <1>3 DEF PatchInv, Planned, LastHasJournal, Journalled,
     PublishedInCommit, NoFile
<1>7. LockInv'
  BY <1>1 DEF PatchInv, LockInv, HoldersInv, Holding, Working, lockVars
<1>8. JournalsAreTrue'
  BY <1>1, <1>2, <1>3, <1>4 DEF PatchInv, JournalsAreTrue, JournalIsTrue
<1>9. ASSUME NEW p \in Procs
      PROVE  RecoveryInv(p)' /\ CommitInv(p)' /\ CleanupInv(p)' /\ RollbackInv(p)'
  <2>1. RecoveryInv(p) /\ CommitInv(p) /\ CleanupInv(p) /\ RollbackInv(p)
    BY DEF PatchInv, WorkInv
  <2>2. RecoveryInv(p)'
    BY <1>1, <1>2, <1>3, <1>4, <1>5, <2>1 DEF RecoveryInv, NoFile
  <2>3. CommitInv(p)'
    BY <1>1, <1>2, <1>3, <1>4, <1>5, <2>1 DEF CommitInv, NoFile
  <2>4. CleanupInv(p)'
    BY <1>1, <1>2, <1>5, <2>1 DEF CleanupInv, NoFile
  <2>5. RollbackInv(p)'
    BY <1>1, <1>2, <1>3, <1>4, <1>5, <2>1 DEF RollbackInv, NoFile
  <2> QED  BY <2>2, <2>3, <2>4, <2>5
<1> QED  BY <1>6, <1>7, <1>8, <1>9 DEF PatchInv, WorkInv

LEMMA StutteringKeeps == PatchInv /\ UNCHANGED vars => PatchInv'
<1> SUFFICES ASSUME PatchInv, UNCHANGED vars  PROVE PatchInv'
  OBVIOUS
<1>1. /\ UNCHANGED <<disk, stage, backup, journal, plan, old, published, outcome, last, unsound,
                     touched, lockVars, pc, at, todo, err>>
  BY DEF vars, diskVars, planVars, history
<1>2. TypeOK' /\ LockInv' /\ PublishedInCommit'
  BY <1>1 DEF PatchInv, TypeOK, LockInv, HoldersInv, Holding, Working, PublishedInCommit, lockVars
<1>3. Planned' /\ LastHasJournal' /\ Journalled' /\ JournalsAreTrue'
  BY <1>1, DataKept DEF diskVars
<1>4. /\ \A t : HadOld(t)' = HadOld(t) /\ HasNew(t)' = HasNew(t) /\ Changed(t)' = Changed(t)
      /\ \A t, f : /\ Kept(t, f)' = Kept(t, f) /\ Given(t, f)' = Given(t, f)
                   /\ Saved(t, f)' = Saved(t, f) /\ Gone(f)' = Gone(f)
  BY <1>1 DEF HadOld, HasNew, Changed, Kept, Given, Gone, Saved, Theirs
<1>5. ASSUME NEW p \in Procs
      PROVE  RecoveryInv(p)' /\ CommitInv(p)' /\ CleanupInv(p)' /\ RollbackInv(p)'
  <2>1. RecoveryInv(p) /\ CommitInv(p) /\ CleanupInv(p) /\ RollbackInv(p)
    BY DEF PatchInv, WorkInv
  <2>2. RecoveryInv(p)'
    BY <1>1, <1>4, <2>1 DEF RecoveryInv, NoFile
  <2>3. CommitInv(p)'
    BY <1>1, <1>4, <2>1 DEF CommitInv, NoFile
  <2>4. CleanupInv(p)' /\ RollbackInv(p)'
    BY <1>1, <1>4, <2>1 DEF CleanupInv, RollbackInv, NoFile
  <2> QED  BY <2>2, <2>3, <2>4
<1> QED  BY <1>2, <1>3, <1>5 DEF PatchInv, WorkInv

-----------------------------------------------------------------------------
(* Theorems *)

LEMMA WorkKeeps ==
  ASSUME PatchInv, TypeOK', NEW p \in Procs, Works(p) \/ Falters(p)
  PROVE  PatchInv'
<1>1. CASE Recover(p)
  BY <1>1, ScanKeeps, UndoEntryKeeps, PutBackKeeps, UndoneKeeps, ForgetKeeps DEF Recover
<1>2. CASE Commit(p)
  <2>1. CASE Changed_Meanwhile(p)
    BY <2>1, RollBackKeeps DEF Changed_Meanwhile, At, Committing
  <2>2. CASE MakeParents(p) \/ VerifyFile(p) \/ NextPass(p)
    BY <2>2, PassesKeep
  <2>3. CASE CleanUp(p) \/ CleanedUp(p) \/ CloseJournal(p) \/ MarkCommitted(p)
    BY <2>3, CleanUpKeeps, CleanedUpKeeps, CloseJournalKeeps, MarkCommittedKeeps
  <2>4. CASE Plan(p) \/ WriteJournal(p) \/ StageFile(p) \/ BackUp(p) \/ Publish(p)
    BY <2>4, PlanKeeps, WriteJournalKeeps, StageFileKeeps, BackUpKeeps, PublishKeeps
  <2> QED  BY <1>2, <2>1, <2>2, <2>3, <2>4 DEF Commit
<1>3. CASE Undo(p)
  BY <1>3, UnpublishKeeps, RemoveForRestoreKeeps, ReturnKeeps, UnstageKeeps, SettleKeeps DEF Undo
<1>4. CASE Fail(p)
  BY <1>4, RollBackKeeps DEF Fail, Fault
<1>5. CASE Skip(p) \/ KeepsJournal(p)
  BY <1>5, SkipKeeps, KeepsJournalKeeps
<1> QED  BY <1>1, <1>2, <1>3, <1>4, <1>5 DEF Works, Falters

LEMMA PatchInvariant == Spec => []Inv
<1>1. Inv /\ [Next]_vars => Inv'
  <2> SUFFICES ASSUME Inv, [Next]_vars  PROVE Inv'
    OBVIOUS
  <2>1. TypeOK'
    BY TypesKept DEF Inv, PatchInv
  <2>2. ASSUME PatchInv'  PROVE Inv'
    BY <2>1, <2>2 DEF Inv, PatchInv, LockInv
  <2>3. CASE UNCHANGED vars
    <3>1. CASE robbed = {}
      BY <2>2, <2>3, <3>1, StutteringKeeps DEF Inv
    <3>2. CASE robbed # {}
      BY <2>1, <2>3, <3>2 DEF Inv, HoldersInv, Holding, Working, vars, lockVars
    <3> QED  BY <3>1, <3>2
  <2>4. ASSUME NEW f \in Files, robbed = {}, Outside(f)
        PROVE  Inv'
    BY <2>1, <2>2, <2>4, OutsideKeeps DEF Inv
  <2>5. ASSUME NEW p \in Procs, Works(p) \/ Falters(p)
        PROVE  Inv'
    <3>1. PatchInv
      BY <2>5 DEF Inv, Works, Falters
    <3> QED  BY <2>1, <2>2, <2>5, <3>1, WorkKeeps
  <2>6. ASSUME NEW p \in Procs, Goes(p) \/ GiveUp(p) \/ LockFails(p) \/ Crash(p), ~Works(p)
        PROVE  Inv'
    BY <2>1, <2>6, LockKeeps, LeavingKeeps DEF Goes
  <2> QED  BY <2>3, <2>4, <2>5, <2>6 DEF Next
<1> QED  BY InitPatch, <1>1, PTL DEF Spec

\* For every number of processes, files, failures and crashes: a patch that is over left its
\* files all as they were or all changed, and success means changed, unless a rollback began
\* with a backup missing or after the journal said committed, or a living process was robbed.
THEOREM PatchesAreAtomic == Spec => []AtomicOnceBackedUp
<1>1. Inv => AtomicOnceBackedUp
  BY DEF Inv, PatchInv, JournalsAreTrue, JournalIsTrue, AtomicOnceBackedUp, Settled, AllOld, AllNew, Kept, Given
<1> QED  BY PatchInvariant, <1>1, PTL

\* What was staged or moved aside is never lost sight of, unless a living process was robbed.
THEOREM ArtefactsAreFound == Spec => []ArtefactsHaveAJournal
<1>1. Inv => ArtefactsHaveAJournal
  BY DEF Inv, PatchInv, Journalled, ArtefactsHaveAJournal
<1> QED  BY PatchInvariant, <1>1, PTL

\* However many wait, die, judge each other's locks and remove them by their path: one
\* process works on the workspace at a time, but for those that were robbed of their lock.
THEOREM OneProcessWorks == Spec => []OneWorker
<1>1. Inv => OneWorker
  <2> SUFFICES ASSUME Inv  PROVE Cardinality(Working \ robbed) <= 1
    BY DEF Inv, OneWorker
  <2>1. Working \ robbed \subseteq {lock}
    BY DEF Inv, HoldersInv, Holding
  <2>2. IsFiniteSet({lock}) /\ Cardinality({lock}) = 1
    BY FS_Singleton
  <2>3. Cardinality(Working \ robbed) <= Cardinality({lock})
    BY <2>1, <2>2, FS_Subset
  <2> QED  BY <2>2, <2>3
<1> QED  BY PatchInvariant, <1>1, PTL
=============================================================================
