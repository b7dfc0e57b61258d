--------------------------- MODULE MCSharedFiles ---------------------------
(***************************************************************************)
(* Two files that several processes write, side by side: the lock of a     *)
(* session and the list of schedules. They share nothing, so a behaviour   *)
(* moves one of them, its "part".                                          *)
(***************************************************************************)
EXTENDS SessionLease, Schedules, TLC

(* Three processes, at most three lock files and one crash each: enough for two *)
(* of them to find the same stale lock while a third one works.                *)
CONSTANTS p1, p2, p3

MC_Procs == {p1, p2, p3}
MC_Symmetry == Permutations(MC_Procs)

(* A one-shot, an interval that expires at the end of the clock and a schedule that  *)
(* can be created; any two of a manual run, a user's change and a mishap.            *)
MC_Stored == {1, 2}
MC_Once == {1}
MC_At == <<1, 1, 1>>
MC_Period == <<1, 1, 1>>
MC_Expiry == <<0, 2, 0>>

VARIABLE part

SharedInit == part \in {"lease", "schedules"} /\ Init /\ SchedulesInit

LeaseStep == part = "lease" /\ Next /\ UNCHANGED <<part, scheduleVars>>
ScheduleStep == part = "schedules" /\ SchedulesNext /\ UNCHANGED <<part, vars>>

SharedNext == LeaseStep \/ ScheduleStep

SharedSpec == SharedInit /\ [][SharedNext]_<<part, vars, scheduleVars>>
=============================================================================
