--------------------------- MODULE MCWaitingWork ---------------------------
(***************************************************************************)
(* What has to be served in the end, side by side: the messages in the     *)
(* inbox of a session and the schedules of the server. They share nothing, *)
(* so a behaviour moves one of them, its "part".                           *)
(***************************************************************************)
EXTENDS TurnMailbox

(* Three inputs and one background completion; one crash at any step; the inbox *)
(* holds one input, so the next may be refused.                               *)
CONSTANTS m1, m2, m3, c1

MC_Inputs == {m1, m2, m3}
MC_Completions == {c1}

VARIABLES
  part, clock, file, unused, tick, manual, fires, inFlight, chain, copy, outside, events,
  ran, excused

scheduleVars ==
  <<clock, file, unused, tick, manual, fires, inFlight, chain, copy, outside, events, ran, excused>>
allVars == <<part, mailVars, scheduleVars>>

(* A one-shot and an interval that expires at the end of the clock, and one event: a *)
(* manual run, a user's change or a mishap.                                          *)
MC_Stored == {1, 2}
MC_Once == {1}
MC_At == <<1, 1>>
MC_Period == <<1, 1>>
MC_Expiry == <<0, 2>>
Store == INSTANCE Schedules
  WITH Count <- 2, Stored <- MC_Stored, Once <- MC_Once, At <- MC_At, Period <- MC_Period,
       Expiry <- MC_Expiry, MaxTime <- 2, MaxEvents <- 1

InboxStep(action) == part = "inbox" /\ action /\ UNCHANGED <<part, scheduleVars>>
ScheduleStep(action) == part = "schedules" /\ action /\ UNCHANGED <<part, mailVars>>

WorkInit == part \in {"inbox", "schedules"} /\ MailInit /\ Store!SchedulesInit
WorkNext == InboxStep(MailNext) \/ ScheduleStep(Store!SchedulesNext)

\* TurnMailbox!FairSpec and Schedules!SchedulesFairSpec, each in its part.
WorkSpec ==
  /\ WorkInit /\ [][WorkNext]_allVars
  /\ WF_allVars(InboxStep(Enqueue)) /\ WF_allVars(InboxStep(\E m \in Completions : Offer(m)))
  /\ WF_allVars(InboxStep(Started)) /\ WF_allVars(InboxStep(AcknowledgeMemory))
  /\ WF_allVars(InboxStep(AcknowledgeDisk))
  /\ WF_allVars(InboxStep(loop = "recording" /\ (RecordCompletion \/ AbortTurn)))
  /\ SF_allVars(InboxStep(BeginPendingTurn)) /\ SF_allVars(InboxStep(Drain))
  /\ SF_allVars(InboxStep(Complete /\ claimed # {}))
  /\ SF_allVars(InboxStep(RecordCompletion /\ handing # {}))
  /\ SF_allVars(InboxStep(\E continue \in BOOLEAN : FinishTurn(continue)))
  /\ WF_allVars(ScheduleStep(Store!ReadFile \/ Store!Written))
  /\ WF_allVars(ScheduleStep(Store!DispatchEnds))
  /\ WF_allVars(ScheduleStep(Store!TickStart \/ Store!Evaluate \/ Store!TickEnd))

-----------------------------------------------------------------------------
(* Property of the schedules; those of the mailbox have its names *)

\* A schedule whose time has come is fired, disabled or removed: its time moves on.
DueIsServed == Store!DueIsServed
=============================================================================
