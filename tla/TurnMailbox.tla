---------------------------- MODULE TurnMailbox ----------------------------
(***************************************************************************)
(* The inbox of a session and the turns that consume it:                   *)
(* packages/cli/src/agent/runtime/ActiveTurnMailbox.ts over                *)
(* DurableSteeringInbox.ts, as SessionRuntime.ts drives them. The inbox is *)
(* kept in memory and in a file; that a message was handled is recorded in *)
(* the transcript. Two mutexes matter: enqueue, drain and finish exclude   *)
(* each other (transition), an enqueue's and an acknowledgement's write    *)
(* exclude each other (inbox). The process may crash between any two steps.*)
(***************************************************************************)
EXTENDS Integers, FiniteSets

CONSTANTS
  Inputs,       \* user messages: a new id each, enqueued once
  Completions,  \* background subagent completions: a fixed id, offered again after a restart
  MaxPending,   \* most messages the inbox accepts per origin
  MailCrashes   \* bound: crashes

Messages == Inputs \cup Completions

ASSUME MailboxAssumption ==
  /\ Inputs \cap Completions = {} /\ "nobody" \notin Inputs \cup Completions
  /\ MaxPending \in Nat \ {0} /\ MailCrashes \in Nat

VARIABLES
  disk,      \* the messages of the inbox file
  memory,    \* the messages in the inbox of the running process
  acked,     \* transcript: ids in inbox_acknowledged events
  turn,      \* activeTurn: "none", "open" or "sealed"
  claimed,   \* ids the active turn has taken
  loop,      \* how far the turn is: "fed" once it took its input, then its end
  handing,   \* the ids that its end, or a discard, acknowledges
  adding,    \* the enqueue that holds the transition mutex: [m, step, input, direct]
  offering,  \* the completion that was checked against the transcript, to be enqueued
  settled,   \* completions this process is done with
  sent,      \* inputs that were offered
  crashes,
  accepted   \* history: messages whose sender was told they are accepted

mailVars == <<disk, memory, acked, turn, claimed, loop, handing, adding, offering, settled,
              sent, crashes, accepted>>
turnVars == <<turn, claimed, loop, handing>>
senderVars == <<adding, offering, settled, sent, crashes, accepted>>

Nobody == "nobody"
NoAdding == [m |-> Nobody, step |-> "none", input |-> FALSE, direct |-> FALSE]

Enqueues == [m : Messages \cup {Nobody}, step : {"none", "asked", "writing"},
             input : BOOLEAN, direct : BOOLEAN]

MailTypeOK ==
  /\ disk \subseteq Messages /\ memory \subseteq Messages
  /\ acked \subseteq Messages /\ claimed \subseteq Messages /\ handing \subseteq Messages
  /\ turn \in {"none", "open", "sealed"}
  /\ loop \in {"none", "begun", "fed", "recording", "acknowledging", "persisting", "ended",
              "starting"}
  /\ adding \in Enqueues
  /\ offering \in Completions \cup {Nobody} /\ settled \subseteq Completions
  /\ sent \subseteq Inputs /\ crashes \in 0 .. MailCrashes /\ accepted \subseteq Messages

MailInit ==
  /\ disk = {} /\ memory = {} /\ acked = {}
  /\ turn = "none" /\ claimed = {} /\ loop = "none" /\ handing = {}
  /\ adding = NoAdding /\ offering = Nobody /\ settled = {}
  /\ sent = {} /\ crashes = 0 /\ accepted = {}

TransitionFree == adding = NoAdding
InboxFree == adding.step # "writing" /\ loop # "persisting"
SameOrigin(m) == IF m \in Inputs THEN Inputs ELSE Completions

-----------------------------------------------------------------------------
(* Enqueueing *)

\* enqueue, prepareInputTurn: a message for the turn or before one, or the input of a new
\* turn, which it claims at once if nothing was pending.
Send(m, asInput) ==
  /\ TransitionFree /\ m \in Inputs \ sent
  /\ asInput => turn = "none" /\ loop = "none"
  /\ sent' = sent \cup {m}
  /\ adding' = [m |-> m, step |-> "asked", input |-> asInput, direct |-> memory = {}]
  /\ UNCHANGED <<disk, memory, acked, offering, settled, crashes, accepted, turnVars>>

\* reconcileBackgroundSubagentCompletions: only what the transcript does not show as
\* acknowledged is enqueued.
Offer(c) ==
  /\ offering = Nobody /\ c \in Completions \ settled
  /\ IF c \in acked THEN settled' = settled \cup {c} /\ UNCHANGED offering
     ELSE offering' = c /\ UNCHANGED settled
  /\ UNCHANGED <<disk, memory, acked, adding, sent, crashes, accepted, turnVars>>

EnqueueOffered ==
  /\ TransitionFree /\ offering # Nobody
  /\ adding' = [m |-> offering, step |-> "asked", input |-> FALSE, direct |-> FALSE]
  /\ UNCHANGED <<disk, memory, acked, offering, settled, sent, crashes, accepted, turnVars>>

\* The caller gets its answer; a completion that is in the inbox is settled.
Answered(ok) ==
  /\ adding' = NoAdding
  /\ accepted' = IF ok THEN accepted \cup {adding.m} ELSE accepted
  /\ settled' = IF ok /\ adding.m \in Completions THEN settled \cup {adding.m} ELSE settled
  /\ offering' = IF adding.m = offering THEN Nobody ELSE offering

\* A message already there counts as accepted. Without a turn a message is refused unless
\* its sender asked to have it kept for the next one, and so is what the inbox has no room
\* for.
Refuse ==
  /\ adding.step = "asked"
  /\ \/ adding.m \in Inputs /\ ~adding.input /\ turn = "none" /\ Answered(FALSE)
     \/ /\ adding.m \in memory /\ Answered(TRUE)
     \/ /\ adding.m \notin memory /\ InboxFree
        /\ Cardinality(memory \cap SameOrigin(adding.m)) >= MaxPending
        /\ Answered(FALSE)
  /\ UNCHANGED <<disk, memory, acked, sent, crashes, turnVars>>

\* The file is written first, the memory follows.
EnqueueWrites ==
  /\ adding.step = "asked" /\ adding.m \notin memory /\ InboxFree
  /\ Cardinality(memory \cap SameOrigin(adding.m)) < MaxPending
  /\ disk' = memory \cup {adding.m}
  /\ adding' = [adding EXCEPT !.step = "writing"]
  /\ UNCHANGED <<memory, acked, offering, settled, sent, crashes, accepted, turnVars>>

EnqueueDone ==
  /\ adding.step = "writing"
  /\ memory' = memory \cup {adding.m}
  /\ Answered(TRUE)
  /\ IF adding.input
     THEN /\ turn' = "open"
          /\ claimed' = IF adding.direct THEN {adding.m} ELSE claimed
          /\ loop' = IF adding.direct THEN "fed" ELSE "begun"
     ELSE UNCHANGED <<turn, claimed, loop>>
  /\ UNCHANGED <<disk, acked, sent, crashes, handing>>

-----------------------------------------------------------------------------
(* The turn *)

BeginPendingTurn ==
  /\ TransitionFree /\ turn = "none" /\ loop = "none" /\ memory # {}
  /\ turn' = "open" /\ loop' = "begun"
  /\ UNCHANGED <<disk, memory, acked, claimed, handing, senderVars>>

\* beginTurn, for a goal: synchronous, so it looks at no mutex; the host gives no input turn
\* to a session that runs.
BeginTurn ==
  /\ turn = "none" /\ loop = "none" /\ ~adding.input
  /\ turn' = "open" /\ loop' = "fed"
  /\ UNCHANGED <<disk, memory, acked, claimed, handing, senderVars>>

Drain ==
  /\ TransitionFree /\ turn # "none" /\ loop \in {"begun", "fed"}
  /\ claimed' = claimed \cup memory
  /\ loop' = "fed"
  /\ UNCHANGED <<disk, memory, acked, turn, handing, senderVars>>

\* The turn wants to end: it goes on with what has arrived, or seals.
DrainOrSeal ==
  /\ TransitionFree /\ turn = "open" /\ loop = "fed"
  /\ IF Cardinality(memory) > Cardinality(claimed)
     THEN claimed' = claimed \cup memory /\ UNCHANGED turn
     ELSE turn' = "sealed" /\ UNCHANGED claimed
  /\ UNCHANGED <<disk, memory, acked, loop, handing, senderVars>>

-----------------------------------------------------------------------------
(* Its end *)

\* finishTurn of the runtime, for a completed turn or one whose input is given up (the
\* provider refused it for good): the transcript first, ...
Complete ==
  /\ TransitionFree /\ loop = "fed"
  /\ loop' = "recording" /\ handing' = claimed
  /\ UNCHANGED <<disk, memory, acked, turn, claimed, senderVars>>

\* discardPendingInput of a cancelled task or a destroyed session, whose turn is over or never
\* began: what is pending now is acknowledged the same way, and the mailbox is disposed. The
\* next input turn comes after it.
Discard ==
  /\ loop \in {"none", "begun", "fed"} /\ memory # {} /\ ~adding.input
  /\ loop' = "recording" /\ handing' = memory
  /\ UNCHANGED <<disk, memory, acked, turn, claimed, senderVars>>

RecordCompletion_Later ==   \* mutant of RecordCompletion: the inbox is emptied first
  /\ loop = "recording"
  /\ loop' = "acknowledging"
  /\ UNCHANGED <<disk, memory, acked, turn, claimed, handing, senderVars>>

RecordCompletion ==
  /\ loop = "recording"
  /\ acked' = acked \cup handing
  /\ loop' = IF handing = {} THEN "ended" ELSE "acknowledging"
  /\ UNCHANGED <<disk, memory, turn, claimed, handing, senderVars>>

AcknowledgeMemory_All ==   \* mutant of AcknowledgeMemory: also what arrived since
  /\ loop = "acknowledging" /\ InboxFree
  /\ memory' = {} /\ loop' = "persisting"
  /\ UNCHANGED <<disk, acked, turn, claimed, handing, senderVars>>

\* ... then acknowledge: the memory, then the file.
AcknowledgeMemory ==
  /\ loop = "acknowledging" /\ InboxFree
  /\ memory' = memory \ handing /\ loop' = "persisting"
  /\ UNCHANGED <<disk, acked, turn, claimed, handing, senderVars>>

\* A failed write leaves the file as it was; the turn is finished all the same.
AcknowledgeDisk ==
  /\ loop = "persisting"
  /\ disk' \in {memory, disk} /\ loop' = "ended" /\ handing' = {}
  /\ claimed' = IF disk' = memory THEN claimed \ handing ELSE claimed
  /\ UNCHANGED <<memory, acked, turn, senderVars>>

\* Any other end: the input stays in the inbox.
AbortTurn ==
  /\ loop \in {"begun", "fed", "recording"}
  /\ loop' = "ended" /\ handing' = {}
  /\ UNCHANGED <<disk, memory, acked, turn, claimed, senderVars>>

FinishTurn_KeepClaims(continue) ==   \* mutant of FinishTurn
  /\ TransitionFree /\ loop = "ended"
  /\ IF continue /\ turn # "none" /\ memory # {} THEN turn' = "open" /\ loop' = "begun"
     ELSE turn' = "none" /\ loop' = "none"
  /\ UNCHANGED <<disk, memory, acked, claimed, handing, senderVars>>

\* finishTurn of the mailbox; with continuePending the next turn starts in the same step.
FinishTurn(continue) ==
  /\ TransitionFree /\ loop = "ended"
  /\ claimed' = {}
  /\ IF continue /\ turn # "none" /\ memory # {} THEN turn' = "open" /\ loop' = "begun"
     ELSE turn' = "none" /\ loop' = "none"
  /\ UNCHANGED <<disk, memory, acked, handing, senderVars>>

-----------------------------------------------------------------------------
(* Crash and restart *)

Reloaded_AsIs == disk   \* mutant of Reloaded: the transcript is not consulted

\* loadAndReconcile.
Reloaded == disk \ acked

\* The process dies and another one opens the inbox.
CrashAndRestart ==
  /\ crashes < MailCrashes
  /\ crashes' = crashes + 1
  /\ memory' = Reloaded /\ disk' = Reloaded
  /\ turn' = "none" /\ claimed' = {} /\ loop' = "starting" /\ handing' = {}
  /\ adding' = NoAdding /\ offering' = Nobody
  /\ settled' = {}
  /\ UNCHANGED <<acked, sent, accepted>>

\* initialize ends after it has reconciled the completions it found finished.
Started ==
  /\ loop = "starting" /\ TransitionFree /\ offering = Nobody
  /\ Completions \cap (acked \cup memory) \subseteq settled
  /\ loop' = "none"
  /\ UNCHANGED <<disk, memory, acked, turn, claimed, handing, senderVars>>

Enqueue == EnqueueOffered \/ Refuse \/ EnqueueWrites \/ EnqueueDone
Handle == Complete \/ RecordCompletion \/ AcknowledgeMemory \/ AcknowledgeDisk

MailNext ==
  \/ \E m \in Inputs : Send(m, TRUE) \/ Send(m, FALSE)
  \/ \E c \in Completions : Offer(c)
  \/ Enqueue \/ BeginPendingTurn \/ BeginTurn \/ Discard
  \/ Drain \/ DrainOrSeal \/ Handle \/ AbortTurn
  \/ \E continue \in BOOLEAN : FinishTurn(continue)
  \/ CrashAndRestart \/ Started

MailSpec == MailInit /\ [][MailNext]_mailVars

\* The host begins a turn while messages are pending, the loop drains before it ends, a turn
\* that is ending ends, and not every turn with input is aborted.
FairSpec ==
  /\ MailSpec
  /\ WF_mailVars(Enqueue) /\ WF_mailVars(\E c \in Completions : Offer(c))
  /\ WF_mailVars(Started) /\ WF_mailVars(AcknowledgeMemory) /\ WF_mailVars(AcknowledgeDisk)
  /\ WF_mailVars(loop = "recording" /\ (RecordCompletion \/ AbortTurn))
  /\ SF_mailVars(BeginPendingTurn) /\ SF_mailVars(Drain)
  /\ SF_mailVars(Complete /\ claimed # {}) /\ SF_mailVars(RecordCompletion /\ handing # {})
  /\ SF_mailVars(\E continue \in BOOLEAN : FinishTurn(continue))

-----------------------------------------------------------------------------
(* Properties *)

\* What a sender was told is accepted is on disk, and in the memory of the process that
\* runs, until the transcript says it was handled: no crash loses it.
AcceptedIsKept ==
  /\ MailTypeOK
  /\ \A m \in accepted \ acked : m \in disk /\ m \in memory

\* What the transcript says was handled is never given to a turn again, in this process
\* or after a restart, although file, memory and transcript are written one by one.
HandledOnce ==
  [][(claimed' \ claimed) \cap acked = {}]_mailVars

\* A turn seals only when it has taken everything there is.
SealLeavesNothing ==
  [][turn = "open" /\ turn' = "sealed" => memory \subseteq claimed]_mailVars

\* An accepted message is handled in the end, whichever turns were aborted on the way.
EventuallyHandled == \A m \in Messages : m \in accepted ~> m \in acked
=============================================================================
