---------------------------- MODULE MCAgentTurn ----------------------------
(***************************************************************************)
(* The tool calls of a turn and the questions they ask the user, side by   *)
(* side: here they share nothing, so a behaviour moves one of the two, its *)
(* "part".                                                                 *)
(***************************************************************************)
EXTENDS ToolTurn, Interactions, TLC

CONSTANTS q1, q2, m1

\* Three calls in an answer, one more than may run.
MC_Kinds == {"read", "shared", "exclusive", "malformed"}

\* Two calls that ask, of which one may be left over from before the crash; one message,
\* which also resumes the session if it was left over. Two answers, which may be for the
\* same call; one event stream.
MC_Asking == {q1, q2}
MC_Inputs == {m1}
MC_Symmetry == Permutations(MC_Asking)

VARIABLE part

TurnInit == part \in {"tools", "questions"} /\ Init /\ QuestionsInit

TurnNext ==
  \/ part = "tools" /\ Next /\ UNCHANGED <<part, questionVars>>
  \/ part = "questions" /\ QuestionsNext /\ UNCHANGED <<part, vars>>

TurnSpec == TurnInit /\ [][TurnNext]_<<part, vars, questionVars>>
=============================================================================
