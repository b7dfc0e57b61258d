----------------------------- MODULE MCToolCalls -----------------------------
(* The main agent calls a Task, whose subagent edits path 1, patches 1 and 2 and     *)
(* asks the user, which is exclusive; another session patches 2 and 1. One permit    *)
(* for read-only tools: the Task can hold the only one its subagent could use.       *)
EXTENDS ToolCalls

CONSTANTS task, ask, edit, patch, otherPatch, main, sub, other

MC_Calls == {task, ask, edit, patch, otherPatch}
MC_Executors == {main, sub, other}
MC_ExecutorOf == [t \in MC_Calls |-> IF t = task THEN main
                                     ELSE IF t = otherPatch THEN other ELSE sub]
MC_Shared == {task, edit, patch, otherPatch}
MC_Quotas == {<<{task, ask}, 1>>, <<MC_Calls, 3>>}
MC_Editors == {edit, patch, otherPatch}
MC_Paths == 1 .. 2
MC_Given == edit :> <<1>> @@ patch :> <<1, 2>> @@ otherPatch :> <<2, 1>>
MC_Parent == [t \in MC_Calls |-> IF t \in {ask, edit, patch} THEN task ELSE NoCall]
=============================================================================
