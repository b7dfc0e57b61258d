------------------------ MODULE MCPatchTransaction ------------------------
EXTENDS PatchTransaction
CONSTANTS p1, p2, p3
MC_Procs == {p1, p2, p3}
MC_Files == 1 .. 3
MC_Existing == {1, 2}
MC_Plans == {<<"keep", "keep", "keep">>, <<"update", "delete", "add">>,
             <<"delete", "add", "update">>}
=============================================================================
