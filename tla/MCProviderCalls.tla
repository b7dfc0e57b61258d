-------------------------- MODULE MCProviderCalls --------------------------
(* Three requests with two tries each share two permits, so one may have to wait;  *)
(* one of them waits for an open circuit, the others are rejected by it. Two       *)
(* failures open it.                                                               *)
EXTENDS ProviderCalls

CONSTANTS r1, r2, r3

MC_Requests == {r1, r2, r3}
MC_Patient == {r1}
MC_Symmetry == Permutations({r2, r3})
=============================================================================
