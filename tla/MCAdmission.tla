---------------------------- MODULE MCAdmission ----------------------------
(***************************************************************************)
(* The four admission controllers on small instances.                      *)
(***************************************************************************)
EXTENDS Admission

(* Tool calls: five calls of two sessions, three owners and two kinds, under  *)
(* limits that all bite: execute is the scarce kind, one per session.         *)
CONSTANTS a1, a2, a3, b1, b2, A, B, ownA1, ownA2, ownB, Execute, ReadOnly

MC_Tasks == {a1, a2, a3, b1, b2}
MC_SessionOf == (a1 :> A) @@ (a2 :> A) @@ (a3 :> A) @@ (b1 :> B) @@ (b2 :> B)
MC_OwnerOf ==
  (a1 :> ownA1) @@ (a2 :> ownA2) @@ (a3 :> ownA2) @@ (b1 :> ownB) @@ (b2 :> ownB)
MC_KindOf ==
  (a1 :> Execute) @@ (a2 :> Execute) @@ (a3 :> ReadOnly)
    @@ (b1 :> Execute) @@ (b2 :> ReadOnly)
MC_GlobalKindLimit == (Execute :> 2) @@ (ReadOnly :> 2)
MC_SessionKindLimit == (Execute :> 1) @@ (ReadOnly :> 2)

(* Runtimes: three keys for two places, two clients, one key (b1) on the surface *)
(* that is never evicted, and up to four runtimes over time.                     *)
MC_Keys == {a1, a2, b1}
MC_Web == {a1, a2}
MC_Clients == {A, B}

(* Requests: five of two owners and two domains, of all three classes; two may *)
(* run, one of them non-foreground; three may wait; a1 does not.               *)
MC_ClassOf ==
  (a1 :> "foreground") @@ (b1 :> "foreground") @@ (a2 :> "background")
    @@ (a3 :> "background") @@ (b2 :> "internal")
MC_DomainOf == [t \in MC_Tasks |-> IF t = b2 THEN "d2" ELSE "d1"]
MC_Groups == {"all", "nonForeground", "internal"}
MC_Scopes == {"global", "domain", "owner"}
MC_MaxInFlight == [g \in MC_Groups |-> [s \in MC_Scopes |-> IF g = "all" THEN 2 ELSE 1]]
MC_MaxPending ==
  [g \in MC_Groups |-> [s \in MC_Scopes |->
     IF g = "internal" THEN 1 ELSE IF g = "all" /\ s = "global" THEN 3 ELSE 2]]

(* Task runs: five of four tasks under two sets of limits, a narrow one with more *)
(* queue and a wide one with fewer bytes, so that a change of limits leaves the   *)
(* pool over each of them.                                                        *)
MC_RunKey == [r \in MC_Tasks |-> IF r = a2 THEN a1 ELSE r]
MC_RunBytes == [r \in MC_Tasks |-> IF r = a3 THEN 2 ELSE 1]
MC_Narrow == [concurrent |-> 1, queued |-> 3, bytes |-> 3]
MC_RunLimits == {MC_Narrow, [concurrent |-> 2, queued |-> 1, bytes |-> 2]}
=============================================================================
