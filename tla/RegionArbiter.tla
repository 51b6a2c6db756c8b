--------------------------- MODULE RegionArbiter ---------------------------
(***************************************************************************)
(* What the wallet coordinator promises, with no queues, counters, actors  *)
(* or promises: a set of jobs that are inside the wallet, where            *)
(*   - a chain ingest and a spend may be inside together,                  *)
(*   - any other two jobs exclude each other,                              *)
(*   - an ingest may enter beside a spend only as that spend's own heal,   *)
(*   - a new runtime starts with an empty wallet.                          *)
(***************************************************************************)
CONSTANTS Ingests, Heals, Spends, Histories, Recomposes

Jobs == Ingests \cup Heals \cup Spends \cup Histories \cup Recomposes

VARIABLE inside

\* The pairs the statechart allows to overlap.
Compatible(a, b) ==
    \/ a \in Ingests \cup Heals /\ b \in Spends
    \/ a \in Spends /\ b \in Ingests \cup Heals

Init == inside = {}

Enter(j) ==
    /\ j \notin inside
    /\ \A k \in inside : Compatible(j, k)
    /\ j \in Ingests => inside = {}
    /\ j \in Heals => inside \cap Spends # {}
    /\ inside' = inside \cup {j}

Leave(j) == j \in inside /\ inside' = inside \ {j}

NewRuntime == inside' = {}

Next == (\E j \in Jobs : Enter(j) \/ Leave(j)) \/ NewRuntime

Spec == Init /\ [][Next]_inside

\* No two incompatible jobs are ever inside together: the illegal overlaps
\* listed in the header of walletCoordinatorMachine.ts.
NoIllegalOverlap == \A a, b \in inside : a # b => Compatible(a, b)
=============================================================================
