------------------------ MODULE MCWalletCoordinator ------------------------
(***************************************************************************)
(* Small instances of WalletCoordinator for TLC.                           *)
(***************************************************************************)
EXTENDS WalletCoordinator, TLC

\* Calls of one kind are interchangeable.
CallSymmetry == Permutations(IngestCalls) \cup Permutations(SpendCalls)
=============================================================================
