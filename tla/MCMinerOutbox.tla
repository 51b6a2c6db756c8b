--------------------------- MODULE MCMinerOutbox ---------------------------
(***************************************************************************)
(* Small instances of MinerOutbox for TLC.                                 *)
(***************************************************************************)
EXTENDS MinerOutbox
=============================================================================
