---------------------------- MODULE MCBasketRead ----------------------------
(***************************************************************************)
(* Small instances of BasketRead for TLC: each run's cfg gives the calls.  *)
(***************************************************************************)
EXTENDS BasketRead
=============================================================================
