----------------------------- MODULE AtomicSwap -----------------------------
(***************************************************************************)
(* What two wallets are promised of a direct swap, whatever happens        *)
(* between them: the taker's lock stands first; the maker's is claimed     *)
(* only while both stand, which gives the secret away; from there the      *)
(* taker's lock can only be claimed, and before it each can only go back.  *)
(***************************************************************************)

Legs == {"taker", "maker"} \* each named for the wallet that pays it

VARIABLE leg \* each leg's lock: not there, standing, or spent and how

TypeOK == leg \in [Legs -> {"open", "locked", "claimed", "refunded"}]

Init == leg = [l \in Legs |-> "open"]

Becomes(l, state) == leg' = [leg EXCEPT ![l] = state]

TakerLocks == leg["taker"] = "open" /\ Becomes("taker", "locked")

MakerLocks == leg["taker"] # "open" /\ leg["maker"] = "open" /\ Becomes("maker", "locked")

\* The taker's claim shows the secret.
TakerClaims ==
    /\ leg["taker"] = "locked"
    /\ leg["maker"] = "locked"
    /\ Becomes("maker", "claimed")

MakerClaims ==
    /\ leg["maker"] = "claimed"
    /\ leg["taker"] = "locked"
    /\ Becomes("taker", "claimed")

Refund(l) ==
    /\ leg["maker"] # "claimed"
    /\ leg[l] = "locked"
    /\ Becomes(l, "refunded")

Next == TakerLocks \/ MakerLocks \/ TakerClaims \/ MakerClaims \/ \E l \in Legs : Refund(l)

Spec == Init /\ [][Next]_leg

\* What follows from the promise: nobody ends up with both sides.
NobodyHoldsBoth ==
    /\ leg["taker"] = "claimed" => leg["maker"] = "claimed"
    /\ leg["maker"] = "claimed" => leg["taker"] \in {"locked", "claimed"}
=============================================================================
