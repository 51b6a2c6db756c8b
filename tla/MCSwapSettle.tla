---------------------------- MODULE MCSwapSettle ----------------------------
EXTENDS SwapSettle

(* Every clock right; or one of the two behind, by up to two of the spans    *)
(* between deadlines.                                                        *)
Clock(t, m) == [w \in Wallets |-> IF w = "taker" THEN t ELSE m]
RightClocks == {Clock(0, 0)}
WrongClocks == {Clock(-2, 0), Clock(0, -1)}

(* A step is cut at any point, but between the taker's claim and its record. *)
ResumedCuts == (Wallets \X Points) \ {<<"taker", "claimed">>}
BsvResumedCuts == ResumedCuts \ {<<w, "commit">> : w \in Bsv}
NoCuts == {}
ClaimCuts == {<<"taker", "claimed">>}
=============================================================================
