----------------------------- MODULE BasketRead -----------------------------
(***************************************************************************)
(* Basket listings of the Collect panel beside the coordinator.  A panel   *)
(* read starts on an idle wallet and, if walletRegionsIdleSince holds at   *)
(* its end, is complete: the cards it lacks are retired.  A replace read   *)
(* is made inside a recompose, after it replaced the database, and its     *)
(* rows replace the cards outright.  Callers share one raw listOutputs,    *)
(* which a timeout cannot cancel.                                          *)
(*                                                                         *)
(* One runtime: an account switch discards the reads in flight             *)
(* (collectablesAccountEpoch), so Rebind is left out here.  The panel      *)
(* already shows cards; without any there is nothing to retire.            *)
(***************************************************************************)
EXTENDS WalletCoordinator

CONSTANTS MaxReads, \* bound: how many listings are asked for
          NoRead

VARIABLES
    raw,     \* collectableBasketReadInFlight
    late,    \* lateBasketRead: the answer of a read whose caller timed out
    caller,  \* listInFlight: the listing that waits for an answer
    verdict, \* the last listing that was judged
    reads

readVars == <<raw, late, caller, verdict, reads>>

WalletRegionsIdle == AllIdle(depth) /\ holds = {}

WalletRegionsIdleSince(g) == generation = g /\ WalletRegionsIdle

RegionBodies == {c \in Calls : pc[c] = "running"}

\* touched is a history variable: the region bodies live while the read ran.
RawRead == [gen : Nat, idle : BOOLEAN, orphan : BOOLEAN, touched : SUBSET Calls]

Listings == [kind : {"panel", "replace"}, gen : Nat, joined : BOOLEAN,
             answer : RawRead \cup {NoRead}]
Verdicts == [kind : {"panel", "replace"}, complete : BOOLEAN, joined : BOOLEAN,
             idle : BOOLEAN, touched : SUBSET Calls]

ASSUME ReadsAssumption ==
    /\ MaxReads \in Nat
    /\ NoRead \notin RawRead /\ NoRead \notin Listings /\ NoRead \notin Verdicts

ReadTypeOK ==
    /\ raw \in RawRead \cup {NoRead}
    /\ late \in RawRead \cup {NoRead}
    /\ caller \in Listings \cup {NoRead}
    /\ verdict \in Verdicts \cup {NoRead}
    /\ reads \in 0..MaxReads

ReadInit ==
    /\ Init
    /\ raw = NoRead /\ late = NoRead /\ caller = NoRead /\ verdict = NoRead
    /\ reads = 0

Asks(kind, joined, answer) ==
    caller' = [kind |-> kind, gen |-> generation, joined |-> joined, answer |-> answer]

JoinRaw(kind) ==
    /\ raw # NoRead
    /\ Asks(kind, TRUE, NoRead)
    /\ UNCHANGED <<raw, late>>

\* Seeded fault: a late answer is reused whatever happened since it began.
ReuseAnyLate(kind) ==
    /\ raw = NoRead /\ late # NoRead
    /\ Asks(kind, FALSE, late)
    /\ late' = NoRead
    /\ UNCHANGED raw

ReuseLate(kind) ==
    /\ raw = NoRead /\ late # NoRead
    /\ WalletRegionsIdleSince(late.gen)
    /\ Asks(kind, FALSE, late)
    /\ late' = NoRead
    /\ UNCHANGED raw

FreshRaw(kind) ==
    /\ raw = NoRead
    /\ late # NoRead => ~WalletRegionsIdleSince(late.gen)
    /\ raw' = [gen |-> generation, idle |-> WalletRegionsIdle, orphan |-> FALSE,
               touched |-> RegionBodies]
    /\ Asks(kind, FALSE, NoRead)
    /\ late' = NoRead

\* listCollectableBasketPage.
BasketPage(kind) ==
    /\ caller = NoRead
    /\ reads < MaxReads
    /\ reads' = reads + 1
    /\ JoinRaw(kind) \/ ReuseLate(kind) \/ FreshRaw(kind)
    /\ UNCHANGED <<vars, verdict>>

\* listCollectables: a read beside a busy wallet is deferred.
PanelRead == WalletRegionsIdle /\ BasketPage("panel")

\* relistCollectablesAfterLocalStateReplace, from a recompose body.
ReplaceRead == RecomposeBodies # {} /\ BasketPage("replace")

\* The raw read answers whoever waits for it.
RawSettles ==
    /\ raw # NoRead
    /\ raw' = NoRead
    /\ late' = IF raw.idle /\ raw.orphan THEN raw ELSE late
    /\ caller' = IF caller # NoRead /\ caller.answer = NoRead
                 THEN [caller EXCEPT !.answer = raw] ELSE caller
    /\ UNCHANGED <<vars, verdict, reads>>

\* Seeded fault: the timeout marks the read but leaves an empty caller behind.
ListTimeoutClearingCaller ==
    /\ caller # NoRead /\ caller.answer = NoRead
    /\ raw' = [raw EXCEPT !.orphan = TRUE]
    /\ caller' = [caller EXCEPT !.kind = "none"]
    /\ UNCHANGED <<vars, late, verdict, reads>>

\* LIST_TIMEOUT_MS: the caller keeps its cards, the raw read goes on.
ListTimeout ==
    /\ caller # NoRead /\ caller.answer = NoRead
    /\ raw' = [raw EXCEPT !.orphan = TRUE]
    /\ caller' = NoRead
    /\ UNCHANGED <<vars, late, verdict, reads>>

\* The listing decides what its page may retire.
Judge ==
    /\ caller # NoRead /\ caller.answer # NoRead
    /\ verdict' = [kind |-> caller.kind,
                   complete |-> WalletRegionsIdleSince(caller.gen),
                   joined |-> caller.joined,
                   idle |-> caller.answer.idle,
                   touched |-> caller.answer.touched]
    /\ caller' = NoRead
    /\ UNCHANGED <<vars, raw, late, reads>>

\* LATE_READ_REUSE_MS.
LateExpires ==
    /\ late # NoRead
    /\ late' = NoRead
    /\ UNCHANGED <<vars, raw, caller, verdict, reads>>

\* Coordinator steps go on during a read; a recompose awaits its own read.
Meanwhile ==
    /\ Next
    /\ epoch' = epoch
    /\ caller # NoRead /\ caller.kind = "replace" => RecomposeBodies' = RecomposeBodies
    /\ raw' = IF raw = NoRead THEN raw
              ELSE [raw EXCEPT !.touched = @ \cup RegionBodies']
    /\ UNCHANGED <<late, caller, verdict, reads>>

ReadNext ==
    \/ PanelRead \/ ReplaceRead
    \/ RawSettles \/ ListTimeout \/ Judge \/ LateExpires
    \/ Meanwhile

ReadSpec == ReadInit /\ [][ReadNext]_<<vars, readVars>>

\* A listing accepted as complete, from a read it started or from a kept late
\* answer, overlapped no region body, however short: the generation moves on
\* every entry, so a send that fits inside one listOutputs call is noticed.
CompleteReadUntouched ==
    verdict # NoRead /\ verdict.kind = "panel" /\ verdict.complete /\ ~verdict.joined
        => verdict.touched = {}

\* Doc claim, collectables.ts: "a page is only the basket's truth when no region
\* was held from before the read to after it (readComplete)".
CompleteReadIsTruth ==
    verdict # NoRead /\ verdict.kind = "panel" /\ verdict.complete
        => verdict.touched = {}

\* Doc claim, relistCollectablesAfterLocalStateReplace: "An ordinary panel read
\* may already be in flight against the pre-restore database.  Let it settle,
\* then perform the one read allowed to replace the stale view".  A read that
\* began on an idle wallet began before the recompose.
ReplaceReadFollowsRestore ==
    verdict # NoRead /\ verdict.kind = "replace" => ~verdict.idle

\* Doc claim, collectables.ts, of recompose, import and sends: "Every such writer
\* holds a coordinator region".  So a read that is idle since its start sees no
\* spend executing.
WritersHoldRegions ==
    raw # NoRead /\ WalletRegionsIdleSince(raw.gen) /\ raw.idle
        => \A c \in SpendCalls : ~BodyLive(c)
=============================================================================
