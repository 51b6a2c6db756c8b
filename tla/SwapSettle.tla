----------------------------- MODULE SwapSettle -----------------------------
(***************************************************************************)
(* Wallet-to-wallet settlement of one direct swap (terms v2) of            *)
(* src/src/wallet/swap: two wallets, each serving its own box and carrying *)
(* its own record of the swap one step per pass; the two locks on their    *)
(* chains; the clock both the lock times and the wallets' deadlines are    *)
(* measured on; the claim watchtower and HandCash's fee claimer.           *)
(*                                                                         *)
(* A step that moves coins is cut where the code awaits: what is written   *)
(* before the broadcast, the broadcast, what is written after it. Between  *)
(* two of these the process may stop, or the answer may be lost            *)
(* (Interrupted). Chain facts only grow, so a read that raced a change is  *)
(* a read that saw nothing.                                                *)
(***************************************************************************)
EXTENDS Integers, FiniteSets

CONSTANTS
    Bsv,         \* the legs locked on BSV; the others are on coin chains
    FeeLeg,      \* the leg that carries HandCash's fee output, or "none"
    Clocks,      \* how far off the two wallets' clocks may be
    TakerWindow, \* from here the taker no longer locks
    SeenBy,      \* from here a taker lock was made too late
    FundBy,      \* from here the maker no longer locks
    ClaimBy,     \* from here the taker no longer claims
    T2,          \* from here the maker's lock can be taken back
    T1,          \* from here the taker's lock can be taken back
    End,         \* the clock is followed up to here
    Mute,        \* the reads that may go unanswered
    Lossy,       \* a message may not reach its box, or stay there once read
    Outages,     \* BSV miners may be out of reach: a spend is queued
    Conflicts,   \* a BSV lock may lose one of its coins to another spend
    Short,       \* the wallets that may turn out short of funds
    Cuts,        \* where a step may be cut: wallets with points of a step
    MaxCuts      \* how often

Legs == {"taker", "maker"} \* each named for the wallet that pays it
Wallets == Legs
Peer(w) == CHOOSE p \in Wallets : p # w

Reads == {"lock", "time", "own", "peer", "fee", "clock"}
Points == {"sign", "signed", "prepared", "commit",
           "claim", "claimed", "refund", "refunded", "refundFee", "feeRefunded"}
Outcomes == {"swapped", "refunded", "declined", "expired", "missed", "unsent"}
Waits == {"peer-funding", "peer-burial", "chain-time", "secret", "locktime"}
Phases == {"negotiating", "locking", "locked", "claiming", "refunding",
           "settled", "refunded", "ended", "missed"}
Messages == {"take", "funded", "secret", "stop"} \* stop: decline or abort

ASSUME LegsAssumption ==
    /\ Bsv \subseteq Legs
    /\ FeeLeg \in Legs \cup {"none"}
    /\ Clocks \subseteq [Wallets -> Int]
    /\ Mute \subseteq Reads
    /\ {Lossy, Outages, Conflicts} \subseteq BOOLEAN
    /\ Short \subseteq Wallets
    /\ Cuts \subseteq Wallets \X Points
    /\ MaxCuts \in Nat

ASSUME DeadlinesAssumption ==
    /\ {TakerWindow, SeenBy, FundBy, ClaimBy, T2, T1, End} \subseteq Nat
    /\ 0 < TakerWindow /\ TakerWindow <= SeenBy /\ SeenBy <= FundBy
    /\ FundBy <= ClaimBy /\ ClaimBy < T2 /\ T2 < T1 /\ T1 <= End

VARIABLES
    now,   \* the time since the take, as the chains tell it
    skew,  \* how far each device's clock is off it
    lock,  \* each leg's lock: none, signed (and sent until mined), standing, or dead
    late,  \* the taker's lock was mined after SeenBy
    spend, \* the spend of each lock the network took: none, claimed or refunded
    owed,  \* BSV spends of each lock waiting for a miner
    fee,   \* the fee output: none, open, claimed or refunded
    rec,   \* each wallet's record of the swap (durable)
    pc,    \* where each wallet's running step stands; "idle" between passes
    box,   \* the messages in each wallet's box `swap-settle`
    cuts   \* how often a step was cut

chain == <<lock, late, spend, owed, fee>>
vars == <<now, skew, chain, rec, pc, box, cuts>>

Locktime(l) == IF l = "taker" THEN T1 ELSE T2
Device(w) == now + skew[w]
Lost == IF Lossy THEN {TRUE, FALSE} ELSE {FALSE}
Answered == {Reads \ m : m \in SUBSET Mute}

NewRecord ==
    [known |-> TRUE, declined |-> FALSE, secret |-> FALSE, own |-> "none",
     refunded |-> FALSE, feeSettled |-> FALSE, peer |-> "unseen", claim |-> "none",
     peerGone |-> FALSE, tower |-> FALSE, phase |-> "negotiating", outcome |-> "none"]

Init ==
    /\ now = 0
    /\ skew \in Clocks
    /\ lock = [l \in Legs |-> "none"]
    /\ late = FALSE
    /\ spend = [l \in Legs |-> "none"]
    /\ owed = [l \in Legs |-> {}]
    /\ fee = "none"
    /\ rec = [w \in Wallets |-> [NewRecord EXCEPT !.known = (w = "taker")]]
    /\ pc = [w \in Wallets |-> "idle"]
    /\ box = [w \in Wallets |-> IF w = "maker" THEN {"take"} ELSE {}]
    /\ cuts = 0

-----------------------------------------------------------------------------
(* What a pass learns (settleFacts.ts): findPeerLock, gather, recordFacts. *)

\* A lock whose `funded` notice never came is searched for on its chain; a
\* BSV lock is known only from its notice.
FindsPeerLock(w, heard) ==
    /\ Peer(w) \notin Bsv
    /\ "lock" \in heard
    /\ rec[w].peer = "unseen"
    /\ ~rec[w].declined
    /\ w = "maker" \/ rec[w].own = "funding"
    /\ lock[Peer(w)] \in {"signed", "standing"}

\* The counterparty's lock as this pass sees it. Without a block time a BSV
\* lock cannot be told to be late.
Sighting(w, heard) ==
    LET known == IF FindsPeerLock(w, heard) THEN "announced" ELSE rec[w].peer
        tooLate == /\ w = "maker"
                   /\ rec[w].own # "funding"
                   /\ late
                   /\ Peer(w) \notin Bsv \/ "time" \in heard
    IN  IF known = "announced" /\ "lock" \in heard /\ lock[Peer(w)] = "standing"
        THEN IF tooLate THEN "refused" ELSE "buried"
        ELSE known

ReadsOwnSpend(w, heard) ==
    /\ "own" \in heard
    /\ rec[w].own = "funding"
    /\ ~rec[w].refunded
    /\ (w = "maker" /\ ~rec[w].secret) \/ Device(w) >= Locktime(w)

\* A maker holding the secret races the taker's refund.
ReadsPeerSpend(w, heard) ==
    /\ "peer" \in heard
    /\ w = "maker"
    /\ rec[w].secret
    /\ rec[w].peer \in {"announced", "buried"}
    /\ rec[w].claim # "claimed"
    /\ Device(w) >= Locktime(Peer(w))

ReadsFee(w, heard) ==
    /\ "fee" \in heard
    /\ FeeLeg = w
    /\ rec[w].own = "funding"
    /\ ~rec[w].feeSettled
    /\ rec[w].claim = "claimed" \/ Device(w) >= Locktime(w)

\* The record with what the chain showed written back.
Seen(w, heard) ==
    LET own == ReadsOwnSpend(w, heard)
        peer == ReadsPeerSpend(w, heard)
        r == rec[w]
    IN  [r EXCEPT
            !.peer = Sighting(w, heard),
            !.secret = @ \/ (w = "maker" /\ own /\ spend[w] = "claimed"),
            !.refunded = @ \/ (own /\ spend[w] = "refunded"),
            !.peerGone = @ \/ (peer /\ spend[Peer(w)] = "refunded"),
            !.claim = IF peer /\ spend[Peer(w)] = "claimed" /\ @ = "written" THEN "claimed" ELSE @,
            !.feeSettled = @ \/ (ReadsFee(w, heard) /\ fee \in {"claimed", "refunded"})]

FeeUnspent(w, heard) == ReadsFee(w, heard) /\ fee = "open"

\* Seeded fault: a BSV lock that lost a coin is never told from a slow one.
ProvenUnsentNever(w, heard) == FALSE

\* Only the positive fact counts: a coin of the lock went elsewhere.
ProvenUnsent(w, heard) ==
    /\ "own" \in heard
    /\ w \in Bsv
    /\ rec[w].own = "funding"
    /\ ~rec[w].refunded
    /\ lock[w] = "dead"

-----------------------------------------------------------------------------
(* The one next step (settle.ts, nextSettleStep); `s` is the record as     *)
(* this pass leaves it.                                                    *)

\* Seeded fault: a decline ends the swap of a taker that has locked.
RefundOrWaitDeclined(w, s) ==
    IF s.refunded \/ s.declined THEN "refunded"
    ELSE IF Device(w) >= Locktime(w) THEN "refund" ELSE "locktime"

RefundOrWait(w, s) ==
    IF s.refunded THEN "refunded"
    ELSE IF Device(w) >= Locktime(w) THEN "refund" ELSE "locktime"

\* Seeded fault: the claim deadline is judged by the device's clock alone.
TakerStepByDevice(s, heard) ==
    IF s.own # "funding"
    THEN IF Device("taker") >= TakerWindow THEN "expired" ELSE "fund"
    ELSE IF Device("taker") >= ClaimBy \/ (s.peer \in {"unseen", "refused"} /\ s.declined)
         THEN RefundOrWait("taker", s)
    ELSE IF s.peer \in {"unseen", "refused"} THEN "peer-funding"
    ELSE IF s.peer # "buried" THEN "peer-burial" ELSE "claim"

TakerStep(s, heard) ==
    IF s.own # "funding"
    THEN IF Device("taker") >= TakerWindow THEN "expired" ELSE "fund"
    ELSE IF \/ Device("taker") >= ClaimBy
            \/ s.peer = "buried" /\ "clock" \in heard /\ now >= ClaimBy
            \/ s.peer \in {"unseen", "refused"} /\ s.declined
         THEN RefundOrWait("taker", s)
    ELSE IF s.peer \in {"unseen", "refused"} THEN "peer-funding"
    ELSE IF s.peer # "buried" THEN "peer-burial"
    ELSE IF "clock" \notin heard THEN "chain-time"
    ELSE "claim"

\* Seeded fault: the maker locks against a lock not buried yet.
MakerStepUnburied(s) ==
    IF s.own # "funding"
    THEN IF Device("maker") >= FundBy THEN "expired"
         ELSE IF s.peer \in {"unseen", "refused"}
              THEN IF Device("maker") >= SeenBy THEN "expired" ELSE "peer-funding"
         ELSE "fund"
    ELSE IF s.secret THEN (IF s.peerGone THEN "missed" ELSE "claim")
    ELSE IF s.refunded THEN "refunded"
    ELSE IF Device("maker") >= T2 THEN "refund" ELSE "secret"

MakerStep(s) ==
    IF s.own # "funding"
    THEN IF Device("maker") >= FundBy THEN "expired"
         ELSE IF s.peer \in {"unseen", "refused"}
              THEN IF Device("maker") >= SeenBy THEN "expired" ELSE "peer-funding"
         ELSE IF s.peer # "buried" THEN "peer-burial" ELSE "fund"
    ELSE IF s.secret THEN (IF s.peerGone THEN "missed" ELSE "claim")
    ELSE IF s.refunded THEN "refunded"
    ELSE IF Device("maker") >= T2 THEN "refund" ELSE "secret"

\* Seeded fault: a swap is over at the claim, whatever became of the fee output.
NextSettleStepFeeLeft(w, s, heard) ==
    IF s.claim = "claimed" THEN "swapped"
    ELSE IF s.own = "funding" /\ ProvenUnsent(w, heard) THEN "unsent"
    ELSE IF s.own = "started" THEN "fund"
    ELSE IF s.declined /\ s.own # "funding" THEN "declined"
    ELSE IF w = "taker" THEN TakerStep(s, heard) ELSE MakerStep(s)

NextSettleStep(w, s, heard) ==
    IF s.claim = "claimed"
    THEN IF ~FeeUnspent(w, heard) THEN "swapped"
         ELSE IF Device(w) >= Locktime(w) THEN "refund-fee" ELSE "locktime"
    ELSE IF s.own = "funding" /\ ProvenUnsent(w, heard) THEN "unsent"
    ELSE IF s.own = "started" THEN "fund"
    ELSE IF s.declined /\ s.own # "funding" THEN "declined"
    ELSE IF w = "taker" THEN TakerStep(s, heard) ELSE MakerStep(s)

-----------------------------------------------------------------------------
(* The swap's chart (swapSettleMachine.ts): a step runs only if the chart, *)
(* restored to the recorded phase, takes its event.                        *)

\* Seeded fault: a chart stopped after its lock was recorded is restored as locking.
RestoredLocking(s) == IF s.phase \in {"claiming", "refunding"} THEN "locked" ELSE s.phase

Restored(s) ==
    IF \/ s.phase = "locking" /\ s.own = "funding"
       \/ s.phase \in {"claiming", "refunding"}
    THEN "locked" ELSE s.phase

Takes(phase, step) ==
    /\ step \in {"fund", "declined", "expired"} => phase \in {"negotiating", "locking"}
    /\ step \in {"claim", "refund", "refund-fee", "swapped", "refunded", "missed", "unsent"}
          => phase = "locked"

\* Seeded fault: every outcome but a quiet end names its own phase.
FinalPhaseByName(outcome) == IF outcome \in {"declined", "expired", "unsent"} THEN "ended" ELSE outcome

FinalPhase(outcome) ==
    CASE outcome = "swapped" -> "settled"
      [] outcome \in {"declined", "expired", "unsent"} -> "ended"
      [] OTHER -> outcome

-----------------------------------------------------------------------------
(* Messages.                                                               *)

\* `m` is put in the box of `w`, or lost on the way.
Sends(w, m) == \E lost \in Lost : box' = [box EXCEPT ![w] = IF lost THEN @ ELSE @ \cup {m}]

\* What a message changes in the record of the wallet that reads it (intakeMessage).
Heard(w, m) ==
    LET r == rec[w]
    IN  CASE m = "funded" /\ r.peer = "unseen" -> [r EXCEPT !.peer = "announced"]
          [] m = "secret" /\ w = "maker" -> [r EXCEPT !.secret = TRUE]
          \* Once this wallet has locked, only the taker minds: its lock waits out T1.
          [] m = "stop" /\ (r.own \notin {"funding", "prepared"} \/ w = "taker")
                -> [r EXCEPT !.declined = TRUE]
          [] OTHER -> r

\* The box is read before the swaps are looked at, takes first.
Serving(w, m) ==
    /\ pc[w] = "idle"
    /\ m \in box[w]
    /\ "take" \in box[w] /\ ~rec[w].known => m = "take"

\* A message is gone once acknowledged; an acknowledgement can be lost.
Acked(w, m, b) == \E lost \in Lost : box' = [b EXCEPT ![w] = IF lost THEN @ ELSE @ \ {m}]

\* The maker takes on a take it can still fund, once (intakeTake). A take is
\* judged stale before it is known to be one already taken on.
TakeAccepted ==
    /\ Serving("maker", "take")
    /\ Device("maker") < FundBy
    /\ rec' = [rec EXCEPT !["maker"].known = TRUE]
    /\ Acked("maker", "take", box)
    /\ UNCHANGED <<now, skew, chain, pc, cuts>>

TakeDeclined ==
    /\ Serving("maker", "take")
    /\ Device("maker") >= FundBy \/ (~rec["maker"].known /\ "maker" \in Short)
    /\ \E lost \in Lost :
          Acked("maker", "take", [box EXCEPT !["taker"] = IF lost THEN @ ELSE @ \cup {"stop"}])
    /\ UNCHANGED <<now, skew, chain, rec, pc, cuts>>

\* A message about a swap this wallet has no record of changes nothing.
Intake(w) ==
    /\ \E m \in box[w] \ {"take"} :
          /\ Serving(w, m)
          /\ rec' = [rec EXCEPT ![w] = IF rec[w].known THEN Heard(w, m) ELSE @]
          /\ Acked(w, m, box)
    /\ UNCHANGED <<now, skew, chain, pc, cuts>>

-----------------------------------------------------------------------------
(* A pass (settleRunner.ts, advance).                                      *)

\* A pass of `w` reads what it can, and `step` is next on the record `s`.
Judges(w, heard, s, step) ==
    /\ pc[w] = "idle"
    /\ rec[w].known
    /\ rec[w].outcome = "none"
    /\ s = Seen(w, heard)
    /\ step = NextSettleStep(w, s, heard)
    /\ Takes(Restored(s), step)

\* The record, and the step's phase once the chart took it.
Takenup(w, s, phase) == [rec EXCEPT ![w] = [s EXCEPT !.phase = phase]]

PassWaits(w, heard) ==
    /\ \E s \in {Seen(w, heard)}, step \in Waits :
          /\ Judges(w, heard, s, step)
          \* Waiting for the secret, the maker leaves its claim with a watchtower.
          /\ \E armed \in {s.tower, TRUE} :
                /\ armed = s.tower \/ (step = "secret" /\ s.peer = "buried")
                /\ rec' = Takenup(w, [s EXCEPT !.tower = armed], Restored(s))
          \* Waiting for the other lock, a wallet says again that its own stands.
          /\ IF step = "peer-funding" /\ s.own = "funding"
             THEN Sends(Peer(w), "funded") ELSE UNCHANGED box
    /\ UNCHANGED <<now, skew, chain, pc, cuts>>

\* finish: the counterparty is told when nothing of this wallet's was locked.
PassEnds(w, heard) ==
    /\ \E s \in {Seen(w, heard)}, outcome \in Outcomes :
          /\ Judges(w, heard, s, outcome)
          /\ rec' = Takenup(w, [s EXCEPT !.outcome = outcome], FinalPhase(outcome))
          /\ IF ~s.declined /\ outcome \in {"expired", "unsent"}
             THEN Sends(Peer(w), "stop") ELSE UNCHANGED box
    /\ UNCHANGED <<now, skew, chain, pc, cuts>>

\* A lock that is to be made; the start of a coin lock is written down first.
PassFunds(w, heard) ==
    /\ \E s \in {Seen(w, heard)} :
          /\ Judges(w, heard, s, "fund")
          /\ s.own \in {"none", "prepared"}
          /\ rec' = Takenup(w, [s EXCEPT !.own = IF w \in Bsv THEN @ ELSE "started"], "locking")
          /\ pc' = [pc EXCEPT ![w] = IF s.own = "prepared" THEN "prepared" ELSE "sign"]
    /\ UNCHANGED <<now, skew, chain, box, cuts>>

\* Seeded fault: the coin record is not looked at, and the interrupted start is dropped.
PassResumesBlind(w, heard) ==
    /\ \E s \in {Seen(w, heard)} :
          /\ Judges(w, heard, s, "fund")
          /\ s.own = "started"
          /\ rec' = Takenup(w, [s EXCEPT !.own = "none"], "locking")
    /\ UNCHANGED <<now, skew, chain, pc, box, cuts>>

\* A coin lock was begun before: the coin record holds it if it was signed,
\* else nothing can be out and the swap is judged again.
PassResumesFunding(w, heard) ==
    /\ \E s \in {Seen(w, heard)} :
          /\ Judges(w, heard, s, "fund")
          /\ s.own = "started"
          /\ IF lock[w] = "none"
             THEN /\ rec' = Takenup(w, [s EXCEPT !.own = "none"], "locking")
                  /\ UNCHANGED pc
             ELSE /\ rec' = Takenup(w, s, "locking")
                  /\ pc' = [pc EXCEPT ![w] = "signed"]
    /\ UNCHANGED <<now, skew, chain, box, cuts>>

PassClaims(w, heard) ==
    /\ \E s \in {Seen(w, heard)} :
          /\ Judges(w, heard, s, "claim")
          /\ rec' = Takenup(w, [s EXCEPT !.claim = "written"], "claiming")
          /\ pc' = [pc EXCEPT ![w] = "claim"]
    /\ UNCHANGED <<now, skew, chain, box, cuts>>

PassRefunds(w, heard) ==
    /\ \E which \in {"refund", "refund-fee"} : \E s \in {Seen(w, heard)} :
          /\ Judges(w, heard, s, which)
          /\ rec' = Takenup(w, s, "refunding")
          /\ pc' = [pc EXCEPT ![w] = IF which = "refund" THEN "refund" ELSE "refundFee"]
    /\ UNCHANGED <<now, skew, chain, box, cuts>>

-----------------------------------------------------------------------------
(* The steps that lock (settleSteps.ts, fund and fundOrWithdraw).          *)

\* A coin lock is in the coin record from its signature on, and sent from
\* there until it is mined. A BSV lock is only prepared.
FundSigns(w) ==
    /\ pc[w] = "sign"
    /\ IF w \in Bsv
       THEN /\ rec' = [rec EXCEPT ![w].own = "prepared"]
            /\ pc' = [pc EXCEPT ![w] = "prepared"]
            /\ UNCHANGED <<lock, fee>>
       ELSE /\ lock' = [lock EXCEPT ![w] = "signed"]
            /\ fee' = IF FeeLeg = w THEN "open" ELSE fee
            /\ pc' = [pc EXCEPT ![w] = "signed"]
            /\ UNCHANGED rec
    /\ UNCHANGED <<now, skew, late, spend, owed, box, cuts>>

\* Short, even after the heal: the wallet withdraws from the swap by name.
FundWithdraws(w) ==
    /\ pc[w] = "sign"
    /\ w \in Short
    /\ rec' = [rec EXCEPT ![w].own = "none", ![w].declined = TRUE]
    /\ pc' = [pc EXCEPT ![w] = "idle"]
    /\ Sends(Peer(w), "stop")
    /\ UNCHANGED <<now, skew, chain, cuts>>

\* BSV: the lock is journalled and recorded before it is broadcast.
FundWrites(w) ==
    /\ pc[w] = "prepared"
    /\ rec' = [rec EXCEPT ![w].own = "funding"]
    /\ pc' = [pc EXCEPT ![w] = "commit"]
    /\ UNCHANGED <<now, skew, chain, box, cuts>>

FundCommits(w) ==
    /\ pc[w] = "commit"
    /\ lock' = [lock EXCEPT ![w] = "signed"]
    /\ fee' = IF FeeLeg = w THEN "open" ELSE fee
    /\ pc' = [pc EXCEPT ![w] = "signed"]
    /\ UNCHANGED <<now, skew, late, spend, owed, rec, box, cuts>>

FundRecords(w) ==
    /\ pc[w] = "signed"
    /\ rec' = [rec EXCEPT ![w].own = "funding", ![w].phase = "locked"]
    /\ pc' = [pc EXCEPT ![w] = "idle"]
    /\ Sends(Peer(w), "funded")
    /\ UNCHANGED <<now, skew, chain, cuts>>

-----------------------------------------------------------------------------
(* The steps that spend a lock (claim, refund). A lock's payer can take it *)
(* back, with the fee output beside it, from its lock time on.             *)

Spendable(l, kind) ==
    /\ lock[l] = "standing"
    /\ kind # "claim" => now >= Locktime(l)
    /\ kind # "refundFee" => spend[l] = "none"
    /\ (kind # "claim" /\ FeeLeg = l /\ ~rec[l].feeSettled) => fee = "open"

\* The network already has this very spend (a re-signed one is the same).
AlreadySpent(l, kind) ==
    CASE kind = "claim" -> spend[l] = "claimed"
      [] kind = "refund" -> spend[l] = "refunded"
      [] kind = "refundFee" -> fee = "refunded"

Spends(l, kind) ==
    /\ Spendable(l, kind)
    /\ spend' = CASE kind = "claim" -> [spend EXCEPT ![l] = "claimed"]
                  [] kind = "refund" -> [spend EXCEPT ![l] = "refunded"]
                  [] kind = "refundFee" -> spend
    /\ fee' = IF kind # "claim" /\ FeeLeg = l /\ fee = "open" THEN "refunded" ELSE fee

\* A spend is committed: taken by the network, or on BSV queued for a miner.
Commits(l, kind) ==
    \/ AlreadySpent(l, kind) /\ UNCHANGED <<spend, fee, owed>>
    \/ Spends(l, kind) /\ UNCHANGED owed
    \/ /\ Outages
       /\ l \in Bsv
       /\ owed' = [owed EXCEPT ![l] = @ \cup {kind}]
       /\ UNCHANGED <<spend, fee>>

Stands(w, point) == pc[w] = point
GoesTo(w, point) == pc' = [pc EXCEPT ![w] = point]

ClaimSends(w) ==
    /\ Stands(w, "claim")
    /\ Commits(Peer(w), "claim")
    /\ GoesTo(w, "claimed")
    /\ UNCHANGED <<now, skew, lock, late, rec, box, cuts>>

\* The taker hands the maker the secret: a courtesy, not retried.
ClaimRecords(w) ==
    /\ Stands(w, "claimed")
    /\ rec' = [rec EXCEPT ![w].claim = "claimed", ![w].phase = "locked"]
    /\ GoesTo(w, "idle")
    /\ IF w = "taker" THEN Sends("maker", "secret") ELSE UNCHANGED box
    /\ UNCHANGED <<now, skew, chain, cuts>>

RefundSends(w) ==
    /\ \E kind \in {"refund", "refundFee"} :
          /\ Stands(w, kind)
          /\ Commits(w, kind)
          /\ GoesTo(w, IF kind = "refund" THEN "refunded" ELSE "feeRefunded")
    /\ UNCHANGED <<now, skew, lock, late, rec, box, cuts>>

RefundRecords(w) ==
    /\ \E point \in {"refunded", "feeRefunded"} :
          /\ Stands(w, point)
          /\ rec' = [rec EXCEPT ![w].refunded = @ \/ point = "refunded",
                                ![w].feeSettled = @ \/ FeeLeg = w,
                                ![w].phase = "locked"]
    /\ GoesTo(w, "idle")
    /\ UNCHANGED <<now, skew, chain, box, cuts>>

\* The network refuses the spend: another was first, or its time has not come.
SpendRefused(w) ==
    /\ \E kind \in {"claim", "refund", "refundFee"} :
          LET l == IF kind = "claim" THEN Peer(w) ELSE w
          IN  Stands(w, kind) /\ ~AlreadySpent(l, kind) /\ ~Spendable(l, kind)
    /\ rec' = [rec EXCEPT ![w].phase = "locked"]
    /\ GoesTo(w, "idle")
    /\ UNCHANGED <<now, skew, chain, box, cuts>>

\* The process stops, the network does not answer, or a write is refused: the
\* step ends where it stands, and the next pass starts from the record.
Interrupted(w) ==
    /\ <<w, pc[w]>> \in Cuts
    /\ cuts < MaxCuts
    /\ cuts' = cuts + 1
    /\ GoesTo(w, "idle")
    /\ UNCHANGED <<now, skew, chain, rec, box>>

-----------------------------------------------------------------------------
(* The chains, the miners' queue, HandCash's fee claimer, the watchtower.  *)

LockMined(l) ==
    /\ lock[l] = "signed"
    /\ lock' = [lock EXCEPT ![l] = "standing"]
    /\ late' = (late \/ (l = "taker" /\ now >= SeenBy))
    /\ UNCHANGED <<now, skew, spend, owed, fee, rec, pc, box, cuts>>

LockDies(l) ==
    /\ Conflicts
    /\ l \in Bsv
    /\ lock[l] = "signed"
    /\ lock' = [lock EXCEPT ![l] = "dead"]
    /\ UNCHANGED <<now, skew, late, spend, owed, fee, rec, pc, box, cuts>>

\* A queued spend reaches a miner; one that can never be mined stays queued.
QueueSends(l) ==
    /\ \E kind \in owed[l] :
          /\ Spends(l, kind)
          /\ owed' = [owed EXCEPT ![l] = @ \ {kind}]
    /\ UNCHANGED <<now, skew, lock, late, rec, pc, box, cuts>>

FeeClaims ==
    /\ fee = "open"
    /\ spend["maker"] = "claimed"
    /\ lock[FeeLeg] = "standing"
    /\ fee' = "claimed"
    /\ UNCHANGED <<now, skew, lock, late, spend, owed, rec, pc, box, cuts>>

TowerClaims ==
    /\ rec["maker"].tower
    /\ spend["maker"] = "claimed"
    /\ Spends("taker", "claim")
    /\ UNCHANGED <<now, skew, lock, late, owed, rec, pc, box, cuts>>

\* Assumed of the three hours between ClaimBy and T2: a claim that was begun
\* before them reaches the chain within them.
PromptClaim == now + 1 = T2 => pc["taker"] # "claim" /\ "claim" \notin owed["maker"]

Tick ==
    /\ now < End
    /\ PromptClaim
    /\ now' = now + 1
    /\ UNCHANGED <<skew, chain, rec, pc, box, cuts>>

-----------------------------------------------------------------------------

Pass(w, heard) ==
    \/ PassWaits(w, heard) \/ PassEnds(w, heard)
    \/ PassFunds(w, heard) \/ PassResumesFunding(w, heard)
    \/ PassClaims(w, heard) \/ PassRefunds(w, heard)

Funding(w) ==
    FundSigns(w) \/ FundWithdraws(w) \/ FundWrites(w) \/ FundCommits(w) \/ FundRecords(w)

Spending(w) ==
    ClaimSends(w) \/ ClaimRecords(w) \/ RefundSends(w) \/ RefundRecords(w) \/ SpendRefused(w)

Chains ==
    \/ \E l \in Legs : LockMined(l) \/ LockDies(l) \/ QueueSends(l)
    \/ FeeClaims \/ TowerClaims

Next ==
    \/ TakeAccepted \/ TakeDeclined
    \/ \E w \in Wallets :
          \/ Intake(w)
          \/ \E heard \in Answered : Pass(w, heard)
          \/ Funding(w) \/ Spending(w) \/ Interrupted(w)
    \/ Chains
    \/ Tick

Spec == Init /\ [][Next]_vars

\* Both wallets keep being opened and their reads answered now and then, a
\* step begun goes on, what is sent is mined, and time passes. Nothing is
\* assumed of the fee claimer, of the watchtower, or of when a wallet runs.
Fairness ==
    /\ WF_vars(TakeAccepted \/ TakeDeclined)
    /\ \A w \in Wallets :
          /\ WF_vars(Intake(w))
          /\ SF_vars(Pass(w, Reads))
          /\ WF_vars(Funding(w) \/ Spending(w))
    /\ \A l \in Legs : WF_vars(LockMined(l)) /\ WF_vars(QueueSends(l))
    /\ WF_vars(Tick)

FairSpec == Spec /\ Fairness
-----------------------------------------------------------------------------
(* Properties.                                                             *)

Records ==
    [known : BOOLEAN, declined : BOOLEAN, secret : BOOLEAN,
     own : {"none", "started", "prepared", "funding"},
     refunded : BOOLEAN, feeSettled : BOOLEAN,
     peer : {"unseen", "announced", "refused", "buried"},
     claim : {"none", "written", "claimed"},
     peerGone : BOOLEAN, tower : BOOLEAN,
     phase : Phases, outcome : Outcomes \cup {"none"}]

\* Every variable has its type.
TypeOK ==
    /\ now \in 0 .. End
    /\ skew \in Clocks
    /\ lock \in [Legs -> {"none", "signed", "standing", "dead"}]
    /\ late \in BOOLEAN
    /\ spend \in [Legs -> {"none", "claimed", "refunded"}]
    /\ owed \in [Legs -> SUBSET {"claim", "refund", "refundFee"}]
    /\ fee \in {"none", "open", "claimed", "refunded"}
    /\ rec \in [Wallets -> Records]
    /\ pc \in [Wallets -> Points \cup {"idle"}]
    /\ box \in [Wallets -> SUBSET Messages]
    /\ cuts \in 0 .. MaxCuts

\* What an outcome says of the chain, as the type SettleOutcome states it.
OutcomeHolds(w) ==
    CASE rec[w].outcome = "swapped" -> spend[Peer(w)] = "claimed" \/ "claim" \in owed[Peer(w)]
      [] rec[w].outcome = "refunded" -> spend[w] # "claimed"
      [] rec[w].outcome \in {"declined", "expired"} -> lock[w] = "none"
      [] rec[w].outcome = "missed" -> spend[w] = "claimed" /\ spend[Peer(w)] = "refunded"
      [] rec[w].outcome = "unsent" -> lock[w] = "dead"
      [] OTHER -> TRUE

\* An ended swap is over: what its outcome says of the locks is so, and stays
\* so (no lock turns up after a decline or an expiry, and a lock recorded as
\* taken back was not claimed).
OutcomesHold == \A w \in Wallets : OutcomeHolds(w)

\* The chart never refuses the step the facts call for: it would be refused
\* again on every later pass, and the swap would stand still.
ChartTakesTheStep ==
    \A w \in Wallets, heard \in Answered :
        (pc[w] = "idle" /\ rec[w].known /\ rec[w].outcome = "none")
            => LET s == Seen(w, heard)
               IN  Takes(Restored(s), NextSettleStep(w, s, heard))

\* The taker's claim, which shows the secret, is never sent once the maker may
\* take its lock back, whichever of the two clocks is wrong.
ClaimInTime == [][spend["maker"]' = "claimed" /\ spend["maker"] = "none" => now < T2]_vars

\* A payer's swap is over only when its fee output is spent, or its spend is
\* owed by a miner (a lock that never reached the chain has none).
FeeNotLeft ==
    (FeeLeg \in Wallets /\ rec[FeeLeg].outcome # "none" /\ fee = "open")
        => owed[FeeLeg] \cap {"refund", "refundFee"} # {} \/ lock[FeeLeg] = "dead"

\* The two wallets and their chains keep the promise of an atomic swap.
SwapLeg(l) ==
    IF spend[l] # "none" THEN spend[l] ELSE IF lock[l] = "standing" THEN "locked" ELSE "open"
Promise == INSTANCE AtomicSwap WITH
    leg <- [l \in Legs |-> SwapLeg(l)]
AtomicPromise == Promise!Spec

\* Every swap a wallet took on ends.
EverySwapEnds == \A w \in Wallets : rec[w].known ~> rec[w].outcome # "none"

\* No lock is left standing: each is claimed, or goes back to its payer.
EveryLockIsSpent == \A l \in Legs : lock[l] = "standing" ~> spend[l] # "none"
=============================================================================
