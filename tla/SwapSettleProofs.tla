--------------------------- MODULE SwapSettleProofs ---------------------------
(***************************************************************************)
(* Proofs about SwapSettle, for every choice of chains, deadlines, clocks  *)
(* and disturbances: its variables have their types, and the chart of a    *)
(* swap takes the step its facts call for.                                 *)
(***************************************************************************)
EXTENDS SwapSettle, TLAPS

----------------------------------------------------------------------------
(* Types *)

LEMMA Peers == Peer("taker") = "maker" /\ Peer("maker") = "taker"
BY DEF Peer, Wallets, Legs

LEMMA PeerType == ASSUME NEW w \in Wallets PROVE Peer(w) \in Wallets
BY Peers DEF Wallets, Legs

LEMMA NewRecordType == NewRecord \in Records
BY DEF NewRecord, Records, Phases, Outcomes

LEMMA SightingType ==
    ASSUME TypeOK, NEW w \in Wallets, NEW heard
    PROVE  /\ Sighting(w, heard) \in {"unseen", "announced", "refused", "buried"}
           /\ Sighting(w, heard) = "buried" => rec[w].peer = "buried" \/ lock[Peer(w)] = "standing"
<1>1. rec[w] \in Records
  BY DEF TypeOK
<1>2. rec[w].peer \in {"unseen", "announced", "refused", "buried"}
  BY <1>1 DEF Records
<1> QED BY <1>2 DEF Sighting

\* What a pass writes back of what the chain showed it.
LEMMA SeenFacts ==
    ASSUME TypeOK, NEW w \in Wallets, NEW heard
    PROVE  /\ Seen(w, heard) \in Records
           /\ Seen(w, heard).own = rec[w].own
           /\ Seen(w, heard).known = rec[w].known
           /\ Seen(w, heard).phase = rec[w].phase
           /\ Seen(w, heard).outcome = rec[w].outcome
           /\ Seen(w, heard).refunded => rec[w].refunded \/ spend[w] = "refunded"
           /\ Seen(w, heard).peerGone => rec[w].peerGone \/ spend[Peer(w)] = "refunded"
           /\ Seen(w, heard).claim # rec[w].claim =>
                 /\ rec[w].claim = "written" /\ Seen(w, heard).claim = "claimed" /\ spend[Peer(w)] = "claimed"
                 /\ w = "maker" /\ Device(w) >= Locktime("taker")
           /\ Seen(w, heard).feeSettled => rec[w].feeSettled \/ (FeeLeg = w /\ fee \in {"claimed", "refunded"})
           /\ w = "taker" => Seen(w, heard).claim = rec[w].claim
           /\ Seen(w, heard).secret => rec[w].secret \/ (w = "maker" /\ spend[w] = "claimed")
           /\ Seen(w, heard).peer = "buried" => rec[w].peer = "buried" \/ lock[Peer(w)] = "standing"
<1> DEFINE r == rec[w]
           own == ReadsOwnSpend(w, heard)
           peer == ReadsPeerSpend(w, heard)
           secret == r.secret \/ (w = "maker" /\ own /\ spend[w] = "claimed")
           refunded == r.refunded \/ (own /\ spend[w] = "refunded")
           peerGone == r.peerGone \/ (peer /\ spend[Peer(w)] = "refunded")
           claim == IF peer /\ spend[Peer(w)] = "claimed" /\ r.claim = "written" THEN "claimed" ELSE r.claim
           feeSettled == r.feeSettled \/ (ReadsFee(w, heard) /\ fee \in {"claimed", "refunded"})
<1>1. r \in Records
  BY DEF TypeOK
<1>2. /\ secret \in BOOLEAN /\ refunded \in BOOLEAN /\ peerGone \in BOOLEAN /\ feeSettled \in BOOLEAN
  OBVIOUS
<1>3. /\ claim \in {"none", "written", "claimed"}
      /\ w = "taker" => claim = r.claim
      /\ claim # r.claim => /\ r.claim = "written" /\ claim = "claimed" /\ spend[Peer(w)] = "claimed"
                            /\ w = "maker" /\ Device(w) >= Locktime("taker")
  BY <1>1, Peers DEF Records, ReadsPeerSpend
<1>4. Seen(w, heard) = [r EXCEPT !.peer = Sighting(w, heard), !.secret = secret, !.refunded = refunded,
                                 !.peerGone = peerGone, !.claim = claim, !.feeSettled = feeSettled]
  BY DEF Seen
<1>5. /\ secret => r.secret \/ (w = "maker" /\ spend[w] = "claimed")
      /\ refunded => r.refunded \/ spend[w] = "refunded"
      /\ peerGone => r.peerGone \/ spend[Peer(w)] = "refunded"
      /\ feeSettled => r.feeSettled \/ (FeeLeg = w /\ fee \in {"claimed", "refunded"})
  BY DEF ReadsFee
<1> HIDE DEF secret, refunded, peerGone, claim, feeSettled, r
<1>6. /\ Seen(w, heard) \in Records
      /\ Seen(w, heard).own = r.own /\ Seen(w, heard).known = r.known
      /\ Seen(w, heard).claim = claim /\ Seen(w, heard).secret = secret
      /\ Seen(w, heard).peer = Sighting(w, heard)
      /\ Seen(w, heard).phase = r.phase /\ Seen(w, heard).outcome = r.outcome
      /\ Seen(w, heard).refunded = refunded /\ Seen(w, heard).peerGone = peerGone
      /\ Seen(w, heard).feeSettled = feeSettled
  <2> DEFINE r1 == [r EXCEPT !.peer = Sighting(w, heard)]
             r2 == [r1 EXCEPT !.secret = secret]
             r3 == [r2 EXCEPT !.refunded = refunded]
             r4 == [r3 EXCEPT !.peerGone = peerGone]
             r5 == [r4 EXCEPT !.claim = claim]
             r6 == [r5 EXCEPT !.feeSettled = feeSettled]
  <2>0. Seen(w, heard) = r6
    BY <1>4
  <2>1. /\ r1 \in Records /\ r1.peer = Sighting(w, heard) /\ r1.own = r.own /\ r1.known = r.known
        /\ r1.phase = r.phase /\ r1.outcome = r.outcome
    BY <1>1, SightingType DEF Records
  <2> HIDE DEF r1
  <2>2. /\ r2 \in Records /\ r2.peer = r1.peer /\ r2.own = r1.own /\ r2.known = r1.known
        /\ r2.phase = r1.phase /\ r2.outcome = r1.outcome
        /\ r2.secret = secret
    BY <1>2, <2>1 DEF Records
  <2> HIDE DEF r2
  <2>3. /\ r3 \in Records /\ r3.peer = r2.peer /\ r3.own = r2.own /\ r3.known = r2.known
        /\ r3.phase = r2.phase /\ r3.outcome = r2.outcome /\ r3.refunded = refunded
        /\ r3.secret = r2.secret
    BY <1>2, <2>2 DEF Records
  <2> HIDE DEF r3
  <2>4. /\ r4 \in Records /\ r4.peer = r3.peer /\ r4.own = r3.own /\ r4.known = r3.known
        /\ r4.phase = r3.phase /\ r4.outcome = r3.outcome /\ r4.refunded = r3.refunded /\ r4.peerGone = peerGone
        /\ r4.secret = r3.secret
    BY <1>2, <2>3 DEF Records
  <2> HIDE DEF r4
  <2>5. /\ r5 \in Records /\ r5.peer = r4.peer /\ r5.own = r4.own /\ r5.known = r4.known
        /\ r5.phase = r4.phase /\ r5.outcome = r4.outcome /\ r5.refunded = r4.refunded /\ r5.peerGone = r4.peerGone
        /\ r5.secret = r4.secret /\ r5.claim = claim
    BY <1>3, <2>4 DEF Records
  <2> HIDE DEF r5
  <2>6. /\ r6 \in Records /\ r6.peer = r5.peer /\ r6.own = r5.own /\ r6.known = r5.known
        /\ r6.phase = r5.phase /\ r6.outcome = r5.outcome /\ r6.refunded = r5.refunded /\ r6.peerGone = r5.peerGone
        /\ r6.secret = r5.secret /\ r6.claim = r5.claim
        /\ r6.feeSettled = feeSettled
    BY <1>2, <2>5 DEF Records
  <2> QED BY <2>0, <2>1, <2>2, <2>3, <2>4, <2>5, <2>6
<1> QED BY <1>3, <1>5, <1>6, SightingType DEF r

LEMMA ChartTypes ==
    ASSUME NEW s \in Records, NEW outcome \in Outcomes
    PROVE  Restored(s) \in Phases /\ FinalPhase(outcome) \in Phases
BY DEF Restored, FinalPhase, Records, Phases, Outcomes

LEMMA TakenupType ==
    ASSUME TypeOK, NEW w \in Wallets, NEW s \in Records, NEW phase \in Phases
    PROVE  /\ Takenup(w, s, phase) \in [Wallets -> Records]
           /\ Takenup(w, s, phase)[w] = [s EXCEPT !.phase = phase]
           /\ \A v \in Wallets \ {w} : Takenup(w, s, phase)[v] = rec[v]
<1>1. [s EXCEPT !.phase = phase] \in Records
  BY DEF Records
<1> QED BY <1>1 DEF Takenup, TypeOK

LEMMA TakenupFields ==
    ASSUME TypeOK, NEW w \in Wallets, NEW s \in Records, NEW phase \in Phases
    PROVE  /\ Takenup(w, s, phase)[w].own = s.own /\ Takenup(w, s, phase)[w].claim = s.claim
           /\ Takenup(w, s, phase)[w].secret = s.secret /\ Takenup(w, s, phase)[w].peer = s.peer
           /\ Takenup(w, s, phase)[w].refunded = s.refunded
           /\ Takenup(w, s, phase)[w].peerGone = s.peerGone
           /\ Takenup(w, s, phase)[w].feeSettled = s.feeSettled
           /\ Takenup(w, s, phase)[w].outcome = s.outcome /\ Takenup(w, s, phase)[w].phase = phase
           /\ \A v \in Wallets \ {w} : Takenup(w, s, phase)[v] = rec[v]
<1> DEFINE t == [s EXCEPT !.phase = phase]
<1>1. /\ t.own = s.own /\ t.claim = s.claim /\ t.secret = s.secret /\ t.peer = s.peer
      /\ t.refunded = s.refunded /\ t.peerGone = s.peerGone /\ t.feeSettled = s.feeSettled /\ t.outcome = s.outcome
      /\ t.phase = phase
  BY DEF Records
<1> HIDE DEF t
<1>2. Takenup(w, s, phase)[w] = t
  BY TakenupType DEF t
<1>3. \A v \in Wallets \ {w} : Takenup(w, s, phase)[v] = rec[v]
  BY DEF Takenup, TypeOK
<1> QED BY <1>1, <1>2, <1>3

LEMMA SendsType ==
    ASSUME TypeOK, NEW w \in Wallets, NEW m \in Messages, Sends(w, m)
    PROVE  box' \in [Wallets -> SUBSET Messages]
BY DEF Sends, TypeOK

LEMMA AckedType ==
    ASSUME NEW b \in [Wallets -> SUBSET Messages], NEW w \in Wallets, NEW m, Acked(w, m, b)
    PROVE  box' \in [Wallets -> SUBSET Messages]
BY DEF Acked

LEMMA HeardType ==
    ASSUME TypeOK, NEW w \in Wallets, NEW m
    PROVE  /\ Heard(w, m) \in Records
           /\ Heard(w, m).own = rec[w].own /\ Heard(w, m).claim = rec[w].claim
           /\ Heard(w, m).phase = rec[w].phase /\ Heard(w, m).outcome = rec[w].outcome
           /\ Heard(w, m).refunded = rec[w].refunded /\ Heard(w, m).peerGone = rec[w].peerGone
           /\ Heard(w, m).feeSettled = rec[w].feeSettled
           /\ Heard(w, m).secret => rec[w].secret \/ (m = "secret" /\ w = "maker")
           /\ Heard(w, m).peer = "buried" => rec[w].peer = "buried"
<1> DEFINE r == rec[w]
           s == Heard(w, m)
<1>1. r \in Records
  BY DEF TypeOK
<1> HIDE DEF r
<1>2. \/ s = [r EXCEPT !.declined = TRUE]
      \/ s = [r EXCEPT !.peer = "announced"] /\ r.peer = "unseen"
      \/ s = [r EXCEPT !.secret = TRUE] /\ m = "secret" /\ w = "maker"
      \/ s = r
  BY DEF Heard, r
<1> HIDE DEF s
<1>3. /\ s \in Records /\ s.own = r.own /\ s.claim = r.claim
      /\ s.phase = r.phase /\ s.outcome = r.outcome
      /\ s.refunded = r.refunded /\ s.peerGone = r.peerGone /\ s.feeSettled = r.feeSettled
      /\ s.secret => r.secret \/ (m = "secret" /\ w = "maker")
      /\ s.peer = "buried" => r.peer = "buried"
  BY <1>1, <1>2 DEF Records
<1> QED BY <1>3 DEF r, s

LEMMA CommitsType ==
    ASSUME TypeOK, NEW l \in Legs, NEW kind \in {"claim", "refund", "refundFee"}, Commits(l, kind)
    PROVE  /\ spend' \in [Legs -> {"none", "claimed", "refunded"}]
           /\ owed' \in [Legs -> SUBSET {"claim", "refund", "refundFee"}]
           /\ fee' \in {"none", "open", "claimed", "refunded"}
<1>1. CASE UNCHANGED <<spend, fee, owed>>
  BY <1>1 DEF TypeOK
<1>2. CASE Spends(l, kind) /\ UNCHANGED owed
  BY <1>2 DEF Spends, TypeOK
<1>3. CASE owed' = [owed EXCEPT ![l] = @ \cup {kind}] /\ UNCHANGED <<spend, fee>>
  BY <1>3 DEF TypeOK
<1> QED BY <1>1, <1>2, <1>3 DEF Commits

\* A record stays one when a field of it is written.
LEMMA FieldType ==
    ASSUME NEW r \in Records, NEW b \in BOOLEAN
    PROVE  /\ [r EXCEPT !.known = b] \in Records
           /\ [r EXCEPT !.refunded = b] \in Records
           /\ [r EXCEPT !.feeSettled = b] \in Records
           /\ [r EXCEPT !.phase = "locked"] \in Records
<1>1. "locked" \in Phases
  BY DEF Phases
<1>2. [r EXCEPT !.known = b] \in Records
  BY DEF Records
<1>3. [r EXCEPT !.refunded = b] \in Records
  BY DEF Records
<1>4. [r EXCEPT !.feeSettled = b] \in Records
  BY DEF Records
<1>5. [r EXCEPT !.phase = "locked"] \in Records
  BY <1>1 DEF Records
<1> QED BY <1>2, <1>3, <1>4, <1>5

LEMMA TakeAcceptedType ==
    ASSUME TypeOK, TakeAccepted
    PROVE  TypeOK'
<1>1. rec' \in [Wallets -> Records]
  <2> DEFINE r == [rec["maker"] EXCEPT !.known = TRUE]
  <2>1. r \in Records
    BY FieldType DEF TypeOK, Wallets, Legs
  <2>2. rec' = [rec EXCEPT !["maker"] = r]
    BY DEF TakeAccepted
  <2> HIDE DEF r
  <2> QED BY <2>1, <2>2 DEF TypeOK
<1>2. box' \in [Wallets -> SUBSET Messages]
  BY AckedType DEF TakeAccepted, TypeOK, Wallets, Legs
<1> QED BY <1>1, <1>2 DEF TakeAccepted, TypeOK, chain

LEMMA TakeDeclinedType ==
    ASSUME TypeOK, TakeDeclined
    PROVE  TypeOK'
<1>1. box' \in [Wallets -> SUBSET Messages]
  <2>1. \A lost \in Lost : [box EXCEPT !["taker"] = IF lost THEN @ ELSE @ \cup {"stop"}] \in [Wallets -> SUBSET Messages]
    BY DEF TypeOK, Wallets, Legs, Messages
  <2> QED BY <2>1, AckedType DEF TakeDeclined, Wallets, Legs
<1> QED BY <1>1 DEF TakeDeclined, TypeOK, chain

LEMMA IntakeType ==
    ASSUME TypeOK, NEW w \in Wallets, Intake(w)
    PROVE  TypeOK'
<1>1. rec' \in [Wallets -> Records]
  <2> PICK m \in box[w] \ {"take"} : rec' = [rec EXCEPT ![w] = IF rec[w].known THEN Heard(w, m) ELSE @]
    BY DEF Intake
  <2> QED BY HeardType DEF TypeOK
<1>2. box' \in [Wallets -> SUBSET Messages]
  BY AckedType DEF Intake, TypeOK
<1> QED BY <1>1, <1>2 DEF Intake, TypeOK, chain

LEMMA PassWaitsType ==
    ASSUME TypeOK, NEW w \in Wallets, NEW heard \in Answered, PassWaits(w, heard)
    PROVE  TypeOK'
<1> DEFINE s == Seen(w, heard)
<1>1. s \in Records /\ Restored(s) \in Phases
  BY SeenFacts, ChartTypes DEF Outcomes
<1>2. s.tower \in BOOLEAN
  BY <1>1 DEF Records
<1>3. rec' \in [Wallets -> Records]
  <2> PICK armed \in {s.tower, TRUE} : rec' = Takenup(w, [s EXCEPT !.tower = armed], Restored(s))
    BY DEF PassWaits
  <2> HIDE DEF s
  <2>1. [s EXCEPT !.tower = armed] \in Records
    BY <1>1, <1>2 DEF Records
  <2> QED BY <1>1, <2>1, TakenupType
<1>4. box' \in [Wallets -> SUBSET Messages]
  <2>1. CASE Sends(Peer(w), "funded")
    BY <2>1, PeerType, SendsType DEF Messages
  <2>2. CASE UNCHANGED box
    BY <2>2 DEF TypeOK
  <2> QED BY <2>1, <2>2 DEF PassWaits
<1> QED BY <1>3, <1>4 DEF PassWaits, TypeOK, chain

LEMMA PassEndsType ==
    ASSUME TypeOK, NEW w \in Wallets, NEW heard \in Answered, PassEnds(w, heard)
    PROVE  TypeOK'
<1> DEFINE s == Seen(w, heard)
<1>1. s \in Records
  BY SeenFacts
<1>2. rec' \in [Wallets -> Records]
  <2> PICK outcome \in Outcomes : rec' = Takenup(w, [s EXCEPT !.outcome = outcome], FinalPhase(outcome))
    BY DEF PassEnds
  <2> HIDE DEF s
  <2>1. [s EXCEPT !.outcome = outcome] \in Records
    BY <1>1 DEF Records
  <2> QED BY <1>1, <2>1, ChartTypes, TakenupType
<1>3. box' \in [Wallets -> SUBSET Messages]
  <2>1. CASE Sends(Peer(w), "stop")
    BY <2>1, PeerType, SendsType DEF Messages
  <2>2. CASE UNCHANGED box
    BY <2>2 DEF TypeOK
  <2> QED BY <2>1, <2>2 DEF PassEnds
<1> QED BY <1>2, <1>3 DEF PassEnds, TypeOK, chain

LEMMA PassFundsType ==
    ASSUME TypeOK, NEW w \in Wallets, NEW heard \in Answered, PassFunds(w, heard)
    PROVE  TypeOK'
<1> DEFINE s == Seen(w, heard)
<1>1. s \in Records
  BY SeenFacts
<1>2. rec' \in [Wallets -> Records]
  <2>1. [s EXCEPT !.own = IF w \in Bsv THEN @ ELSE "started"] \in Records /\ "locking" \in Phases
    <3> HIDE DEF s
    <3> QED BY <1>1 DEF Records, Phases
  <2>2. rec' = Takenup(w, [s EXCEPT !.own = IF w \in Bsv THEN @ ELSE "started"], "locking")
    BY DEF PassFunds
  <2> HIDE DEF s
  <2> QED BY <2>1, <2>2, TakenupType
<1>3. pc' \in [Wallets -> Points \cup {"idle"}]
  BY DEF PassFunds, TypeOK, Points
<1> QED BY <1>2, <1>3 DEF PassFunds, TypeOK, chain

LEMMA PassResumesFundingType ==
    ASSUME TypeOK, NEW w \in Wallets, NEW heard \in Answered, PassResumesFunding(w, heard)
    PROVE  TypeOK'
<1> DEFINE s == Seen(w, heard)
<1>1. s \in Records
  BY SeenFacts
<1>2. rec' \in [Wallets -> Records]
  <2>1. [s EXCEPT !.own = "none"] \in Records /\ "locking" \in Phases
    <3> HIDE DEF s
    <3> QED BY <1>1 DEF Records, Phases
  <2>2. \/ rec' = Takenup(w, [s EXCEPT !.own = "none"], "locking")
        \/ rec' = Takenup(w, s, "locking")
    BY DEF PassResumesFunding
  <2> HIDE DEF s
  <2>3. Takenup(w, [s EXCEPT !.own = "none"], "locking") \in [Wallets -> Records]
    BY <2>1, TakenupType
  <2>4. Takenup(w, s, "locking") \in [Wallets -> Records]
    BY <1>1, <2>1, TakenupType
  <2> QED BY <2>2, <2>3, <2>4
<1>3. pc' \in [Wallets -> Points \cup {"idle"}]
  BY DEF PassResumesFunding, TypeOK, Points
<1> QED BY <1>2, <1>3 DEF PassResumesFunding, TypeOK, chain

LEMMA PassClaimsType ==
    ASSUME TypeOK, NEW w \in Wallets, NEW heard \in Answered, PassClaims(w, heard)
    PROVE  TypeOK'
<1> DEFINE s == Seen(w, heard)
<1>1. s \in Records
  BY SeenFacts
<1>2. rec' \in [Wallets -> Records]
  <2>1. [s EXCEPT !.claim = "written"] \in Records /\ "claiming" \in Phases
    <3> HIDE DEF s
    <3> QED BY <1>1 DEF Records, Phases
  <2>2. rec' = Takenup(w, [s EXCEPT !.claim = "written"], "claiming")
    BY DEF PassClaims
  <2> HIDE DEF s
  <2> QED BY <2>1, <2>2, TakenupType
<1>3. pc' \in [Wallets -> Points \cup {"idle"}]
  BY DEF PassClaims, TypeOK, Points
<1> QED BY <1>2, <1>3 DEF PassClaims, TypeOK, chain

LEMMA PassRefundsType ==
    ASSUME TypeOK, NEW w \in Wallets, NEW heard \in Answered, PassRefunds(w, heard)
    PROVE  TypeOK'
<1> DEFINE s == Seen(w, heard)
<1>1. s \in Records
  BY SeenFacts
<1>2. rec' \in [Wallets -> Records]
  <2>1. s \in Records /\ "refunding" \in Phases
    <3> HIDE DEF s
    <3> QED BY <1>1 DEF Records, Phases
  <2>2. rec' = Takenup(w, s, "refunding")
    BY DEF PassRefunds
  <2> HIDE DEF s
  <2> QED BY <2>1, <2>2, TakenupType
<1>3. pc' \in [Wallets -> Points \cup {"idle"}]
  BY DEF PassRefunds, TypeOK, Points
<1> QED BY <1>2, <1>3 DEF PassRefunds, TypeOK, chain

LEMMA FundSignsType ==
    ASSUME TypeOK, NEW w \in Wallets, FundSigns(w)
    PROVE  TypeOK'
<1>1. rec' \in [Wallets -> Records]
  <2> DEFINE r == [rec[w] EXCEPT !.own = "prepared"]
  <2>1. r \in Records
    BY DEF TypeOK, Records
  <2>2. rec' = rec \/ rec' = [rec EXCEPT ![w] = r]
    BY DEF FundSigns
  <2> HIDE DEF r
  <2> QED BY <2>1, <2>2 DEF TypeOK
<1>2. pc' \in [Wallets -> Points \cup {"idle"}]
  BY DEF FundSigns, TypeOK, Points
<1>3. lock' \in [Legs -> {"none", "signed", "standing", "dead"}]
  BY DEF FundSigns, TypeOK
<1>4. fee' \in {"none", "open", "claimed", "refunded"}
  BY DEF FundSigns, TypeOK
<1> QED BY <1>1, <1>2, <1>3, <1>4 DEF FundSigns, TypeOK

LEMMA FundWithdrawsType ==
    ASSUME TypeOK, NEW w \in Wallets, FundWithdraws(w)
    PROVE  TypeOK'
<1>1. rec' \in [Wallets -> Records]
  <2> DEFINE r == [rec[w] EXCEPT !.own = "none"]
  <2>1. r \in Records
    BY DEF TypeOK, Records
  <2>2. [r EXCEPT !.declined = TRUE] \in Records
    <3> HIDE DEF r
    <3> QED BY <2>1 DEF Records, Phases
  <2>3. rec' = [rec EXCEPT ![w] = [r EXCEPT !.declined = TRUE]]
    BY DEF FundWithdraws, TypeOK, Records
  <2> HIDE DEF r
  <2> QED BY <2>2, <2>3 DEF TypeOK
<1>2. box' \in [Wallets -> SUBSET Messages]
  BY PeerType, SendsType DEF FundWithdraws, Messages
<1> QED BY <1>1, <1>2 DEF FundWithdraws, TypeOK, chain, Points

LEMMA FundWritesType ==
    ASSUME TypeOK, NEW w \in Wallets, FundWrites(w)
    PROVE  TypeOK'
BY DEF FundWrites, TypeOK, Records, Points, chain

LEMMA FundCommitsType ==
    ASSUME TypeOK, NEW w \in Wallets, FundCommits(w)
    PROVE  TypeOK'
BY DEF FundCommits, TypeOK, Points

LEMMA FundRecordsType ==
    ASSUME TypeOK, NEW w \in Wallets, FundRecords(w)
    PROVE  TypeOK'
<1>1. rec' \in [Wallets -> Records]
  <2> DEFINE r == [rec[w] EXCEPT !.own = "funding"]
  <2>1. r \in Records
    BY DEF TypeOK, Records
  <2>2. [r EXCEPT !.phase = "locked"] \in Records
    <3> HIDE DEF r
    <3> QED BY <2>1 DEF Records, Phases
  <2>3. rec' = [rec EXCEPT ![w] = [r EXCEPT !.phase = "locked"]]
    BY DEF FundRecords, TypeOK, Records
  <2> HIDE DEF r
  <2> QED BY <2>2, <2>3 DEF TypeOK
<1>2. box' \in [Wallets -> SUBSET Messages]
  BY PeerType, SendsType DEF FundRecords, Messages
<1> QED BY <1>1, <1>2 DEF FundRecords, TypeOK, chain, Points

LEMMA ClaimSendsType ==
    ASSUME TypeOK, NEW w \in Wallets, ClaimSends(w)
    PROVE  TypeOK'
<1>1. Peer(w) \in Legs
  BY PeerType DEF Wallets
<1>2. pc' \in [Wallets -> Points \cup {"idle"}]
  BY DEF ClaimSends, GoesTo, TypeOK, Points
<1> QED BY <1>1, <1>2, CommitsType DEF ClaimSends, TypeOK

LEMMA ClaimRecordsType ==
    ASSUME TypeOK, NEW w \in Wallets, ClaimRecords(w)
    PROVE  TypeOK'
<1>1. rec' \in [Wallets -> Records]
  <2> DEFINE r == [rec[w] EXCEPT !.claim = "claimed"]
  <2>1. r \in Records
    BY DEF TypeOK, Records
  <2>2. [r EXCEPT !.phase = "locked"] \in Records
    <3> HIDE DEF r
    <3> QED BY <2>1 DEF Records, Phases
  <2>3. rec' = [rec EXCEPT ![w] = [r EXCEPT !.phase = "locked"]]
    BY DEF ClaimRecords, TypeOK, Records
  <2> HIDE DEF r
  <2> QED BY <2>2, <2>3 DEF TypeOK
<1>2. box' \in [Wallets -> SUBSET Messages]
  <2>1. CASE Sends("maker", "secret")
    BY <2>1, SendsType DEF Messages, Wallets, Legs
  <2>2. CASE UNCHANGED box
    BY <2>2 DEF TypeOK
  <2> QED BY <2>1, <2>2 DEF ClaimRecords
<1> QED BY <1>1, <1>2 DEF ClaimRecords, GoesTo, TypeOK, chain, Points

LEMMA RefundSendsType ==
    ASSUME TypeOK, NEW w \in Wallets, RefundSends(w)
    PROVE  TypeOK'
<1>1. w \in Legs
  BY DEF Wallets
<1>2. pc' \in [Wallets -> Points \cup {"idle"}]
  BY DEF RefundSends, GoesTo, TypeOK, Points
<1> QED BY <1>1, <1>2, CommitsType DEF RefundSends, TypeOK

LEMMA RefundRecordsType ==
    ASSUME TypeOK, NEW w \in Wallets, RefundRecords(w)
    PROVE  TypeOK'
<1>1. rec' \in [Wallets -> Records]
  <2> PICK point \in {"refunded", "feeRefunded"} :
        rec' = [rec EXCEPT ![w].refunded = @ \/ point = "refunded", ![w].feeSettled = @ \/ FeeLeg = w,
                           ![w].phase = "locked"]
    BY DEF RefundRecords
  <2> DEFINE a == rec[w].refunded \/ point = "refunded"
             b == rec[w].feeSettled \/ FeeLeg = w
  <2>1. a \in BOOLEAN /\ b \in BOOLEAN /\ rec[w] \in Records
    BY DEF TypeOK
  <2> DEFINE r1 == [rec[w] EXCEPT !.refunded = a]
             r2 == [r1 EXCEPT !.feeSettled = b]
             r3 == [r2 EXCEPT !.phase = "locked"]
  <2>2. rec' = [rec EXCEPT ![w] = r3]
    BY DEF TypeOK
  <2> HIDE DEF a, b
  <2>3. r1 \in Records
    BY <2>1, FieldType
  <2> HIDE DEF r1
  <2>4. r2 \in Records
    BY <2>1, <2>3, FieldType
  <2> HIDE DEF r2
  <2>5. r3 \in Records
    BY <2>4, FieldType
  <2> HIDE DEF r3
  <2> QED BY <2>2, <2>5 DEF TypeOK
<1> QED BY <1>1 DEF RefundRecords, GoesTo, TypeOK, chain, Points

LEMMA SpendRefusedType ==
    ASSUME TypeOK, NEW w \in Wallets, SpendRefused(w)
    PROVE  TypeOK'
<1>1. rec' \in [Wallets -> Records]
  <2> DEFINE r == [rec[w] EXCEPT !.phase = "locked"]
  <2>1. r \in Records
    BY FieldType DEF TypeOK
  <2>2. rec' = [rec EXCEPT ![w] = r]
    BY DEF SpendRefused
  <2> HIDE DEF r
  <2> QED BY <2>1, <2>2 DEF TypeOK
<1>2. pc' \in [Wallets -> Points \cup {"idle"}]
  BY DEF SpendRefused, GoesTo, TypeOK, Points
<1> QED BY <1>1, <1>2 DEF SpendRefused, TypeOK, chain

LEMMA InterruptedType ==
    ASSUME TypeOK, NEW w \in Wallets, Interrupted(w)
    PROVE  TypeOK'
BY LegsAssumption DEF Interrupted, GoesTo, TypeOK, chain

LEMMA LockMinedType ==
    ASSUME TypeOK, NEW l \in Legs, LockMined(l)
    PROVE  TypeOK'
BY DEF LockMined, TypeOK

LEMMA LockDiesType ==
    ASSUME TypeOK, NEW l \in Legs, LockDies(l)
    PROVE  TypeOK'
BY DEF LockDies, TypeOK

LEMMA QueueSendsType ==
    ASSUME TypeOK, NEW l \in Legs, QueueSends(l)
    PROVE  TypeOK'
BY DEF QueueSends, Spends, TypeOK

LEMMA FeeClaimsType ==
    ASSUME TypeOK, FeeClaims
    PROVE  TypeOK'
BY DEF FeeClaims, TypeOK

LEMMA TowerClaimsType ==
    ASSUME TypeOK, TowerClaims
    PROVE  TypeOK'
BY DEF TowerClaims, Spends, TypeOK, Legs

LEMMA TickType ==
    ASSUME TypeOK, Tick
    PROVE  TypeOK'
BY DeadlinesAssumption DEF Tick, TypeOK, chain

LEMMA TypeInit == Init => TypeOK
<1> SUFFICES ASSUME Init PROVE TypeOK
  OBVIOUS
<1>1. rec \in [Wallets -> Records]
  <2>1. \A known \in BOOLEAN : [NewRecord EXCEPT !.known = known] \in Records
    BY NewRecordType DEF Records
  <2> QED BY <2>1 DEF Init
<1>2. box \in [Wallets -> SUBSET Messages]
  BY DEF Init, Wallets, Legs, Messages
<1>3. now \in 0 .. End /\ cuts \in 0 .. MaxCuts
  BY DeadlinesAssumption, LegsAssumption DEF Init
<1> QED BY <1>1, <1>2, <1>3 DEF Init, TypeOK

LEMMA TypeStep == TypeOK /\ [Next]_vars => TypeOK'
<1> SUFFICES ASSUME TypeOK, [Next]_vars PROVE TypeOK'
  OBVIOUS
<1>0. CASE UNCHANGED vars
  BY <1>0 DEF vars, chain, TypeOK
<1>1. CASE TakeAccepted
  BY <1>1, TakeAcceptedType
<1>2. CASE TakeDeclined
  BY <1>2, TakeDeclinedType
<1>3. CASE \E w \in Wallets : Intake(w)
  BY <1>3, IntakeType
<1>4. CASE \E w \in Wallets : \E heard \in Answered : PassWaits(w, heard)
  BY <1>4, PassWaitsType
<1>5. CASE \E w \in Wallets : \E heard \in Answered : PassEnds(w, heard)
  BY <1>5, PassEndsType
<1>6. CASE \E w \in Wallets : \E heard \in Answered : PassFunds(w, heard)
  BY <1>6, PassFundsType
<1>7. CASE \E w \in Wallets : \E heard \in Answered : PassResumesFunding(w, heard)
  BY <1>7, PassResumesFundingType
<1>8. CASE \E w \in Wallets : \E heard \in Answered : PassClaims(w, heard)
  BY <1>8, PassClaimsType
<1>9. CASE \E w \in Wallets : \E heard \in Answered : PassRefunds(w, heard)
  BY <1>9, PassRefundsType
<1>10. CASE \E w \in Wallets : FundSigns(w)
  BY <1>10, FundSignsType
<1>11. CASE \E w \in Wallets : FundWithdraws(w)
  BY <1>11, FundWithdrawsType
<1>12. CASE \E w \in Wallets : FundWrites(w)
  BY <1>12, FundWritesType
<1>13. CASE \E w \in Wallets : FundCommits(w)
  BY <1>13, FundCommitsType
<1>14. CASE \E w \in Wallets : FundRecords(w)
  BY <1>14, FundRecordsType
<1>15. CASE \E w \in Wallets : ClaimSends(w)
  BY <1>15, ClaimSendsType
<1>16. CASE \E w \in Wallets : ClaimRecords(w)
  BY <1>16, ClaimRecordsType
<1>17. CASE \E w \in Wallets : RefundSends(w)
  BY <1>17, RefundSendsType
<1>18. CASE \E w \in Wallets : RefundRecords(w)
  BY <1>18, RefundRecordsType
<1>19. CASE \E w \in Wallets : SpendRefused(w)
  BY <1>19, SpendRefusedType
<1>20. CASE \E w \in Wallets : Interrupted(w)
  BY <1>20, InterruptedType
<1>21. CASE \E l \in Legs : LockMined(l)
  BY <1>21, LockMinedType
<1>22. CASE \E l \in Legs : LockDies(l)
  BY <1>22, LockDiesType
<1>23. CASE \E l \in Legs : QueueSends(l)
  BY <1>23, QueueSendsType
<1>24. CASE FeeClaims
  BY <1>24, FeeClaimsType
<1>25. CASE TowerClaims
  BY <1>25, TowerClaimsType
<1>26. CASE Tick
  BY <1>26, TickType
<1> QED BY <1>0, <1>1, <1>2, <1>3, <1>4, <1>5, <1>6, <1>7, <1>8, <1>9, <1>10, <1>11, <1>12, <1>13, <1>14, <1>15, <1>16, <1>17, <1>18, <1>19, <1>20, <1>21, <1>22, <1>23, <1>24, <1>25, <1>26 DEF Next, Pass, Funding, Spending, Chains

\* Every variable of the settlement keeps its type, for every choice of chains,
\* deadlines, clocks and disturbances (settleRunner.ts: the record of a swap).
THEOREM SwapTypes == Spec => []TypeOK
BY TypeInit, TypeStep, PTL DEF Spec

----------------------------------------------------------------------------
(* The chart takes the step the facts call for *)

\* Where the chart stands beside the record: a lock that is recorded is past the
\* negotiation, and what a step is about to write leaves it so.
Charted(w) ==
    /\ pc[w] # "idle" => rec[w].outcome = "none"
    /\ rec[w].claim # "none" => rec[w].own = "funding"
    /\ rec[w].outcome = "none" =>
          /\ rec[w].phase \in {"negotiating", "locking", "locked", "claiming", "refunding"}
          /\ rec[w].own = "funding" => rec[w].phase # "negotiating"
          /\ rec[w].own # "funding" => rec[w].phase \in {"negotiating", "locking"}
    /\ pc[w] \in {"sign", "prepared"} => rec[w].own # "funding" /\ rec[w].phase = "locking"
    /\ pc[w] \in {"commit", "signed"} => rec[w].phase = "locking"
    /\ pc[w] \in Points \ {"sign", "prepared", "signed"} => rec[w].own = "funding"
Charts == \A w \in Wallets : Charted(w)

\* A wallet whose place in the chart a step leaves alone.
Unmoved(v) ==
    /\ rec'[v].own = rec[v].own /\ rec'[v].claim = rec[v].claim
    /\ rec'[v].phase = rec[v].phase /\ rec'[v].outcome = rec[v].outcome
    /\ pc'[v] = pc[v]

LEMMA UnmovedCharts == ASSUME Charts, NEW v \in Wallets, Unmoved(v) PROVE Charted(v)'
BY DEF Charts, Charted, Unmoved

LEMMA ChartsButOne ==
    ASSUME Charts, NEW w \in Wallets, \A v \in Wallets \ {w} : Unmoved(v), Charted(w)'
    PROVE  Charts'
BY UnmovedCharts DEF Charts

\* A step is called for where its lock is recorded, or where it is not.
Locked == {"claim", "refund", "refund-fee", "swapped", "refunded", "missed", "unsent"}
Unlocked == {"fund", "declined", "expired"}

LEMMA StepFits ==
    ASSUME TypeOK, Charts, NEW w \in Wallets, NEW heard
    PROVE  LET s == Seen(w, heard)
               step == NextSettleStep(w, s, heard)
           IN  /\ step \in Locked \cup Unlocked \cup Waits
               /\ step \in Locked => s.own = "funding"
               /\ step \in Unlocked => s.own # "funding"
<1> DEFINE s == Seen(w, heard)
<1>1. s.claim = "claimed" => s.own = "funding"
  BY SeenFacts DEF Charts, Charted
<1> HIDE DEF s
<1>2. \A v \in Wallets : /\ RefundOrWait(v, s) \in {"refunded", "refund", "locktime"}
  BY DEF RefundOrWait
<1>3. /\ TakerStep(s, heard) \in {"expired", "fund"} => s.own # "funding"
      /\ TakerStep(s, heard) \notin {"expired", "fund"} => s.own = "funding"
      /\ TakerStep(s, heard) \in {"expired", "fund", "claim", "refunded", "refund"} \cup Waits
  BY <1>2 DEF TakerStep, Waits, Wallets, Legs
<1>4. /\ MakerStep(s) \in {"expired", "fund"} => s.own # "funding"
      /\ MakerStep(s) \in {"claim", "refunded", "refund", "missed"} => s.own = "funding"
      /\ MakerStep(s) \in {"expired", "fund", "claim", "refunded", "refund", "missed"} \cup Waits
  BY DEF MakerStep, Waits
<1>5. CASE s.claim = "claimed"
  BY <1>1, <1>5 DEF NextSettleStep, Locked, Unlocked, Waits, s
<1>6. CASE s.claim # "claimed"
  <2> DEFINE step == NextSettleStep(w, s, heard)
  <2>1. \/ step = "unsent" /\ s.own = "funding"
        \/ step = "fund" /\ s.own # "funding"
        \/ step = "declined" /\ s.own # "funding"
        \/ step = TakerStep(s, heard)
        \/ step = MakerStep(s)
    BY <1>6 DEF NextSettleStep
  <2> HIDE DEF step
  <2>2. /\ step \in Locked \cup Unlocked \cup Waits
        /\ step \in Locked => s.own = "funding"
        /\ step \in Unlocked => s.own # "funding"
    BY <2>1, <1>3, <1>4 DEF Locked, Unlocked, Waits
  <2> QED BY <2>2 DEF step, s
<1> QED BY <1>5, <1>6

\* The chart of a swap that goes on is restored to where its record puts it.
LEMMA RestoredFits ==
    ASSUME TypeOK, Charts, NEW w \in Wallets, NEW heard, rec[w].outcome = "none"
    PROVE  LET s == Seen(w, heard)
           IN  /\ Restored(s) \in {"negotiating", "locking", "locked"}
               /\ s.own = "funding" <=> Restored(s) = "locked"
BY SeenFacts DEF Charts, Charted, Restored

LEMMA ChartsTake == ASSUME TypeOK, Charts PROVE ChartTakesTheStep
<1> SUFFICES ASSUME NEW w \in Wallets, NEW heard \in Answered, rec[w].outcome = "none"
             PROVE  Takes(Restored(Seen(w, heard)), NextSettleStep(w, Seen(w, heard), heard))
  BY DEF ChartTakesTheStep
<1> DEFINE s == Seen(w, heard)
           step == NextSettleStep(w, s, heard)
<1>1. /\ step \in Locked \cup Unlocked \cup Waits
      /\ step \in Locked => s.own = "funding"
      /\ step \in Unlocked => s.own # "funding"
  BY StepFits
<1>2. Restored(s) \in {"negotiating", "locking", "locked"} /\ (s.own = "funding" <=> Restored(s) = "locked")
  BY RestoredFits
<1> HIDE DEF s, step
<1>3. Takes(Restored(s), step)
  BY <1>1, <1>2 DEF Takes, Locked, Unlocked, Waits
<1> QED BY <1>3 DEF s, step

LEMMA ChartsInit == Init => Charts
<1> SUFFICES ASSUME Init, NEW w \in Wallets PROVE Charted(w)
  BY DEF Charts
<1>1. /\ rec[w].own = "none" /\ rec[w].claim = "none"
      /\ rec[w].phase = "negotiating" /\ rec[w].outcome = "none"
  BY DEF Init, NewRecord
<1> QED BY <1>1 DEF Init, Charted, Points

\* What a pass that is judged leaves of the place in the chart.
LEMMA JudgedCharts ==
    ASSUME TypeOK, Charts, NEW w \in Wallets, NEW heard, NEW s, NEW step, Judges(w, heard, s, step)
    PROVE  /\ s \in Records /\ s.own = rec[w].own /\ s.outcome = "none" /\ pc[w] = "idle"
           /\ s.claim # "none" => s.own = "funding"
           /\ Restored(s) \in {"negotiating", "locking", "locked"}
           /\ s.own = "funding" <=> Restored(s) = "locked"
           /\ step \in Locked => s.own = "funding"
           /\ step \in Unlocked => s.own # "funding"
<1>1. s = Seen(w, heard) /\ rec[w].outcome = "none" /\ step = NextSettleStep(w, s, heard) /\ pc[w] = "idle"
  BY DEF Judges
<1> QED BY <1>1, SeenFacts, StepFits, RestoredFits DEF Charts, Charted

\* The wallets a pass does not serve keep their place, and the one it serves goes on.
LEMMA TakenupCharts ==
    ASSUME TypeOK, Charts, NEW w \in Wallets, NEW s \in Records, NEW phase \in Phases,
           NEW point \in Points \cup {"idle"}, pc' = [pc EXCEPT ![w] = point],
           rec' = Takenup(w, s, phase),
           s.claim # "none" => s.own = "funding",
           point # "idle" => s.outcome = "none",
           s.outcome = "none" =>
              /\ phase \in {"negotiating", "locking", "locked", "claiming", "refunding"}
              /\ s.own = "funding" => phase # "negotiating"
              /\ s.own # "funding" => phase \in {"negotiating", "locking"},
           point \in {"sign", "prepared"} => s.own # "funding" /\ phase = "locking",
           point \in {"commit", "signed"} => phase = "locking",
           point \in Points \ {"sign", "prepared", "signed"} => s.own = "funding"
    PROVE  Charts'
<1>1. \A v \in Wallets \ {w} : Unmoved(v)
  BY TakenupFields DEF Unmoved, TypeOK
<1>2. /\ rec'[w].own = s.own /\ rec'[w].claim = s.claim
      /\ rec'[w].phase = phase /\ rec'[w].outcome = s.outcome /\ pc'[w] = point
  BY TakenupFields DEF TypeOK
<1>3. Charted(w)'
  BY <1>2 DEF Charted
<1> QED BY <1>1, <1>3, ChartsButOne

LEMMA PassWaitsCharts ==
    ASSUME TypeOK, Charts, NEW w \in Wallets, NEW heard \in Answered, PassWaits(w, heard)
    PROVE  Charts'
<1> PICK step \in Waits, s \in {Seen(w, heard)} :
        /\ Judges(w, heard, s, step)
        /\ \E armed \in {s.tower, TRUE} : rec' = Takenup(w, [s EXCEPT !.tower = armed], Restored(s))
  BY DEF PassWaits
<1> PICK armed \in {s.tower, TRUE} : rec' = Takenup(w, [s EXCEPT !.tower = armed], Restored(s))
  OBVIOUS
<1> DEFINE t == [s EXCEPT !.tower = armed]
<1>0. /\ s \in Records /\ pc[w] = "idle" /\ (s.claim # "none" => s.own = "funding")
      /\ Restored(s) \in {"negotiating", "locking", "locked"}
      /\ s.own = "funding" <=> Restored(s) = "locked"
  BY JudgedCharts
<1>1. t \in Records /\ t.own = s.own /\ t.claim = s.claim /\ t.outcome = s.outcome
  <2>1. armed \in BOOLEAN
    BY <1>0 DEF Records
  <2> QED BY <1>0, <2>1 DEF Records
<1>2. Restored(s) \in Phases
  BY <1>0 DEF Phases
<1>3. pc' = [pc EXCEPT ![w] = "idle"]
  BY <1>0 DEF PassWaits, TypeOK
<1> HIDE DEF t
<1>4. rec' = Takenup(w, t, Restored(s))
  BY DEF t
<1> QED BY <1>0, <1>1, <1>2, <1>3, <1>4, TakenupCharts DEF Points

LEMMA PassEndsCharts ==
    ASSUME TypeOK, Charts, NEW w \in Wallets, NEW heard \in Answered, PassEnds(w, heard)
    PROVE  Charts'
<1> PICK outcome \in Outcomes, s \in {Seen(w, heard)} :
        Judges(w, heard, s, outcome) /\ rec' = Takenup(w, [s EXCEPT !.outcome = outcome], FinalPhase(outcome))
  BY DEF PassEnds
<1> DEFINE t == [s EXCEPT !.outcome = outcome]
<1>0. /\ s \in Records /\ pc[w] = "idle" /\ (s.claim # "none" => s.own = "funding")
  BY JudgedCharts
<1>1. t \in Records /\ t.own = s.own /\ t.claim = s.claim /\ t.outcome = outcome /\ outcome # "none"
  BY <1>0 DEF Records, Outcomes
<1>2. FinalPhase(outcome) \in Phases
  BY DEF FinalPhase, Phases, Outcomes
<1>3. pc' = [pc EXCEPT ![w] = "idle"]
  BY <1>0 DEF PassEnds, TypeOK
<1> HIDE DEF t
<1>4. rec' = Takenup(w, t, FinalPhase(outcome))
  BY DEF t
<1> QED BY <1>0, <1>1, <1>2, <1>3, <1>4, TakenupCharts DEF Points

LEMMA PassFundsCharts ==
    ASSUME TypeOK, Charts, NEW w \in Wallets, NEW heard \in Answered, PassFunds(w, heard)
    PROVE  Charts'
<1>0. PICK s \in {Seen(w, heard)} :
        /\ Judges(w, heard, s, "fund") /\ s.own \in {"none", "prepared"}
        /\ rec' = Takenup(w, [s EXCEPT !.own = IF w \in Bsv THEN @ ELSE "started"], "locking")
        /\ pc' = [pc EXCEPT ![w] = IF s.own = "prepared" THEN "prepared" ELSE "sign"]
  BY DEF PassFunds
<1> DEFINE t == [s EXCEPT !.own = IF w \in Bsv THEN @ ELSE "started"]
<1>1. t \in Records /\ t.own # "funding" /\ t.claim = s.claim /\ t.outcome = s.outcome
  <2>1. s \in Records
    BY <1>0, JudgedCharts
  <2> QED BY <1>0, <2>1 DEF Records
<1>2. "locking" \in Phases /\ s.claim = "none" /\ s.outcome = "none"
  BY <1>0, JudgedCharts DEF Unlocked, Phases, Records
<1>3. PICK point \in {"prepared", "sign"} : pc' = [pc EXCEPT ![w] = point]
  BY <1>0
<1> HIDE DEF t
<1>4. rec' = Takenup(w, t, "locking")
  BY <1>0 DEF t
<1>5. t.claim = "none" /\ t.outcome = "none"
  BY <1>1, <1>2
<1>6. /\ point \in {"sign", "prepared"} /\ point \in Points \cup {"idle"} /\ point \notin {"commit", "signed"}
      /\ point \notin Points \ {"sign", "prepared", "signed"}
  BY DEF Points
<1>7. pc' = [pc EXCEPT ![w] = point]
  BY <1>3
<1> QED BY <1>1, <1>2, <1>4, <1>5, <1>6, <1>7, TakenupCharts

LEMMA PassResumesFundingCharts ==
    ASSUME TypeOK, Charts, NEW w \in Wallets, NEW heard \in Answered, PassResumesFunding(w, heard)
    PROVE  Charts'
<1> PICK s \in {Seen(w, heard)} :
        /\ Judges(w, heard, s, "fund") /\ s.own = "started"
        /\ \/ rec' = Takenup(w, [s EXCEPT !.own = "none"], "locking") /\ pc' = pc
           \/ rec' = Takenup(w, s, "locking") /\ pc' = [pc EXCEPT ![w] = "signed"]
  BY DEF PassResumesFunding
<1>1. s \in Records /\ s.claim = "none" /\ s.outcome = "none" /\ pc[w] = "idle" /\ "locking" \in Phases
  BY JudgedCharts DEF Unlocked, Phases
<1>2. CASE rec' = Takenup(w, [s EXCEPT !.own = "none"], "locking") /\ pc' = pc
  <2> DEFINE t == [s EXCEPT !.own = "none"]
  <2>1. t \in Records /\ t.own = "none" /\ t.claim = s.claim /\ t.outcome = s.outcome
    BY <1>1 DEF Records
  <2>2. pc' = [pc EXCEPT ![w] = "idle"]
    BY <1>1, <1>2 DEF TypeOK
  <2> HIDE DEF t
  <2>3. rec' = Takenup(w, t, "locking")
    BY <1>2 DEF t
  <2> QED BY <1>1, <2>1, <2>2, <2>3, TakenupCharts DEF Points
<1>3. CASE rec' = Takenup(w, s, "locking") /\ pc' = [pc EXCEPT ![w] = "signed"]
  BY <1>1, <1>3, TakenupCharts DEF Points
<1> QED BY <1>2, <1>3

LEMMA PassClaimsCharts ==
    ASSUME TypeOK, Charts, NEW w \in Wallets, NEW heard \in Answered, PassClaims(w, heard)
    PROVE  Charts'
<1> PICK s \in {Seen(w, heard)} :
        /\ Judges(w, heard, s, "claim")
        /\ rec' = Takenup(w, [s EXCEPT !.claim = "written"], "claiming")
        /\ pc' = [pc EXCEPT ![w] = "claim"]
  BY DEF PassClaims
<1> DEFINE t == [s EXCEPT !.claim = "written"]
<1>1. t \in Records /\ t.own = s.own /\ t.outcome = s.outcome
  BY JudgedCharts DEF Records
<1>2. s.own = "funding" /\ s.outcome = "none" /\ "claiming" \in Phases
  BY JudgedCharts DEF Locked, Phases
<1> HIDE DEF t
<1>3. rec' = Takenup(w, t, "claiming")
  BY DEF t
<1> QED BY <1>1, <1>2, <1>3, TakenupCharts DEF Points

LEMMA PassRefundsCharts ==
    ASSUME TypeOK, Charts, NEW w \in Wallets, NEW heard \in Answered, PassRefunds(w, heard)
    PROVE  Charts'
<1> PICK which \in {"refund", "refund-fee"}, s \in {Seen(w, heard)}, point \in {"refund", "refundFee"} :
        /\ Judges(w, heard, s, which) /\ rec' = Takenup(w, s, "refunding")
        /\ pc' = [pc EXCEPT ![w] = point]
  BY DEF PassRefunds
<1>1. s \in Records /\ s.own = "funding" /\ s.outcome = "none" /\ "refunding" \in Phases
  BY JudgedCharts DEF Locked, Phases
<1> QED BY <1>1, TakenupCharts DEF Points

LEMMA FundSignsCharts ==
    ASSUME TypeOK, Charts, NEW w \in Wallets, FundSigns(w)
    PROVE  Charts'
<1>1. \A v \in Wallets : rec[v] \in Records
  BY DEF TypeOK
<1>2. \A v \in Wallets \ {w} : rec'[v] = rec[v] /\ pc'[v] = pc[v]
  BY DEF FundSigns, Stands, GoesTo, TypeOK
<1>3. rec'[w].claim = rec[w].claim /\ rec'[w].phase = rec[w].phase /\ rec'[w].outcome = rec[w].outcome
      /\ rec'[w].own \in {rec[w].own, "prepared"}
  BY <1>1 DEF FundSigns, Stands, GoesTo, TypeOK, Records
<1>4. pc[w] = "sign" /\ pc'[w] \in {"prepared", "signed"}
      /\ (pc'[w] = "signed" \/ rec'[w].own = "prepared")
  BY DEF FundSigns, Stands, GoesTo, TypeOK, Records
<1>5. Charted(w)'
  BY <1>3, <1>4 DEF Charts, Charted, Points
<1> QED BY <1>2, <1>5, ChartsButOne DEF Unmoved

LEMMA FundWithdrawsCharts ==
    ASSUME TypeOK, Charts, NEW w \in Wallets, FundWithdraws(w)
    PROVE  Charts'
<1>1. \A v \in Wallets : rec[v] \in Records
  BY DEF TypeOK
<1>2. \A v \in Wallets \ {w} : rec'[v] = rec[v] /\ pc'[v] = pc[v]
  BY DEF FundWithdraws, Stands, GoesTo, TypeOK
<1>3. rec'[w].claim = rec[w].claim /\ rec'[w].phase = rec[w].phase /\ rec'[w].outcome = rec[w].outcome
      /\ rec'[w].own = "none"
  BY <1>1 DEF FundWithdraws, Stands, GoesTo, TypeOK, Records
<1>4. pc[w] = "sign" /\ pc'[w] = "idle"
  BY DEF FundWithdraws, Stands, GoesTo, TypeOK
<1>5. Charted(w)'
  BY <1>3, <1>4 DEF Charts, Charted, Points
<1> QED BY <1>2, <1>5, ChartsButOne DEF Unmoved

LEMMA FundWritesCharts ==
    ASSUME TypeOK, Charts, NEW w \in Wallets, FundWrites(w)
    PROVE  Charts'
<1>1. \A v \in Wallets : rec[v] \in Records
  BY DEF TypeOK
<1>2. \A v \in Wallets \ {w} : rec'[v] = rec[v] /\ pc'[v] = pc[v]
  BY DEF FundWrites, Stands, GoesTo, TypeOK
<1>3. rec'[w].claim = rec[w].claim /\ rec'[w].phase = rec[w].phase /\ rec'[w].outcome = rec[w].outcome
      /\ rec'[w].own = "funding"
  BY <1>1 DEF FundWrites, Stands, GoesTo, TypeOK, Records
<1>4. pc[w] = "prepared" /\ pc'[w] = "commit"
  BY DEF FundWrites, Stands, GoesTo, TypeOK
<1>5. Charted(w)'
  BY <1>3, <1>4 DEF Charts, Charted, Points
<1> QED BY <1>2, <1>5, ChartsButOne DEF Unmoved

LEMMA FundCommitsCharts ==
    ASSUME TypeOK, Charts, NEW w \in Wallets, FundCommits(w)
    PROVE  Charts'
<1>1. \A v \in Wallets : rec[v] \in Records
  BY DEF TypeOK
<1>2. \A v \in Wallets \ {w} : rec'[v] = rec[v] /\ pc'[v] = pc[v]
  BY DEF FundCommits, Stands, GoesTo, TypeOK
<1>3. rec'[w].own = rec[w].own /\ rec'[w].claim = rec[w].claim /\ rec'[w].phase = rec[w].phase /\ rec'[w].outcome = rec[w].outcome
  BY <1>1 DEF FundCommits, Stands, GoesTo, TypeOK, Records
<1>4. pc[w] = "commit" /\ pc'[w] = "signed"
  BY DEF FundCommits, Stands, GoesTo, TypeOK
<1>5. Charted(w)'
  BY <1>3, <1>4 DEF Charts, Charted, Points
<1> QED BY <1>2, <1>5, ChartsButOne DEF Unmoved

LEMMA FundRecordsCharts ==
    ASSUME TypeOK, Charts, NEW w \in Wallets, FundRecords(w)
    PROVE  Charts'
<1>1. \A v \in Wallets : rec[v] \in Records
  BY DEF TypeOK
<1>2. \A v \in Wallets \ {w} : rec'[v] = rec[v] /\ pc'[v] = pc[v]
  BY DEF FundRecords, Stands, GoesTo, TypeOK
<1>3. rec'[w].claim = rec[w].claim /\ rec'[w].outcome = rec[w].outcome
      /\ rec'[w].own = "funding" /\ rec'[w].phase = "locked"
  BY <1>1 DEF FundRecords, Stands, GoesTo, TypeOK, Records
<1>4. pc[w] = "signed" /\ pc'[w] = "idle"
  BY DEF FundRecords, Stands, GoesTo, TypeOK
<1>5. Charted(w)'
  BY <1>3, <1>4 DEF Charts, Charted, Points
<1> QED BY <1>2, <1>5, ChartsButOne DEF Unmoved

LEMMA ClaimSendsCharts ==
    ASSUME TypeOK, Charts, NEW w \in Wallets, ClaimSends(w)
    PROVE  Charts'
<1>1. \A v \in Wallets : rec[v] \in Records
  BY DEF TypeOK
<1>2. \A v \in Wallets \ {w} : rec'[v] = rec[v] /\ pc'[v] = pc[v]
  BY DEF ClaimSends, Stands, GoesTo, TypeOK
<1>3. rec'[w].own = rec[w].own /\ rec'[w].claim = rec[w].claim /\ rec'[w].phase = rec[w].phase /\ rec'[w].outcome = rec[w].outcome
  BY <1>1 DEF ClaimSends, Stands, GoesTo, TypeOK, Records
<1>4. pc[w] = "claim" /\ pc'[w] = "claimed"
  BY DEF ClaimSends, Stands, GoesTo, TypeOK
<1>5. Charted(w)'
  BY <1>3, <1>4 DEF Charts, Charted, Points
<1> QED BY <1>2, <1>5, ChartsButOne DEF Unmoved

LEMMA ClaimRecordsCharts ==
    ASSUME TypeOK, Charts, NEW w \in Wallets, ClaimRecords(w)
    PROVE  Charts'
<1>1. \A v \in Wallets : rec[v] \in Records
  BY DEF TypeOK
<1>2. \A v \in Wallets \ {w} : rec'[v] = rec[v] /\ pc'[v] = pc[v]
  BY DEF ClaimRecords, Stands, GoesTo, TypeOK
<1>3. rec'[w].own = rec[w].own /\ rec'[w].outcome = rec[w].outcome
      /\ rec'[w].phase = "locked"
  BY <1>1 DEF ClaimRecords, Stands, GoesTo, TypeOK, Records
<1>4. pc[w] = "claimed" /\ pc'[w] = "idle"
  BY DEF ClaimRecords, Stands, GoesTo, TypeOK
<1>5. Charted(w)'
  BY <1>3, <1>4 DEF Charts, Charted, Points
<1> QED BY <1>2, <1>5, ChartsButOne DEF Unmoved

LEMMA RefundSendsCharts ==
    ASSUME TypeOK, Charts, NEW w \in Wallets, RefundSends(w)
    PROVE  Charts'
<1>1. \A v \in Wallets : rec[v] \in Records
  BY DEF TypeOK
<1>2. \A v \in Wallets \ {w} : rec'[v] = rec[v] /\ pc'[v] = pc[v]
  BY DEF RefundSends, Stands, GoesTo, TypeOK
<1>3. rec'[w].own = rec[w].own /\ rec'[w].claim = rec[w].claim /\ rec'[w].phase = rec[w].phase /\ rec'[w].outcome = rec[w].outcome
  BY <1>1 DEF RefundSends, Stands, GoesTo, TypeOK, Records
<1>4. pc[w] \in {"refund", "refundFee"} /\ pc'[w] \in {"refunded", "feeRefunded"}
  BY DEF RefundSends, Stands, GoesTo, TypeOK
<1>5. Charted(w)'
  BY <1>3, <1>4 DEF Charts, Charted, Points
<1> QED BY <1>2, <1>5, ChartsButOne DEF Unmoved

LEMMA RefundRecordsCharts ==
    ASSUME TypeOK, Charts, NEW w \in Wallets, RefundRecords(w)
    PROVE  Charts'
<1>1. \A v \in Wallets : rec[v] \in Records
  BY DEF TypeOK
<1>2. \A v \in Wallets \ {w} : rec'[v] = rec[v] /\ pc'[v] = pc[v]
  BY DEF RefundRecords, Stands, GoesTo, TypeOK
<1>3. rec'[w].own = rec[w].own /\ rec'[w].claim = rec[w].claim /\ rec'[w].outcome = rec[w].outcome
      /\ rec'[w].phase = "locked"
  BY <1>1 DEF RefundRecords, Stands, GoesTo, TypeOK, Records
<1>4. pc[w] \in {"refunded", "feeRefunded"} /\ pc'[w] = "idle"
  BY DEF RefundRecords, Stands, GoesTo, TypeOK
<1>5. Charted(w)'
  BY <1>3, <1>4 DEF Charts, Charted, Points
<1> QED BY <1>2, <1>5, ChartsButOne DEF Unmoved

LEMMA SpendRefusedCharts ==
    ASSUME TypeOK, Charts, NEW w \in Wallets, SpendRefused(w)
    PROVE  Charts'
<1>1. \A v \in Wallets : rec[v] \in Records
  BY DEF TypeOK
<1>2. \A v \in Wallets \ {w} : rec'[v] = rec[v] /\ pc'[v] = pc[v]
  BY DEF SpendRefused, Stands, GoesTo, TypeOK
<1>3. rec'[w].own = rec[w].own /\ rec'[w].claim = rec[w].claim /\ rec'[w].outcome = rec[w].outcome
      /\ rec'[w].phase = "locked"
  BY <1>1 DEF SpendRefused, Stands, GoesTo, TypeOK, Records
<1>4. pc[w] \in {"claim", "refund", "refundFee"} /\ pc'[w] = "idle"
  BY DEF SpendRefused, Stands, GoesTo, TypeOK
<1>5. Charted(w)'
  BY <1>3, <1>4 DEF Charts, Charted, Points
<1> QED BY <1>2, <1>5, ChartsButOne DEF Unmoved

LEMMA InterruptedCharts ==
    ASSUME TypeOK, Charts, NEW w \in Wallets, Interrupted(w)
    PROVE  Charts'
<1>1. \A v \in Wallets : rec[v] \in Records
  BY DEF TypeOK
<1>2. \A v \in Wallets \ {w} : rec'[v] = rec[v] /\ pc'[v] = pc[v]
  BY DEF Interrupted, Stands, GoesTo, TypeOK
<1>3. rec'[w].own = rec[w].own /\ rec'[w].claim = rec[w].claim /\ rec'[w].phase = rec[w].phase /\ rec'[w].outcome = rec[w].outcome
  BY <1>1 DEF Interrupted, Stands, GoesTo, TypeOK, Records
<1>4. pc'[w] = "idle"
  BY DEF Interrupted, Stands, GoesTo, TypeOK
<1>5. Charted(w)'
  BY <1>3, <1>4 DEF Charts, Charted, Points
<1> QED BY <1>2, <1>5, ChartsButOne DEF Unmoved

LEMMA TakeAcceptedCharts == ASSUME TypeOK, Charts, TakeAccepted PROVE Charts'
<1>1. \A v \in Wallets : Unmoved(v)
  BY DEF TakeAccepted, Unmoved, TypeOK, Records
<1> QED BY <1>1, UnmovedCharts DEF Charts

LEMMA IntakeCharts == ASSUME TypeOK, Charts, NEW w \in Wallets, Intake(w) PROVE Charts'
<1>1. \A v \in Wallets : Unmoved(v)
  <2> PICK m \in box[w] \ {"take"} : rec' = [rec EXCEPT ![w] = IF rec[w].known THEN Heard(w, m) ELSE @]
    BY DEF Intake
  <2>1. rec'[w] \in {rec[w], Heard(w, m)} /\ \A v \in Wallets \ {w} : rec'[v] = rec[v]
    BY DEF TypeOK
  <2> QED BY <2>1, HeardType DEF Intake, Unmoved
<1> QED BY <1>1, UnmovedCharts DEF Charts

LEMMA OthersCharts ==
    ASSUME TypeOK, Charts, UNCHANGED <<rec, pc>>
    PROVE  Charts'
BY UnmovedCharts DEF Unmoved, Charts

LEMMA ChartsStep == TypeOK /\ Charts /\ [Next]_vars => Charts'
<1> SUFFICES ASSUME TypeOK, Charts, [Next]_vars PROVE Charts'
  OBVIOUS
<1>0. CASE UNCHANGED vars
  BY <1>0, OthersCharts DEF vars
<1>1. CASE TakeAccepted \/ TakeDeclined
  BY <1>1, TakeAcceptedCharts, OthersCharts DEF TakeDeclined
<1>2. CASE \E w \in Wallets : Intake(w)
  BY <1>2, IntakeCharts
<1>3. CASE \E w \in Wallets : \E heard \in Answered : Pass(w, heard)
  BY <1>3, PassWaitsCharts, PassEndsCharts, PassFundsCharts, PassResumesFundingCharts,
     PassClaimsCharts, PassRefundsCharts DEF Pass
<1>4. CASE \E w \in Wallets : Funding(w)
  BY <1>4, FundSignsCharts, FundWithdrawsCharts, FundWritesCharts, FundCommitsCharts,
     FundRecordsCharts DEF Funding
<1>5. CASE \E w \in Wallets : Spending(w)
  BY <1>5, ClaimSendsCharts, ClaimRecordsCharts, RefundSendsCharts, RefundRecordsCharts,
     SpendRefusedCharts DEF Spending
<1>6. CASE \E w \in Wallets : Interrupted(w)
  BY <1>6, InterruptedCharts
<1>7. CASE Chains
  BY <1>7, OthersCharts DEF Chains, LockMined, LockDies, QueueSends, FeeClaims, TowerClaims
<1>8. CASE Tick
  BY <1>8, OthersCharts DEF Tick
<1> QED BY <1>0, <1>1, <1>2, <1>3, <1>4, <1>5, <1>6, <1>7, <1>8 DEF Next

LEMMA ChartsAlways == Spec => [](TypeOK /\ Charts)
BY TypeInit, TypeStep, ChartsInit, ChartsStep, PTL DEF Spec

\* The chart takes every step the facts call for, whatever the chains, clocks, reads
\* and cuts: no swap stands still because its chart was restored to another place
\* than its record (swapSettleMachine.ts, settleRunner.ts).
THEOREM SwapChartAgrees == Spec => []ChartTakesTheStep
BY ChartsAlways, ChartsTake, PTL
===============================================================================
