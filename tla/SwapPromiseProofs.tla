-------------------------- MODULE SwapPromiseProofs --------------------------
(***************************************************************************)
(* Two wallets that settle a swap by SwapSettle keep the promise of        *)
(* AtomicSwap, record outcomes that are true of the chains, and end with   *)
(* the fee output spent or owed, for every choice of chains, deadlines,    *)
(* wrong clocks, reads that go unanswered, lost messages and cuts but two: *)
(* the taker's process is not cut between its claim and the record of it,  *)
(* and its claim is not left to a queue for BSV miners. The fee output     *)
(* needs a third: that it can be read.                                     *)
(***************************************************************************)
EXTENDS SwapSettleProofs

\* The step between the taker's claim and its record is not cut.
ClaimIsRecorded == <<"taker", "claimed">> \notin Cuts

\* The taker's claim, of the maker's lock, is not left to a miner's queue.
ClaimIsNotQueued == "maker" \notin Bsv \/ ~Outages

----------------------------------------------------------------------------
(* The inductive invariant *)

\* A wallet that has not locked has no lock, and is not about to make a second.
LocksOnce ==
    \A w \in Wallets :
        /\ pc[w] = "sign" => lock[w] = "none" /\ (w \notin Bsv => rec[w].own = "started")
        /\ pc[w] = "prepared" => lock[w] = "none"
        /\ pc[w] = "commit" => lock[w] = "none" /\ rec[w].own = "funding"
        /\ rec[w].own \in {"none", "prepared"} => lock[w] = "none"

SpentStood == \A l \in Legs : spend[l] # "none" => lock[l] = "standing"

BuriedStands == \A w \in Wallets : rec[w].peer = "buried" => lock[Peer(w)] = "standing"

\* The maker does nothing for its lock before the taker's stands.
MakerBegan ==
    \/ lock["maker"] # "none" \/ rec["maker"].own # "none"
    \/ pc["maker"] \in {"sign", "prepared", "commit", "signed"}
MakerSecond == MakerBegan => lock["taker"] = "standing"

\* The maker, or who claims for it, has the secret only from the taker's claim.
SecretHeld ==
    \/ rec["maker"].secret \/ "secret" \in box["maker"] \/ pc["maker"] = "claim"
    \/ "claim" \in owed["taker"] \/ spend["taker"] = "claimed"
    \/ pc["taker"] = "claimed" \/ rec["taker"].claim = "claimed"
SecretShown == SecretHeld => spend["maker"] = "claimed"

\* The taker knows that it claimed.
ClaimKnown == spend["maker"] = "claimed" => pc["taker"] = "claimed" \/ rec["taker"].claim = "claimed"

\* It claims early, and takes its own lock back late and only unclaimed.
ClaimsEarly == "claim" \notin owed["maker"] /\ (pc["taker"] = "claim" => now < T2)
RefundsLate ==
    /\ pc["taker"] = "refund" \/ "refund" \in owed["taker"] =>
          spend["maker"] # "claimed" /\ pc["taker"] # "claim" /\ Device("taker") >= T1
    /\ spend["taker"] = "refunded" => now >= T1

Kept ==
    /\ LocksOnce /\ SpentStood /\ BuriedStands /\ MakerSecond
    /\ SecretShown /\ ClaimKnown /\ ClaimsEarly /\ RefundsLate

----------------------------------------------------------------------------
(* What a step changes of what the invariant speaks of *)

\* A wallet learns what the chain shows it, and the secret from its box.
Learns ==
    /\ rec'["maker"].secret =>
          rec["maker"].secret \/ "secret" \in box["maker"] \/ spend["maker"] = "claimed"
    /\ "secret" \in box'["maker"] => "secret" \in box["maker"] \/ pc["taker"] = "claimed"
    /\ \A v \in Wallets : rec'[v].peer = "buried" => rec[v].peer = "buried" \/ lock[Peer(v)] = "standing"

OwnKept == \A v \in Wallets : rec'[v].own = rec[v].own
ClaimKept == rec'["taker"].claim = rec["taker"].claim
PcKept == \A v \in Wallets : pc'[v] = pc[v]
SpendsKept == spend' = spend /\ owed' = owed
TimeKept == now' = now /\ skew' = skew

\* `w` alone moves, and nothing of time or spends does.
OwnOf(w) == \A v \in Wallets \ {w} : rec'[v].own = rec[v].own
PcOf(w) == \A v \in Wallets \ {w} : pc'[v] = pc[v]

LEMMA FundJudged ==
    ASSUME TypeOK, NEW w \in Wallets, NEW heard, Judges(w, heard, Seen(w, heard), "fund")
    PROVE  Seen(w, heard).own = "started" \/ (w = "maker" => Seen(w, heard).peer = "buried")
<1> DEFINE s == Seen(w, heard)
<1>1. NextSettleStep(w, s, heard) = "fund"
  BY DEF Judges
<1> HIDE DEF s
<1>2. MakerStep(s) = "fund" => s.peer = "buried"
  BY DEF MakerStep
<1>3. w = "maker" => s.own = "started" \/ MakerStep(s) = "fund"
  BY <1>1 DEF NextSettleStep
<1> QED BY <1>2, <1>3 DEF s

LEMMA ClaimJudged ==
    ASSUME TypeOK, NEW w \in Wallets, NEW heard, Judges(w, heard, Seen(w, heard), "claim")
    PROVE  /\ Seen(w, heard).claim # "claimed"
           /\ w = "maker" => Seen(w, heard).secret
           /\ w = "taker" => Device(w) < ClaimBy /\ now < ClaimBy
<1> DEFINE s == Seen(w, heard)
<1>1. NextSettleStep(w, s, heard) = "claim"
  BY DEF Judges
<1> HIDE DEF s
<1>2. s.claim # "claimed" /\ (IF w = "taker" THEN TakerStep(s, heard) = "claim" ELSE MakerStep(s) = "claim")
  BY <1>1 DEF NextSettleStep
<1>3. MakerStep(s) = "claim" => s.secret
  BY DEF MakerStep
<1>4. TakerStep(s, heard) = "claim" => Device("taker") < ClaimBy /\ now < ClaimBy
  <2>1. Device("taker") \in Int /\ now \in Int /\ ClaimBy \in Int
    BY DeadlinesAssumption, LegsAssumption DEF TypeOK, Device, Wallets, Legs
  <2>2. TakerStep(s, heard) = "claim" => /\ ~(Device("taker") >= ClaimBy)
                                         /\ ~(s.peer = "buried" /\ "clock" \in heard /\ now >= ClaimBy)
                                         /\ s.peer = "buried" /\ "clock" \in heard
    BY DEF TakerStep, RefundOrWait
  <2> QED BY <2>1, <2>2
<1> QED BY <1>2, <1>3, <1>4 DEF s, Wallets, Legs

LEMMA RefundJudged ==
    ASSUME TypeOK, NEW heard, Judges("taker", heard, Seen("taker", heard), "refund")
    PROVE  rec["taker"].claim # "claimed" /\ Device("taker") >= T1
<1> DEFINE s == Seen("taker", heard)
<1>1. NextSettleStep("taker", s, heard) = "refund" /\ s.claim = rec["taker"].claim
  BY SeenFacts DEF Judges, Wallets, Legs
<1> HIDE DEF s
<1>2. s.claim # "claimed" /\ TakerStep(s, heard) = "refund"
  BY <1>1 DEF NextSettleStep
<1>3. TakerStep(s, heard) = "refund" => RefundOrWait("taker", s) = "refund"
  BY DEF TakerStep
<1> QED BY <1>1, <1>2, <1>3 DEF RefundOrWait, Locktime

LEMMA TakeAcceptedDoes ==
    ASSUME TypeOK, TakeAccepted
    PROVE  /\ Learns
           /\ OwnKept /\ ClaimKept /\ PcKept /\ lock' = lock /\ SpendsKept /\ TimeKept
<1>1. "secret" \in box'["maker"] => "secret" \in box["maker"]
  BY DEF TakeAccepted, Acked, TypeOK, Wallets, Legs
<1>2. /\ \A v \in Wallets : rec'[v].own = rec[v].own /\ rec'[v].claim = rec[v].claim
      /\ \A v \in Wallets : rec'[v].secret = rec[v].secret /\ rec'[v].peer = rec[v].peer
  BY DEF TakeAccepted, TypeOK, Records
<1> QED BY <1>1, <1>2 DEF TakeAccepted, chain, Wallets, Legs, OwnKept, ClaimKept, PcKept, SpendsKept, TimeKept, Learns, OwnOf, PcOf

LEMMA TakeDeclinedDoes ==
    ASSUME TypeOK, TakeDeclined
    PROVE  /\ Learns
           /\ OwnKept /\ ClaimKept /\ PcKept /\ lock' = lock /\ SpendsKept /\ TimeKept
<1>1. "secret" \in box'["maker"] => "secret" \in box["maker"]
  BY DEF TakeDeclined, Acked, TypeOK, Wallets, Legs
<1> QED BY <1>1 DEF TakeDeclined, chain, OwnKept, ClaimKept, PcKept, SpendsKept, TimeKept, Learns, OwnOf, PcOf

LEMMA IntakeDoes ==
    ASSUME TypeOK, NEW w \in Wallets, Intake(w)
    PROVE  /\ Learns
           /\ OwnKept /\ ClaimKept /\ PcKept /\ lock' = lock /\ SpendsKept /\ TimeKept
<1>1. "secret" \in box'["maker"] => "secret" \in box["maker"]
  BY DEF Intake, Acked, TypeOK, Wallets, Legs
<1>2. PICK m \in box[w] \ {"take"} : rec' = [rec EXCEPT ![w] = IF rec[w].known THEN Heard(w, m) ELSE @]
  BY DEF Intake
<1>3. /\ \A v \in Wallets : rec'[v].own = rec[v].own /\ rec'[v].claim = rec[v].claim
      /\ \A v \in Wallets : rec'[v].peer = "buried" => rec[v].peer = "buried"
      /\ rec'["maker"].secret => rec["maker"].secret \/ "secret" \in box["maker"]
  <2>1. CASE rec' = rec
    BY <2>1
  <2>2. CASE rec' = [rec EXCEPT ![w] = Heard(w, m)]
    BY <2>2, HeardType DEF TypeOK, Wallets, Legs
  <2> QED BY <1>2, <2>1, <2>2 DEF TypeOK
<1> QED BY <1>1, <1>3 DEF Intake, chain, Wallets, Legs, OwnKept, ClaimKept, PcKept, SpendsKept, TimeKept, Learns, OwnOf, PcOf

LEMMA PassWaitsDoes ==
    ASSUME TypeOK, NEW w \in Wallets, NEW heard \in Answered, PassWaits(w, heard)
    PROVE  /\ Learns
           /\ OwnKept /\ ClaimKept /\ PcKept /\ lock' = lock /\ SpendsKept /\ TimeKept
<1> DEFINE s == Seen(w, heard)
<1>1. /\ s \in Records /\ s.own = rec[w].own /\ (w = "taker" => s.claim = rec[w].claim)
      /\ s.secret => rec[w].secret \/ (w = "maker" /\ spend[w] = "claimed")
      /\ s.peer = "buried" => rec[w].peer = "buried" \/ lock[Peer(w)] = "standing"
  BY SeenFacts
<1>2. /\ \A v \in Wallets \ {w} : rec'[v] = rec[v]
      /\ rec'[w].own = s.own /\ rec'[w].claim = s.claim /\ rec'[w].secret = s.secret /\ rec'[w].peer = s.peer
  <2> PICK armed \in {s.tower, TRUE} : rec' = Takenup(w, [s EXCEPT !.tower = armed], Restored(s))
    BY DEF PassWaits
  <2> HIDE DEF s
  <2> DEFINE t == [s EXCEPT !.tower = armed]
  <2>1. t \in Records /\ t.own = s.own /\ t.claim = s.claim /\ t.secret = s.secret /\ t.peer = s.peer
    BY <1>1 DEF Records
  <2>2. Restored(s) \in Phases
    BY <1>1, ChartTypes DEF Outcomes
  <2>3. rec' = Takenup(w, t, Restored(s))
    OBVIOUS
  <2> HIDE DEF t
  <2> QED BY <2>1, <2>2, <2>3, TakenupFields
<1>3. "secret" \in box'["maker"] => "secret" \in box["maker"]
  BY Peers DEF PassWaits, Sends, TypeOK, Wallets, Legs
<1>4. Learns
  BY <1>1, <1>2, <1>3 DEF Learns, Wallets, Legs
<1> QED BY <1>1, <1>2, <1>4 DEF PassWaits, chain, Wallets, Legs, OwnKept, ClaimKept, PcKept, SpendsKept, TimeKept, OwnOf, PcOf

LEMMA PassEndsDoes ==
    ASSUME TypeOK, NEW w \in Wallets, NEW heard \in Answered, PassEnds(w, heard)
    PROVE  /\ Learns
           /\ OwnKept /\ ClaimKept /\ PcKept /\ lock' = lock /\ SpendsKept /\ TimeKept
<1> DEFINE s == Seen(w, heard)
<1>1. /\ s \in Records /\ s.own = rec[w].own /\ (w = "taker" => s.claim = rec[w].claim)
      /\ s.secret => rec[w].secret \/ (w = "maker" /\ spend[w] = "claimed")
      /\ s.peer = "buried" => rec[w].peer = "buried" \/ lock[Peer(w)] = "standing"
  BY SeenFacts
<1>2. /\ \A v \in Wallets \ {w} : rec'[v] = rec[v]
      /\ rec'[w].own = s.own /\ rec'[w].claim = s.claim /\ rec'[w].secret = s.secret /\ rec'[w].peer = s.peer
  <2> PICK outcome \in Outcomes : rec' = Takenup(w, [s EXCEPT !.outcome = outcome], FinalPhase(outcome))
    BY DEF PassEnds
  <2> HIDE DEF s
  <2> DEFINE t == [s EXCEPT !.outcome = outcome]
  <2>1. t \in Records /\ t.own = s.own /\ t.claim = s.claim /\ t.secret = s.secret /\ t.peer = s.peer
    BY <1>1 DEF Records
  <2>2. FinalPhase(outcome) \in Phases
    BY <1>1, ChartTypes
  <2>3. rec' = Takenup(w, t, FinalPhase(outcome))
    OBVIOUS
  <2> HIDE DEF t
  <2> QED BY <2>1, <2>2, <2>3, TakenupFields
<1>3. "secret" \in box'["maker"] => "secret" \in box["maker"]
  BY Peers DEF PassEnds, Sends, TypeOK, Wallets, Legs
<1>4. Learns
  BY <1>1, <1>2, <1>3 DEF Learns, Wallets, Legs
<1> QED BY <1>1, <1>2, <1>4 DEF PassEnds, chain, Wallets, Legs, OwnKept, ClaimKept, PcKept, SpendsKept, TimeKept, OwnOf, PcOf

LEMMA PassFundsDoes ==
    ASSUME TypeOK, NEW w \in Wallets, NEW heard \in Answered, PassFunds(w, heard)
    PROVE  /\ Learns
           /\ pc[w] = "idle"
           /\ OwnOf(w) /\ ClaimKept /\ PcOf(w) /\ lock' = lock /\ SpendsKept /\ TimeKept
           /\ rec[w].own \in {"none", "prepared"}
           /\ rec'[w].own = (IF w \in Bsv THEN rec[w].own ELSE "started")
           /\ pc'[w] = (IF rec[w].own = "prepared" THEN "prepared" ELSE "sign")
           /\ w = "maker" => Seen(w, heard).peer = "buried"
<1> DEFINE s == Seen(w, heard)
<1>1. /\ s \in Records /\ s.own = rec[w].own /\ (w = "taker" => s.claim = rec[w].claim)
      /\ s.secret => rec[w].secret \/ (w = "maker" /\ spend[w] = "claimed")
      /\ s.peer = "buried" => rec[w].peer = "buried" \/ lock[Peer(w)] = "standing"
  BY SeenFacts
<1>2. /\ \A v \in Wallets \ {w} : rec'[v] = rec[v]
      /\ rec'[w].claim = s.claim /\ rec'[w].secret = s.secret /\ rec'[w].peer = s.peer /\ rec'[w].own = (IF w \in Bsv THEN s.own ELSE "started")
  <2>1. rec' = Takenup(w, [s EXCEPT !.own = IF w \in Bsv THEN @ ELSE "started"], "locking")
    BY DEF PassFunds
  <2> HIDE DEF s
  <2> DEFINE t == [s EXCEPT !.own = IF w \in Bsv THEN @ ELSE "started"]
  <2>2. t \in Records /\ t.claim = s.claim /\ t.secret = s.secret /\ t.peer = s.peer /\ t.own = (IF w \in Bsv THEN s.own ELSE "started")
    BY <1>1 DEF Records
  <2>3. "locking" \in Phases /\ rec' = Takenup(w, t, "locking")
    BY <2>1 DEF Phases
  <2> HIDE DEF t
  <2> QED BY <2>2, <2>3, TakenupFields
<1>3. box' = box
  BY DEF PassFunds
<1>4. Learns
  BY <1>1, <1>2, <1>3 DEF Learns, Wallets, Legs
<1>5. s.own \in {"none", "prepared"} /\ (w = "maker" => s.peer = "buried")
  BY FundJudged DEF PassFunds
<1>6. pc[w] = "idle" /\ pc' = [pc EXCEPT ![w] = IF s.own = "prepared" THEN "prepared" ELSE "sign"]
  BY DEF PassFunds, Judges
<1>7. lock' = lock /\ SpendsKept /\ TimeKept
  BY DEF PassFunds, chain, SpendsKept, TimeKept
<1> HIDE DEF s
<1> QED BY <1>1, <1>2, <1>4, <1>5, <1>6, <1>7 DEF TypeOK, s, OwnOf, PcOf, ClaimKept, Wallets, Legs

LEMMA PassResumesFundingDoes ==
    ASSUME TypeOK, NEW w \in Wallets, NEW heard \in Answered, PassResumesFunding(w, heard)
    PROVE  /\ Learns
           /\ pc[w] = "idle"
           /\ OwnOf(w) /\ ClaimKept /\ PcOf(w) /\ lock' = lock /\ SpendsKept /\ TimeKept
           /\ rec[w].own = "started"
           /\ \/ lock[w] = "none" /\ rec'[w].own = "none" /\ pc'[w] = pc[w]
              \/ lock[w] # "none" /\ rec'[w].own = rec[w].own /\ pc'[w] = "signed"
<1> DEFINE s == Seen(w, heard)
<1>1. /\ s \in Records /\ s.own = rec[w].own /\ (w = "taker" => s.claim = rec[w].claim)
      /\ s.secret => rec[w].secret \/ (w = "maker" /\ spend[w] = "claimed")
      /\ s.peer = "buried" => rec[w].peer = "buried" \/ lock[Peer(w)] = "standing"
  BY SeenFacts
<1>2. /\ \A v \in Wallets \ {w} : rec'[v] = rec[v]
      /\ rec'[w].claim = s.claim /\ rec'[w].secret = s.secret /\ rec'[w].peer = s.peer
      /\ \/ lock[w] = "none" /\ rec'[w].own = "none" /\ pc' = pc
         \/ lock[w] # "none" /\ rec'[w].own = s.own /\ pc' = [pc EXCEPT ![w] = "signed"]
  <2>1. CASE lock[w] = "none" /\ rec' = Takenup(w, [s EXCEPT !.own = "none"], "locking") /\ pc' = pc
    <3> HIDE DEF s
    <3> DEFINE t == [s EXCEPT !.own = "none"]
    <3>1. /\ t \in Records /\ t.claim = s.claim /\ t.secret = s.secret /\ t.peer = s.peer
          /\ t.own = "none"
      BY <1>1 DEF Records
    <3>2. "locking" \in Phases /\ rec' = Takenup(w, t, "locking")
      BY <2>1 DEF Phases
    <3> HIDE DEF t
    <3> QED BY <2>1, <3>1, <3>2, TakenupFields
  <2>2. CASE lock[w] # "none" /\ rec' = Takenup(w, s, "locking") /\ pc' = [pc EXCEPT ![w] = "signed"]
    <3> HIDE DEF s
    <3>1. "locking" \in Phases
      BY DEF Phases
    <3> QED BY <1>1, <2>2, <3>1, TakenupFields
  <2> QED BY <2>1, <2>2 DEF PassResumesFunding
<1>3. box' = box
  BY DEF PassResumesFunding
<1>4. Learns
  BY <1>1, <1>2, <1>3 DEF Learns, Wallets, Legs
<1>5. pc[w] = "idle" /\ s.own = "started" /\ lock' = lock /\ SpendsKept /\ TimeKept
  BY DEF PassResumesFunding, Judges, chain, SpendsKept, TimeKept
<1> HIDE DEF s
<1> QED BY <1>1, <1>2, <1>4, <1>5 DEF TypeOK, s, OwnOf, PcOf, ClaimKept, Wallets, Legs

LEMMA PassClaimsDoes ==
    ASSUME TypeOK, NEW w \in Wallets, NEW heard \in Answered, PassClaims(w, heard)
    PROVE  /\ Learns
           /\ OwnKept /\ PcOf(w) /\ lock' = lock /\ SpendsKept /\ TimeKept
           /\ pc[w] = "idle" /\ pc'[w] = "claim"
           /\ w = "maker" => Seen(w, heard).secret /\ ClaimKept
           /\ w = "taker" => /\ rec[w].claim # "claimed" /\ rec'[w].claim # "claimed"
                              /\ now < ClaimBy /\ Device(w) < ClaimBy
<1> DEFINE s == Seen(w, heard)
<1>1. /\ s \in Records /\ s.own = rec[w].own /\ (w = "taker" => s.claim = rec[w].claim)
      /\ s.secret => rec[w].secret \/ (w = "maker" /\ spend[w] = "claimed")
      /\ s.peer = "buried" => rec[w].peer = "buried" \/ lock[Peer(w)] = "standing"
  BY SeenFacts
<1>2. /\ \A v \in Wallets \ {w} : rec'[v] = rec[v]
      /\ rec'[w].own = s.own /\ rec'[w].secret = s.secret /\ rec'[w].peer = s.peer /\ rec'[w].claim = ("written")
  <2>1. rec' = Takenup(w, [s EXCEPT !.claim = "written"], "claiming")
    BY DEF PassClaims
  <2> HIDE DEF s
  <2> DEFINE t == [s EXCEPT !.claim = "written"]
  <2>2. t \in Records /\ t.own = s.own /\ t.secret = s.secret /\ t.peer = s.peer /\ t.claim = ("written")
    BY <1>1 DEF Records
  <2>3. "claiming" \in Phases /\ rec' = Takenup(w, t, "claiming")
    BY <2>1 DEF Phases
  <2> HIDE DEF t
  <2> QED BY <2>2, <2>3, TakenupFields
<1>3. box' = box
  BY DEF PassClaims
<1>4. Learns
  BY <1>1, <1>2, <1>3 DEF Learns, Wallets, Legs
<1>5. /\ s.claim # "claimed" /\ (w = "maker" => s.secret)
      /\ w = "taker" => Device(w) < ClaimBy /\ now < ClaimBy
  BY ClaimJudged DEF PassClaims
<1>6. pc[w] = "idle" /\ pc' = [pc EXCEPT ![w] = "claim"]
  BY DEF PassClaims, Judges
<1>7. lock' = lock /\ SpendsKept /\ TimeKept
  BY DEF PassClaims, chain, SpendsKept, TimeKept
<1> HIDE DEF s
<1> QED BY <1>1, <1>2, <1>4, <1>5, <1>6, <1>7 DEF TypeOK, s, OwnKept, PcOf, ClaimKept, Wallets, Legs

LEMMA PassRefundsDoes ==
    ASSUME TypeOK, NEW w \in Wallets, NEW heard \in Answered, PassRefunds(w, heard)
    PROVE  /\ Learns
           /\ OwnKept /\ ClaimKept /\ PcOf(w) /\ lock' = lock /\ SpendsKept /\ TimeKept
           /\ pc[w] = "idle" /\ pc'[w] \in {"refund", "refundFee"}
           /\ w = "taker" /\ pc'[w] = "refund" => rec[w].claim # "claimed" /\ Device(w) >= T1
<1> DEFINE s == Seen(w, heard)
<1>1. /\ s \in Records /\ s.own = rec[w].own /\ (w = "taker" => s.claim = rec[w].claim)
      /\ s.secret => rec[w].secret \/ (w = "maker" /\ spend[w] = "claimed")
      /\ s.peer = "buried" => rec[w].peer = "buried" \/ lock[Peer(w)] = "standing"
  BY SeenFacts
<1>2. /\ \A v \in Wallets \ {w} : rec'[v] = rec[v]
      /\ rec'[w].own = s.own /\ rec'[w].claim = s.claim /\ rec'[w].secret = s.secret /\ rec'[w].peer = s.peer
  <2>1. rec' = Takenup(w, s, "refunding")
    BY DEF PassRefunds
  <2> HIDE DEF s
  <2> DEFINE t == s
  <2>2. t \in Records /\ t.own = s.own /\ t.claim = s.claim /\ t.secret = s.secret /\ t.peer = s.peer
    BY <1>1 DEF Records
  <2>3. "refunding" \in Phases /\ rec' = Takenup(w, t, "refunding")
    BY <2>1 DEF Phases
  <2> HIDE DEF t
  <2> QED BY <2>2, <2>3, TakenupFields
<1>3. box' = box
  BY DEF PassRefunds
<1>4. Learns
  BY <1>1, <1>2, <1>3 DEF Learns, Wallets, Legs
<1>5. w = "taker" /\ pc'[w] = "refund" => rec[w].claim # "claimed" /\ Device(w) >= T1
  <2> SUFFICES ASSUME w = "taker", pc'[w] = "refund" PROVE rec[w].claim # "claimed" /\ Device(w) >= T1
    OBVIOUS
  <2>1. Judges("taker", heard, Seen("taker", heard), "refund")
    BY DEF PassRefunds, TypeOK
  <2> QED BY <2>1, RefundJudged
<1>6. pc[w] = "idle" /\ pc' \in {[pc EXCEPT ![w] = "refund"], [pc EXCEPT ![w] = "refundFee"]}
  BY DEF PassRefunds, Judges
<1>7. lock' = lock /\ SpendsKept /\ TimeKept
  BY DEF PassRefunds, chain, SpendsKept, TimeKept
<1> HIDE DEF s
<1> QED BY <1>1, <1>2, <1>4, <1>5, <1>6, <1>7 DEF TypeOK, s, OwnKept, PcOf, ClaimKept, Wallets, Legs

LEMMA FundSignsDoes ==
    ASSUME TypeOK, NEW w \in Wallets, FundSigns(w)
    PROVE  /\ Learns
           /\ pc[w] = "sign" /\ OwnOf(w) /\ ClaimKept /\ PcOf(w) /\ SpendsKept /\ TimeKept
           /\ \/ w \in Bsv /\ rec'[w].own = "prepared" /\ pc'[w] = "prepared" /\ lock' = lock
              \/ /\ w \notin Bsv /\ rec'[w].own = rec[w].own /\ pc'[w] = "signed"
                 /\ lock' = [lock EXCEPT ![w] = "signed"]
<1>1. CASE w \in Bsv
  BY <1>1 DEF FundSigns, TypeOK, Records, Wallets, Legs, OwnKept, ClaimKept, PcKept, SpendsKept, TimeKept, Learns, OwnOf, PcOf
<1>2. CASE w \notin Bsv
  BY <1>2 DEF FundSigns, TypeOK, Wallets, Legs, OwnKept, ClaimKept, PcKept, SpendsKept, TimeKept, Learns, OwnOf, PcOf
<1> QED BY <1>1, <1>2

LEMMA FundWithdrawsDoes ==
    ASSUME TypeOK, NEW w \in Wallets, FundWithdraws(w)
    PROVE  /\ Learns
           /\ pc[w] = "sign" /\ OwnOf(w) /\ ClaimKept /\ PcOf(w) /\ lock' = lock /\ SpendsKept /\ TimeKept
           /\ rec'[w].own = "none" /\ pc'[w] = "idle"
<1>1. \A v \in Wallets : rec[v] \in Records
  BY DEF TypeOK
<1>2. /\ \A v \in Wallets \ {w} : rec'[v] = rec[v]
      /\ rec'[w].own = "none" /\ rec'[w].claim = rec[w].claim /\ rec'[w].secret = rec[w].secret /\ rec'[w].peer = rec[w].peer
  BY <1>1 DEF FundWithdraws, TypeOK, Records
<1>3. "secret" \in box'["maker"] => "secret" \in box["maker"] \/ pc["taker"] = "claimed"
  BY Peers DEF FundWithdraws, Sends, Stands, TypeOK, Wallets, Legs
<1>4. Learns
  BY <1>2, <1>3 DEF Learns, Wallets, Legs
<1> QED BY <1>2, <1>4 DEF FundWithdraws, Stands, GoesTo, chain, TypeOK, Wallets, Legs, OwnKept, ClaimKept, PcKept, SpendsKept, TimeKept, OwnOf, PcOf

LEMMA FundWritesDoes ==
    ASSUME TypeOK, NEW w \in Wallets, FundWrites(w)
    PROVE  /\ Learns
           /\ pc[w] = "prepared" /\ OwnOf(w) /\ ClaimKept /\ PcOf(w) /\ lock' = lock /\ SpendsKept /\ TimeKept
           /\ rec'[w].own = "funding" /\ pc'[w] = "commit"
<1>1. \A v \in Wallets : rec[v] \in Records
  BY DEF TypeOK
<1>2. /\ \A v \in Wallets \ {w} : rec'[v] = rec[v]
      /\ rec'[w].own = "funding" /\ rec'[w].claim = rec[w].claim /\ rec'[w].secret = rec[w].secret /\ rec'[w].peer = rec[w].peer
  BY <1>1 DEF FundWrites, TypeOK, Records
<1>3. "secret" \in box'["maker"] => "secret" \in box["maker"] \/ pc["taker"] = "claimed"
  BY Peers DEF FundWrites, Sends, Stands, TypeOK, Wallets, Legs
<1>4. Learns
  BY <1>2, <1>3 DEF Learns, Wallets, Legs
<1> QED BY <1>2, <1>4 DEF FundWrites, Stands, GoesTo, chain, TypeOK, Wallets, Legs, OwnKept, ClaimKept, PcKept, SpendsKept, TimeKept, OwnOf, PcOf

LEMMA FundCommitsDoes ==
    ASSUME TypeOK, NEW w \in Wallets, FundCommits(w)
    PROVE  /\ Learns
           /\ pc[w] = "commit" /\ OwnKept /\ ClaimKept /\ PcOf(w) /\ SpendsKept /\ TimeKept
           /\ lock' = [lock EXCEPT ![w] = "signed"] /\ pc'[w] = "signed"
BY DEF FundCommits, Stands, GoesTo, chain, TypeOK, Wallets, Legs, OwnKept, ClaimKept, PcKept, SpendsKept, TimeKept, Learns, OwnOf, PcOf

LEMMA FundRecordsDoes ==
    ASSUME TypeOK, NEW w \in Wallets, FundRecords(w)
    PROVE  /\ Learns
           /\ pc[w] = "signed" /\ OwnOf(w) /\ ClaimKept /\ PcOf(w) /\ lock' = lock /\ SpendsKept /\ TimeKept
           /\ rec'[w].own = "funding" /\ pc'[w] = "idle"
<1>1. \A v \in Wallets : rec[v] \in Records
  BY DEF TypeOK
<1>2. /\ \A v \in Wallets \ {w} : rec'[v] = rec[v]
      /\ rec'[w].own = "funding" /\ rec'[w].claim = rec[w].claim /\ rec'[w].secret = rec[w].secret /\ rec'[w].peer = rec[w].peer
  BY <1>1 DEF FundRecords, TypeOK, Records
<1>3. "secret" \in box'["maker"] => "secret" \in box["maker"] \/ pc["taker"] = "claimed"
  BY Peers DEF FundRecords, Sends, Stands, TypeOK, Wallets, Legs
<1>4. Learns
  BY <1>2, <1>3 DEF Learns, Wallets, Legs
<1> QED BY <1>2, <1>4 DEF FundRecords, Stands, GoesTo, chain, TypeOK, Wallets, Legs, OwnKept, ClaimKept, PcKept, SpendsKept, TimeKept, OwnOf, PcOf

LEMMA ClaimSendsDoes ==
    ASSUME TypeOK, NEW w \in Wallets, ClaimSends(w)
    PROVE  /\ Learns
           /\ OwnKept /\ ClaimKept /\ PcOf(w) /\ lock' = lock /\ TimeKept
           /\ pc[w] = "claim" /\ pc'[w] = "claimed" /\ Commits(Peer(w), "claim")
BY DEF ClaimSends, Stands, GoesTo, chain, TypeOK, Wallets, Legs, OwnKept, ClaimKept, PcKept, SpendsKept, TimeKept, Learns, OwnOf, PcOf

LEMMA ClaimRecordsDoes ==
    ASSUME TypeOK, NEW w \in Wallets, ClaimRecords(w)
    PROVE  /\ Learns
           /\ OwnKept /\ PcOf(w) /\ lock' = lock /\ SpendsKept /\ TimeKept
           /\ pc[w] = "claimed" /\ pc'[w] = "idle"
           /\ IF w = "taker" THEN rec'[w].claim = "claimed" ELSE ClaimKept
<1>1. \A v \in Wallets : rec[v] \in Records
  BY DEF TypeOK
<1>2. /\ \A v \in Wallets \ {w} : rec'[v] = rec[v]
      /\ rec'[w].own = rec[w].own /\ rec'[w].claim = "claimed" /\ rec'[w].secret = rec[w].secret /\ rec'[w].peer = rec[w].peer
  BY <1>1 DEF ClaimRecords, TypeOK, Records
<1>3. "secret" \in box'["maker"] => "secret" \in box["maker"] \/ pc["taker"] = "claimed"
  BY Peers DEF ClaimRecords, Sends, Stands, TypeOK, Wallets, Legs
<1>4. Learns
  BY <1>2, <1>3 DEF Learns, Wallets, Legs
<1> QED BY <1>2, <1>4 DEF ClaimRecords, Stands, GoesTo, chain, TypeOK, Wallets, Legs, OwnKept, ClaimKept, PcKept, SpendsKept, TimeKept, OwnOf, PcOf

LEMMA RefundSendsDoes ==
    ASSUME TypeOK, NEW w \in Wallets, RefundSends(w)
    PROVE  /\ Learns
           /\ OwnKept /\ ClaimKept /\ PcOf(w) /\ lock' = lock /\ TimeKept
           /\ \E kind \in {"refund", "refundFee"} : /\ pc[w] = kind /\ pc'[w] \in {"refunded", "feeRefunded"}
                                                   /\ Commits(w, kind)
BY DEF RefundSends, Stands, GoesTo, chain, TypeOK, Wallets, Legs, OwnKept, ClaimKept, PcKept, SpendsKept, TimeKept, Learns, OwnOf, PcOf

LEMMA RefundRecordsDoes ==
    ASSUME TypeOK, NEW w \in Wallets, RefundRecords(w)
    PROVE  /\ Learns
           /\ OwnKept /\ ClaimKept /\ PcOf(w) /\ lock' = lock /\ SpendsKept /\ TimeKept
           /\ pc[w] \in {"refunded", "feeRefunded"} /\ pc'[w] = "idle"
<1>1. \A v \in Wallets : rec[v] \in Records
  BY DEF TypeOK
<1>2. /\ \A v \in Wallets \ {w} : rec'[v] = rec[v]
      /\ rec'[w].own = rec[w].own /\ rec'[w].claim = rec[w].claim /\ rec'[w].secret = rec[w].secret /\ rec'[w].peer = rec[w].peer
  BY <1>1 DEF RefundRecords, TypeOK, Records
<1>3. "secret" \in box'["maker"] => "secret" \in box["maker"] \/ pc["taker"] = "claimed"
  BY Peers DEF RefundRecords, Sends, Stands, TypeOK, Wallets, Legs
<1>4. Learns
  BY <1>2, <1>3 DEF Learns, Wallets, Legs
<1> QED BY <1>2, <1>4 DEF RefundRecords, Stands, GoesTo, chain, TypeOK, Wallets, Legs, OwnKept, ClaimKept, PcKept, SpendsKept, TimeKept, OwnOf, PcOf

LEMMA SpendRefusedDoes ==
    ASSUME TypeOK, NEW w \in Wallets, SpendRefused(w)
    PROVE  /\ Learns
           /\ OwnKept /\ ClaimKept /\ PcOf(w) /\ lock' = lock /\ SpendsKept /\ TimeKept
           /\ pc[w] \in {"claim", "refund", "refundFee"} /\ pc'[w] = "idle"
           /\ pc[w] = "claim" => ~AlreadySpent(Peer(w), "claim")
<1>1. \A v \in Wallets : rec[v] \in Records
  BY DEF TypeOK
<1>2. /\ \A v \in Wallets \ {w} : rec'[v] = rec[v]
      /\ rec'[w].own = rec[w].own /\ rec'[w].claim = rec[w].claim /\ rec'[w].secret = rec[w].secret /\ rec'[w].peer = rec[w].peer
  BY <1>1 DEF SpendRefused, TypeOK, Records
<1>3. "secret" \in box'["maker"] => "secret" \in box["maker"] \/ pc["taker"] = "claimed"
  BY Peers DEF SpendRefused, Sends, Stands, TypeOK, Wallets, Legs
<1>4. Learns
  BY <1>2, <1>3 DEF Learns, Wallets, Legs
<1> QED BY <1>2, <1>4 DEF SpendRefused, Stands, GoesTo, chain, TypeOK, Wallets, Legs, OwnKept, ClaimKept, PcKept, SpendsKept, TimeKept, OwnOf, PcOf

LEMMA InterruptedDoes ==
    ASSUME TypeOK, NEW w \in Wallets, Interrupted(w)
    PROVE  /\ Learns
           /\ OwnKept /\ ClaimKept /\ PcOf(w) /\ lock' = lock /\ SpendsKept /\ TimeKept
           /\ <<w, pc[w]>> \in Cuts /\ pc'[w] = "idle"
BY DEF Interrupted, Stands, GoesTo, chain, TypeOK, Wallets, Legs, OwnKept, ClaimKept, PcKept, SpendsKept, TimeKept, Learns, OwnOf, PcOf

LEMMA LockMinedDoes ==
    ASSUME TypeOK, NEW l \in Legs, LockMined(l)
    PROVE  /\ Learns
           /\ OwnKept /\ ClaimKept /\ PcKept /\ SpendsKept /\ TimeKept
           /\ lock[l] = "signed" /\ lock' = [lock EXCEPT ![l] = "standing"]
BY DEF LockMined, Stands, GoesTo, chain, TypeOK, Wallets, Legs, OwnKept, ClaimKept, PcKept, SpendsKept, TimeKept, Learns, OwnOf, PcOf

LEMMA LockDiesDoes ==
    ASSUME TypeOK, NEW l \in Legs, LockDies(l)
    PROVE  /\ Learns
           /\ OwnKept /\ ClaimKept /\ PcKept /\ SpendsKept /\ TimeKept
           /\ lock[l] = "signed" /\ lock' = [lock EXCEPT ![l] = "dead"]
BY DEF LockDies, Stands, GoesTo, chain, TypeOK, Wallets, Legs, OwnKept, ClaimKept, PcKept, SpendsKept, TimeKept, Learns, OwnOf, PcOf

LEMMA QueueSendsDoes ==
    ASSUME TypeOK, NEW l \in Legs, QueueSends(l)
    PROVE  /\ Learns
           /\ OwnKept /\ ClaimKept /\ PcKept /\ lock' = lock /\ TimeKept
           /\ \E kind \in owed[l] : Spends(l, kind) /\ owed' = [owed EXCEPT ![l] = @ \ {kind}]
BY DEF QueueSends, Stands, GoesTo, chain, TypeOK, Wallets, Legs, OwnKept, ClaimKept, PcKept, SpendsKept, TimeKept, Learns, OwnOf, PcOf

LEMMA FeeClaimsDoes ==
    ASSUME TypeOK, FeeClaims
    PROVE  /\ Learns
           /\ OwnKept /\ ClaimKept /\ PcKept /\ lock' = lock /\ SpendsKept /\ TimeKept
BY DEF FeeClaims, Stands, GoesTo, chain, TypeOK, Wallets, Legs, OwnKept, ClaimKept, PcKept, SpendsKept, TimeKept, Learns, OwnOf, PcOf

LEMMA TowerClaimsDoes ==
    ASSUME TypeOK, TowerClaims
    PROVE  /\ Learns
           /\ OwnKept /\ ClaimKept /\ PcKept /\ lock' = lock /\ owed' = owed /\ TimeKept
           /\ spend["maker"] = "claimed" /\ Spends("taker", "claim")
BY DEF TowerClaims, Stands, GoesTo, chain, TypeOK, Wallets, Legs, OwnKept, ClaimKept, PcKept, SpendsKept, TimeKept, Learns, OwnOf, PcOf

LEMMA TickDoes ==
    ASSUME TypeOK, Tick
    PROVE  /\ Learns
           /\ OwnKept /\ ClaimKept /\ PcKept /\ lock' = lock /\ SpendsKept
           /\ now' = now + 1 /\ skew' = skew /\ PromptClaim
BY DEF Tick, Stands, GoesTo, chain, TypeOK, Wallets, Legs, OwnKept, ClaimKept, PcKept, SpendsKept, TimeKept, Learns, OwnOf, PcOf

----------------------------------------------------------------------------
(* Every step keeps the invariant *)

\* What becomes of the spends when one is sent.
LEMMA SpendsFacts ==
    ASSUME TypeOK, NEW l \in Legs, NEW kind \in {"claim", "refund", "refundFee"}, Spends(l, kind)
    PROVE  /\ lock[l] = "standing"
           /\ \A k \in Legs \ {l} : spend'[k] = spend[k]
           /\ kind = "claim" => spend[l] = "none" /\ spend'[l] = "claimed"
           /\ kind = "refund" => spend[l] = "none" /\ spend'[l] = "refunded" /\ now >= Locktime(l)
           /\ kind = "refundFee" => spend'[l] = spend[l]
BY DEF Spends, Spendable, TypeOK

LEMMA CommitsFacts ==
    ASSUME TypeOK, NEW l \in Legs, NEW kind \in {"claim", "refund", "refundFee"}, Commits(l, kind)
    PROVE  /\ \A k \in Legs \ {l} : spend'[k] = spend[k] /\ owed'[k] = owed[k]
           /\ \/ /\ lock[l] = "standing" /\ spend[l] = "none" /\ owed' = owed
                 /\ \/ kind = "claim" /\ spend'[l] = "claimed"
                    \/ kind = "refund" /\ spend'[l] = "refunded" /\ now >= Locktime(l)
              \/ /\ spend' = spend /\ owed' = owed
                 /\ kind = "claim" => spend[l] = "claimed"
              \/ /\ Outages /\ l \in Bsv
                 /\ spend' = spend
                 /\ owed'[l] = owed[l] \cup {kind}
<1>1. CASE AlreadySpent(l, kind) /\ UNCHANGED <<spend, fee, owed>>
  BY <1>1 DEF AlreadySpent
<1>2. CASE Spends(l, kind) /\ UNCHANGED owed
  <2>1. CASE kind = "refundFee"
    BY <1>2, <2>1 DEF Spends
  <2>2. CASE kind # "refundFee"
    BY <1>2, <2>2, SpendsFacts
  <2> QED BY <2>1, <2>2
<1>3. CASE Outages /\ l \in Bsv /\ owed' = [owed EXCEPT ![l] = @ \cup {kind}] /\ UNCHANGED <<spend, fee>>
  BY <1>3 DEF TypeOK
<1> QED BY <1>1, <1>2, <1>3 DEF Commits

LEMMA DeviceType ==
    ASSUME TypeOK
    PROVE  /\ now \in Int /\ Device("taker") \in Int
           /\ ClaimBy \in Int /\ T2 \in Int /\ T1 \in Int /\ ClaimBy < T2 /\ T2 < T1
BY DeadlinesAssumption, LegsAssumption DEF TypeOK, Device, Wallets, Legs

LEMMA BuriedStays ==
    ASSUME TypeOK, Kept, Learns, \A l \in Legs : lock[l] = "standing" => lock'[l] = "standing"
    PROVE  BuriedStands'
BY PeerType DEF Kept, Learns, BuriedStands, Wallets

LEMMA TakeAcceptedKeeps ==
    ASSUME TypeOK, Kept, ClaimIsRecorded, ClaimIsNotQueued,
           TakeAccepted
    PROVE  Kept'
<1>0. /\ Learns
      /\ OwnKept /\ ClaimKept /\ PcKept /\ lock' = lock /\ SpendsKept /\ TimeKept
  BY TakeAcceptedDoes
<1>1. LocksOnce'
  BY <1>0 DEF Kept, LocksOnce, TypeOK, OwnKept, ClaimKept, PcKept, SpendsKept, TimeKept, Learns, OwnOf, PcOf, Wallets, Legs
<1>2. SpentStood'
  BY <1>0 DEF Kept, SpentStood, OwnKept, ClaimKept, PcKept, SpendsKept, TimeKept, Learns, OwnOf, PcOf, TypeOK, Wallets, Legs
<1>3. BuriedStands'
  BY <1>0, BuriedStays DEF OwnKept, ClaimKept, PcKept, SpendsKept, TimeKept, Learns, OwnOf, PcOf, TypeOK
<1>4. MakerSecond'
  BY <1>0 DEF Kept, MakerSecond, MakerBegan, TypeOK, OwnKept, ClaimKept, PcKept, SpendsKept, TimeKept, Learns, OwnOf, PcOf, Wallets, Legs
<1>5. SecretShown'
  BY <1>0 DEF Kept, SecretShown, SecretHeld, OwnKept, ClaimKept, PcKept, SpendsKept, TimeKept, Learns, OwnOf, PcOf, Wallets, Legs
<1>6. ClaimKnown'
  BY <1>0 DEF Kept, ClaimKnown, OwnKept, ClaimKept, PcKept, SpendsKept, TimeKept, Learns, OwnOf, PcOf, TypeOK, Wallets, Legs
<1>7. ClaimsEarly'
  BY <1>0, DeviceType DEF Kept, ClaimsEarly, OwnKept, ClaimKept, PcKept, SpendsKept, TimeKept, Learns, OwnOf, PcOf, Wallets, Legs
<1>8. RefundsLate'
  BY <1>0, DeviceType DEF Kept, RefundsLate, Device, OwnKept, ClaimKept, PcKept, SpendsKept, TimeKept, Learns, OwnOf, PcOf, Wallets, Legs
<1> QED BY <1>1, <1>2, <1>3, <1>4, <1>5, <1>6, <1>7, <1>8 DEF Kept

LEMMA TakeDeclinedKeeps ==
    ASSUME TypeOK, Kept, ClaimIsRecorded, ClaimIsNotQueued,
           TakeDeclined
    PROVE  Kept'
<1>0. /\ Learns
      /\ OwnKept /\ ClaimKept /\ PcKept /\ lock' = lock /\ SpendsKept /\ TimeKept
  BY TakeDeclinedDoes
<1>1. LocksOnce'
  BY <1>0 DEF Kept, LocksOnce, TypeOK, OwnKept, ClaimKept, PcKept, SpendsKept, TimeKept, Learns, OwnOf, PcOf, Wallets, Legs
<1>2. SpentStood'
  BY <1>0 DEF Kept, SpentStood, OwnKept, ClaimKept, PcKept, SpendsKept, TimeKept, Learns, OwnOf, PcOf, TypeOK, Wallets, Legs
<1>3. BuriedStands'
  BY <1>0, BuriedStays DEF OwnKept, ClaimKept, PcKept, SpendsKept, TimeKept, Learns, OwnOf, PcOf, TypeOK
<1>4. MakerSecond'
  BY <1>0 DEF Kept, MakerSecond, MakerBegan, TypeOK, OwnKept, ClaimKept, PcKept, SpendsKept, TimeKept, Learns, OwnOf, PcOf, Wallets, Legs
<1>5. SecretShown'
  BY <1>0 DEF Kept, SecretShown, SecretHeld, OwnKept, ClaimKept, PcKept, SpendsKept, TimeKept, Learns, OwnOf, PcOf, Wallets, Legs
<1>6. ClaimKnown'
  BY <1>0 DEF Kept, ClaimKnown, OwnKept, ClaimKept, PcKept, SpendsKept, TimeKept, Learns, OwnOf, PcOf, TypeOK, Wallets, Legs
<1>7. ClaimsEarly'
  BY <1>0, DeviceType DEF Kept, ClaimsEarly, OwnKept, ClaimKept, PcKept, SpendsKept, TimeKept, Learns, OwnOf, PcOf, Wallets, Legs
<1>8. RefundsLate'
  BY <1>0, DeviceType DEF Kept, RefundsLate, Device, OwnKept, ClaimKept, PcKept, SpendsKept, TimeKept, Learns, OwnOf, PcOf, Wallets, Legs
<1> QED BY <1>1, <1>2, <1>3, <1>4, <1>5, <1>6, <1>7, <1>8 DEF Kept

LEMMA IntakeKeeps ==
    ASSUME TypeOK, Kept, ClaimIsRecorded, ClaimIsNotQueued, NEW w \in Wallets,
           Intake(w)
    PROVE  Kept'
<1>0. /\ Learns
      /\ OwnKept /\ ClaimKept /\ PcKept /\ lock' = lock /\ SpendsKept /\ TimeKept
  BY IntakeDoes
<1>1. LocksOnce'
  BY <1>0 DEF Kept, LocksOnce, TypeOK, OwnKept, ClaimKept, PcKept, SpendsKept, TimeKept, Learns, OwnOf, PcOf, Wallets, Legs
<1>2. SpentStood'
  BY <1>0 DEF Kept, SpentStood, OwnKept, ClaimKept, PcKept, SpendsKept, TimeKept, Learns, OwnOf, PcOf, TypeOK, Wallets, Legs
<1>3. BuriedStands'
  BY <1>0, BuriedStays DEF OwnKept, ClaimKept, PcKept, SpendsKept, TimeKept, Learns, OwnOf, PcOf, TypeOK
<1>4. MakerSecond'
  BY <1>0 DEF Kept, MakerSecond, MakerBegan, TypeOK, OwnKept, ClaimKept, PcKept, SpendsKept, TimeKept, Learns, OwnOf, PcOf, Wallets, Legs
<1>5. SecretShown'
  BY <1>0 DEF Kept, SecretShown, SecretHeld, OwnKept, ClaimKept, PcKept, SpendsKept, TimeKept, Learns, OwnOf, PcOf, Wallets, Legs
<1>6. ClaimKnown'
  BY <1>0 DEF Kept, ClaimKnown, OwnKept, ClaimKept, PcKept, SpendsKept, TimeKept, Learns, OwnOf, PcOf, TypeOK, Wallets, Legs
<1>7. ClaimsEarly'
  BY <1>0, DeviceType DEF Kept, ClaimsEarly, OwnKept, ClaimKept, PcKept, SpendsKept, TimeKept, Learns, OwnOf, PcOf, Wallets, Legs
<1>8. RefundsLate'
  BY <1>0, DeviceType DEF Kept, RefundsLate, Device, OwnKept, ClaimKept, PcKept, SpendsKept, TimeKept, Learns, OwnOf, PcOf, Wallets, Legs
<1> QED BY <1>1, <1>2, <1>3, <1>4, <1>5, <1>6, <1>7, <1>8 DEF Kept

LEMMA PassWaitsKeeps ==
    ASSUME TypeOK, Kept, ClaimIsRecorded, ClaimIsNotQueued, NEW w \in Wallets, NEW heard \in Answered,
           PassWaits(w, heard)
    PROVE  Kept'
<1>0. /\ Learns
      /\ OwnKept /\ ClaimKept /\ PcKept /\ lock' = lock /\ SpendsKept /\ TimeKept
  BY PassWaitsDoes
<1>1. LocksOnce'
  BY <1>0 DEF Kept, LocksOnce, TypeOK, OwnKept, ClaimKept, PcKept, SpendsKept, TimeKept, Learns, OwnOf, PcOf, Wallets, Legs
<1>2. SpentStood'
  BY <1>0 DEF Kept, SpentStood, OwnKept, ClaimKept, PcKept, SpendsKept, TimeKept, Learns, OwnOf, PcOf, TypeOK, Wallets, Legs
<1>3. BuriedStands'
  BY <1>0, BuriedStays DEF OwnKept, ClaimKept, PcKept, SpendsKept, TimeKept, Learns, OwnOf, PcOf, TypeOK
<1>4. MakerSecond'
  BY <1>0 DEF Kept, MakerSecond, MakerBegan, TypeOK, OwnKept, ClaimKept, PcKept, SpendsKept, TimeKept, Learns, OwnOf, PcOf, Wallets, Legs
<1>5. SecretShown'
  BY <1>0 DEF Kept, SecretShown, SecretHeld, OwnKept, ClaimKept, PcKept, SpendsKept, TimeKept, Learns, OwnOf, PcOf, Wallets, Legs
<1>6. ClaimKnown'
  BY <1>0 DEF Kept, ClaimKnown, OwnKept, ClaimKept, PcKept, SpendsKept, TimeKept, Learns, OwnOf, PcOf, TypeOK, Wallets, Legs
<1>7. ClaimsEarly'
  BY <1>0, DeviceType DEF Kept, ClaimsEarly, OwnKept, ClaimKept, PcKept, SpendsKept, TimeKept, Learns, OwnOf, PcOf, Wallets, Legs
<1>8. RefundsLate'
  BY <1>0, DeviceType DEF Kept, RefundsLate, Device, OwnKept, ClaimKept, PcKept, SpendsKept, TimeKept, Learns, OwnOf, PcOf, Wallets, Legs
<1> QED BY <1>1, <1>2, <1>3, <1>4, <1>5, <1>6, <1>7, <1>8 DEF Kept

LEMMA PassEndsKeeps ==
    ASSUME TypeOK, Kept, ClaimIsRecorded, ClaimIsNotQueued, NEW w \in Wallets, NEW heard \in Answered,
           PassEnds(w, heard)
    PROVE  Kept'
<1>0. /\ Learns
      /\ OwnKept /\ ClaimKept /\ PcKept /\ lock' = lock /\ SpendsKept /\ TimeKept
  BY PassEndsDoes
<1>1. LocksOnce'
  BY <1>0 DEF Kept, LocksOnce, TypeOK, OwnKept, ClaimKept, PcKept, SpendsKept, TimeKept, Learns, OwnOf, PcOf, Wallets, Legs
<1>2. SpentStood'
  BY <1>0 DEF Kept, SpentStood, OwnKept, ClaimKept, PcKept, SpendsKept, TimeKept, Learns, OwnOf, PcOf, TypeOK, Wallets, Legs
<1>3. BuriedStands'
  BY <1>0, BuriedStays DEF OwnKept, ClaimKept, PcKept, SpendsKept, TimeKept, Learns, OwnOf, PcOf, TypeOK
<1>4. MakerSecond'
  BY <1>0 DEF Kept, MakerSecond, MakerBegan, TypeOK, OwnKept, ClaimKept, PcKept, SpendsKept, TimeKept, Learns, OwnOf, PcOf, Wallets, Legs
<1>5. SecretShown'
  BY <1>0 DEF Kept, SecretShown, SecretHeld, OwnKept, ClaimKept, PcKept, SpendsKept, TimeKept, Learns, OwnOf, PcOf, Wallets, Legs
<1>6. ClaimKnown'
  BY <1>0 DEF Kept, ClaimKnown, OwnKept, ClaimKept, PcKept, SpendsKept, TimeKept, Learns, OwnOf, PcOf, TypeOK, Wallets, Legs
<1>7. ClaimsEarly'
  BY <1>0, DeviceType DEF Kept, ClaimsEarly, OwnKept, ClaimKept, PcKept, SpendsKept, TimeKept, Learns, OwnOf, PcOf, Wallets, Legs
<1>8. RefundsLate'
  BY <1>0, DeviceType DEF Kept, RefundsLate, Device, OwnKept, ClaimKept, PcKept, SpendsKept, TimeKept, Learns, OwnOf, PcOf, Wallets, Legs
<1> QED BY <1>1, <1>2, <1>3, <1>4, <1>5, <1>6, <1>7, <1>8 DEF Kept

LEMMA PassFundsKeeps ==
    ASSUME TypeOK, Kept, ClaimIsRecorded, ClaimIsNotQueued, NEW w \in Wallets, NEW heard \in Answered,
           PassFunds(w, heard)
    PROVE  Kept'
<1>0. /\ Learns
      /\ pc[w] = "idle"
      /\ OwnOf(w) /\ ClaimKept /\ PcOf(w) /\ lock' = lock /\ SpendsKept /\ TimeKept
      /\ rec[w].own \in {"none", "prepared"}
      /\ rec'[w].own = (IF w \in Bsv THEN rec[w].own ELSE "started")
      /\ pc'[w] = (IF rec[w].own = "prepared" THEN "prepared" ELSE "sign")
      /\ w = "maker" => Seen(w, heard).peer = "buried"
  BY PassFundsDoes
<1>1. LocksOnce'
  BY <1>0 DEF Kept, LocksOnce, TypeOK, OwnKept, ClaimKept, PcKept, SpendsKept, TimeKept, Learns, OwnOf, PcOf, Wallets, Legs
<1>2. SpentStood'
  BY <1>0 DEF Kept, SpentStood, OwnKept, ClaimKept, PcKept, SpendsKept, TimeKept, Learns, OwnOf, PcOf, TypeOK, Wallets, Legs
<1>3. BuriedStands'
  BY <1>0, BuriedStays DEF OwnKept, ClaimKept, PcKept, SpendsKept, TimeKept, Learns, OwnOf, PcOf, TypeOK
<1>4. MakerSecond'
  <2>1. CASE w = "maker"
    <3>1. lock["taker"] = "standing"
      BY <1>0, <2>1, SeenFacts, Peers DEF Kept, BuriedStands
    <3> QED BY <1>0, <3>1 DEF MakerSecond
  <2>2. CASE w = "taker"
    BY <1>0, <2>2 DEF Kept, MakerSecond, MakerBegan, OwnOf, PcOf, Wallets, Legs
  <2> QED BY <2>1, <2>2 DEF Wallets, Legs
<1>5. SecretShown'
  BY <1>0 DEF Kept, SecretShown, SecretHeld, OwnKept, ClaimKept, PcKept, SpendsKept, TimeKept, Learns, OwnOf, PcOf, Wallets, Legs
<1>6. ClaimKnown'
  BY <1>0 DEF Kept, ClaimKnown, OwnKept, ClaimKept, PcKept, SpendsKept, TimeKept, Learns, OwnOf, PcOf, TypeOK, Wallets, Legs
<1>7. ClaimsEarly'
  BY <1>0, DeviceType DEF Kept, ClaimsEarly, OwnKept, ClaimKept, PcKept, SpendsKept, TimeKept, Learns, OwnOf, PcOf, Wallets, Legs
<1>8. RefundsLate'
  BY <1>0, DeviceType DEF Kept, RefundsLate, Device, OwnKept, ClaimKept, PcKept, SpendsKept, TimeKept, Learns, OwnOf, PcOf, Wallets, Legs
<1> QED BY <1>1, <1>2, <1>3, <1>4, <1>5, <1>6, <1>7, <1>8 DEF Kept

LEMMA PassResumesFundingKeeps ==
    ASSUME TypeOK, Kept, ClaimIsRecorded, ClaimIsNotQueued, NEW w \in Wallets, NEW heard \in Answered,
           PassResumesFunding(w, heard)
    PROVE  Kept'
<1>0. /\ Learns
      /\ pc[w] = "idle"
      /\ OwnOf(w) /\ ClaimKept /\ PcOf(w) /\ lock' = lock /\ SpendsKept /\ TimeKept
      /\ rec[w].own = "started"
      /\ \/ lock[w] = "none" /\ rec'[w].own = "none" /\ pc'[w] = pc[w]
         \/ lock[w] # "none" /\ rec'[w].own = rec[w].own /\ pc'[w] = "signed"
  BY PassResumesFundingDoes
<1>1. LocksOnce'
  BY <1>0 DEF Kept, LocksOnce, TypeOK, OwnKept, ClaimKept, PcKept, SpendsKept, TimeKept, Learns, OwnOf, PcOf, Wallets, Legs
<1>2. SpentStood'
  BY <1>0 DEF Kept, SpentStood, OwnKept, ClaimKept, PcKept, SpendsKept, TimeKept, Learns, OwnOf, PcOf, TypeOK, Wallets, Legs
<1>3. BuriedStands'
  BY <1>0, BuriedStays DEF OwnKept, ClaimKept, PcKept, SpendsKept, TimeKept, Learns, OwnOf, PcOf, TypeOK
<1>4. MakerSecond'
  BY <1>0 DEF Kept, MakerSecond, MakerBegan, TypeOK, OwnKept, ClaimKept, PcKept, SpendsKept, TimeKept, Learns, OwnOf, PcOf, Wallets, Legs
<1>5. SecretShown'
  BY <1>0 DEF Kept, SecretShown, SecretHeld, OwnKept, ClaimKept, PcKept, SpendsKept, TimeKept, Learns, OwnOf, PcOf, Wallets, Legs
<1>6. ClaimKnown'
  BY <1>0 DEF Kept, ClaimKnown, OwnKept, ClaimKept, PcKept, SpendsKept, TimeKept, Learns, OwnOf, PcOf, TypeOK, Wallets, Legs
<1>7. ClaimsEarly'
  BY <1>0, DeviceType DEF Kept, ClaimsEarly, OwnKept, ClaimKept, PcKept, SpendsKept, TimeKept, Learns, OwnOf, PcOf, Wallets, Legs
<1>8. RefundsLate'
  BY <1>0, DeviceType DEF Kept, RefundsLate, Device, OwnKept, ClaimKept, PcKept, SpendsKept, TimeKept, Learns, OwnOf, PcOf, Wallets, Legs
<1> QED BY <1>1, <1>2, <1>3, <1>4, <1>5, <1>6, <1>7, <1>8 DEF Kept

LEMMA PassClaimsKeeps ==
    ASSUME TypeOK, Kept, ClaimIsRecorded, ClaimIsNotQueued, NEW w \in Wallets, NEW heard \in Answered,
           PassClaims(w, heard)
    PROVE  Kept'
<1>0. /\ Learns
      /\ OwnKept /\ PcOf(w) /\ lock' = lock /\ SpendsKept /\ TimeKept
      /\ pc[w] = "idle" /\ pc'[w] = "claim"
      /\ w = "maker" => Seen(w, heard).secret /\ ClaimKept
      /\ w = "taker" => /\ rec[w].claim # "claimed" /\ rec'[w].claim # "claimed"
                         /\ now < ClaimBy /\ Device(w) < ClaimBy
  BY PassClaimsDoes
<1>1. LocksOnce'
  BY <1>0 DEF Kept, LocksOnce, TypeOK, OwnKept, ClaimKept, PcKept, SpendsKept, TimeKept, Learns, OwnOf, PcOf, Wallets, Legs
<1>2. SpentStood'
  BY <1>0 DEF Kept, SpentStood, OwnKept, ClaimKept, PcKept, SpendsKept, TimeKept, Learns, OwnOf, PcOf, TypeOK, Wallets, Legs
<1>3. BuriedStands'
  BY <1>0, BuriedStays DEF OwnKept, ClaimKept, PcKept, SpendsKept, TimeKept, Learns, OwnOf, PcOf, TypeOK
<1>4. MakerSecond'
  BY <1>0 DEF Kept, MakerSecond, MakerBegan, TypeOK, OwnKept, ClaimKept, PcKept, SpendsKept, TimeKept, Learns, OwnOf, PcOf, Wallets, Legs
<1>5. SecretShown'
  <2>1. CASE w = "maker"
    <3>1. spend["maker"] = "claimed"
      BY <1>0, <2>1, SeenFacts DEF Kept, SecretShown, SecretHeld
    <3> QED BY <1>0, <3>1 DEF SecretShown, SpendsKept
  <2>2. CASE w = "taker"
    BY <1>0, <2>2 DEF Kept, SecretShown, SecretHeld, Learns, PcOf, SpendsKept, Wallets, Legs
  <2> QED BY <2>1, <2>2 DEF Wallets, Legs
<1>6. ClaimKnown'
  BY <1>0 DEF Kept, ClaimKnown, OwnKept, ClaimKept, PcKept, SpendsKept, TimeKept, Learns, OwnOf, PcOf, TypeOK, Wallets, Legs
<1>7. ClaimsEarly'
  BY <1>0, DeviceType DEF Kept, ClaimsEarly, OwnKept, ClaimKept, PcKept, SpendsKept, TimeKept, Learns, OwnOf, PcOf, Wallets, Legs
<1>8. RefundsLate'
  BY <1>0, DeviceType DEF Kept, RefundsLate, Device, OwnKept, ClaimKept, PcKept, SpendsKept, TimeKept, Learns, OwnOf, PcOf, Wallets, Legs
<1> QED BY <1>1, <1>2, <1>3, <1>4, <1>5, <1>6, <1>7, <1>8 DEF Kept

LEMMA PassRefundsKeeps ==
    ASSUME TypeOK, Kept, ClaimIsRecorded, ClaimIsNotQueued, NEW w \in Wallets, NEW heard \in Answered,
           PassRefunds(w, heard)
    PROVE  Kept'
<1>0. /\ Learns
      /\ OwnKept /\ ClaimKept /\ PcOf(w) /\ lock' = lock /\ SpendsKept /\ TimeKept
      /\ pc[w] = "idle" /\ pc'[w] \in {"refund", "refundFee"}
      /\ w = "taker" /\ pc'[w] = "refund" => rec[w].claim # "claimed" /\ Device(w) >= T1
  BY PassRefundsDoes
<1>1. LocksOnce'
  BY <1>0 DEF Kept, LocksOnce, TypeOK, OwnKept, ClaimKept, PcKept, SpendsKept, TimeKept, Learns, OwnOf, PcOf, Wallets, Legs
<1>2. SpentStood'
  BY <1>0 DEF Kept, SpentStood, OwnKept, ClaimKept, PcKept, SpendsKept, TimeKept, Learns, OwnOf, PcOf, TypeOK, Wallets, Legs
<1>3. BuriedStands'
  BY <1>0, BuriedStays DEF OwnKept, ClaimKept, PcKept, SpendsKept, TimeKept, Learns, OwnOf, PcOf, TypeOK
<1>4. MakerSecond'
  BY <1>0 DEF Kept, MakerSecond, MakerBegan, TypeOK, OwnKept, ClaimKept, PcKept, SpendsKept, TimeKept, Learns, OwnOf, PcOf, Wallets, Legs
<1>5. SecretShown'
  BY <1>0 DEF Kept, SecretShown, SecretHeld, OwnKept, ClaimKept, PcKept, SpendsKept, TimeKept, Learns, OwnOf, PcOf, Wallets, Legs
<1>6. ClaimKnown'
  BY <1>0 DEF Kept, ClaimKnown, OwnKept, ClaimKept, PcKept, SpendsKept, TimeKept, Learns, OwnOf, PcOf, TypeOK, Wallets, Legs
<1>7. ClaimsEarly'
  BY <1>0, DeviceType DEF Kept, ClaimsEarly, OwnKept, ClaimKept, PcKept, SpendsKept, TimeKept, Learns, OwnOf, PcOf, Wallets, Legs
<1>8. RefundsLate'
  BY <1>0, DeviceType DEF Kept, RefundsLate, ClaimKnown, Device, OwnKept, ClaimKept, PcKept, SpendsKept, TimeKept, Learns, OwnOf, PcOf, TypeOK, Wallets, Legs
<1> QED BY <1>1, <1>2, <1>3, <1>4, <1>5, <1>6, <1>7, <1>8 DEF Kept

LEMMA FundSignsKeeps ==
    ASSUME TypeOK, Kept, ClaimIsRecorded, ClaimIsNotQueued, NEW w \in Wallets,
           FundSigns(w)
    PROVE  Kept'
<1>0. /\ Learns
      /\ pc[w] = "sign" /\ OwnOf(w) /\ ClaimKept /\ PcOf(w) /\ SpendsKept /\ TimeKept
      /\ \/ w \in Bsv /\ rec'[w].own = "prepared" /\ pc'[w] = "prepared" /\ lock' = lock
         \/ /\ w \notin Bsv /\ rec'[w].own = rec[w].own /\ pc'[w] = "signed"
            /\ lock' = [lock EXCEPT ![w] = "signed"]
  BY FundSignsDoes
<1>a. \A l \in Legs : lock[l] = "standing" => lock'[l] = lock[l]
  BY <1>0 DEF Kept, LocksOnce, TypeOK, Wallets, Legs
<1>1. LocksOnce'
  BY <1>0 DEF Kept, LocksOnce, TypeOK, OwnKept, ClaimKept, PcKept, SpendsKept, TimeKept, Learns, OwnOf, PcOf, Wallets, Legs
<1>2. SpentStood'
  BY <1>0, <1>a DEF Kept, SpentStood, SpendsKept
<1>3. BuriedStands'
  BY <1>0, <1>a, BuriedStays
<1>4. MakerSecond'
  BY <1>0, <1>a DEF Kept, MakerSecond, MakerBegan, TypeOK, OwnKept, OwnOf, PcOf, Wallets, Legs
<1>5. SecretShown'
  BY <1>0 DEF Kept, SecretShown, SecretHeld, OwnKept, ClaimKept, PcKept, SpendsKept, TimeKept, Learns, OwnOf, PcOf, Wallets, Legs
<1>6. ClaimKnown'
  BY <1>0 DEF Kept, ClaimKnown, OwnKept, ClaimKept, PcKept, SpendsKept, TimeKept, Learns, OwnOf, PcOf, TypeOK, Wallets, Legs
<1>7. ClaimsEarly'
  BY <1>0, DeviceType DEF Kept, ClaimsEarly, OwnKept, ClaimKept, PcKept, SpendsKept, TimeKept, Learns, OwnOf, PcOf, Wallets, Legs
<1>8. RefundsLate'
  BY <1>0, DeviceType DEF Kept, RefundsLate, Device, OwnKept, ClaimKept, PcKept, SpendsKept, TimeKept, Learns, OwnOf, PcOf, Wallets, Legs
<1> QED BY <1>1, <1>2, <1>3, <1>4, <1>5, <1>6, <1>7, <1>8 DEF Kept

LEMMA FundWithdrawsKeeps ==
    ASSUME TypeOK, Kept, ClaimIsRecorded, ClaimIsNotQueued, NEW w \in Wallets,
           FundWithdraws(w)
    PROVE  Kept'
<1>0. /\ Learns
      /\ pc[w] = "sign" /\ OwnOf(w) /\ ClaimKept /\ PcOf(w) /\ lock' = lock /\ SpendsKept /\ TimeKept
      /\ rec'[w].own = "none" /\ pc'[w] = "idle"
  BY FundWithdrawsDoes
<1>1. LocksOnce'
  BY <1>0 DEF Kept, LocksOnce, TypeOK, OwnKept, ClaimKept, PcKept, SpendsKept, TimeKept, Learns, OwnOf, PcOf, Wallets, Legs
<1>2. SpentStood'
  BY <1>0 DEF Kept, SpentStood, OwnKept, ClaimKept, PcKept, SpendsKept, TimeKept, Learns, OwnOf, PcOf, TypeOK, Wallets, Legs
<1>3. BuriedStands'
  BY <1>0, BuriedStays DEF OwnKept, ClaimKept, PcKept, SpendsKept, TimeKept, Learns, OwnOf, PcOf, TypeOK
<1>4. MakerSecond'
  BY <1>0 DEF Kept, MakerSecond, MakerBegan, TypeOK, OwnKept, ClaimKept, PcKept, SpendsKept, TimeKept, Learns, OwnOf, PcOf, Wallets, Legs
<1>5. SecretShown'
  BY <1>0 DEF Kept, SecretShown, SecretHeld, OwnKept, ClaimKept, PcKept, SpendsKept, TimeKept, Learns, OwnOf, PcOf, Wallets, Legs
<1>6. ClaimKnown'
  BY <1>0 DEF Kept, ClaimKnown, OwnKept, ClaimKept, PcKept, SpendsKept, TimeKept, Learns, OwnOf, PcOf, TypeOK, Wallets, Legs
<1>7. ClaimsEarly'
  BY <1>0, DeviceType DEF Kept, ClaimsEarly, OwnKept, ClaimKept, PcKept, SpendsKept, TimeKept, Learns, OwnOf, PcOf, Wallets, Legs
<1>8. RefundsLate'
  BY <1>0, DeviceType DEF Kept, RefundsLate, Device, OwnKept, ClaimKept, PcKept, SpendsKept, TimeKept, Learns, OwnOf, PcOf, Wallets, Legs
<1> QED BY <1>1, <1>2, <1>3, <1>4, <1>5, <1>6, <1>7, <1>8 DEF Kept

LEMMA FundWritesKeeps ==
    ASSUME TypeOK, Kept, ClaimIsRecorded, ClaimIsNotQueued, NEW w \in Wallets,
           FundWrites(w)
    PROVE  Kept'
<1>0. /\ Learns
      /\ pc[w] = "prepared" /\ OwnOf(w) /\ ClaimKept /\ PcOf(w) /\ lock' = lock /\ SpendsKept /\ TimeKept
      /\ rec'[w].own = "funding" /\ pc'[w] = "commit"
  BY FundWritesDoes
<1>1. LocksOnce'
  BY <1>0 DEF Kept, LocksOnce, TypeOK, OwnKept, ClaimKept, PcKept, SpendsKept, TimeKept, Learns, OwnOf, PcOf, Wallets, Legs
<1>2. SpentStood'
  BY <1>0 DEF Kept, SpentStood, OwnKept, ClaimKept, PcKept, SpendsKept, TimeKept, Learns, OwnOf, PcOf, TypeOK, Wallets, Legs
<1>3. BuriedStands'
  BY <1>0, BuriedStays DEF OwnKept, ClaimKept, PcKept, SpendsKept, TimeKept, Learns, OwnOf, PcOf, TypeOK
<1>4. MakerSecond'
  BY <1>0 DEF Kept, MakerSecond, MakerBegan, TypeOK, OwnKept, ClaimKept, PcKept, SpendsKept, TimeKept, Learns, OwnOf, PcOf, Wallets, Legs
<1>5. SecretShown'
  BY <1>0 DEF Kept, SecretShown, SecretHeld, OwnKept, ClaimKept, PcKept, SpendsKept, TimeKept, Learns, OwnOf, PcOf, Wallets, Legs
<1>6. ClaimKnown'
  BY <1>0 DEF Kept, ClaimKnown, OwnKept, ClaimKept, PcKept, SpendsKept, TimeKept, Learns, OwnOf, PcOf, TypeOK, Wallets, Legs
<1>7. ClaimsEarly'
  BY <1>0, DeviceType DEF Kept, ClaimsEarly, OwnKept, ClaimKept, PcKept, SpendsKept, TimeKept, Learns, OwnOf, PcOf, Wallets, Legs
<1>8. RefundsLate'
  BY <1>0, DeviceType DEF Kept, RefundsLate, Device, OwnKept, ClaimKept, PcKept, SpendsKept, TimeKept, Learns, OwnOf, PcOf, Wallets, Legs
<1> QED BY <1>1, <1>2, <1>3, <1>4, <1>5, <1>6, <1>7, <1>8 DEF Kept

LEMMA FundCommitsKeeps ==
    ASSUME TypeOK, Kept, ClaimIsRecorded, ClaimIsNotQueued, NEW w \in Wallets,
           FundCommits(w)
    PROVE  Kept'
<1>0. /\ Learns
      /\ pc[w] = "commit" /\ OwnKept /\ ClaimKept /\ PcOf(w) /\ SpendsKept /\ TimeKept
      /\ lock' = [lock EXCEPT ![w] = "signed"] /\ pc'[w] = "signed"
  BY FundCommitsDoes
<1>a. \A l \in Legs : lock[l] = "standing" => lock'[l] = lock[l]
  BY <1>0 DEF Kept, LocksOnce, TypeOK, Wallets, Legs
<1>1. LocksOnce'
  BY <1>0 DEF Kept, LocksOnce, TypeOK, OwnKept, ClaimKept, PcKept, SpendsKept, TimeKept, Learns, OwnOf, PcOf, Wallets, Legs
<1>2. SpentStood'
  BY <1>0, <1>a DEF Kept, SpentStood, SpendsKept
<1>3. BuriedStands'
  BY <1>0, <1>a, BuriedStays
<1>4. MakerSecond'
  BY <1>0, <1>a DEF Kept, MakerSecond, MakerBegan, TypeOK, OwnKept, OwnOf, PcOf, Wallets, Legs
<1>5. SecretShown'
  BY <1>0 DEF Kept, SecretShown, SecretHeld, OwnKept, ClaimKept, PcKept, SpendsKept, TimeKept, Learns, OwnOf, PcOf, Wallets, Legs
<1>6. ClaimKnown'
  BY <1>0 DEF Kept, ClaimKnown, OwnKept, ClaimKept, PcKept, SpendsKept, TimeKept, Learns, OwnOf, PcOf, TypeOK, Wallets, Legs
<1>7. ClaimsEarly'
  BY <1>0, DeviceType DEF Kept, ClaimsEarly, OwnKept, ClaimKept, PcKept, SpendsKept, TimeKept, Learns, OwnOf, PcOf, Wallets, Legs
<1>8. RefundsLate'
  BY <1>0, DeviceType DEF Kept, RefundsLate, Device, OwnKept, ClaimKept, PcKept, SpendsKept, TimeKept, Learns, OwnOf, PcOf, Wallets, Legs
<1> QED BY <1>1, <1>2, <1>3, <1>4, <1>5, <1>6, <1>7, <1>8 DEF Kept

LEMMA FundRecordsKeeps ==
    ASSUME TypeOK, Kept, ClaimIsRecorded, ClaimIsNotQueued, NEW w \in Wallets,
           FundRecords(w)
    PROVE  Kept'
<1>0. /\ Learns
      /\ pc[w] = "signed" /\ OwnOf(w) /\ ClaimKept /\ PcOf(w) /\ lock' = lock /\ SpendsKept /\ TimeKept
      /\ rec'[w].own = "funding" /\ pc'[w] = "idle"
  BY FundRecordsDoes
<1>1. LocksOnce'
  BY <1>0 DEF Kept, LocksOnce, TypeOK, OwnKept, ClaimKept, PcKept, SpendsKept, TimeKept, Learns, OwnOf, PcOf, Wallets, Legs
<1>2. SpentStood'
  BY <1>0 DEF Kept, SpentStood, OwnKept, ClaimKept, PcKept, SpendsKept, TimeKept, Learns, OwnOf, PcOf, TypeOK, Wallets, Legs
<1>3. BuriedStands'
  BY <1>0, BuriedStays DEF OwnKept, ClaimKept, PcKept, SpendsKept, TimeKept, Learns, OwnOf, PcOf, TypeOK
<1>4. MakerSecond'
  BY <1>0 DEF Kept, MakerSecond, MakerBegan, TypeOK, OwnKept, ClaimKept, PcKept, SpendsKept, TimeKept, Learns, OwnOf, PcOf, Wallets, Legs
<1>5. SecretShown'
  BY <1>0 DEF Kept, SecretShown, SecretHeld, OwnKept, ClaimKept, PcKept, SpendsKept, TimeKept, Learns, OwnOf, PcOf, Wallets, Legs
<1>6. ClaimKnown'
  BY <1>0 DEF Kept, ClaimKnown, OwnKept, ClaimKept, PcKept, SpendsKept, TimeKept, Learns, OwnOf, PcOf, TypeOK, Wallets, Legs
<1>7. ClaimsEarly'
  BY <1>0, DeviceType DEF Kept, ClaimsEarly, OwnKept, ClaimKept, PcKept, SpendsKept, TimeKept, Learns, OwnOf, PcOf, Wallets, Legs
<1>8. RefundsLate'
  BY <1>0, DeviceType DEF Kept, RefundsLate, Device, OwnKept, ClaimKept, PcKept, SpendsKept, TimeKept, Learns, OwnOf, PcOf, Wallets, Legs
<1> QED BY <1>1, <1>2, <1>3, <1>4, <1>5, <1>6, <1>7, <1>8 DEF Kept

LEMMA ClaimSendsKeeps ==
    ASSUME TypeOK, Kept, ClaimIsRecorded, ClaimIsNotQueued, NEW w \in Wallets,
           ClaimSends(w)
    PROVE  Kept'
<1>0. /\ Learns
      /\ OwnKept /\ ClaimKept /\ PcOf(w) /\ lock' = lock /\ TimeKept
      /\ pc[w] = "claim" /\ pc'[w] = "claimed" /\ Commits(Peer(w), "claim")
  BY ClaimSendsDoes
<1>a. ASSUME w = "taker"
      PROVE  SpentStood' /\ SecretShown' /\ ClaimKnown' /\ ClaimsEarly' /\ RefundsLate'
  <2>1. /\ owed' = owed /\ spend'["taker"] = spend["taker"]
        /\ spend'["maker"] = "claimed"
        /\ lock["maker"] = "standing"
        /\ spend["maker"] \in {"none", "claimed"}
    BY <1>0, <1>a, Peers, CommitsFacts DEF ClaimIsNotQueued, Kept, SpentStood, Legs
  <2>2. SpentStood'
    BY <1>0, <2>1 DEF Kept, SpentStood, Legs
  <2>3. SecretShown'
    BY <2>1 DEF SecretShown
  <2>4. ClaimKnown'
    BY <1>0, <1>a DEF ClaimKnown
  <2>5. ClaimsEarly'
    BY <1>0, <1>a, <2>1 DEF Kept, ClaimsEarly, PcOf
  <2>6. RefundsLate'
    BY <1>0, <1>a, <2>1 DEF Kept, RefundsLate, Device, PcOf, TimeKept
  <2> QED BY <2>2, <2>3, <2>4, <2>5, <2>6
<1>b. ASSUME w = "maker"
      PROVE  SpentStood' /\ SecretShown' /\ ClaimKnown' /\ ClaimsEarly' /\ RefundsLate'
  <2>1. /\ spend'["maker"] = spend["maker"] /\ owed'["maker"] = owed["maker"]
        /\ spend'["taker"] # spend["taker"] => lock["taker"] = "standing" /\ spend'["taker"] = "claimed"
        /\ owed'["taker"] \subseteq owed["taker"] \cup {"claim"}
    BY <1>0, <1>b, Peers, CommitsFacts DEF Legs
  <2>2. spend["maker"] = "claimed"
    BY <1>0, <1>b DEF Kept, SecretShown, SecretHeld
  <2>3. SpentStood'
    BY <1>0, <2>1 DEF Kept, SpentStood, Legs
  <2>4. SecretShown'
    BY <2>1, <2>2 DEF SecretShown
  <2>5. ClaimKnown'
    BY <1>0, <1>b, <2>1 DEF Kept, ClaimKnown, PcOf, ClaimKept, Wallets, Legs
  <2>6. ClaimsEarly'
    BY <1>0, <1>b, <2>1 DEF Kept, ClaimsEarly, PcOf, TimeKept, Wallets, Legs
  <2>7. RefundsLate'
    BY <1>0, <1>b, <2>1 DEF Kept, RefundsLate, Device, PcOf, TimeKept, Wallets, Legs
  <2> QED BY <2>3, <2>4, <2>5, <2>6, <2>7
<1>1. LocksOnce'
  BY <1>0 DEF Kept, LocksOnce, TypeOK, OwnKept, ClaimKept, PcKept, SpendsKept, TimeKept, Learns, OwnOf, PcOf, Wallets, Legs
<1>2. SpentStood'
  BY <1>a, <1>b DEF Wallets, Legs
<1>3. BuriedStands'
  BY <1>0, BuriedStays DEF OwnKept, ClaimKept, PcKept, SpendsKept, TimeKept, Learns, OwnOf, PcOf, TypeOK
<1>4. MakerSecond'
  BY <1>0 DEF Kept, MakerSecond, MakerBegan, TypeOK, OwnKept, ClaimKept, PcKept, SpendsKept, TimeKept, Learns, OwnOf, PcOf, Wallets, Legs
<1>5. SecretShown'
  BY <1>a, <1>b DEF Wallets, Legs
<1>6. ClaimKnown'
  BY <1>a, <1>b DEF Wallets, Legs
<1>7. ClaimsEarly'
  BY <1>a, <1>b DEF Wallets, Legs
<1>8. RefundsLate'
  BY <1>a, <1>b DEF Wallets, Legs
<1> QED BY <1>1, <1>2, <1>3, <1>4, <1>5, <1>6, <1>7, <1>8 DEF Kept

LEMMA ClaimRecordsKeeps ==
    ASSUME TypeOK, Kept, ClaimIsRecorded, ClaimIsNotQueued, NEW w \in Wallets,
           ClaimRecords(w)
    PROVE  Kept'
<1>0. /\ Learns
      /\ OwnKept /\ PcOf(w) /\ lock' = lock /\ SpendsKept /\ TimeKept
      /\ pc[w] = "claimed" /\ pc'[w] = "idle"
      /\ IF w = "taker" THEN rec'[w].claim = "claimed" ELSE ClaimKept
  BY ClaimRecordsDoes
<1>1. LocksOnce'
  BY <1>0 DEF Kept, LocksOnce, TypeOK, OwnKept, ClaimKept, PcKept, SpendsKept, TimeKept, Learns, OwnOf, PcOf, Wallets, Legs
<1>2. SpentStood'
  BY <1>0 DEF Kept, SpentStood, OwnKept, ClaimKept, PcKept, SpendsKept, TimeKept, Learns, OwnOf, PcOf, TypeOK, Wallets, Legs
<1>3. BuriedStands'
  BY <1>0, BuriedStays DEF OwnKept, ClaimKept, PcKept, SpendsKept, TimeKept, Learns, OwnOf, PcOf, TypeOK
<1>4. MakerSecond'
  BY <1>0 DEF Kept, MakerSecond, MakerBegan, TypeOK, OwnKept, ClaimKept, PcKept, SpendsKept, TimeKept, Learns, OwnOf, PcOf, Wallets, Legs
<1>5. SecretShown'
  BY <1>0 DEF Kept, SecretShown, SecretHeld, OwnKept, ClaimKept, PcKept, SpendsKept, TimeKept, Learns, OwnOf, PcOf, Wallets, Legs
<1>6. ClaimKnown'
  BY <1>0 DEF Kept, ClaimKnown, OwnKept, ClaimKept, PcKept, SpendsKept, TimeKept, Learns, OwnOf, PcOf, TypeOK, Wallets, Legs
<1>7. ClaimsEarly'
  BY <1>0, DeviceType DEF Kept, ClaimsEarly, OwnKept, ClaimKept, PcKept, SpendsKept, TimeKept, Learns, OwnOf, PcOf, Wallets, Legs
<1>8. RefundsLate'
  BY <1>0, DeviceType DEF Kept, RefundsLate, Device, OwnKept, ClaimKept, PcKept, SpendsKept, TimeKept, Learns, OwnOf, PcOf, Wallets, Legs
<1> QED BY <1>1, <1>2, <1>3, <1>4, <1>5, <1>6, <1>7, <1>8 DEF Kept

LEMMA RefundSendsKeeps ==
    ASSUME TypeOK, Kept, ClaimIsRecorded, ClaimIsNotQueued, NEW w \in Wallets,
           RefundSends(w)
    PROVE  Kept'
<1>0. /\ Learns
      /\ OwnKept /\ ClaimKept /\ PcOf(w) /\ lock' = lock /\ TimeKept
      /\ \E kind \in {"refund", "refundFee"} : /\ pc[w] = kind /\ pc'[w] \in {"refunded", "feeRefunded"}
                                              /\ Commits(w, kind)
  BY RefundSendsDoes
<1>c. PICK kind \in {"refund", "refundFee"} :
        pc[w] = kind /\ pc'[w] \in {"refunded", "feeRefunded"} /\ Commits(w, kind)
  BY <1>0
<1>a. ASSUME w = "taker"
      PROVE  SpentStood' /\ SecretShown' /\ ClaimKnown' /\ ClaimsEarly' /\ RefundsLate'
  <2>1. /\ spend'["maker"] = spend["maker"] /\ owed'["maker"] = owed["maker"]
        /\ owed'["taker"] \subseteq owed["taker"] \cup {kind}
        /\ spend'["taker"] # spend["taker"] =>
              lock["taker"] = "standing" /\ spend'["taker"] = "refunded" /\ now >= T1
    BY <1>a, <1>c, CommitsFacts DEF Locktime, Legs
  <2>2. SpentStood'
    BY <1>0, <2>1 DEF Kept, SpentStood, Legs
  <2>3. SecretShown'
    BY <1>0, <1>a, <2>1 DEF Kept, SecretShown, SecretHeld, Learns, PcOf, ClaimKept, Wallets, Legs
  <2>4. ClaimKnown'
    BY <1>0, <1>a, <1>c, <2>1 DEF Kept, ClaimKnown, ClaimKept
  <2>5. ClaimsEarly'
    BY <1>0, <1>a, <2>1 DEF Kept, ClaimsEarly
  <2>6. RefundsLate'
    BY <1>0, <1>a, <1>c, <2>1 DEF Kept, RefundsLate, Device, TimeKept
  <2> QED BY <2>2, <2>3, <2>4, <2>5, <2>6
<1>b. ASSUME w = "maker"
      PROVE  SpentStood' /\ SecretShown' /\ ClaimKnown' /\ ClaimsEarly' /\ RefundsLate'
  <2>1. /\ spend'["taker"] = spend["taker"] /\ owed'["taker"] = owed["taker"]
        /\ owed'["maker"] \subseteq owed["maker"] \cup {kind}
        /\ spend'["maker"] # spend["maker"] =>
              lock["maker"] = "standing" /\ spend["maker"] = "none" /\ spend'["maker"] = "refunded"
    BY <1>b, <1>c, CommitsFacts DEF Legs
  <2>2. SpentStood'
    BY <1>0, <2>1 DEF Kept, SpentStood, Legs
  <2>3. SecretShown'
    BY <1>0, <1>b, <2>1 DEF Kept, SecretShown, SecretHeld, Learns, PcOf, ClaimKept, Wallets, Legs
  <2>4. ClaimKnown'
    BY <1>0, <1>b, <2>1 DEF Kept, ClaimKnown, ClaimKept, PcOf, Wallets, Legs
  <2>5. ClaimsEarly'
    BY <1>0, <1>b, <2>1 DEF Kept, ClaimsEarly, PcOf, TimeKept, Wallets, Legs
  <2>6. RefundsLate'
    BY <1>0, <1>b, <2>1 DEF Kept, RefundsLate, Device, PcOf, TimeKept, Wallets, Legs
  <2> QED BY <2>2, <2>3, <2>4, <2>5, <2>6
<1>1. LocksOnce'
  BY <1>0 DEF Kept, LocksOnce, TypeOK, OwnKept, ClaimKept, PcKept, SpendsKept, TimeKept, Learns, OwnOf, PcOf, Wallets, Legs
<1>2. SpentStood'
  BY <1>a, <1>b DEF Wallets, Legs
<1>3. BuriedStands'
  BY <1>0, BuriedStays DEF OwnKept, ClaimKept, PcKept, SpendsKept, TimeKept, Learns, OwnOf, PcOf, TypeOK
<1>4. MakerSecond'
  BY <1>0 DEF Kept, MakerSecond, MakerBegan, TypeOK, OwnKept, ClaimKept, PcKept, SpendsKept, TimeKept, Learns, OwnOf, PcOf, Wallets, Legs
<1>5. SecretShown'
  BY <1>a, <1>b DEF Wallets, Legs
<1>6. ClaimKnown'
  BY <1>a, <1>b DEF Wallets, Legs
<1>7. ClaimsEarly'
  BY <1>a, <1>b DEF Wallets, Legs
<1>8. RefundsLate'
  BY <1>a, <1>b DEF Wallets, Legs
<1> QED BY <1>1, <1>2, <1>3, <1>4, <1>5, <1>6, <1>7, <1>8 DEF Kept

LEMMA RefundRecordsKeeps ==
    ASSUME TypeOK, Kept, ClaimIsRecorded, ClaimIsNotQueued, NEW w \in Wallets,
           RefundRecords(w)
    PROVE  Kept'
<1>0. /\ Learns
      /\ OwnKept /\ ClaimKept /\ PcOf(w) /\ lock' = lock /\ SpendsKept /\ TimeKept
      /\ pc[w] \in {"refunded", "feeRefunded"} /\ pc'[w] = "idle"
  BY RefundRecordsDoes
<1>1. LocksOnce'
  BY <1>0 DEF Kept, LocksOnce, TypeOK, OwnKept, ClaimKept, PcKept, SpendsKept, TimeKept, Learns, OwnOf, PcOf, Wallets, Legs
<1>2. SpentStood'
  BY <1>0 DEF Kept, SpentStood, OwnKept, ClaimKept, PcKept, SpendsKept, TimeKept, Learns, OwnOf, PcOf, TypeOK, Wallets, Legs
<1>3. BuriedStands'
  BY <1>0, BuriedStays DEF OwnKept, ClaimKept, PcKept, SpendsKept, TimeKept, Learns, OwnOf, PcOf, TypeOK
<1>4. MakerSecond'
  BY <1>0 DEF Kept, MakerSecond, MakerBegan, TypeOK, OwnKept, ClaimKept, PcKept, SpendsKept, TimeKept, Learns, OwnOf, PcOf, Wallets, Legs
<1>5. SecretShown'
  BY <1>0 DEF Kept, SecretShown, SecretHeld, OwnKept, ClaimKept, PcKept, SpendsKept, TimeKept, Learns, OwnOf, PcOf, Wallets, Legs
<1>6. ClaimKnown'
  BY <1>0 DEF Kept, ClaimKnown, OwnKept, ClaimKept, PcKept, SpendsKept, TimeKept, Learns, OwnOf, PcOf, TypeOK, Wallets, Legs
<1>7. ClaimsEarly'
  BY <1>0, DeviceType DEF Kept, ClaimsEarly, OwnKept, ClaimKept, PcKept, SpendsKept, TimeKept, Learns, OwnOf, PcOf, Wallets, Legs
<1>8. RefundsLate'
  BY <1>0, DeviceType DEF Kept, RefundsLate, Device, OwnKept, ClaimKept, PcKept, SpendsKept, TimeKept, Learns, OwnOf, PcOf, Wallets, Legs
<1> QED BY <1>1, <1>2, <1>3, <1>4, <1>5, <1>6, <1>7, <1>8 DEF Kept

LEMMA SpendRefusedKeeps ==
    ASSUME TypeOK, Kept, ClaimIsRecorded, ClaimIsNotQueued, NEW w \in Wallets,
           SpendRefused(w)
    PROVE  Kept'
<1>0. /\ Learns
      /\ OwnKept /\ ClaimKept /\ PcOf(w) /\ lock' = lock /\ SpendsKept /\ TimeKept
      /\ pc[w] \in {"claim", "refund", "refundFee"} /\ pc'[w] = "idle"
      /\ pc[w] = "claim" => ~AlreadySpent(Peer(w), "claim")
  BY SpendRefusedDoes
<1>1. LocksOnce'
  BY <1>0 DEF Kept, LocksOnce, TypeOK, OwnKept, ClaimKept, PcKept, SpendsKept, TimeKept, Learns, OwnOf, PcOf, Wallets, Legs
<1>2. SpentStood'
  BY <1>0 DEF Kept, SpentStood, OwnKept, ClaimKept, PcKept, SpendsKept, TimeKept, Learns, OwnOf, PcOf, TypeOK, Wallets, Legs
<1>3. BuriedStands'
  BY <1>0, BuriedStays DEF OwnKept, ClaimKept, PcKept, SpendsKept, TimeKept, Learns, OwnOf, PcOf, TypeOK
<1>4. MakerSecond'
  BY <1>0 DEF Kept, MakerSecond, MakerBegan, TypeOK, OwnKept, ClaimKept, PcKept, SpendsKept, TimeKept, Learns, OwnOf, PcOf, Wallets, Legs
<1>5. SecretShown'
  BY <1>0 DEF Kept, SecretShown, SecretHeld, OwnKept, ClaimKept, PcKept, SpendsKept, TimeKept, Learns, OwnOf, PcOf, Wallets, Legs
<1>6. ClaimKnown'
  BY <1>0 DEF Kept, ClaimKnown, OwnKept, ClaimKept, PcKept, SpendsKept, TimeKept, Learns, OwnOf, PcOf, TypeOK, Wallets, Legs
<1>7. ClaimsEarly'
  BY <1>0, DeviceType DEF Kept, ClaimsEarly, OwnKept, ClaimKept, PcKept, SpendsKept, TimeKept, Learns, OwnOf, PcOf, Wallets, Legs
<1>8. RefundsLate'
  BY <1>0, DeviceType DEF Kept, RefundsLate, Device, OwnKept, ClaimKept, PcKept, SpendsKept, TimeKept, Learns, OwnOf, PcOf, Wallets, Legs
<1> QED BY <1>1, <1>2, <1>3, <1>4, <1>5, <1>6, <1>7, <1>8 DEF Kept

LEMMA InterruptedKeeps ==
    ASSUME TypeOK, Kept, ClaimIsRecorded, ClaimIsNotQueued, NEW w \in Wallets,
           Interrupted(w)
    PROVE  Kept'
<1>0. /\ Learns
      /\ OwnKept /\ ClaimKept /\ PcOf(w) /\ lock' = lock /\ SpendsKept /\ TimeKept
      /\ <<w, pc[w]>> \in Cuts /\ pc'[w] = "idle"
  BY InterruptedDoes
<1>1. LocksOnce'
  BY <1>0 DEF Kept, LocksOnce, TypeOK, OwnKept, ClaimKept, PcKept, SpendsKept, TimeKept, Learns, OwnOf, PcOf, Wallets, Legs
<1>2. SpentStood'
  BY <1>0 DEF Kept, SpentStood, OwnKept, ClaimKept, PcKept, SpendsKept, TimeKept, Learns, OwnOf, PcOf, TypeOK, Wallets, Legs
<1>3. BuriedStands'
  BY <1>0, BuriedStays DEF OwnKept, ClaimKept, PcKept, SpendsKept, TimeKept, Learns, OwnOf, PcOf, TypeOK
<1>4. MakerSecond'
  BY <1>0 DEF Kept, MakerSecond, MakerBegan, TypeOK, OwnKept, ClaimKept, PcKept, SpendsKept, TimeKept, Learns, OwnOf, PcOf, Wallets, Legs
<1>5. SecretShown'
  BY <1>0 DEF Kept, SecretShown, SecretHeld, OwnKept, ClaimKept, PcKept, SpendsKept, TimeKept, Learns, OwnOf, PcOf, Wallets, Legs
<1>6. ClaimKnown'
  BY <1>0 DEF Kept, ClaimKnown, ClaimIsRecorded, OwnKept, ClaimKept, PcKept, SpendsKept, TimeKept, Learns, OwnOf, PcOf, TypeOK, Wallets, Legs
<1>7. ClaimsEarly'
  BY <1>0, DeviceType DEF Kept, ClaimsEarly, OwnKept, ClaimKept, PcKept, SpendsKept, TimeKept, Learns, OwnOf, PcOf, Wallets, Legs
<1>8. RefundsLate'
  BY <1>0, DeviceType DEF Kept, RefundsLate, Device, OwnKept, ClaimKept, PcKept, SpendsKept, TimeKept, Learns, OwnOf, PcOf, Wallets, Legs
<1> QED BY <1>1, <1>2, <1>3, <1>4, <1>5, <1>6, <1>7, <1>8 DEF Kept

LEMMA LockMinedKeeps ==
    ASSUME TypeOK, Kept, ClaimIsRecorded, ClaimIsNotQueued, NEW l \in Legs,
           LockMined(l)
    PROVE  Kept'
<1>0. /\ Learns
      /\ OwnKept /\ ClaimKept /\ PcKept /\ SpendsKept /\ TimeKept
      /\ lock[l] = "signed" /\ lock' = [lock EXCEPT ![l] = "standing"]
  BY LockMinedDoes
<1>a. \A k \in Legs : lock[k] = "standing" => lock'[k] = lock[k]
  BY <1>0 DEF TypeOK, Wallets, Legs
<1>1. LocksOnce'
  BY <1>0 DEF Kept, LocksOnce, TypeOK, OwnKept, ClaimKept, PcKept, SpendsKept, TimeKept, Learns, OwnOf, PcOf, Wallets, Legs
<1>2. SpentStood'
  BY <1>0, <1>a DEF Kept, SpentStood, SpendsKept
<1>3. BuriedStands'
  BY <1>0, <1>a, BuriedStays
<1>4. MakerSecond'
  BY <1>0 DEF Kept, MakerSecond, MakerBegan, TypeOK, OwnKept, ClaimKept, PcKept, SpendsKept, TimeKept, Learns, OwnOf, PcOf, Wallets, Legs
<1>5. SecretShown'
  BY <1>0 DEF Kept, SecretShown, SecretHeld, OwnKept, ClaimKept, PcKept, SpendsKept, TimeKept, Learns, OwnOf, PcOf, Wallets, Legs
<1>6. ClaimKnown'
  BY <1>0 DEF Kept, ClaimKnown, OwnKept, ClaimKept, PcKept, SpendsKept, TimeKept, Learns, OwnOf, PcOf, TypeOK, Wallets, Legs
<1>7. ClaimsEarly'
  BY <1>0, DeviceType DEF Kept, ClaimsEarly, OwnKept, ClaimKept, PcKept, SpendsKept, TimeKept, Learns, OwnOf, PcOf, Wallets, Legs
<1>8. RefundsLate'
  BY <1>0, DeviceType DEF Kept, RefundsLate, Device, OwnKept, ClaimKept, PcKept, SpendsKept, TimeKept, Learns, OwnOf, PcOf, Wallets, Legs
<1> QED BY <1>1, <1>2, <1>3, <1>4, <1>5, <1>6, <1>7, <1>8 DEF Kept

LEMMA LockDiesKeeps ==
    ASSUME TypeOK, Kept, ClaimIsRecorded, ClaimIsNotQueued, NEW l \in Legs,
           LockDies(l)
    PROVE  Kept'
<1>0. /\ Learns
      /\ OwnKept /\ ClaimKept /\ PcKept /\ SpendsKept /\ TimeKept
      /\ lock[l] = "signed" /\ lock' = [lock EXCEPT ![l] = "dead"]
  BY LockDiesDoes
<1>a. \A k \in Legs : lock[k] = "standing" => lock'[k] = lock[k]
  BY <1>0 DEF TypeOK, Wallets, Legs
<1>1. LocksOnce'
  BY <1>0 DEF Kept, LocksOnce, TypeOK, OwnKept, ClaimKept, PcKept, SpendsKept, TimeKept, Learns, OwnOf, PcOf, Wallets, Legs
<1>2. SpentStood'
  BY <1>0, <1>a DEF Kept, SpentStood, SpendsKept
<1>3. BuriedStands'
  BY <1>0, <1>a, BuriedStays
<1>4. MakerSecond'
  BY <1>0 DEF Kept, MakerSecond, MakerBegan, TypeOK, OwnKept, ClaimKept, PcKept, SpendsKept, TimeKept, Learns, OwnOf, PcOf, Wallets, Legs
<1>5. SecretShown'
  BY <1>0 DEF Kept, SecretShown, SecretHeld, OwnKept, ClaimKept, PcKept, SpendsKept, TimeKept, Learns, OwnOf, PcOf, Wallets, Legs
<1>6. ClaimKnown'
  BY <1>0 DEF Kept, ClaimKnown, OwnKept, ClaimKept, PcKept, SpendsKept, TimeKept, Learns, OwnOf, PcOf, TypeOK, Wallets, Legs
<1>7. ClaimsEarly'
  BY <1>0, DeviceType DEF Kept, ClaimsEarly, OwnKept, ClaimKept, PcKept, SpendsKept, TimeKept, Learns, OwnOf, PcOf, Wallets, Legs
<1>8. RefundsLate'
  BY <1>0, DeviceType DEF Kept, RefundsLate, Device, OwnKept, ClaimKept, PcKept, SpendsKept, TimeKept, Learns, OwnOf, PcOf, Wallets, Legs
<1> QED BY <1>1, <1>2, <1>3, <1>4, <1>5, <1>6, <1>7, <1>8 DEF Kept

LEMMA QueueSendsKeeps ==
    ASSUME TypeOK, Kept, ClaimIsRecorded, ClaimIsNotQueued, NEW l \in Legs,
           QueueSends(l)
    PROVE  Kept'
<1>0. /\ Learns
      /\ OwnKept /\ ClaimKept /\ PcKept /\ lock' = lock /\ TimeKept
      /\ \E kind \in owed[l] : Spends(l, kind) /\ owed' = [owed EXCEPT ![l] = @ \ {kind}]
  BY QueueSendsDoes
<1>c. PICK kind \in {"claim", "refund", "refundFee"} :
        kind \in owed[l] /\ Spends(l, kind) /\ owed' = [owed EXCEPT ![l] = @ \ {kind}]
  BY <1>0 DEF TypeOK
<1>d. /\ lock[l] = "standing"
      /\ \A k \in Legs \ {l} : spend'[k] = spend[k]
      /\ \/ kind = "claim" /\ spend[l] = "none" /\ spend'[l] = "claimed"
         \/ kind = "refund" /\ spend[l] = "none" /\ spend'[l] = "refunded" /\ now >= Locktime(l)
         \/ kind = "refundFee" /\ spend'[l] = spend[l]
      /\ \A k \in Legs : owed'[k] \subseteq owed[k]
  BY <1>c, SpendsFacts DEF TypeOK
<1>1. LocksOnce'
  BY <1>0 DEF Kept, LocksOnce, TypeOK, OwnKept, ClaimKept, PcKept, SpendsKept, TimeKept, Learns, OwnOf, PcOf, Wallets, Legs
<1>2. SpentStood'
  BY <1>0, <1>d DEF Kept, SpentStood
<1>3. BuriedStands'
  BY <1>0, BuriedStays DEF OwnKept, ClaimKept, PcKept, SpendsKept, TimeKept, Learns, OwnOf, PcOf, TypeOK
<1>4. MakerSecond'
  BY <1>0 DEF Kept, MakerSecond, MakerBegan, TypeOK, OwnKept, ClaimKept, PcKept, SpendsKept, TimeKept, Learns, OwnOf, PcOf, Wallets, Legs
<1>5. SecretShown'
  <2>1. spend["maker"] = "claimed" => spend'["maker"] = "claimed"
    BY <1>d DEF Legs
  <2>2. SecretHeld' => SecretHeld \/ spend["maker"] = "claimed"
    BY <1>0, <1>c, <1>d DEF SecretHeld, Kept, SecretShown, Learns, PcKept, ClaimKept, Wallets, Legs
  <2> QED BY <2>1, <2>2 DEF Kept, SecretShown
<1>6. ClaimKnown'
  BY <1>0, <1>c, <1>d DEF Kept, ClaimKnown, ClaimsEarly, Learns, PcKept, ClaimKept, TimeKept, Wallets, Legs
<1>7. ClaimsEarly'
  BY <1>0, <1>d DEF Kept, ClaimsEarly, PcKept, TimeKept, Wallets, Legs
<1>8. RefundsLate'
  BY <1>0, <1>c, <1>d DEF Kept, RefundsLate, Locktime, Device, ClaimsEarly, Learns, PcKept, ClaimKept, TimeKept, Wallets, Legs
<1> QED BY <1>1, <1>2, <1>3, <1>4, <1>5, <1>6, <1>7, <1>8 DEF Kept

LEMMA FeeClaimsKeeps ==
    ASSUME TypeOK, Kept, ClaimIsRecorded, ClaimIsNotQueued,
           FeeClaims
    PROVE  Kept'
<1>0. /\ Learns
      /\ OwnKept /\ ClaimKept /\ PcKept /\ lock' = lock /\ SpendsKept /\ TimeKept
  BY FeeClaimsDoes
<1>1. LocksOnce'
  BY <1>0 DEF Kept, LocksOnce, TypeOK, OwnKept, ClaimKept, PcKept, SpendsKept, TimeKept, Learns, OwnOf, PcOf, Wallets, Legs
<1>2. SpentStood'
  BY <1>0 DEF Kept, SpentStood, OwnKept, ClaimKept, PcKept, SpendsKept, TimeKept, Learns, OwnOf, PcOf, TypeOK, Wallets, Legs
<1>3. BuriedStands'
  BY <1>0, BuriedStays DEF OwnKept, ClaimKept, PcKept, SpendsKept, TimeKept, Learns, OwnOf, PcOf, TypeOK
<1>4. MakerSecond'
  BY <1>0 DEF Kept, MakerSecond, MakerBegan, TypeOK, OwnKept, ClaimKept, PcKept, SpendsKept, TimeKept, Learns, OwnOf, PcOf, Wallets, Legs
<1>5. SecretShown'
  BY <1>0 DEF Kept, SecretShown, SecretHeld, OwnKept, ClaimKept, PcKept, SpendsKept, TimeKept, Learns, OwnOf, PcOf, Wallets, Legs
<1>6. ClaimKnown'
  BY <1>0 DEF Kept, ClaimKnown, OwnKept, ClaimKept, PcKept, SpendsKept, TimeKept, Learns, OwnOf, PcOf, TypeOK, Wallets, Legs
<1>7. ClaimsEarly'
  BY <1>0, DeviceType DEF Kept, ClaimsEarly, OwnKept, ClaimKept, PcKept, SpendsKept, TimeKept, Learns, OwnOf, PcOf, Wallets, Legs
<1>8. RefundsLate'
  BY <1>0, DeviceType DEF Kept, RefundsLate, Device, OwnKept, ClaimKept, PcKept, SpendsKept, TimeKept, Learns, OwnOf, PcOf, Wallets, Legs
<1> QED BY <1>1, <1>2, <1>3, <1>4, <1>5, <1>6, <1>7, <1>8 DEF Kept

LEMMA TowerClaimsKeeps ==
    ASSUME TypeOK, Kept, ClaimIsRecorded, ClaimIsNotQueued,
           TowerClaims
    PROVE  Kept'
<1>0. /\ Learns
      /\ OwnKept /\ ClaimKept /\ PcKept /\ lock' = lock /\ owed' = owed /\ TimeKept
      /\ spend["maker"] = "claimed" /\ Spends("taker", "claim")
  BY TowerClaimsDoes
<1>d. /\ lock["taker"] = "standing" /\ spend["taker"] = "none" /\ spend'["taker"] = "claimed"
      /\ spend'["maker"] = spend["maker"] /\ spend["maker"] = "claimed"
  BY <1>0, SpendsFacts DEF Legs
<1>1. LocksOnce'
  BY <1>0 DEF Kept, LocksOnce, TypeOK, OwnKept, ClaimKept, PcKept, SpendsKept, TimeKept, Learns, OwnOf, PcOf, Wallets, Legs
<1>2. SpentStood'
  BY <1>0, <1>d DEF Kept, SpentStood, PcKept, ClaimKept, TimeKept, Device, Wallets, Legs
<1>3. BuriedStands'
  BY <1>0, BuriedStays DEF OwnKept, ClaimKept, PcKept, SpendsKept, TimeKept, Learns, OwnOf, PcOf, TypeOK
<1>4. MakerSecond'
  BY <1>0 DEF Kept, MakerSecond, MakerBegan, TypeOK, OwnKept, ClaimKept, PcKept, SpendsKept, TimeKept, Learns, OwnOf, PcOf, Wallets, Legs
<1>5. SecretShown'
  BY <1>0, <1>d DEF Kept, SecretShown, PcKept, ClaimKept, TimeKept, Device, Wallets, Legs
<1>6. ClaimKnown'
  BY <1>0, <1>d DEF Kept, ClaimKnown, PcKept, ClaimKept, TimeKept, Device, Wallets, Legs
<1>7. ClaimsEarly'
  BY <1>0, DeviceType DEF Kept, ClaimsEarly, OwnKept, ClaimKept, PcKept, SpendsKept, TimeKept, Learns, OwnOf, PcOf, Wallets, Legs
<1>8. RefundsLate'
  BY <1>0, <1>d DEF Kept, RefundsLate, PcKept, ClaimKept, TimeKept, Device, Wallets, Legs
<1> QED BY <1>1, <1>2, <1>3, <1>4, <1>5, <1>6, <1>7, <1>8 DEF Kept

LEMMA TickKeeps ==
    ASSUME TypeOK, Kept, ClaimIsRecorded, ClaimIsNotQueued,
           Tick
    PROVE  Kept'
<1>0. /\ Learns
      /\ OwnKept /\ ClaimKept /\ PcKept /\ lock' = lock /\ SpendsKept
      /\ now' = now + 1 /\ skew' = skew /\ PromptClaim
  BY TickDoes
<1>1. LocksOnce'
  BY <1>0 DEF Kept, LocksOnce, TypeOK, OwnKept, ClaimKept, PcKept, SpendsKept, TimeKept, Learns, OwnOf, PcOf, Wallets, Legs
<1>2. SpentStood'
  BY <1>0 DEF Kept, SpentStood, OwnKept, ClaimKept, PcKept, SpendsKept, TimeKept, Learns, OwnOf, PcOf, TypeOK, Wallets, Legs
<1>3. BuriedStands'
  BY <1>0, BuriedStays DEF OwnKept, ClaimKept, PcKept, SpendsKept, TimeKept, Learns, OwnOf, PcOf, TypeOK
<1>4. MakerSecond'
  BY <1>0 DEF Kept, MakerSecond, MakerBegan, TypeOK, OwnKept, ClaimKept, PcKept, SpendsKept, TimeKept, Learns, OwnOf, PcOf, Wallets, Legs
<1>5. SecretShown'
  BY <1>0 DEF Kept, SecretShown, SecretHeld, OwnKept, ClaimKept, PcKept, SpendsKept, TimeKept, Learns, OwnOf, PcOf, Wallets, Legs
<1>6. ClaimKnown'
  BY <1>0 DEF Kept, ClaimKnown, OwnKept, ClaimKept, PcKept, SpendsKept, TimeKept, Learns, OwnOf, PcOf, TypeOK, Wallets, Legs
<1>7. ClaimsEarly'
  BY <1>0, DeviceType DEF Kept, ClaimsEarly, PromptClaim, OwnKept, ClaimKept, PcKept, SpendsKept, TimeKept, Learns, OwnOf, PcOf, TypeOK, Wallets, Legs
<1>8. RefundsLate'
  BY <1>0, DeviceType, LegsAssumption DEF Kept, RefundsLate, Device, OwnKept, PcKept, SpendsKept, TypeOK, Wallets, Legs
<1> QED BY <1>1, <1>2, <1>3, <1>4, <1>5, <1>6, <1>7, <1>8 DEF Kept

LEMMA KeptInit == Init => Kept
<1> SUFFICES ASSUME Init PROVE Kept
  OBVIOUS
<1>1. \A w \in Wallets : /\ rec[w].own = "none" /\ rec[w].secret = FALSE
                         /\ rec[w].claim = "none" /\ rec[w].peer = "unseen"
  BY DEF Init, NewRecord
<1>2. LocksOnce /\ SpentStood /\ BuriedStands
  BY <1>1 DEF Init, LocksOnce, SpentStood, BuriedStands, Wallets
<1>3. MakerSecond /\ SecretShown
  BY <1>1 DEF Init, MakerSecond, MakerBegan, SecretShown, SecretHeld, Wallets, Legs
<1>4. ClaimKnown /\ ClaimsEarly /\ RefundsLate
  BY DEF Init, ClaimKnown, ClaimsEarly, RefundsLate, Wallets, Legs
<1> QED BY <1>2, <1>3, <1>4 DEF Kept

LEMMA KeptStep ==
    ASSUME ClaimIsRecorded, ClaimIsNotQueued
    PROVE  TypeOK /\ Kept /\ [Next]_vars => Kept'
<1> SUFFICES ASSUME TypeOK, Kept, [Next]_vars PROVE Kept'
  OBVIOUS
<1>0. CASE UNCHANGED vars
  BY <1>0 DEF vars, chain, Kept, LocksOnce, SpentStood, BuriedStands, MakerSecond, MakerBegan, SecretShown,
              SecretHeld, ClaimKnown, ClaimsEarly, RefundsLate, Device
<1>1. CASE TakeAccepted
  BY <1>1, TakeAcceptedKeeps
<1>2. CASE TakeDeclined
  BY <1>2, TakeDeclinedKeeps
<1>3. CASE \E w \in Wallets : Intake(w)
  BY <1>3, IntakeKeeps
<1>4. CASE \E w \in Wallets : \E heard \in Answered : PassWaits(w, heard)
  BY <1>4, PassWaitsKeeps
<1>5. CASE \E w \in Wallets : \E heard \in Answered : PassEnds(w, heard)
  BY <1>5, PassEndsKeeps
<1>6. CASE \E w \in Wallets : \E heard \in Answered : PassFunds(w, heard)
  BY <1>6, PassFundsKeeps
<1>7. CASE \E w \in Wallets : \E heard \in Answered : PassResumesFunding(w, heard)
  BY <1>7, PassResumesFundingKeeps
<1>8. CASE \E w \in Wallets : \E heard \in Answered : PassClaims(w, heard)
  BY <1>8, PassClaimsKeeps
<1>9. CASE \E w \in Wallets : \E heard \in Answered : PassRefunds(w, heard)
  BY <1>9, PassRefundsKeeps
<1>10. CASE \E w \in Wallets : FundSigns(w)
  BY <1>10, FundSignsKeeps
<1>11. CASE \E w \in Wallets : FundWithdraws(w)
  BY <1>11, FundWithdrawsKeeps
<1>12. CASE \E w \in Wallets : FundWrites(w)
  BY <1>12, FundWritesKeeps
<1>13. CASE \E w \in Wallets : FundCommits(w)
  BY <1>13, FundCommitsKeeps
<1>14. CASE \E w \in Wallets : FundRecords(w)
  BY <1>14, FundRecordsKeeps
<1>15. CASE \E w \in Wallets : ClaimSends(w)
  BY <1>15, ClaimSendsKeeps
<1>16. CASE \E w \in Wallets : ClaimRecords(w)
  BY <1>16, ClaimRecordsKeeps
<1>17. CASE \E w \in Wallets : RefundSends(w)
  BY <1>17, RefundSendsKeeps
<1>18. CASE \E w \in Wallets : RefundRecords(w)
  BY <1>18, RefundRecordsKeeps
<1>19. CASE \E w \in Wallets : SpendRefused(w)
  BY <1>19, SpendRefusedKeeps
<1>20. CASE \E w \in Wallets : Interrupted(w)
  BY <1>20, InterruptedKeeps
<1>21. CASE \E l \in Legs : LockMined(l)
  BY <1>21, LockMinedKeeps
<1>22. CASE \E l \in Legs : LockDies(l)
  BY <1>22, LockDiesKeeps
<1>23. CASE \E l \in Legs : QueueSends(l)
  BY <1>23, QueueSendsKeeps
<1>24. CASE FeeClaims
  BY <1>24, FeeClaimsKeeps
<1>25. CASE TowerClaims
  BY <1>25, TowerClaimsKeeps
<1>26. CASE Tick
  BY <1>26, TickKeeps
<1> QED BY <1>0, <1>1, <1>2, <1>3, <1>4, <1>5, <1>6, <1>7, <1>8, <1>9, <1>10, <1>11, <1>12, <1>13, <1>14, <1>15, <1>16, <1>17, <1>18, <1>19, <1>20, <1>21, <1>22, <1>23, <1>24, <1>25, <1>26 DEF Next, Pass, Funding, Spending, Chains

LEMMA KeptAlways ==
    ASSUME ClaimIsRecorded, ClaimIsNotQueued
    PROVE  Spec => [](TypeOK /\ Kept)
BY TypeInit, TypeStep, KeptInit, KeptStep, PTL DEF Spec

----------------------------------------------------------------------------
(* A step of the settlement is a step of the promise, or none of its steps *)

\* What a step does to the locks: nothing the promise speaks of, or one thing.
Unseen == \A l \in Legs : SwapLeg(l)' = SwapLeg(l)
Moves(l, from, to) ==
    /\ SwapLeg(l) = from /\ SwapLeg(l)' = to
    /\ \A k \in Legs \ {l} : SwapLeg(k)' = SwapLeg(k)

\* Each kind of move with what the promise asks of it.
Allowed ==
    \/ Unseen
    \/ Moves("taker", "open", "locked")
    \/ SwapLeg("taker") # "open" /\ Moves("maker", "open", "locked")
    \/ SwapLeg("taker") = "locked" /\ Moves("maker", "locked", "claimed") /\ now < T2
    \/ SwapLeg("maker") = "claimed" /\ Moves("taker", "locked", "claimed")
    \/ SwapLeg("maker") # "claimed" /\ \E l \in Legs : Moves(l, "locked", "refunded")

LEMMA StillUnseen == ASSUME lock' = lock, spend' = spend PROVE Allowed
BY DEF Allowed, Unseen, SwapLeg

LEMMA OpenUnseen ==
    ASSUME TypeOK, Kept, NEW l \in Legs, NEW state \in {"signed", "dead"}, lock[l] # "standing",
           lock' = [lock EXCEPT ![l] = state], spend' = spend
    PROVE  Allowed
BY DEF Allowed, Unseen, SwapLeg, TypeOK

LEMMA MinedAllowed == ASSUME TypeOK, Kept, NEW l \in Legs, LockMined(l) PROVE Allowed
<1>1. /\ lock[l] = "signed" /\ lock' = [lock EXCEPT ![l] = "standing"] /\ spend' = spend
  BY DEF LockMined
<1>2. spend[l] = "none"
  BY <1>1 DEF Kept, SpentStood, TypeOK
<1>3. Moves(l, "open", "locked")
  BY <1>1, <1>2 DEF Moves, SwapLeg, TypeOK
<1>4. l = "maker" => SwapLeg("taker") # "open"
  BY <1>1 DEF Kept, MakerSecond, MakerBegan, SwapLeg, TypeOK, Legs
<1> QED BY <1>3, <1>4 DEF Allowed, Legs

\* A claim of the maker's lock: the taker's own still stands, for its lock time is far.
LEMMA TakerClaimAllowed ==
    ASSUME TypeOK, Kept, now < T2, lock' = lock,
           lock["maker"] = "standing", spend["maker"] = "none", spend'["maker"] = "claimed",
           spend'["taker"] = spend["taker"]
    PROVE  Allowed
<1>1. lock["taker"] = "standing"
  BY DEF Kept, MakerSecond, MakerBegan
<1>2. spend["taker"] = "none"
  <2>1. spend["taker"] # "claimed"
    BY DEF Kept, SecretShown, SecretHeld
  <2>2. spend["taker"] # "refunded"
    BY DeviceType DEF Kept, RefundsLate
  <2> QED BY <2>1, <2>2 DEF TypeOK, Legs
<1> QED BY <1>1, <1>2 DEF Allowed, Moves, SwapLeg, Legs

LEMMA MakerClaimAllowed ==
    ASSUME TypeOK, Kept, spend["maker"] = "claimed", lock' = lock,
           lock["taker"] = "standing", spend["taker"] = "none", spend'["taker"] = "claimed",
           spend'["maker"] = spend["maker"]
    PROVE  Allowed
BY DEF Allowed, Moves, SwapLeg, Legs

LEMMA RefundAllowed ==
    ASSUME TypeOK, Kept, NEW l \in Legs, spend["maker"] # "claimed", lock' = lock,
           lock[l] = "standing", spend[l] = "none", spend'[l] = "refunded",
           \A k \in Legs \ {l} : spend'[k] = spend[k]
    PROVE  Allowed
<1>1. Moves(l, "locked", "refunded")
  BY DEF Moves, SwapLeg
<1>2. SwapLeg("maker") # "claimed"
  BY DEF SwapLeg
<1> QED BY <1>1, <1>2 DEF Allowed

LEMMA ClaimSendsAllowed ==
    ASSUME TypeOK, Kept, ClaimIsNotQueued, NEW w \in Wallets, ClaimSends(w) PROVE Allowed
<1>0. pc[w] = "claim" /\ lock' = lock /\ Commits(Peer(w), "claim")
  BY ClaimSendsDoes
<1>1. CASE spend' = spend
  BY <1>0, <1>1, StillUnseen
<1>2. ASSUME spend' # spend, w = "taker" PROVE Allowed
  <2>1. /\ lock["maker"] = "standing" /\ spend["maker"] = "none" /\ spend'["maker"] = "claimed"
        /\ spend'["taker"] = spend["taker"]
    BY <1>0, <1>2, Peers, CommitsFacts DEF Legs
  <2>2. now < T2
    BY <1>0, <1>2 DEF Kept, ClaimsEarly
  <2> QED BY <1>0, <2>1, <2>2, TakerClaimAllowed
<1>3. ASSUME spend' # spend, w = "maker" PROVE Allowed
  <2>1. /\ lock["taker"] = "standing" /\ spend["taker"] = "none" /\ spend'["taker"] = "claimed"
        /\ spend'["maker"] = spend["maker"]
    BY <1>0, <1>3, Peers, CommitsFacts DEF Legs
  <2>2. spend["maker"] = "claimed"
    BY <1>0, <1>3 DEF Kept, SecretShown, SecretHeld
  <2> QED BY <1>0, <2>1, <2>2, MakerClaimAllowed
<1> QED BY <1>1, <1>2, <1>3 DEF Wallets, Legs

\* Who takes a lock back finds it unspent; the taker knows of no claim of its own.
LEMMA RefundSendsAllowed ==
    ASSUME TypeOK, Kept, NEW w \in Wallets, RefundSends(w) PROVE Allowed
<1>0. lock' = lock
  BY RefundSendsDoes
<1>1. PICK kind \in {"refund", "refundFee"} : pc[w] = kind /\ Commits(w, kind)
  BY RefundSendsDoes
<1>2. CASE spend' = spend
  BY <1>0, <1>2, StillUnseen
<1>3. ASSUME spend' # spend PROVE Allowed
  <2>1. /\ kind = "refund" /\ lock[w] = "standing" /\ spend[w] = "none" /\ spend'[w] = "refunded"
        /\ \A k \in Legs \ {w} : spend'[k] = spend[k]
    BY <1>1, <1>3, CommitsFacts DEF Wallets
  <2>2. spend["maker"] # "claimed"
    BY <1>1, <2>1 DEF Kept, RefundsLate, Wallets, Legs
  <2> QED BY <1>0, <2>1, <2>2, RefundAllowed DEF Wallets
<1> QED BY <1>2, <1>3

LEMMA QueueSendsAllowed == ASSUME TypeOK, Kept, NEW l \in Legs, QueueSends(l) PROVE Allowed
<1>0. lock' = lock
  BY QueueSendsDoes
<1>1. PICK kind \in {"claim", "refund", "refundFee"} : kind \in owed[l] /\ Spends(l, kind)
  BY QueueSendsDoes DEF TypeOK
<1>2. /\ lock[l] = "standing"
      /\ \A k \in Legs \ {l} : spend'[k] = spend[k]
  BY <1>1, SpendsFacts
<1>3. CASE kind = "refundFee"
  BY <1>0, <1>1, <1>3, StillUnseen DEF Spends
<1>4. CASE kind = "refund"
  <2>1. spend["maker"] # "claimed"
    BY <1>1, <1>4, SpendsFacts DEF Kept, RefundsLate, Legs
  <2> QED BY <1>0, <1>1, <1>2, <1>4, <2>1, SpendsFacts, RefundAllowed
<1>5. CASE kind = "claim"
  <2>1. l = "taker"
    BY <1>1, <1>5 DEF Kept, ClaimsEarly, Legs
  <2>2. spend["maker"] = "claimed" /\ spend'["maker"] = spend["maker"]
    BY <1>1, <1>2, <1>5, <2>1 DEF Kept, SecretShown, SecretHeld, Legs
  <2> QED BY <1>0, <1>1, <1>2, <1>5, <2>1, <2>2, SpendsFacts, MakerClaimAllowed
<1> QED BY <1>3, <1>4, <1>5

LEMMA TowerClaimsAllowed == ASSUME TypeOK, Kept, TowerClaims PROVE Allowed
<1>1. lock' = lock /\ spend["maker"] = "claimed" /\ Spends("taker", "claim")
  BY TowerClaimsDoes
<1> QED BY <1>1, SpendsFacts, MakerClaimAllowed DEF Legs

LEMMA StepAllowed ==
    ASSUME TypeOK, Kept, ClaimIsRecorded, ClaimIsNotQueued, [Next]_vars
    PROVE  Allowed
<1>0. CASE UNCHANGED vars
  BY <1>0, StillUnseen DEF vars, chain
<1>1. CASE TakeAccepted
  BY <1>1, TakeAcceptedDoes, StillUnseen DEF SpendsKept
<1>2. CASE TakeDeclined
  BY <1>2, TakeDeclinedDoes, StillUnseen DEF SpendsKept
<1>3. CASE \E w \in Wallets : Intake(w)
  BY <1>3, IntakeDoes, StillUnseen DEF SpendsKept
<1>4. CASE \E w \in Wallets : \E heard \in Answered : PassWaits(w, heard)
  BY <1>4, PassWaitsDoes, StillUnseen DEF SpendsKept
<1>5. CASE \E w \in Wallets : \E heard \in Answered : PassEnds(w, heard)
  BY <1>5, PassEndsDoes, StillUnseen DEF SpendsKept
<1>6. CASE \E w \in Wallets : \E heard \in Answered : PassFunds(w, heard)
  BY <1>6, PassFundsDoes, StillUnseen DEF SpendsKept
<1>7. CASE \E w \in Wallets : \E heard \in Answered : PassResumesFunding(w, heard)
  BY <1>7, PassResumesFundingDoes, StillUnseen DEF SpendsKept
<1>8. CASE \E w \in Wallets : \E heard \in Answered : PassClaims(w, heard)
  BY <1>8, PassClaimsDoes, StillUnseen DEF SpendsKept
<1>9. CASE \E w \in Wallets : \E heard \in Answered : PassRefunds(w, heard)
  BY <1>9, PassRefundsDoes, StillUnseen DEF SpendsKept
<1>10. CASE \E w \in Wallets : FundSigns(w)
  <2> PICK w \in Wallets : FundSigns(w)
    BY <1>10
  <2>1. lock[w] # "standing" /\ spend' = spend
    BY FundSignsDoes DEF Kept, LocksOnce, SpendsKept
  <2> QED BY <2>1, FundSignsDoes, StillUnseen, OpenUnseen DEF Wallets
<1>11. CASE \E w \in Wallets : FundWithdraws(w)
  BY <1>11, FundWithdrawsDoes, StillUnseen DEF SpendsKept
<1>12. CASE \E w \in Wallets : FundWrites(w)
  BY <1>12, FundWritesDoes, StillUnseen DEF SpendsKept
<1>13. CASE \E w \in Wallets : FundCommits(w)
  <2> PICK w \in Wallets : FundCommits(w)
    BY <1>13
  <2>1. lock[w] # "standing" /\ spend' = spend
    BY FundCommitsDoes DEF Kept, LocksOnce, SpendsKept
  <2> QED BY <2>1, FundCommitsDoes, OpenUnseen DEF Wallets
<1>14. CASE \E w \in Wallets : FundRecords(w)
  BY <1>14, FundRecordsDoes, StillUnseen DEF SpendsKept
<1>15. CASE \E w \in Wallets : ClaimSends(w)
  BY <1>15, ClaimSendsAllowed
<1>16. CASE \E w \in Wallets : ClaimRecords(w)
  BY <1>16, ClaimRecordsDoes, StillUnseen DEF SpendsKept
<1>17. CASE \E w \in Wallets : RefundSends(w)
  BY <1>17, RefundSendsAllowed
<1>18. CASE \E w \in Wallets : RefundRecords(w)
  BY <1>18, RefundRecordsDoes, StillUnseen DEF SpendsKept
<1>19. CASE \E w \in Wallets : SpendRefused(w)
  BY <1>19, SpendRefusedDoes, StillUnseen DEF SpendsKept
<1>20. CASE \E w \in Wallets : Interrupted(w)
  BY <1>20, InterruptedDoes, StillUnseen DEF SpendsKept
<1>21. CASE \E l \in Legs : LockMined(l)
  BY <1>21, MinedAllowed
<1>22. CASE \E l \in Legs : LockDies(l)
  BY <1>22, LockDiesDoes, OpenUnseen DEF SpendsKept
<1>23. CASE \E l \in Legs : QueueSends(l)
  BY <1>23, QueueSendsAllowed
<1>24. CASE FeeClaims
  BY <1>24, FeeClaimsDoes, StillUnseen DEF SpendsKept
<1>25. CASE TowerClaims
  BY <1>25, TowerClaimsAllowed
<1>26. CASE Tick
  BY <1>26, TickDoes, StillUnseen DEF SpendsKept
<1> QED BY <1>0, <1>1, <1>2, <1>3, <1>4, <1>5, <1>6, <1>7, <1>8, <1>9, <1>10, <1>11, <1>12, <1>13, <1>14, <1>15, <1>16, <1>17, <1>18, <1>19, <1>20, <1>21, <1>22, <1>23, <1>24, <1>25, <1>26 DEF Next, Pass, Funding, Spending, Chains

Leg == [l \in Legs |-> SwapLeg(l)]

LEMMA PromiseInit == Init => Promise!Init
BY DEF Init, Promise!Init, Promise!Legs, SwapLeg, Legs

LEMMA PromiseStep == Allowed => [Promise!Next]_Leg
<1> SUFFICES ASSUME Allowed PROVE [Promise!Next]_Leg
  OBVIOUS
<1>1. CASE Unseen
  BY <1>1 DEF Unseen, Leg
<1>2. ASSUME NEW l \in Legs, NEW from, NEW to, Moves(l, from, to)
      PROVE  Leg' = [Leg EXCEPT ![l] = to]
  BY <1>2 DEF Moves, Leg
<1>3. CASE Moves("taker", "open", "locked")
  <2>1. Promise!TakerLocks
    BY <1>2, <1>3 DEF Promise!TakerLocks, Promise!Becomes, Leg, Moves, Legs
  <2> QED BY <2>1 DEF Promise!Next
<1>4. CASE SwapLeg("taker") # "open" /\ Moves("maker", "open", "locked")
  <2>1. Promise!MakerLocks
    BY <1>2, <1>4 DEF Promise!MakerLocks, Promise!Becomes, Leg, Moves, Legs
  <2> QED BY <2>1 DEF Promise!Next
<1>5. CASE SwapLeg("taker") = "locked" /\ Moves("maker", "locked", "claimed")
  <2>1. Promise!TakerClaims
    BY <1>2, <1>5 DEF Promise!TakerClaims, Promise!Becomes, Leg, Moves, Legs
  <2> QED BY <2>1 DEF Promise!Next
<1>6. CASE SwapLeg("maker") = "claimed" /\ Moves("taker", "locked", "claimed")
  <2>1. Promise!MakerClaims
    BY <1>2, <1>6 DEF Promise!MakerClaims, Promise!Becomes, Leg, Moves, Legs
  <2> QED BY <2>1 DEF Promise!Next
<1>7. CASE SwapLeg("maker") # "claimed" /\ \E l \in Legs : Moves(l, "locked", "refunded")
  <2> PICK l \in Legs : Moves(l, "locked", "refunded")
    BY <1>7
  <2>1. Promise!Refund(l)
    BY <1>2, <1>7 DEF Promise!Refund, Promise!Becomes, Leg, Moves, Legs
  <2> QED BY <2>1 DEF Promise!Next, Promise!Legs, Legs
<1> QED BY <1>1, <1>3, <1>4, <1>5, <1>6, <1>7 DEF Allowed

\* The settlement implements the promise of an atomic swap: whatever the deadlines,
\* chains, clocks, unanswered reads and cuts, but where the taker's claim is cut from
\* its record or left to a miner's queue (settle.ts, settleRunner.ts).
THEOREM SwapKeepsPromise ==
    ASSUME ClaimIsRecorded, ClaimIsNotQueued
    PROVE  Spec => AtomicPromise
<1>1. TypeOK /\ Kept /\ [Next]_vars => [Promise!Next]_Leg
  BY StepAllowed, PromiseStep
<1> QED BY <1>1, PromiseInit, KeptAlways, PTL DEF Spec, AtomicPromise, Promise!Spec, Leg

\* The claim that shows the secret is on its chain before the maker may take its
\* lock back, however far off the clocks are (settle.ts, nextTakerStep).
THEOREM SwapClaimsInTime ==
    ASSUME ClaimIsRecorded, ClaimIsNotQueued
    PROVE  Spec => ClaimInTime
<1>1. ASSUME Allowed, TypeOK, Kept, spend'["maker"] = "claimed", spend["maker"] = "none" PROVE now < T2
  <2>1. SwapLeg("maker")' = "claimed" /\ SwapLeg("maker") # "claimed"
    BY <1>1 DEF SwapLeg
  <2> QED BY <1>1, <2>1 DEF Allowed, Unseen, Moves, Legs
<1>2. TypeOK /\ Kept /\ [Next]_vars
        => [spend["maker"]' = "claimed" /\ spend["maker"] = "none" => now < T2]_vars
  BY <1>1, StepAllowed
<1> QED BY <1>2, KeptAlways, PTL DEF Spec, ClaimInTime

\* Neither wallet ends up with both sides: a claimed taker's lock means a claimed
\* maker's lock, and once that is claimed the taker's is never taken back.
THEOREM SwapNobodyHoldsBoth ==
    ASSUME ClaimIsRecorded, ClaimIsNotQueued
    PROVE  Spec => []Promise!NobodyHoldsBoth
<1>1. Init => Promise!NobodyHoldsBoth
  BY DEF Init, Promise!NobodyHoldsBoth, SwapLeg, Legs
<1>2. Promise!NobodyHoldsBoth /\ TypeOK /\ Kept /\ [Next]_vars => Promise!NobodyHoldsBoth'
  BY StepAllowed DEF Allowed, Unseen, Moves, Promise!NobodyHoldsBoth, Legs
<1> QED BY <1>1, <1>2, KeptAlways, PTL DEF Spec

----------------------------------------------------------------------------
(* A recorded outcome is true of the chains *)

\* The spend of the other lock is out; the own lock went back, or will not be claimed.
ClaimOut(w) == spend[Peer(w)] = "claimed" \/ "claim" \in owed[Peer(w)]
BackOut(w) ==
    \/ spend[w] = "refunded"
    \/ /\ w = "taker" /\ spend["maker"] # "claimed"
       /\ pc["taker"] # "claim" /\ Device("taker") >= T1

\* What each outcome rests on.
Just(w, outcome) ==
    /\ outcome = "swapped" => ClaimOut(w)
    /\ outcome = "refunded" => BackOut(w)
    /\ outcome \in {"declined", "expired"} => lock[w] = "none"
    /\ outcome = "missed" => w = "maker" /\ spend["maker"] = "claimed" /\ spend["taker"] = "refunded"
    /\ outcome = "unsent" => lock[w] = "dead"

\* What a record says of the chains is so.
Truth(w) ==
    /\ rec[w].claim = "claimed" \/ pc[w] = "claimed" => ClaimOut(w)
    /\ rec[w].refunded \/ pc[w] = "refunded" => BackOut(w)
    /\ rec[w].peerGone => spend[Peer(w)] = "refunded"
    /\ rec[w].outcome # "none" => pc[w] = "idle" /\ Just(w, rec[w].outcome)
Told == \A w \in Wallets : Truth(w)

LEMMA ToldHolds == ASSUME TypeOK, Kept, Told PROVE OutcomesHold
<1> SUFFICES ASSUME NEW w \in Wallets PROVE OutcomeHolds(w)
  BY DEF OutcomesHold
<1>1. BackOut(w) => spend[w] # "claimed"
  BY DEF BackOut, Kept, SecretShown, SecretHeld
<1>2. rec[w].outcome \in Outcomes \cup {"none"}
  BY DEF TypeOK, Records
<1>3. rec[w].outcome # "none" => Just(w, rec[w].outcome)
  BY DEF Told, Truth
<1> QED BY <1>1, <1>2, <1>3, Peers DEF OutcomeHolds, Just, ClaimOut, Outcomes

LEMMA OutcomeJudged ==
    ASSUME TypeOK, Kept, Told, NEW w \in Wallets, NEW heard, NEW outcome \in Outcomes,
           Judges(w, heard, Seen(w, heard), outcome)
    PROVE  Just(w, outcome)
<1> DEFINE s == Seen(w, heard)
<1>0. /\ s.claim = "claimed" => ClaimOut(w)
      /\ s.refunded => BackOut(w)
      /\ s.peerGone => spend[Peer(w)] = "refunded"
  BY SeenFacts DEF Told, Truth, ClaimOut, BackOut
<1>1. s.secret /\ w = "maker" => spend["maker"] = "claimed"
  BY SeenFacts DEF Kept, SecretShown, SecretHeld
<1>2. s.own \in {"none", "prepared"} => lock[w] = "none"
  BY SeenFacts DEF Kept, LocksOnce
<1>3. s.own \in {"none", "started", "prepared", "funding"}
  BY SeenFacts DEF Records
<1>4. outcome = NextSettleStep(w, s, heard)
  BY DEF Judges
<1> HIDE DEF s
<1>5. RefundOrWait("taker", s) \in {"refunded", "refund", "locktime"}
      /\ (RefundOrWait("taker", s) = "refunded" => s.refunded)
  BY DEF RefundOrWait
<1>6. /\ TakerStep(s, heard) = "refunded" => s.refunded
      /\ TakerStep(s, heard) = "expired" => s.own # "funding"
      /\ TakerStep(s, heard) \notin {"swapped", "missed", "unsent", "declined"}
  BY <1>5 DEF TakerStep
<1>7. /\ MakerStep(s) = "refunded" => s.refunded
      /\ MakerStep(s) = "expired" => s.own # "funding"
      /\ MakerStep(s) = "missed" => s.secret /\ s.peerGone
      /\ MakerStep(s) \notin {"swapped", "unsent", "declined"}
  BY DEF MakerStep
<1>8. ProvenUnsent(w, heard) => lock[w] = "dead"
  BY DEF ProvenUnsent
<1>9. \/ outcome = "swapped" /\ s.claim = "claimed"
      \/ outcome \in {"refund-fee", "locktime", "fund"}
      \/ outcome = "unsent" /\ ProvenUnsent(w, heard)
      \/ outcome = "declined" /\ s.own \notin {"funding", "started"}
      \/ s.own # "started" /\ w = "taker" /\ outcome = TakerStep(s, heard)
      \/ s.own # "started" /\ w = "maker" /\ outcome = MakerStep(s)
  BY <1>4 DEF NextSettleStep, Wallets, Legs
<1>10. outcome \notin {"refund-fee", "locktime", "fund"}
  BY DEF Outcomes
<1> QED BY <1>0, <1>1, <1>2, <1>3, <1>6, <1>7, <1>8, <1>9, <1>10, Peers DEF Just

----------------------------------------------------------------------------
\* What is out stays out: no step takes back what an outcome rests on.
Lasting ==
    /\ \A l \in Legs :
          /\ spend[l] # "none" => spend'[l] = spend[l]
          /\ "claim" \in owed[l] => "claim" \in owed'[l] \/ spend'[l] = "claimed"
          /\ lock[l] = "dead" => lock'[l] = "dead"
          /\ lock[l] = "none" /\ pc[l] = "idle" => lock'[l] = "none"
    /\ spend'["maker"] = "claimed" => spend["maker"] = "claimed" \/ pc["taker"] = "claim"
    /\ pc'["taker"] = "claim" => pc["taker"] = "claim" \/ Device("taker") < ClaimBy
    /\ Device("taker")' >= Device("taker")

LEMMA LastingOut ==
    ASSUME TypeOK, TypeOK', Lasting, NEW w \in Wallets
    PROVE  /\ ClaimOut(w) => ClaimOut(w)'
           /\ BackOut(w) => BackOut(w)'
           /\ \A outcome : pc[w] = "idle" /\ Just(w, outcome) => Just(w, outcome)'
<1>1. ClaimOut(w) => ClaimOut(w)'
  BY PeerType DEF Lasting, ClaimOut, Wallets
<1>2. BackOut(w) => BackOut(w)'
  <2>1. Device("taker") \in Int /\ Device("taker")' \in Int /\ ClaimBy \in Int /\ T1 \in Int /\ ClaimBy < T1
    BY DeadlinesAssumption, LegsAssumption DEF TypeOK, Device, Wallets, Legs
  <2>2. CASE spend[w] = "refunded"
    BY <2>2 DEF Lasting, BackOut, Wallets
  <2>3. CASE w = "taker" /\ spend["maker"] # "claimed" /\ pc["taker"] # "claim" /\ Device("taker") >= T1
    <3>1. spend'["maker"] # "claimed" /\ pc'["taker"] # "claim" /\ Device("taker")' >= T1
      BY <2>1, <2>3 DEF Lasting
    <3> QED BY <2>3, <3>1 DEF BackOut
  <2> QED BY <2>2, <2>3 DEF BackOut
<1> QED BY <1>1, <1>2 DEF Just, Lasting, Wallets, Legs

\* A step records of the chains what is so.
TellsOf(v) ==
    /\ rec'[v].claim = "claimed" => ClaimOut(v)
    /\ rec'[v].refunded => BackOut(v)
    /\ rec'[v].peerGone => spend[Peer(v)] = "refunded"
    /\ pc'[v] = "claimed" => ClaimOut(v) \/ ClaimOut(v)'
    /\ pc'[v] = "refunded" => BackOut(v) \/ BackOut(v)'
    /\ rec'[v].outcome # "none" => pc[v] = "idle" /\ pc'[v] = "idle" /\ Just(v, rec'[v].outcome)
Tells == \A v \in Wallets : TellsOf(v)

LEMMA ToldStays == ASSUME TypeOK, TypeOK', Lasting, Tells PROVE Told'
<1> SUFFICES ASSUME NEW w \in Wallets PROVE Truth(w)'
  BY DEF Told
<1>1. rec'[w].claim = "claimed" \/ pc'[w] = "claimed" => ClaimOut(w)'
  BY LastingOut DEF Tells, TellsOf
<1>2. rec'[w].refunded \/ pc'[w] = "refunded" => BackOut(w)'
  BY LastingOut DEF Tells, TellsOf
<1>3. rec'[w].peerGone => spend'[Peer(w)] = "refunded"
  BY PeerType DEF Tells, TellsOf, Lasting, Wallets
<1>4. rec'[w].outcome # "none" => pc'[w] = "idle" /\ Just(w, rec[w].outcome)'
  BY LastingOut DEF Tells, TellsOf
<1> QED BY <1>1, <1>2, <1>3, <1>4 DEF Truth

\* A wallet that says and does nothing new.
Untold(v) ==
    /\ rec'[v].claim = rec[v].claim /\ rec'[v].refunded = rec[v].refunded
    /\ rec'[v].peerGone = rec[v].peerGone /\ rec'[v].outcome = rec[v].outcome
    /\ pc'[v] = pc[v]

LEMMA UntoldTells == ASSUME Told, NEW v \in Wallets, Untold(v) PROVE TellsOf(v)
BY DEF Told, Truth, Untold, TellsOf

LEMMA OneTells ==
    ASSUME Told, NEW w \in Wallets, TellsOf(w), \A v \in Wallets \ {w} : Untold(v)
    PROVE  Tells
BY UntoldTells DEF Tells

LEMMA NobodyTells == ASSUME Told, UNCHANGED <<rec, pc>> PROVE Tells
BY UntoldTells DEF Untold, Tells

LEMMA TakeAcceptedTells == ASSUME TypeOK, Told, TakeAccepted PROVE Tells
<1>1. \A v \in Wallets : Untold(v)
  BY DEF TakeAccepted, Untold, TypeOK, Records
<1> QED BY <1>1, UntoldTells DEF Tells

LEMMA IntakeTells == ASSUME TypeOK, Told, NEW w \in Wallets, Intake(w) PROVE Tells
<1>1. \A v \in Wallets : Untold(v)
  <2> PICK m \in box[w] \ {"take"} : rec' = [rec EXCEPT ![w] = IF rec[w].known THEN Heard(w, m) ELSE @]
    BY DEF Intake
  <2>1. rec'[w] \in {rec[w], Heard(w, m)} /\ \A v \in Wallets \ {w} : rec'[v] = rec[v]
    BY DEF TypeOK
  <2> QED BY <2>1, HeardType DEF Intake, Untold
<1> QED BY <1>1, UntoldTells DEF Tells

\* The fields of a record that speak of what was done on the chains.
SameTale(r, s) ==
    /\ r.claim = s.claim /\ r.refunded = s.refunded /\ r.peerGone = s.peerGone
    /\ r.feeSettled = s.feeSettled /\ r.outcome = s.outcome
Sending == {"claimed", "refunded", "feeRefunded"}

\* Only `w` moves, and from one point of its step to another.
MovesOn(w) ==
    /\ \A v \in Wallets \ {w} : rec'[v] = rec[v] /\ pc'[v] = pc[v]
    /\ pc[w] # "idle" /\ SameTale(rec'[w], rec[w])

\* A step that is no pass, sends nothing, and records no spend.
LEMMA StepMovesOn ==
    ASSUME TypeOK, NEW w \in Wallets, Funding(w) \/ SpendRefused(w) \/ Interrupted(w)
    PROVE  MovesOn(w) /\ pc'[w] \notin Sending
<1>0. rec[w] \in Records /\ pc[w] \in Points \cup {"idle"} /\ "idle" \notin Points
  BY DEF TypeOK, Points
<1>1. CASE FundSigns(w)
  BY <1>0, <1>1 DEF FundSigns, MovesOn, SameTale, Sending, TypeOK, Records
<1>2. CASE FundWithdraws(w)
  BY <1>0, <1>2 DEF FundWithdraws, MovesOn, SameTale, Sending, TypeOK, Records
<1>3. CASE FundWrites(w)
  BY <1>0, <1>3 DEF FundWrites, MovesOn, SameTale, Sending, TypeOK, Records
<1>4. CASE FundCommits(w)
  BY <1>0, <1>4 DEF FundCommits, MovesOn, SameTale, Sending, TypeOK
<1>5. CASE FundRecords(w)
  BY <1>0, <1>5 DEF FundRecords, MovesOn, SameTale, Sending, TypeOK, Records
<1>6. CASE SpendRefused(w)
  BY <1>0, <1>6 DEF SpendRefused, Stands, GoesTo, MovesOn, SameTale, Sending, TypeOK, Records
<1>7. CASE Interrupted(w)
  BY <1>0, <1>7, LegsAssumption DEF Interrupted, GoesTo, MovesOn, SameTale, Sending, TypeOK
<1> QED BY <1>1, <1>2, <1>3, <1>4, <1>5, <1>6, <1>7 DEF Funding

\* What a pass writes: what it read, a claim that begins, an outcome it judged.
TakesUp(w, heard, t, point) ==
    /\ pc[w] = "idle" /\ pc' = [pc EXCEPT ![w] = point] /\ point \in Points \cup {"idle"}
    /\ point \notin Sending
    /\ t.claim \in {Seen(w, heard).claim, "written"} /\ t.refunded = Seen(w, heard).refunded
    /\ t.peerGone = Seen(w, heard).peerGone /\ t.feeSettled = Seen(w, heard).feeSettled
    /\ \/ t.outcome = "none"
       \/ /\ point = "idle" /\ t.outcome \in Outcomes
          /\ Judges(w, heard, Seen(w, heard), t.outcome)

LEMMA PassTakesUp ==
    ASSUME TypeOK, NEW w \in Wallets, NEW heard \in Answered, Pass(w, heard)
    PROVE  \E t \in Records, phase \in Phases, point \in Points \cup {"idle"} :
               rec' = Takenup(w, t, phase) /\ TakesUp(w, heard, t, point)
<1> DEFINE s == Seen(w, heard)
<1>0. s \in Records /\ s.outcome = rec[w].outcome
  BY SeenFacts
<1>1. CASE PassWaits(w, heard)
  <2>1. PICK armed \in {s.tower, TRUE} :
          /\ pc[w] = "idle" /\ rec[w].outcome = "none"
          /\ rec' = Takenup(w, [s EXCEPT !.tower = armed], Restored(s))
    BY <1>1 DEF PassWaits, Judges
  <2> DEFINE t == [s EXCEPT !.tower = armed]
  <2>2. armed \in BOOLEAN
    BY <1>0 DEF Records
  <2>3. t \in Records /\ SameTale(t, s)
    BY <1>0, <2>2 DEF Records, SameTale
  <2>4. Restored(s) \in Phases
    BY <1>0 DEF Restored, Phases, Records
  <2>5. pc' = [pc EXCEPT ![w] = "idle"]
    BY <1>1, <2>1 DEF PassWaits, TypeOK
  <2> HIDE DEF t
  <2>6. rec' = Takenup(w, t, Restored(s))
    BY <2>1 DEF t
  <2>7. TakesUp(w, heard, t, "idle")
    BY <1>0, <2>1, <2>3, <2>5 DEF TakesUp, SameTale, Sending
  <2> QED BY <2>3, <2>4, <2>6, <2>7
<1>2. CASE PassEnds(w, heard)
  <2>1. PICK outcome \in Outcomes :
          /\ Judges(w, heard, s, outcome)
          /\ rec' = Takenup(w, [s EXCEPT !.outcome = outcome], FinalPhase(outcome))
    BY <1>2 DEF PassEnds
  <2> DEFINE t == [s EXCEPT !.outcome = outcome]
  <2>3. /\ t \in Records /\ t.claim = s.claim /\ t.refunded = s.refunded /\ t.peerGone = s.peerGone
        /\ t.feeSettled = s.feeSettled /\ t.outcome = outcome
    BY <1>0 DEF Records
  <2>4. FinalPhase(outcome) \in Phases
    BY DEF FinalPhase, Phases, Outcomes
  <2>5. pc[w] = "idle" /\ pc' = [pc EXCEPT ![w] = "idle"]
    BY <1>2, <2>1 DEF PassEnds, Judges, TypeOK
  <2> HIDE DEF t
  <2>6. rec' = Takenup(w, t, FinalPhase(outcome))
    BY <2>1 DEF t
  <2>7. TakesUp(w, heard, t, "idle")
    BY <2>1, <2>3, <2>5 DEF TakesUp, Sending
  <2> QED BY <2>3, <2>4, <2>6, <2>7
<1>3. CASE PassFunds(w, heard)
  <2>1. /\ pc[w] = "idle" /\ rec[w].outcome = "none"
        /\ rec' = Takenup(w, [s EXCEPT !.own = IF w \in Bsv THEN @ ELSE "started"], "locking")
        /\ pc' = [pc EXCEPT ![w] = IF s.own = "prepared" THEN "prepared" ELSE "sign"]
    BY <1>3 DEF PassFunds, Judges
  <2> DEFINE t == [s EXCEPT !.own = IF w \in Bsv THEN @ ELSE "started"]
  <2>2. PICK point \in {"prepared", "sign"} : pc' = [pc EXCEPT ![w] = point]
    BY <2>1
  <2>3. t \in Records /\ SameTale(t, s)
    BY <1>0 DEF Records, SameTale
  <2>4. point \in Points \cup {"idle"} /\ point \notin Sending /\ "locking" \in Phases
    BY DEF Points, Phases, Sending
  <2> HIDE DEF t
  <2>6. rec' = Takenup(w, t, "locking")
    BY <2>1 DEF t
  <2>7. TakesUp(w, heard, t, point)
    BY <1>0, <2>1, <2>2, <2>3, <2>4 DEF TakesUp, SameTale
  <2> QED BY <2>3, <2>4, <2>6, <2>7
<1>4. CASE PassResumesFunding(w, heard)
  <2>1. /\ pc[w] = "idle" /\ rec[w].outcome = "none"
        /\ \/ rec' = Takenup(w, [s EXCEPT !.own = "none"], "locking") /\ pc' = pc
           \/ rec' = Takenup(w, s, "locking") /\ pc' = [pc EXCEPT ![w] = "signed"]
    BY <1>4 DEF PassResumesFunding, Judges
  <2> DEFINE t == [s EXCEPT !.own = "none"]
  <2>2. PICK point \in {"idle", "signed"} : pc' = [pc EXCEPT ![w] = point]
    BY <2>1 DEF TypeOK
  <2>3. t \in Records /\ SameTale(t, s) /\ SameTale(s, s)
    BY <1>0 DEF Records, SameTale
  <2>4. point \in Points \cup {"idle"} /\ point \notin Sending /\ "locking" \in Phases
    BY DEF Points, Phases, Sending
  <2> HIDE DEF t
  <2>6. rec' = Takenup(w, t, "locking") \/ rec' = Takenup(w, s, "locking")
    BY <2>1 DEF t
  <2>7. TakesUp(w, heard, t, point) /\ TakesUp(w, heard, s, point)
    BY <1>0, <2>1, <2>2, <2>3, <2>4 DEF TakesUp, SameTale
  <2> QED BY <1>0, <2>3, <2>4, <2>6, <2>7
<1>5. CASE PassClaims(w, heard)
  <2>1. /\ pc[w] = "idle" /\ rec[w].outcome = "none"
        /\ rec' = Takenup(w, [s EXCEPT !.claim = "written"], "claiming")
        /\ pc' = [pc EXCEPT ![w] = "claim"]
    BY <1>5 DEF PassClaims, Judges
  <2> DEFINE t == [s EXCEPT !.claim = "written"]
  <2>3. /\ t \in Records /\ t.claim = "written" /\ t.refunded = s.refunded /\ t.peerGone = s.peerGone
        /\ t.feeSettled = s.feeSettled /\ t.outcome = s.outcome
    BY <1>0 DEF Records
  <2>4. "claim" \in Points \cup {"idle"} /\ "claim" \notin Sending /\ "claiming" \in Phases
    BY DEF Points, Phases, Sending
  <2> HIDE DEF t
  <2>6. rec' = Takenup(w, t, "claiming")
    BY <2>1 DEF t
  <2>7. TakesUp(w, heard, t, "claim")
    BY <1>0, <2>1, <2>3, <2>4 DEF TakesUp
  <2> QED BY <2>3, <2>4, <2>6, <2>7
<1>6. CASE PassRefunds(w, heard)
  <2>1. PICK point \in {"refund", "refundFee"} :
          /\ pc[w] = "idle" /\ rec[w].outcome = "none"
          /\ rec' = Takenup(w, s, "refunding") /\ pc' = [pc EXCEPT ![w] = point]
    BY <1>6 DEF PassRefunds, Judges
  <2>4. point \in Points \cup {"idle"} /\ point \notin Sending /\ "refunding" \in Phases
    BY DEF Points, Phases, Sending
  <2>7. TakesUp(w, heard, s, point)
    BY <1>0, <2>1, <2>4 DEF TakesUp
  <2> QED BY <1>0, <2>1, <2>4, <2>7
<1> QED BY <1>1, <1>2, <1>3, <1>4, <1>5, <1>6 DEF Pass

LEMMA PassTells ==
    ASSUME TypeOK, Kept, Told, NEW w \in Wallets, NEW heard \in Answered, Pass(w, heard)
    PROVE  Tells
<1>0. PICK t \in Records, phase \in Phases, point \in Points \cup {"idle"} :
        rec' = Takenup(w, t, phase) /\ TakesUp(w, heard, t, point)
  BY PassTakesUp
<1>1. \A v \in Wallets \ {w} : Untold(v)
  BY <1>0, TakenupFields DEF Untold, TakesUp, TypeOK
<1>2. /\ rec'[w].claim = t.claim /\ rec'[w].refunded = t.refunded
      /\ rec'[w].peerGone = t.peerGone /\ rec'[w].outcome = t.outcome /\ pc'[w] = point
  BY <1>0, TakenupFields DEF TakesUp, TypeOK
<1>3. /\ t.claim = "claimed" => ClaimOut(w)
      /\ t.refunded => BackOut(w)
      /\ t.peerGone => spend[Peer(w)] = "refunded"
  BY <1>0, SeenFacts DEF TakesUp, Told, Truth, ClaimOut, BackOut
<1>4. t.outcome # "none" => pc[w] = "idle" /\ point = "idle" /\ Just(w, t.outcome)
  BY <1>0, OutcomeJudged DEF TakesUp
<1>5. point \notin {"claimed", "refunded"}
  BY <1>0 DEF TakesUp, Sending
<1>6. TellsOf(w)
  BY <1>2, <1>3, <1>4, <1>5 DEF TellsOf
<1> QED BY <1>1, <1>6, OneTells

LEMMA MovesOnTells ==
    ASSUME TypeOK, Told, NEW w \in Wallets, Funding(w) \/ SpendRefused(w) \/ Interrupted(w)
    PROVE  Tells
<1>1. MovesOn(w) /\ pc'[w] \notin Sending
  BY StepMovesOn
<1>2. TellsOf(w)
  BY <1>1 DEF MovesOn, SameTale, Sending, Told, Truth, TellsOf
<1> QED BY <1>1, <1>2, OneTells DEF MovesOn, Untold

LEMMA ClaimRecordsTells ==
    ASSUME TypeOK, Told, NEW w \in Wallets, ClaimRecords(w)
    PROVE  Tells
<1>1. \A v \in Wallets : rec[v] \in Records
  BY DEF TypeOK
<1>2. \A v \in Wallets \ {w} : rec'[v] = rec[v] /\ pc'[v] = pc[v]
  BY DEF ClaimRecords, Stands, GoesTo, TypeOK
<1>3. /\ rec'[w].claim = "claimed" /\ rec'[w].refunded = rec[w].refunded
      /\ rec'[w].peerGone = rec[w].peerGone /\ rec'[w].outcome = rec[w].outcome
  BY <1>1 DEF ClaimRecords, Stands, GoesTo, TypeOK, Records
<1>4. pc[w] = "claimed" /\ pc'[w] = "idle"
  BY DEF ClaimRecords, Stands, GoesTo, TypeOK
<1>5. TellsOf(w)
  BY <1>3, <1>4 DEF Told, Truth, TellsOf
<1> QED BY <1>2, <1>5, OneTells DEF Untold

LEMMA RefundRecordsTells ==
    ASSUME TypeOK, Told, NEW w \in Wallets, RefundRecords(w)
    PROVE  Tells
<1>1. \A v \in Wallets : rec[v] \in Records
  BY DEF TypeOK
<1>2. \A v \in Wallets \ {w} : rec'[v] = rec[v] /\ pc'[v] = pc[v]
  BY DEF RefundRecords, Stands, GoesTo, TypeOK
<1>3. /\ rec'[w].claim = rec[w].claim
      /\ rec'[w].refunded = (rec[w].refunded \/ pc[w] = "refunded")
      /\ rec'[w].peerGone = rec[w].peerGone /\ rec'[w].outcome = rec[w].outcome
  BY <1>1 DEF RefundRecords, Stands, GoesTo, TypeOK, Records
<1>4. pc[w] \in {"refunded", "feeRefunded"} /\ pc'[w] = "idle"
  BY DEF RefundRecords, Stands, GoesTo, TypeOK
<1>5. TellsOf(w)
  BY <1>3, <1>4 DEF Told, Truth, TellsOf
<1> QED BY <1>2, <1>5, OneTells DEF Untold

LEMMA ClaimSendsTells ==
    ASSUME TypeOK, Told, NEW w \in Wallets, ClaimSends(w)
    PROVE  Tells
<1>1. rec' = rec /\ pc[w] = "claim" /\ pc'[w] = "claimed" /\ \A v \in Wallets \ {w} : pc'[v] = pc[v]
  BY DEF ClaimSends, Stands, GoesTo, TypeOK
<1>2. ClaimOut(w)'
  <2>1. Peer(w) \in Legs /\ Commits(Peer(w), "claim")
    BY PeerType DEF ClaimSends, Wallets
  <2> QED BY <2>1, CommitsFacts DEF ClaimOut
<1>3. TellsOf(w)
  BY <1>1, <1>2 DEF Told, Truth, TellsOf
<1> QED BY <1>1, <1>3, OneTells DEF Untold

LEMMA RefundSendsTells ==
    ASSUME TypeOK, Kept, Told, ClaimIsNotQueued, NEW w \in Wallets, RefundSends(w)
    PROVE  Tells
<1>1. /\ rec' = rec /\ pc[w] \in {"refund", "refundFee"} /\ pc'[w] \in {"refunded", "feeRefunded"}
      /\ \A v \in Wallets \ {w} : pc'[v] = pc[v]
      /\ pc'[w] = "refunded" => pc[w] = "refund" /\ Commits(w, "refund")
  BY DEF RefundSends, Stands, GoesTo, TypeOK
<1>2. pc'[w] = "refunded" => BackOut(w) \/ BackOut(w)'
  <2> SUFFICES ASSUME pc'[w] = "refunded" PROVE BackOut(w) \/ BackOut(w)'
    OBVIOUS
  <2>1. w \in Legs /\ pc[w] = "refund" /\ Commits(w, "refund")
    BY <1>1 DEF Wallets
  <2>2. CASE AlreadySpent(w, "refund")
    BY <2>2 DEF AlreadySpent, BackOut
  <2>3. CASE Spends(w, "refund")
    BY <2>1, <2>3, SpendsFacts DEF BackOut
  <2>4. CASE Outages /\ w \in Bsv
    <3>1. w = "taker"
      BY <2>4 DEF ClaimIsNotQueued, Wallets, Legs
    <3> QED BY <2>1, <3>1 DEF Kept, RefundsLate, BackOut
  <2> QED BY <2>1, <2>2, <2>3, <2>4 DEF Commits
<1>3. TellsOf(w)
  BY <1>1, <1>2 DEF Told, Truth, TellsOf
<1> QED BY <1>1, <1>3, OneTells DEF Untold

LEMMA StepTells ==
    ASSUME TypeOK, Kept, Told, ClaimIsNotQueued, [Next]_vars
    PROVE  Tells
<1>0. CASE UNCHANGED vars
  BY <1>0, NobodyTells DEF vars
<1>1. CASE TakeAccepted \/ TakeDeclined
  BY <1>1, TakeAcceptedTells, NobodyTells DEF TakeDeclined
<1>2. CASE \E w \in Wallets : Intake(w)
  BY <1>2, IntakeTells
<1>3. CASE \E w \in Wallets : \E heard \in Answered : Pass(w, heard)
  BY <1>3, PassTells
<1>4. CASE \E w \in Wallets : Funding(w) \/ SpendRefused(w) \/ Interrupted(w)
  BY <1>4, MovesOnTells
<1>5. CASE \E w \in Wallets : ClaimSends(w) \/ ClaimRecords(w) \/ RefundSends(w) \/ RefundRecords(w)
  BY <1>5, ClaimSendsTells, ClaimRecordsTells, RefundSendsTells, RefundRecordsTells
<1>7. CASE Chains
  BY <1>7, NobodyTells DEF Chains, LockMined, LockDies, QueueSends, FeeClaims, TowerClaims
<1>8. CASE Tick
  BY <1>8, NobodyTells DEF Tick
<1> QED BY <1>0, <1>1, <1>2, <1>3, <1>4, <1>5, <1>7, <1>8 DEF Next, Spending

----------------------------------------------------------------------------
LEMMA LastingStill ==
    ASSUME TypeOK, SpendsKept, TimeKept, lock' = lock,
           pc'["taker"] = "claim" => pc["taker"] = "claim" \/ Device("taker") < ClaimBy
    PROVE  Lasting
<1>1. Device("taker")' = Device("taker") /\ Device("taker") \in Int
  BY DeviceType DEF TimeKept, Device
<1> QED BY <1>1 DEF Lasting, SpendsKept

LEMMA LastingLocks ==
    ASSUME TypeOK, SpendsKept, TimeKept,
           NEW l \in Legs, NEW state \in {"signed", "standing", "dead"},
           lock' = [lock EXCEPT ![l] = state],
           lock[l] = "signed" \/ (lock[l] = "none" /\ pc[l] # "idle"),
           pc'["taker"] = "claim" => pc["taker"] = "claim"
    PROVE  Lasting
<1>1. Device("taker")' = Device("taker") /\ Device("taker") \in Int
  BY DeviceType DEF TimeKept, Device
<1>2. \A k \in Legs :
          /\ lock[k] = "dead" => lock'[k] = "dead"
          /\ lock[k] = "none" /\ pc[k] = "idle" => lock'[k] = "none"
  BY DEF TypeOK
<1> QED BY <1>1, <1>2 DEF Lasting, SpendsKept

LEMMA LastingSpends ==
    ASSUME TypeOK, TimeKept, lock' = lock, pc'["taker"] = "claim" => pc["taker"] = "claim",
           NEW l \in Legs, \A k \in Legs \ {l} : spend'[k] = spend[k] /\ owed'[k] = owed[k],
           spend[l] # "none" => spend'[l] = spend[l],
           "claim" \in owed[l] => "claim" \in owed'[l] \/ spend'[l] = "claimed",
           spend'["maker"] = "claimed" => spend["maker"] = "claimed" \/ pc["taker"] = "claim"
    PROVE  Lasting
<1>1. Device("taker")' = Device("taker") /\ Device("taker") \in Int
  BY DeviceType DEF TimeKept, Device
<1> QED BY <1>1 DEF Lasting

LEMMA ClaimSendsLasts == ASSUME TypeOK, NEW w \in Wallets, ClaimSends(w) PROVE Lasting
<1> DEFINE l == Peer(w)
<1>1. /\ PcOf(w) /\ lock' = lock /\ TimeKept
      /\ pc[w] = "claim" /\ pc'[w] = "claimed" /\ Commits(l, "claim")
  BY ClaimSendsDoes
<1>2. l \in Legs /\ (l = "maker" => w = "taker")
  BY Peers, PeerType DEF Wallets, Legs
<1>3. /\ \A k \in Legs \ {l} : spend'[k] = spend[k] /\ owed'[k] = owed[k]
      /\ spend[l] # "none" => spend'[l] = spend[l]
      /\ "claim" \in owed[l] => "claim" \in owed'[l] \/ spend'[l] = "claimed"
  BY <1>1, <1>2, CommitsFacts
<1>4. spend'["maker"] = "claimed" => spend["maker"] = "claimed" \/ pc["taker"] = "claim"
  BY <1>1, <1>2, <1>3 DEF Legs
<1>5. pc'["taker"] = "claim" => pc["taker"] = "claim"
  BY <1>1 DEF PcOf, Wallets, Legs
<1> QED BY <1>1, <1>2, <1>3, <1>4, <1>5, LastingSpends

LEMMA RefundSendsLasts == ASSUME TypeOK, NEW w \in Wallets, RefundSends(w) PROVE Lasting
<1>1. PICK kind \in {"refund", "refundFee"} :
        /\ PcOf(w) /\ lock' = lock /\ TimeKept
        /\ pc[w] = kind /\ pc'[w] \in {"refunded", "feeRefunded"} /\ Commits(w, kind)
  BY RefundSendsDoes
<1>2. w \in Legs
  BY DEF Wallets
<1>3. /\ \A k \in Legs \ {w} : spend'[k] = spend[k] /\ owed'[k] = owed[k]
      /\ spend[w] # "none" => spend'[w] = spend[w]
      /\ "claim" \in owed[w] => "claim" \in owed'[w]
      /\ spend'[w] = "claimed" => spend[w] = "claimed"
  BY <1>1, <1>2, CommitsFacts
<1>4. spend'["maker"] = "claimed" => spend["maker"] = "claimed"
  BY <1>3 DEF Legs
<1>5. pc'["taker"] = "claim" => pc["taker"] = "claim"
  BY <1>1 DEF PcOf, Wallets, Legs
<1> QED BY <1>1, <1>2, <1>3, <1>4, <1>5, LastingSpends

LEMMA QueueSendsLasts == ASSUME TypeOK, Kept, NEW l \in Legs, QueueSends(l) PROVE Lasting
<1>1. PICK kind \in owed[l] : Spends(l, kind) /\ owed' = [owed EXCEPT ![l] = @ \ {kind}]
  BY QueueSendsDoes
<1>2. PcKept /\ lock' = lock /\ TimeKept
  BY QueueSendsDoes
<1>3. kind \in {"claim", "refund", "refundFee"} /\ (l = "maker" => kind # "claim")
  BY <1>1 DEF TypeOK, Kept, ClaimsEarly
<1>4. /\ \A k \in Legs \ {l} : spend'[k] = spend[k] /\ owed'[k] = owed[k]
      /\ spend[l] # "none" => spend'[l] = spend[l]
      /\ kind = "claim" => spend'[l] = "claimed"
      /\ kind # "claim" /\ "claim" \in owed[l] => "claim" \in owed'[l]
      /\ kind # "claim" /\ spend'[l] = "claimed" => spend[l] = "claimed"
  BY <1>1, <1>3, SpendsFacts DEF TypeOK
<1>5. spend'["maker"] = "claimed" => spend["maker"] = "claimed"
  BY <1>3, <1>4 DEF Legs
<1>6. pc'["taker"] = "claim" => pc["taker"] = "claim"
  BY <1>2 DEF PcKept, Wallets, Legs
<1> QED BY <1>2, <1>4, <1>5, <1>6, LastingSpends

LEMMA TowerClaimsLasts == ASSUME TypeOK, TowerClaims PROVE Lasting
<1>1. PcKept /\ lock' = lock /\ owed' = owed /\ TimeKept /\ Spends("taker", "claim")
  BY TowerClaimsDoes
<1>2. spend["taker"] = "none" /\ \A k \in Legs \ {"taker"} : spend'[k] = spend[k]
  BY <1>1, SpendsFacts DEF Legs
<1>3. "taker" \in Legs /\ spend'["maker"] = spend["maker"]
  BY <1>2 DEF Legs
<1>4. pc'["taker"] = "claim" => pc["taker"] = "claim"
  BY <1>1 DEF PcKept, Wallets, Legs
<1> QED BY <1>1, <1>2, <1>3, <1>4, LastingSpends

LEMMA TickLasts == ASSUME TypeOK, Tick PROVE Lasting
<1>1. PcKept /\ lock' = lock /\ SpendsKept /\ now' = now + 1 /\ skew' = skew
  BY TickDoes
<1>2. Device("taker")' = Device("taker") + 1 /\ Device("taker") \in Int
  <2>1. now \in Int /\ skew["taker"] \in Int
    BY LegsAssumption DEF TypeOK, Wallets, Legs
  <2> QED BY <1>1, <2>1 DEF Device
<1> QED BY <1>1, <1>2 DEF Lasting, SpendsKept, PcKept, Wallets, Legs

LEMMA PassLasts == ASSUME TypeOK, NEW w \in Wallets, NEW heard \in Answered, Pass(w, heard) PROVE Lasting
<1>1. lock' = lock /\ SpendsKept /\ TimeKept /\ PcOf(w)
  BY PassWaitsDoes, PassEndsDoes, PassFundsDoes, PassResumesFundingDoes, PassClaimsDoes, PassRefundsDoes
     DEF Pass, PcKept, PcOf
<1>2. pc'[w] = "claim" => pc[w] = "claim" \/ (w = "taker" => Device(w) < ClaimBy)
  BY PassWaitsDoes, PassEndsDoes, PassFundsDoes, PassResumesFundingDoes, PassClaimsDoes, PassRefundsDoes
     DEF Pass, PcKept
<1>3. pc'["taker"] = "claim" => pc["taker"] = "claim" \/ Device("taker") < ClaimBy
  BY <1>1, <1>2 DEF PcOf, Wallets, Legs
<1> QED BY <1>1, <1>3, LastingStill

\* A step of one wallet that is no pass and sends no spend.
LEMMA OwnStepLasts ==
    ASSUME TypeOK, NEW w \in Wallets, PcOf(w), pc'[w] # "claim", SpendsKept, TimeKept, lock' = lock
    PROVE  Lasting
<1>1. pc'["taker"] = "claim" => pc["taker"] = "claim"
  BY DEF PcOf, Wallets, Legs
<1> QED BY <1>1, LastingStill

LEMMA FundingLasts == ASSUME TypeOK, Kept, NEW w \in Wallets, Funding(w) PROVE Lasting
<1>1. CASE FundSigns(w) \/ FundCommits(w)
  <2>1. /\ SpendsKept /\ TimeKept /\ PcOf(w) /\ pc[w] \in {"sign", "commit"}
        /\ pc'[w] \in {"prepared", "signed"} /\ w \in Legs
        /\ lock' = lock \/ lock' = [lock EXCEPT ![w] = "signed"]
    BY <1>1, FundSignsDoes, FundCommitsDoes DEF Wallets
  <2>2. lock[w] = "none" /\ (pc'["taker"] = "claim" => pc["taker"] = "claim")
    BY <2>1 DEF Kept, LocksOnce, PcOf, Wallets, Legs
  <2> QED BY <2>1, <2>2, LastingStill, LastingLocks
<1>2. CASE FundWithdraws(w) \/ FundWrites(w) \/ FundRecords(w)
  <2>1. /\ PcOf(w) /\ pc'[w] # "claim" /\ SpendsKept /\ TimeKept /\ lock' = lock
    BY <1>2, FundWithdrawsDoes, FundWritesDoes, FundRecordsDoes
  <2> QED BY <2>1, OwnStepLasts
<1> QED BY <1>1, <1>2 DEF Funding

LEMMA SpendingLasts == ASSUME TypeOK, NEW w \in Wallets, Spending(w) PROVE Lasting
<1>1. CASE ClaimRecords(w) \/ RefundRecords(w) \/ SpendRefused(w)
  <2>1. /\ PcOf(w) /\ pc'[w] # "claim" /\ SpendsKept /\ TimeKept /\ lock' = lock
    BY <1>1, ClaimRecordsDoes, RefundRecordsDoes, SpendRefusedDoes
  <2> QED BY <2>1, OwnStepLasts
<1> QED BY <1>1, ClaimSendsLasts, RefundSendsLasts DEF Spending

LEMMA StillLasts ==
    ASSUME TypeOK, PcKept, SpendsKept, TimeKept, lock' = lock
    PROVE  Lasting
BY LastingStill DEF PcKept, Wallets, Legs

LEMMA ChainsLasts == ASSUME TypeOK, Kept, Chains PROVE Lasting
<1>1. CASE \E l \in Legs : LockMined(l) \/ LockDies(l)
  <2> PICK l \in Legs : LockMined(l) \/ LockDies(l)
    BY <1>1
  <2>1. /\ PcKept /\ SpendsKept /\ TimeKept /\ lock[l] = "signed"
        /\ lock' = [lock EXCEPT ![l] = "standing"] \/ lock' = [lock EXCEPT ![l] = "dead"]
    BY LockMinedDoes, LockDiesDoes
  <2> QED BY <2>1, LastingLocks DEF PcKept, Wallets, Legs
<1>2. CASE \E l \in Legs : QueueSends(l)
  BY <1>2, QueueSendsLasts
<1>3. CASE FeeClaims
  BY <1>3, FeeClaimsDoes, StillLasts
<1>4. CASE TowerClaims
  BY <1>4, TowerClaimsLasts
<1> QED BY <1>1, <1>2, <1>3, <1>4 DEF Chains

LEMMA StepLasts == ASSUME TypeOK, Kept, [Next]_vars PROVE Lasting
<1>0. CASE UNCHANGED vars
  BY <1>0, StillLasts DEF vars, chain, PcKept, SpendsKept, TimeKept
<1>1. CASE TakeAccepted
  BY <1>1, TakeAcceptedDoes, StillLasts
<1>2. CASE TakeDeclined
  BY <1>2, TakeDeclinedDoes, StillLasts
<1>3. CASE \E w \in Wallets : Intake(w)
  BY <1>3, IntakeDoes, StillLasts
<1>4. CASE \E w \in Wallets : \E heard \in Answered : Pass(w, heard)
  BY <1>4, PassLasts
<1>5. CASE \E w \in Wallets : Funding(w) \/ Spending(w)
  BY <1>5, FundingLasts, SpendingLasts
<1>6. CASE \E w \in Wallets : Interrupted(w)
  <2> PICK w \in Wallets : Interrupted(w)
    BY <1>6
  <2>1. /\ PcOf(w) /\ pc'[w] # "claim" /\ SpendsKept /\ TimeKept /\ lock' = lock
    BY InterruptedDoes
  <2> QED BY <2>1, OwnStepLasts
<1>7. CASE Chains
  BY <1>7, ChainsLasts
<1>8. CASE Tick
  BY <1>8, TickLasts
<1> QED BY <1>0, <1>1, <1>2, <1>3, <1>4, <1>5, <1>6, <1>7, <1>8 DEF Next

LEMMA ToldInit == Init => Told
<1> SUFFICES ASSUME Init, NEW w \in Wallets PROVE Truth(w)
  BY DEF Told
<1>1. /\ rec[w].claim = "none" /\ ~rec[w].refunded /\ ~rec[w].peerGone /\ rec[w].outcome = "none"
  BY DEF Init, NewRecord
<1> QED BY <1>1 DEF Init, Truth

\* An ended swap is over: what the recorded outcome says of the locks is so and stays
\* so, on any chains, with any clocks, unanswered reads and cuts but the two excluded
\* (settle.ts, SettleOutcome; settleFacts.ts, recordFacts).
THEOREM SwapOutcomesHold ==
    ASSUME ClaimIsRecorded, ClaimIsNotQueued
    PROVE  Spec => []OutcomesHold
<1>1. TypeOK /\ TypeOK' /\ Kept /\ Told /\ [Next]_vars => Told'
  BY StepTells, StepLasts, ToldStays
<1>2. TypeOK /\ Kept /\ Told => OutcomesHold
  BY ToldHolds
<1> QED BY <1>1, <1>2, ToldInit, KeptAlways, PTL DEF Spec

----------------------------------------------------------------------------
(* A swap is over only with its fee output *)

\* A pass of the payer can always read the fee output.
FeeIsRead == "fee" \notin Mute

FeeSpent == fee \in {"claimed", "refunded"}
FeeOwed == owed[FeeLeg] \cap {"refund", "refundFee"} # {}

\* The fee output stands beside its lock, and goes back with it.
FeeStands ==
    /\ fee = "none" <=> lock[FeeLeg] = "none"
    /\ spend[FeeLeg] = "refunded" => FeeSpent

\* What the payer's record says of the fee output is so.
FeeFiled ==
    /\ rec[FeeLeg].feeSettled \/ rec[FeeLeg].refunded \/ pc[FeeLeg] \in {"refunded", "feeRefunded"}
          => FeeSpent \/ FeeOwed
    /\ rec[FeeLeg].outcome # "none" =>
          pc[FeeLeg] = "idle" /\ (FeeSpent \/ FeeOwed \/ lock[FeeLeg] \in {"none", "dead"})

FeeHeld == FeeLeg \in Wallets => FeeStands /\ FeeFiled

LEMMA FeeHolds == ASSUME TypeOK, FeeHeld PROVE FeeNotLeft
BY DEF FeeNotLeft, FeeHeld, FeeStands, FeeFiled, FeeSpent, FeeOwed

\* A payer's outcome is judged with its fee output read.
LEMMA FeeJudged ==
    ASSUME TypeOK, Kept, Told, Charts, FeeHeld, FeeIsRead, Promise!NobodyHoldsBoth, FeeLeg \in Wallets,
           NEW heard \in Answered, NEW outcome \in Outcomes,
           Judges(FeeLeg, heard, Seen(FeeLeg, heard), outcome)
    PROVE  FeeSpent \/ FeeOwed \/ lock[FeeLeg] \in {"none", "dead"}
<1> DEFINE w == FeeLeg
           s == Seen(FeeLeg, heard)
<1>0. Just(w, outcome)
  BY OutcomeJudged
<1>1. "fee" \in heard
  BY DEF Answered, FeeIsRead, Reads
<1>2. outcome = NextSettleStep(w, s, heard)
  BY DEF Judges
<1>3. CASE outcome \in {"declined", "expired", "unsent"}
  BY <1>0, <1>3 DEF Just
<1>4. CASE outcome = "missed"
  BY <1>0, <1>4 DEF Just, Promise!NobodyHoldsBoth, SwapLeg, Legs
<1>5. CASE outcome = "refunded"
  <2>1. s.refunded
    <3> HIDE DEF s, w
    <3>1. RefundOrWait("taker", s) \in {"refund", "locktime"} \/ (RefundOrWait("taker", s) = "refunded" /\ s.refunded)
      BY DEF RefundOrWait
    <3>2. TakerStep(s, heard) = "refunded" => s.refunded
      BY <3>1 DEF TakerStep
    <3>3. MakerStep(s) = "refunded" => s.refunded
      BY DEF MakerStep
    <3> QED BY <1>2, <1>5, <3>2, <3>3 DEF NextSettleStep
  <2>2. rec[w].refunded \/ spend[w] = "refunded"
    BY <2>1, SeenFacts
  <2> QED BY <2>2 DEF FeeHeld, FeeStands, FeeFiled
<1>6. CASE outcome = "swapped"
  <2>1. s.claim = "claimed" /\ ~FeeUnspent(w, heard)
    <3>1. TakerStep(s, heard) # "swapped" /\ MakerStep(s) # "swapped"
      BY DEF TakerStep, MakerStep, RefundOrWait
    <3> HIDE DEF s, w
    <3> QED BY <1>2, <1>6, <3>1 DEF NextSettleStep
  <2>2. rec[w].own = "funding"
    BY <2>1, SeenFacts DEF Charts, Charted
  <2>3. rec[w].claim = "claimed" \/ Device(w) >= Locktime(w)
    <3>1. CASE rec[w].claim = "claimed"
      BY <3>1
    <3>2. CASE rec[w].claim # "claimed"
      <4>1. w = "maker" /\ Device(w) >= Locktime("taker")
        BY <2>1, <3>2, SeenFacts
      <4>2. Device(w) \in Int /\ T1 \in Int /\ T2 \in Int /\ T2 < T1
        BY DeadlinesAssumption, LegsAssumption DEF TypeOK, Device
      <4> QED BY <4>1, <4>2 DEF Locktime
    <3> QED BY <3>1, <3>2
  <2>4. rec[w].feeSettled \/ fee # "open"
    BY <1>1, <2>1, <2>2, <2>3 DEF FeeUnspent, ReadsFee
  <2>5. fee \in {"none", "open", "claimed", "refunded"}
    BY DEF TypeOK
  <2> QED BY <2>4, <2>5 DEF FeeHeld, FeeStands, FeeFiled, FeeSpent
<1> QED BY <1>3, <1>4, <1>5, <1>6 DEF Outcomes
----------------------------------------------------------------------------
\* The fee output is spent once, and a spend a miner owes is not lost.
FeeLasts ==
    /\ FeeStands'
    /\ FeeSpent => FeeSpent'
    /\ FeeOwed => FeeOwed' \/ FeeSpent'

LEMMA FeeLastsStill ==
    ASSUME TypeOK, FeeStands, FeeLeg \in Wallets, fee' = fee, SpendsKept,
           lock'[FeeLeg] = "none" <=> lock[FeeLeg] = "none"
    PROVE  FeeLasts
BY DEF FeeLasts, FeeStands, FeeSpent, FeeOwed, SpendsKept

\* A lock that is made brings its fee output.
LEMMA FeeLastsMade ==
    ASSUME TypeOK, Kept, FeeStands, FeeLeg \in Wallets, NEW w \in Wallets,
           FundSigns(w) \/ FundCommits(w)
    PROVE  FeeLasts
<1>1. lock[w] = "none"
  BY DEF FundSigns, FundCommits, Kept, LocksOnce
<1>2. SpendsKept
  BY DEF FundSigns, FundCommits, SpendsKept
<1>3. \/ lock' = lock /\ fee' = fee
      \/ lock' = [lock EXCEPT ![w] = "signed"] /\ fee' = (IF FeeLeg = w THEN "open" ELSE fee)
  BY DEF FundSigns, FundCommits
<1>4. CASE lock' = lock /\ fee' = fee
  BY <1>2, <1>4, FeeLastsStill
<1>5. CASE FeeLeg # w /\ lock' = [lock EXCEPT ![w] = "signed"] /\ fee' = fee
  <2>1. lock'[FeeLeg] = lock[FeeLeg]
    BY <1>5 DEF TypeOK, Wallets
  <2> QED BY <1>2, <1>5, <2>1, FeeLastsStill
<1>6. CASE FeeLeg = w /\ lock' = [lock EXCEPT ![w] = "signed"] /\ fee' = "open"
  <2>1. lock'[FeeLeg] = "signed"
    BY <1>6 DEF TypeOK, Wallets
  <2>2. fee = "none"
    BY <1>1, <1>6 DEF FeeStands
  <2> QED BY <1>2, <1>6, <2>1, <2>2 DEF FeeLasts, FeeStands, FeeSpent, FeeOwed, SpendsKept
<1> QED BY <1>3, <1>4, <1>5, <1>6

\* A lock that goes back takes its open fee output along.
LEMMA FeeSpends ==
    ASSUME TypeOK, FeeStands, FeeLeg \in Wallets, NEW l \in Legs,
           NEW kind \in {"claim", "refund", "refundFee"}, Spends(l, kind), lock' = lock
    PROVE  /\ FeeStands'
           /\ FeeSpent => FeeSpent'
           /\ l = FeeLeg /\ kind # "claim" => FeeSpent'
<1>1. lock[l] = "standing" /\ fee \in {"none", "open", "claimed", "refunded"}
  BY SpendsFacts DEF TypeOK
<1>2. fee' = IF kind # "claim" /\ FeeLeg = l /\ fee = "open" THEN "refunded" ELSE fee
  BY DEF Spends
<1>3. CASE l = FeeLeg /\ kind # "claim"
  <2>1. fee # "none"
    BY <1>1, <1>3 DEF FeeStands
  <2>2. fee' \in {"claimed", "refunded"}
    BY <1>1, <1>2, <1>3, <2>1
  <2> QED BY <1>1, <1>3, <2>2 DEF FeeStands, FeeSpent
<1>4. CASE l = FeeLeg /\ kind = "claim"
  <2>1. fee' = fee /\ spend'[FeeLeg] = "claimed"
    BY <1>2, <1>4, SpendsFacts
  <2> QED BY <1>4, <2>1 DEF FeeStands, FeeSpent
<1>5. CASE l # FeeLeg
  <2>1. fee' = fee /\ spend'[FeeLeg] = spend[FeeLeg]
    BY <1>2, <1>5, SpendsFacts DEF Wallets
  <2> QED BY <1>5, <2>1 DEF FeeStands, FeeSpent
<1> QED BY <1>3, <1>4, <1>5

LEMMA FeeCommits ==
    ASSUME TypeOK, FeeStands, FeeLeg \in Wallets, NEW l \in Legs,
           NEW kind \in {"claim", "refund", "refundFee"}, Commits(l, kind), lock' = lock
    PROVE  /\ FeeLasts
           /\ l = FeeLeg /\ kind # "claim" => FeeSpent' \/ FeeOwed'
<1>1. CASE AlreadySpent(l, kind) /\ UNCHANGED <<spend, fee, owed>>
  <2>1. FeeLasts
    BY <1>1, FeeLastsStill DEF SpendsKept
  <2>2. l = FeeLeg /\ kind # "claim" => FeeSpent
    BY <1>1 DEF AlreadySpent, FeeStands, FeeSpent
  <2> QED BY <2>1, <2>2 DEF FeeLasts
<1>2. CASE Spends(l, kind) /\ UNCHANGED owed
  <2>1. FeeOwed => FeeOwed'
    BY <1>2 DEF FeeOwed
  <2> QED BY <1>2, <2>1, FeeSpends DEF FeeLasts
<1>3. CASE owed' = [owed EXCEPT ![l] = @ \cup {kind}] /\ UNCHANGED <<spend, fee>>
  <2>1. /\ owed[FeeLeg] \subseteq owed'[FeeLeg]
        /\ l = FeeLeg => kind \in owed'[FeeLeg]
    BY <1>3 DEF TypeOK, Wallets
  <2> QED BY <1>3, <2>1 DEF FeeLasts, FeeStands, FeeSpent, FeeOwed
<1> QED BY <1>1, <1>2, <1>3 DEF Commits

LEMMA FeeQueueSends ==
    ASSUME TypeOK, FeeStands, FeeLeg \in Wallets, NEW l \in Legs, QueueSends(l)
    PROVE  FeeLasts
<1>1. PICK kind \in owed[l] : Spends(l, kind) /\ owed' = [owed EXCEPT ![l] = @ \ {kind}]
  BY DEF QueueSends
<1>2. kind \in {"claim", "refund", "refundFee"} /\ lock' = lock
  BY DEF TypeOK, QueueSends
<1>3. /\ FeeStands' /\ (FeeSpent => FeeSpent')
      /\ l = FeeLeg /\ kind # "claim" => FeeSpent'
  BY <1>1, <1>2, FeeSpends
<1>4. ~(l = FeeLeg /\ kind # "claim") => (FeeOwed => FeeOwed')
  BY <1>1 DEF FeeOwed, TypeOK, Wallets
<1> QED BY <1>3, <1>4 DEF FeeLasts

LEMMA ChainsFeeLasts == ASSUME TypeOK, FeeStands, FeeLeg \in Wallets, Chains PROVE FeeLasts
<1>1. CASE \E l \in Legs : LockMined(l) \/ LockDies(l)
  <2> PICK l \in Legs : LockMined(l) \/ LockDies(l)
    BY <1>1
  <2>1. /\ SpendsKept /\ fee' = fee /\ lock[l] = "signed"
        /\ lock' = [lock EXCEPT ![l] = "standing"] \/ lock' = [lock EXCEPT ![l] = "dead"]
    BY DEF LockMined, LockDies, SpendsKept
  <2>2. lock'[FeeLeg] = "none" <=> lock[FeeLeg] = "none"
    BY <2>1 DEF TypeOK, Wallets
  <2> QED BY <2>1, <2>2, FeeLastsStill
<1>2. CASE \E l \in Legs : QueueSends(l)
  BY <1>2, FeeQueueSends
<1>3. CASE FeeClaims
  BY <1>3 DEF FeeClaims, FeeLasts, FeeStands, FeeSpent, FeeOwed
<1>4. CASE TowerClaims
  <2>1. Spends("taker", "claim") /\ lock' = lock /\ owed' = owed /\ "taker" \in Legs
    BY <1>4 DEF TowerClaims, Legs
  <2> QED BY <2>1, FeeSpends DEF FeeLasts, FeeOwed
<1> QED BY <1>1, <1>2, <1>3, <1>4 DEF Chains

\* Nothing else touches the fee output or what is owed of it.
FeeUntouched == lock' = lock /\ fee' = fee /\ SpendsKept

LEMMA StepFeeLasts ==
    ASSUME TypeOK, Kept, FeeStands, FeeLeg \in Wallets, [Next]_vars
    PROVE  FeeLasts
<1>0. CASE UNCHANGED vars \/ TakeAccepted \/ TakeDeclined \/ Tick
  <2>1. FeeUntouched
    BY <1>0 DEF vars, chain, TakeAccepted, TakeDeclined, Tick, FeeUntouched, SpendsKept
  <2> QED BY <2>1, FeeLastsStill DEF FeeUntouched
<1>1. CASE \E w \in Wallets : Intake(w) \/ \E heard \in Answered : Pass(w, heard)
  <2>1. FeeUntouched
    BY <1>1 DEF chain, Intake, Pass, PassWaits, PassEnds, PassFunds, PassResumesFunding, PassClaims,
       PassRefunds, FeeUntouched, SpendsKept
  <2> QED BY <2>1, FeeLastsStill DEF FeeUntouched
<1>2. CASE \E w \in Wallets : FundSigns(w) \/ FundCommits(w)
  BY <1>2, FeeLastsMade
<1>3. CASE \E w \in Wallets : \/ FundWithdraws(w) \/ FundWrites(w) \/ FundRecords(w) \/ ClaimRecords(w)
                              \/ RefundRecords(w) \/ SpendRefused(w) \/ Interrupted(w)
  <2>1. FeeUntouched
    BY <1>3 DEF chain, FundWithdraws, FundWrites, FundRecords, ClaimRecords, RefundRecords, SpendRefused,
       Interrupted, FeeUntouched, SpendsKept
  <2> QED BY <2>1, FeeLastsStill DEF FeeUntouched
<1>4. CASE \E w \in Wallets : ClaimSends(w) \/ RefundSends(w)
  <2> PICK w \in Wallets : ClaimSends(w) \/ RefundSends(w)
    BY <1>4
  <2>1. CASE ClaimSends(w)
    <3>1. Commits(Peer(w), "claim") /\ lock' = lock /\ Peer(w) \in Legs
      BY <2>1, PeerType DEF ClaimSends, Wallets
    <3> QED BY <3>1, FeeCommits
  <2>2. CASE RefundSends(w)
    <3>1. PICK kind \in {"refund", "refundFee"} : Commits(w, kind) /\ lock' = lock
      BY <2>2 DEF RefundSends
    <3> QED BY <3>1, FeeCommits DEF Wallets
  <2> QED BY <2>1, <2>2
<1>5. CASE Chains
  BY <1>5, ChainsFeeLasts
<1> QED BY <1>0, <1>1, <1>2, <1>3, <1>4, <1>5 DEF Next, Funding, Spending

----------------------------------------------------------------------------
\* What a step files of the fee output is so, before it or after it.
FeeDone == FeeSpent \/ FeeOwed
Files ==
    /\ rec'[FeeLeg].feeSettled \/ rec'[FeeLeg].refunded \/ pc'[FeeLeg] \in {"refunded", "feeRefunded"}
          => FeeDone \/ FeeDone'
    /\ rec'[FeeLeg].outcome # "none" =>
          pc[FeeLeg] = "idle" /\ pc'[FeeLeg] = "idle" /\ (FeeDone \/ lock[FeeLeg] \in {"none", "dead"})

LEMMA FiledStays ==
    ASSUME TypeOK, FeeLeg \in Wallets, Files, FeeLasts, Lasting
    PROVE  FeeStands' /\ FeeFiled'
<1>1. FeeDone => FeeDone'
  BY DEF FeeLasts, FeeDone
<1>2. /\ lock[FeeLeg] = "dead" => lock'[FeeLeg] = "dead"
      /\ lock[FeeLeg] = "none" /\ pc[FeeLeg] = "idle" => lock'[FeeLeg] = "none"
  BY DEF Lasting, Wallets
<1> QED BY <1>1, <1>2 DEF Files, FeeFiled, FeeDone, FeeLasts

\* The payer files nothing new.
LEMMA FilesNothing ==
    ASSUME FeeFiled, SameTale(rec'[FeeLeg], rec[FeeLeg]), pc'[FeeLeg] = pc[FeeLeg]
    PROVE  Files
BY DEF FeeFiled, SameTale, Files, FeeDone

LEMMA IntakeFiles ==
    ASSUME TypeOK, FeeFiled, FeeLeg \in Wallets, NEW w \in Wallets, Intake(w)
    PROVE  Files
<1> PICK m \in box[w] \ {"take"} : rec' = [rec EXCEPT ![w] = IF rec[w].known THEN Heard(w, m) ELSE @]
  BY DEF Intake
<1>1. rec'[w] \in {rec[w], Heard(w, m)} /\ \A v \in Wallets \ {w} : rec'[v] = rec[v]
  BY DEF TypeOK
<1>2. SameTale(rec'[FeeLeg], rec[FeeLeg])
  BY <1>1, HeardType DEF SameTale
<1> QED BY <1>2, FilesNothing DEF Intake

LEMMA PassFiles ==
    ASSUME TypeOK, Kept, Told, Charts, FeeHeld, FeeIsRead, Promise!NobodyHoldsBoth, FeeLeg \in Wallets,
           NEW w \in Wallets, NEW heard \in Answered, Pass(w, heard)
    PROVE  Files
<1>0. PICK t \in Records, phase \in Phases, point \in Points \cup {"idle"} :
        rec' = Takenup(w, t, phase) /\ TakesUp(w, heard, t, point)
  BY PassTakesUp
<1>1. CASE w # FeeLeg
  <2>1. rec'[FeeLeg] = rec[FeeLeg] /\ pc'[FeeLeg] = pc[FeeLeg]
    BY <1>0, <1>1, TakenupFields DEF TakesUp, TypeOK
  <2> QED BY <2>1, FilesNothing DEF FeeHeld, SameTale
<1>2. CASE w = FeeLeg
  <2>1. /\ rec'[w].refunded = t.refunded /\ rec'[w].feeSettled = t.feeSettled
        /\ rec'[w].outcome = t.outcome /\ pc'[w] = point /\ pc[w] = "idle"
    BY <1>0, TakenupFields DEF TakesUp, TypeOK
  <2>2. t.refunded \/ t.feeSettled => FeeDone
    BY <1>0, <1>2, SeenFacts DEF TakesUp, FeeHeld, FeeFiled, FeeStands, FeeSpent, FeeDone
  <2>3. t.outcome # "none" => point = "idle" /\ (FeeDone \/ lock[FeeLeg] \in {"none", "dead"})
    BY <1>0, <1>2, FeeJudged DEF TakesUp, FeeDone
  <2>4. point \notin {"refunded", "feeRefunded"}
    BY <1>0 DEF TakesUp, Sending
  <2> QED BY <1>2, <2>1, <2>2, <2>3, <2>4 DEF Files
<1> QED BY <1>1, <1>2

LEMMA MovesOnFiles ==
    ASSUME TypeOK, FeeFiled, FeeLeg \in Wallets, NEW w \in Wallets,
           Funding(w) \/ SpendRefused(w) \/ Interrupted(w)
    PROVE  Files
<1>1. MovesOn(w) /\ pc'[w] \notin Sending
  BY StepMovesOn
<1>2. CASE w # FeeLeg
  BY <1>1, <1>2, FilesNothing DEF MovesOn, SameTale
<1>3. CASE w = FeeLeg
  BY <1>1, <1>3 DEF MovesOn, SameTale, Sending, Files, FeeFiled, FeeDone
<1> QED BY <1>2, <1>3

LEMMA ClaimFiles ==
    ASSUME TypeOK, FeeFiled, FeeLeg \in Wallets, NEW w \in Wallets, ClaimSends(w) \/ ClaimRecords(w)
    PROVE  Files
<1>1. /\ \A v \in Wallets \ {w} : rec'[v] = rec[v] /\ pc'[v] = pc[v]
      /\ pc[w] # "idle" /\ pc'[w] \in {"claimed", "idle"}
  BY DEF ClaimSends, ClaimRecords, Stands, GoesTo, TypeOK
<1>2. /\ rec'[w].refunded = rec[w].refunded /\ rec'[w].feeSettled = rec[w].feeSettled
      /\ rec'[w].outcome = rec[w].outcome
  BY DEF ClaimSends, ClaimRecords, TypeOK, Records
<1>3. CASE w # FeeLeg
  BY <1>1, <1>3, FilesNothing DEF SameTale
<1>4. CASE w = FeeLeg
  BY <1>1, <1>2, <1>4 DEF Files, FeeFiled, FeeDone
<1> QED BY <1>3, <1>4

LEMMA RefundSendsFiles ==
    ASSUME TypeOK, FeeStands, FeeFiled, FeeLeg \in Wallets, NEW w \in Wallets, RefundSends(w)
    PROVE  Files
<1>1. PICK kind \in {"refund", "refundFee"} :
        /\ pc[w] = kind /\ pc' = [pc EXCEPT ![w] = IF kind = "refund" THEN "refunded" ELSE "feeRefunded"]
        /\ Commits(w, kind) /\ lock' = lock /\ rec' = rec
  BY DEF RefundSends, Stands, GoesTo
<1>2. CASE w # FeeLeg
  BY <1>1, <1>2, FilesNothing DEF SameTale, TypeOK
<1>3. CASE w = FeeLeg
  <2>1. FeeDone'
    BY <1>1, <1>3, FeeCommits DEF FeeDone, Wallets
  <2> QED BY <1>1, <1>3, <2>1 DEF Files, FeeFiled
<1> QED BY <1>2, <1>3

LEMMA RefundRecordsFiles ==
    ASSUME TypeOK, FeeFiled, FeeLeg \in Wallets, NEW w \in Wallets, RefundRecords(w)
    PROVE  Files
<1>1. /\ \A v \in Wallets \ {w} : rec'[v] = rec[v] /\ pc'[v] = pc[v]
      /\ pc[w] \in {"refunded", "feeRefunded"} /\ pc'[w] = "idle"
  BY DEF RefundRecords, Stands, GoesTo, TypeOK
<1>2. rec'[w].outcome = rec[w].outcome
  BY DEF RefundRecords, TypeOK, Records
<1>3. CASE w # FeeLeg
  BY <1>1, <1>3, FilesNothing DEF SameTale
<1>4. CASE w = FeeLeg
  BY <1>1, <1>2, <1>4 DEF Files, FeeFiled, FeeDone
<1> QED BY <1>3, <1>4

LEMMA StepFiles ==
    ASSUME TypeOK, Kept, Told, Charts, FeeHeld, FeeIsRead, Promise!NobodyHoldsBoth, FeeLeg \in Wallets,
           [Next]_vars
    PROVE  Files
<1>a. FeeStands /\ FeeFiled
  BY DEF FeeHeld
<1>0. CASE UNCHANGED <<rec, pc>>
  BY <1>a, <1>0, FilesNothing DEF SameTale
<1>1. CASE TakeAccepted
  <2>1. SameTale(rec'[FeeLeg], rec[FeeLeg]) /\ pc' = pc
    BY <1>1 DEF TakeAccepted, SameTale, TypeOK, Records
  <2> QED BY <1>a, <2>1, FilesNothing
<1>2. CASE \E w \in Wallets : Intake(w)
  BY <1>a, <1>2, IntakeFiles
<1>3. CASE \E w \in Wallets : \E heard \in Answered : Pass(w, heard)
  BY <1>3, PassFiles
<1>4. CASE \E w \in Wallets : Funding(w) \/ SpendRefused(w) \/ Interrupted(w)
  BY <1>a, <1>4, MovesOnFiles
<1>5. CASE \E w \in Wallets : ClaimSends(w) \/ ClaimRecords(w) \/ RefundSends(w) \/ RefundRecords(w)
  BY <1>a, <1>5, ClaimFiles, RefundSendsFiles, RefundRecordsFiles
<1>6. CASE UNCHANGED vars \/ TakeDeclined \/ Chains \/ Tick
  BY <1>0, <1>6 DEF vars, TakeDeclined, Chains, LockMined, LockDies, QueueSends, FeeClaims, TowerClaims, Tick
<1> QED BY <1>1, <1>2, <1>3, <1>4, <1>5, <1>6 DEF Next, Spending

LEMMA FeeHeldInit == Init => FeeHeld
<1> SUFFICES ASSUME Init, FeeLeg \in Wallets PROVE FeeStands /\ FeeFiled
  BY DEF FeeHeld
<1>1. /\ ~rec[FeeLeg].refunded /\ ~rec[FeeLeg].feeSettled /\ rec[FeeLeg].outcome = "none"
      /\ pc[FeeLeg] = "idle" /\ lock[FeeLeg] = "none" /\ fee = "none" /\ spend[FeeLeg] = "none"
  BY DEF Init, NewRecord, Wallets
<1> QED BY <1>1 DEF FeeStands, FeeFiled

LEMMA FeeHeldStays ==
    ASSUME TypeOK, Kept, Told, Charts, FeeHeld, FeeIsRead, Promise!NobodyHoldsBoth, [Next]_vars
    PROVE  FeeHeld'
<1> SUFFICES ASSUME FeeLeg \in Wallets PROVE FeeStands' /\ FeeFiled'
  BY DEF FeeHeld
<1>1. FeeStands
  BY DEF FeeHeld
<1> QED BY <1>1, StepFiles, StepFeeLasts, StepLasts, FiledStays

\* A swap of the payer that is over leaves no fee output open: it is spent, or a miner
\* owes its spend, or its lock never reached the chain, whatever the clocks, the queue
\* and the cuts but the two excluded, so long as a pass can read the fee output
\* (settleFacts.ts, readFeeOutput; settleSteps.ts, refund and refundFee).
THEOREM SwapFeeNotLeft ==
    ASSUME ClaimIsRecorded, ClaimIsNotQueued, FeeIsRead
    PROVE  Spec => []FeeNotLeft
<1>1. TypeOK /\ TypeOK' /\ Kept /\ Told /\ [Next]_vars => Told'
  BY StepTells, StepLasts, ToldStays
<1>2. TypeOK /\ Kept /\ Told /\ Charts /\ FeeHeld /\ Promise!NobodyHoldsBoth /\ [Next]_vars => FeeHeld'
  BY FeeHeldStays
<1>3. TypeOK /\ FeeHeld => FeeNotLeft
  BY FeeHolds
<1> QED BY <1>1, <1>2, <1>3, ToldInit, FeeHeldInit, KeptAlways, ChartsAlways, SwapNobodyHoldsBoth,
           PTL DEF Spec
==============================================================================
