----------------------- MODULE AccountHoldingProofs -----------------------
(***************************************************************************)
(* Proofs about AccountHolding, for every set of installs and under every  *)
(* disturbance of FaultKinds: whatever is lost, delayed, re-read, raced or *)
(* restarted, the conditional write keeps the record's line of succession. *)
(*                                                                         *)
(* A step either leaves the record alone or replaces the one the host      *)
(* serves by a later one (Lineage).  An install's local holding only ever  *)
(* repeats a record of that line, which names it (HeldIsPublished).        *)
(*                                                                         *)
(* Three further arguments need less disturbance.  When every answer is    *)
(* read (AnswersCount), an install knows what became of its own writes: its*)
(* seq never falls, and what it released is flushed (NewsInv).  When       *)
(* installs at most sleep, miss the merge of an arrival or spend before it *)
(* (Peace), an install cleared to spend is the one the host names          *)
(* (PeaceInv).  When nothing fails (Calm), whoever signs has merged all    *)
(* that was signed before (CalmInv).                                       *)
(***************************************************************************)
EXTENDS AccountHolding, TLAPS

\* The records ever accepted have distinct seqs, the last of them the host's.
Lineage ==
    /\ host \in published \cup {Absent}
    /\ \A r \in published : r.seq <= host.seq
    /\ \A r, q \in published : r.seq = q.seq => r = q

\* What an operation read was once the record, and what it wrote to hold the
\* account is one that names its install.
HeardWasSaid ==
    \A d \in Devices, op \in Operations :
        /\ io[d][op].pc = "seen" => io[d][op].seen \in published \cup {Absent}
        /\ io[d][op].pc = "replied" /\ io[d][op].out = "written"
               /\ op # "release"
           => io[d][op].seen \in published /\ HeldBy(io[d][op].seen, d)

\* An install that holds a published seq was named by the record with that seq.
HeldIsPublished ==
    \A d \in Devices :
        IsHeldHere(d) /\ local[d].seq > 0
            => Record("held", d, local[d].seq) \in published

HInv == TypeOK /\ Lineage /\ HeardWasSaid /\ HeldIsPublished

----------------------------------------------------------------------------
(* Shapes *)

LEMMA RestingType == Resting \in Requests
BY DEF Resting, Requests, Holdings, Records, Elsewhere, Absent, Record

LEMMA AskingType ==
    ASSUME TypeOK, NEW d \in Devices, NEW n \in Nat
    PROVE  Asking(d, n) \in Requests /\ Asking(d, n).pc = "ask"
<1>1. local[d] \in Holdings
  BY DEF TypeOK
<1> QED BY <1>1, RestingType DEF Asking, Resting, Requests, Holdings

LEMMA ReplyingType ==
    ASSUME TypeOK, NEW d \in Devices, NEW op \in Operations, NEW r \in Records,
           NEW out \in {"written", "conflict", "offline"}
    PROVE  /\ Replying(d, op, r, out) \in Requests
           /\ Replying(d, op, r, out).pc = "replied"
           /\ Replying(d, op, r, out).out = out
           /\ Replying(d, op, r, out).seen = r
<1>1. io[d][op] \in Requests
  BY DEF TypeOK
<1> QED BY <1>1 DEF Replying, Requests

\* One request changes; the others stay.
LEMMA OneRequest ==
    ASSUME TypeOK, NEW d \in Devices, NEW op \in Operations, NEW x \in Requests
    PROVE  /\ [io EXCEPT ![d][op] = x] \in [Devices -> [Operations -> Requests]]
           /\ \A e \in Devices, o \in Operations :
                 [io EXCEPT ![d][op] = x][e][o] =
                     IF e = d /\ o = op THEN x ELSE io[e][o]
BY DEF TypeOK

LEMMA AbsentType == Absent \in Records
BY DEF Absent, Record, Records

LEMMA InitType == Init => TypeOK
<1>1. ASSUME Init PROVE TypeOK
  <2>1. \A d \in Devices : Here(0) \in Holdings /\ Elsewhere(0, None) \in Holdings
    BY DEF Here, Elsewhere, Holdings
  <2>2. local \in [Devices -> Holdings]
    BY <1>1, <2>1 DEF Init
  <2>3. io \in [Devices -> [Operations -> Requests]]
    BY <1>1, RestingType DEF Init
  <2> QED BY <1>1, <2>2, <2>3, AbsentType DEF Init, TypeOK, Still, MovePhases
<1> QED BY <1>1

----------------------------------------------------------------------------
(* Type correctness, one operation at a time *)

LEMMA RequestsType ==
    ASSUME TypeOK, NEW d \in Devices, NEW op \in Operations
    PROVE  /\ \A n \in Nat : [io EXCEPT ![d][op] = Asking(d, n)]
                             \in [Devices -> [Operations -> Requests]]
           /\ Retrying(d, op) \in [Devices -> [Operations -> Requests]]
           /\ Ended(d, op) \in [Devices -> [Operations -> Requests]]
           /\ io \in [Devices -> [Operations -> Requests]]
           /\ io[d][op] \in Requests /\ io[d][op].seen \in Records
           /\ io[d][op].mine \in Holdings
           /\ io[d][op].seen.seq \in Nat /\ io[d][op].mine.seq \in Nat
<1>1. io[d][op] \in Requests /\ io \in [Devices -> [Operations -> Requests]]
  BY DEF TypeOK
<1>2. io[d][op].tries + 1 \in Nat /\ io[d][op].seen.seq \in Nat /\ io[d][op].mine.seq \in Nat
  BY <1>1 DEF Requests, Records, Holdings
<1>3. \A n \in Nat : [io EXCEPT ![d][op] = Asking(d, n)]
                         \in [Devices -> [Operations -> Requests]]
  BY AskingType, OneRequest
<1>4. Retrying(d, op) \in [Devices -> [Operations -> Requests]]
  BY <1>2, <1>3 DEF Retrying
<1>5. Ended(d, op) \in [Devices -> [Operations -> Requests]]
  BY RestingType, OneRequest DEF Ended
<1> QED BY <1>1, <1>2, <1>3, <1>4, <1>5 DEF Requests

LEMMA RecordType ==
    \A d \in Devices, m \in Nat, n \in Nat :
        /\ Larger(m, n) + 1 \in Nat /\ Larger(m, n) + 1 > m
        /\ Record("held", d, n) \in Records /\ Record("released", d, n) \in Records
BY DEF Larger, Record, Records

LEMMA HoldingType ==
    \A d \in Devices, r \in Records :
        /\ HoldingFromRecord(r, d) \in Holdings
        /\ Here(r.seq) \in Holdings /\ Elsewhere(r.seq, None) \in Holdings
        /\ HoldingFromRecord(r, d).kind = "here" =>
               HeldBy(r, d) /\ HoldingFromRecord(r, d).seq = r.seq
BY DEF HoldingFromRecord, HeldBy, Here, Elsewhere, Holdings, Records

LEMMA PutType ==
    ASSUME TypeOK, NEW d \in Devices, NEW op \in Operations, NEW r \in Records,
           Put(d, op, r)
    PROVE  /\ host' \in Records /\ published' \subseteq Records
           /\ io' \in [Devices -> [Operations -> Requests]]
<1>1. \A q \in Records, out \in {"written", "conflict", "offline"} :
         [io EXCEPT ![d][op] = Replying(d, op, q, out)]
             \in [Devices -> [Operations -> Requests]]
  BY ReplyingType, OneRequest
<1>2. io' \in [Devices -> [Operations -> Requests]]
  BY <1>1, AbsentType DEF Put
<1>3. host' \in Records /\ published' \subseteq Records
  BY DEF Put, TypeOK, recordVars
<1> QED BY <1>2, <1>3

LEMMA HostReadsType ==
    ASSUME TypeOK, NEW d \in Devices, NEW op \in Operations, HostReads(d, op)
    PROVE  TypeOK'
<1>1. \A r \in Records : Seeing(d, op, r) \in Requests
  BY RequestsType DEF Requests, Seeing
<1>2. {host} \cup published \cup {Absent} \subseteq Records
  BY AbsentType DEF TypeOK
<1>3. io' \in [Devices -> [Operations -> Requests]]
  <2>1. CASE \E r \in {host} \cup published \cup {Absent} :
               io' = [io EXCEPT ![d][op] = Seeing(d, op, r)]
    BY <2>1, <1>1, <1>2, OneRequest
  <2>2. CASE io' = [io EXCEPT ![d][op] = Replying(d, op, Absent, "offline")]
    BY <2>2, ReplyingType, OneRequest, AbsentType
  <2> QED BY <2>1, <2>2 DEF HostReads
<1> QED BY <1>3 DEF TypeOK, HostReads, recordVars, deviceVars, gapVars, moveVars,
             mailVars, historyVars
MoveStates == [pc : MovePhases, seq : Nat, restarts : Nat]

LEMMA MoveStatesType ==
    ASSUME TypeOK, NEW d \in Devices
    PROVE  /\ \A pc \in MovePhases : GoesTo(d, pc) => mv' \in [Devices -> MoveStates]
           /\ \A q \in Nat : mv' = [mv EXCEPT ![d] = [pc |-> "requesting", seq |-> q,
                                              restarts |-> @.restarts]]
                           => mv' \in [Devices -> MoveStates]
           /\ StartsOver(d) => mv' \in [Devices -> MoveStates]
           /\ mv' = [mv EXCEPT ![d] = Still] => mv' \in [Devices -> MoveStates]
           /\ Fails(d) => mv' \in [Devices -> MoveStates] /\ requests' \subseteq requests
           /\ mv[d].seq \in Nat /\ mv[d].restarts \in Nat
<1>1. mv \in [Devices -> MoveStates] /\ mv[d] \in MoveStates
  BY DEF TypeOK, MoveStates
<1>2. mv[d].seq \in Nat /\ mv[d].restarts \in Nat
  BY <1>1 DEF MoveStates
<1>3. \A pc \in MovePhases : [mv[d] EXCEPT !.pc = pc] \in MoveStates
  BY <1>1 DEF MoveStates
<1>4. \A pc \in MovePhases : GoesTo(d, pc) => mv' \in [Devices -> MoveStates]
  BY <1>1, <1>3 DEF GoesTo
<1>5. \A q \in Nat : mv' = [mv EXCEPT ![d] = [pc |-> "requesting", seq |-> q,
                                              restarts |-> @.restarts]]
                   => mv' \in [Devices -> MoveStates]
  BY <1>1, <1>2 DEF MoveStates, MovePhases
<1>6. StartsOver(d) => mv' \in [Devices -> MoveStates]
  BY <1>1, <1>2 DEF StartsOver, MoveStates, MovePhases
<1>7. Still \in MoveStates
  BY DEF Still, MoveStates, MovePhases
<1>8. mv' = [mv EXCEPT ![d] = Still] => mv' \in [Devices -> MoveStates]
  BY <1>1, <1>7
<1>9. Fails(d) => mv' \in [Devices -> MoveStates] /\ requests' \subseteq requests
  BY <1>8 DEF Fails, Retires
<1> QED BY <1>2, <1>4, <1>5, <1>6, <1>8, <1>9

LEMMA PhaseNames ==
    {"idle", "reading", "requesting", "awaitingAccept", "awaitingRelease",
     "taking", "forcing", "arriving"} \subseteq MovePhases
BY DEF MovePhases

LEMMA CheckType ==
    ASSUME HoldingAssumption, TypeOK, NEW d \in Devices,
           CheckStarts(d) \/ CheckReconciles(d) \/ CheckPublishes(d) \/
               CheckPublished(d) \/ CheckRetries(d) \/ CheckIncomplete(d)
    PROVE  TypeOK'
<1> "check" \in Operations
  BY DEF Operations
<1>1. CASE CheckStarts(d)
  BY <1>1, RequestsType, HoldingType
     DEF TypeOK, CheckStarts, CheckBegins, recordVars, deviceVars, gapVars, moveVars,
         mailVars, historyVars
<1>2. CASE CheckReconciles(d)
  BY <1>2, RequestsType, HoldingType
     DEF TypeOK, CheckReconciles, CheckCompletes, CheckEnds, recordVars, deviceVars, gapVars, moveVars,
         mailVars, historyVars
<1>3. CASE CheckPublishes(d)
  <2>1. Record("held", d, Larger(io[d]["check"].seen.seq, io[d]["check"].mine.seq) + 1) \in Records
    BY RequestsType, RecordType
  <2> QED BY <1>3, <2>1, PutType DEF CheckPublishes, TypeOK, recordVars, deviceVars, gapVars, moveVars,
         mailVars, historyVars
<1>4. CASE CheckPublished(d)
  BY <1>4, RequestsType, HoldingType
     DEF TypeOK, CheckPublished, CheckCompletes, CheckEnds, recordVars, deviceVars, gapVars, moveVars,
         mailVars, historyVars
<1>5. CASE CheckRetries(d)
  BY <1>5, RequestsType, HoldingType
     DEF TypeOK, CheckRetries, recordVars, deviceVars, gapVars, moveVars,
         mailVars, historyVars
<1>6. CASE CheckIncomplete(d)
  BY <1>6, RequestsType, HoldingType
     DEF TypeOK, CheckIncomplete, CheckEnds, recordVars, deviceVars, gapVars, moveVars,
         mailVars, historyVars
<1> QED BY <1>1, <1>2, <1>3, <1>4, <1>5, <1>6

LEMMA MoveType ==
    ASSUME HoldingAssumption, TypeOK, NEW d \in Devices,
           MoveStarts(d) \/ MoveReads(d) \/ MoveRequests(d) \/
               MoveAccepted(d) \/ MoveWatches(d) \/ AnswerLapses(d) \/
               ReleaseLapses(d) \/ Arrives(d)
    PROVE  TypeOK'
<1> "take" \in Operations
  BY DEF Operations
<1>1. CASE MoveStarts(d)
  <2>1. mv' \in [Devices -> MoveStates]
    BY <1>1, MoveStatesType, PhaseNames DEF MoveStarts
  <2>2. moves' \in [Devices -> Nat]
    BY <1>1 DEF MoveStarts, TypeOK
  <2> QED BY <1>1, <2>1, <2>2 DEF MoveStarts, TypeOK, MoveStates, recordVars,
         deviceVars, gapVars, moveVars, mailVars, historyVars
<1>2. CASE MoveReads(d)
  <2>1. host.seq \in Nat
    BY DEF TypeOK, Records
  <2>2. mv' \in [Devices -> MoveStates]
    BY <1>2, <2>1, MoveStatesType, PhaseNames DEF MoveReads, BeginsTake
  <2>3. io' \in [Devices -> [Operations -> Requests]]
    <3>1. io' = io \/ io' = [io EXCEPT ![d]["take"] = Asking(d, 0)]
      BY <1>2 DEF MoveReads, BeginsTake
    <3>2. io \in [Devices -> [Operations -> Requests]]
      BY RequestsType
    <3>3. [io EXCEPT ![d]["take"] = Asking(d, 0)]
             \in [Devices -> [Operations -> Requests]]
      BY RequestsType
    <3> QED BY <3>1, <3>2, <3>3
  <2>4. requests' \subseteq requests
    BY <1>2, MoveStatesType DEF MoveReads
  <2> QED BY <1>2, <2>1, <2>2, <2>3, <2>4 DEF MoveReads, TypeOK, MoveStates,
         recordVars, deviceVars, gapVars, moveVars, mailVars, historyVars
<1>3. CASE MoveRequests(d)
  <2>1. mv' \in [Devices -> MoveStates]
    BY <1>3, MoveStatesType, PhaseNames DEF MoveRequests
  <2>2. Nonce(d) \in Nonces
    BY MoveStatesType DEF Nonce, Nonces, TypeOK
  <2>3. Request(d) \in [from : Devices, seq : Nat, nonce : Nonces]
    BY <2>2, MoveStatesType DEF Request
  <2>4. requests' \subseteq requests \cup {Request(d)}
    BY <1>3, MoveStatesType DEF MoveRequests
  <2> QED BY <1>3, <2>1, <2>2, <2>3, <2>4 DEF MoveRequests, TypeOK, MoveStates,
         recordVars, deviceVars, gapVars, moveVars, mailVars, historyVars
<1>4. CASE MoveAccepted(d)
  <2>1. mv' \in [Devices -> MoveStates]
    BY <1>4, MoveStatesType, PhaseNames DEF MoveAccepted
  <2> QED BY <1>4, <2>1 DEF MoveAccepted, TypeOK, MoveStates, recordVars,
         deviceVars, gapVars, moveVars, mailVars, historyVars
<1>5. CASE MoveWatches(d)
  <2>1. mv' \in [Devices -> MoveStates]
    BY <1>5, MoveStatesType, PhaseNames DEF MoveWatches, BeginsTake
  <2>2. io' \in [Devices -> [Operations -> Requests]]
    <3>1. io' = io \/ io' = [io EXCEPT ![d]["take"] = Asking(d, 0)]
      BY <1>5 DEF MoveWatches, BeginsTake
    <3>2. io \in [Devices -> [Operations -> Requests]]
      BY RequestsType
    <3>3. [io EXCEPT ![d]["take"] = Asking(d, 0)]
             \in [Devices -> [Operations -> Requests]]
      BY RequestsType
    <3> QED BY <3>1, <3>2, <3>3
  <2>3. requests' \subseteq requests
    BY <1>5, MoveStatesType DEF MoveWatches
  <2> QED BY <1>5, <2>1, <2>2, <2>3 DEF MoveWatches, TypeOK, MoveStates,
         recordVars, deviceVars, gapVars, moveVars, mailVars, historyVars
<1>6. CASE AnswerLapses(d)
  <2>1. mv' \in [Devices -> MoveStates]
    BY <1>6, MoveStatesType, PhaseNames DEF AnswerLapses, BeginsTake
  <2>2. io' \in [Devices -> [Operations -> Requests]]
    BY <1>6, RequestsType DEF AnswerLapses, BeginsTake
  <2> QED BY <1>6, <2>1, <2>2 DEF AnswerLapses, TypeOK, MoveStates, recordVars,
         deviceVars, gapVars, moveVars, mailVars, historyVars
<1>7. CASE ReleaseLapses(d)
  <2>1. mv' \in [Devices -> MoveStates]
    BY <1>7, MoveStatesType, PhaseNames DEF ReleaseLapses, BeginsTake
  <2>2. io' \in [Devices -> [Operations -> Requests]]
    BY <1>7, RequestsType DEF ReleaseLapses, BeginsTake
  <2> QED BY <1>7, <2>1, <2>2 DEF ReleaseLapses, TypeOK, MoveStates, recordVars,
         deviceVars, gapVars, moveVars, mailVars, historyVars
<1>8. CASE Arrives(d)
  <2>1. mv' \in [Devices -> MoveStates]
    BY <1>8, MoveStatesType DEF Arrives
  <2>2. known' \in [Devices -> SUBSET Nat]
    <3>1. known \in [Devices -> SUBSET Nat] /\ backup \in SUBSET Nat
      BY DEF TypeOK
    <3>2. known' = [known EXCEPT ![d] = known[d] \cup backup] \/ known' = known
      BY <1>8 DEF Arrives
    <3>3. known[d] \cup backup \in SUBSET Nat
      BY <3>1
    <3> QED BY <3>1, <3>2, <3>3
  <2> QED BY <1>8, <2>1, <2>2 DEF Arrives, TypeOK, MoveStates, recordVars,
         deviceVars, gapVars, moveVars, mailVars
<1> QED BY <1>1, <1>2, <1>3, <1>4, <1>5, <1>6, <1>7, <1>8

LEMMA TakeType ==
    ASSUME HoldingAssumption, TypeOK, NEW d \in Devices,
           TakeFindsOwn(d) \/ TakeRefused(d) \/ TakeWrites(d) \/
               TakeWritten(d) \/ TakeRetries(d) \/ TakeUnavailable(d)
    PROVE  TypeOK'
<1> "take" \in Operations
  BY DEF Operations
<1>1. CASE TakeFindsOwn(d)
  <2>1. mv' \in [Devices -> MoveStates]
    BY <1>1, MoveStatesType, PhaseNames DEF TakeFindsOwn, Taken
  <2>2. io' \in [Devices -> [Operations -> Requests]]
    BY <1>1, RequestsType DEF TakeFindsOwn, Taken
  <2>3. local' \in [Devices -> Holdings]
    BY <1>1, RequestsType, HoldingType DEF TakeFindsOwn, Taken, TypeOK
  <2>4. requests' \subseteq requests
    BY <1>1 DEF TakeFindsOwn, Taken, Retires
  <2> QED BY <1>1, <2>1, <2>2, <2>3, <2>4 DEF TakeFindsOwn, TypeOK, MoveStates,
         Taken, recordVars, deviceVars, gapVars, moveVars, mailVars, historyVars
<1>2. CASE TakeRefused(d)
  <2>1. mv' \in [Devices -> MoveStates]
    BY <1>2, MoveStatesType DEF TakeRefused
  <2>2. io' \in [Devices -> [Operations -> Requests]]
    BY <1>2, RequestsType DEF TakeRefused
  <2>3. requests' \subseteq requests
    BY <1>2, MoveStatesType DEF TakeRefused
  <2> QED BY <1>2, <2>1, <2>2, <2>3 DEF TakeRefused, TypeOK, MoveStates,
         recordVars, deviceVars, gapVars, moveVars, mailVars, historyVars
<1>3. CASE TakeWrites(d)
  <2>1. Record("held", d, io[d]["take"].seen.seq + 1) \in Records
    BY RequestsType DEF Record, Records
  <2> QED BY <1>3, <2>1, PutType DEF TakeWrites, TypeOK, recordVars, deviceVars, gapVars, moveVars,
         mailVars, historyVars
<1>4. CASE TakeWritten(d)
  <2>1. mv' \in [Devices -> MoveStates]
    BY <1>4, MoveStatesType, PhaseNames DEF TakeWritten, Taken
  <2>2. io' \in [Devices -> [Operations -> Requests]]
    BY <1>4, RequestsType DEF TakeWritten, Taken
  <2>3. local' \in [Devices -> Holdings]
    BY <1>4, RequestsType, HoldingType DEF TakeWritten, Taken, TypeOK
  <2>4. requests' \subseteq requests
    BY <1>4 DEF TakeWritten, Taken, Retires
  <2> QED BY <1>4, <2>1, <2>2, <2>3, <2>4 DEF TakeWritten, TypeOK, MoveStates,
         Taken, recordVars, deviceVars, gapVars, moveVars, mailVars, historyVars
<1>5. CASE TakeRetries(d)
  BY <1>5, RequestsType, HoldingType
     DEF TypeOK, TakeRetries, recordVars, deviceVars, gapVars, moveVars,
         mailVars, historyVars
<1>6. CASE TakeUnavailable(d)
  <2>1. mv' \in [Devices -> MoveStates]
    BY <1>6, MoveStatesType DEF TakeUnavailable
  <2>2. io' \in [Devices -> [Operations -> Requests]]
    BY <1>6, RequestsType DEF TakeUnavailable
  <2>3. requests' \subseteq requests
    BY <1>6, MoveStatesType DEF TakeUnavailable
  <2> QED BY <1>6, <2>1, <2>2, <2>3 DEF TakeUnavailable, TypeOK, MoveStates,
         recordVars, deviceVars, gapVars, moveVars, mailVars, historyVars
<1> QED BY <1>1, <1>2, <1>3, <1>4, <1>5, <1>6

LEMMA ReleaseType ==
    ASSUME HoldingAssumption, TypeOK, NEW d \in Devices,
           ReleaseDrains(d) \/ ReleaseFlushes(d) \/
               ReleaseFlushFails(d) \/ ReleaseOvertaken(d) \/
               ReleaseWrites(d) \/ ReleaseWritten(d) \/ ReleaseRetries(d)
               \/ ReleaseGivesUp(d)
    PROVE  TypeOK'
<1> "release" \in Operations
  BY DEF Operations
<1>1. CASE ReleaseDrains(d)
  BY <1>1, RequestsType, HoldingType
     DEF TypeOK, ReleaseDrains, recordVars, deviceVars, gapVars, moveVars,
         mailVars, historyVars
<1>2. CASE ReleaseFlushes(d)
  <2>1. known[d] \in SUBSET Nat
    BY DEF TypeOK
  <2>2. backup' \in SUBSET Nat
    BY <1>2, <2>1 DEF ReleaseFlushes, TypeOK
  <2>3. io' \in [Devices -> [Operations -> Requests]]
    <3>1. io' = io \/ io' = [io EXCEPT ![d]["release"] = Asking(d, 0)]
      BY <1>2 DEF ReleaseFlushes
    <3>2. io \in [Devices -> [Operations -> Requests]]
      BY RequestsType
    <3>3. [io EXCEPT ![d]["release"] = Asking(d, 0)]
             \in [Devices -> [Operations -> Requests]]
      BY RequestsType
    <3> QED BY <3>1, <3>2, <3>3
  <2>4. rel' \in [Devices -> {"idle", "draining", "flushing", "writing"}]
    BY <1>2 DEF ReleaseFlushes, TypeOK
  <2> QED BY <1>2, <2>1, <2>2, <2>3, <2>4 DEF ReleaseFlushes, TypeOK, MoveStates,
         recordVars, deviceVars, gapVars, moveVars, mailVars, historyVars
<1>3. CASE ReleaseFlushFails(d)
  BY <1>3, RequestsType, HoldingType, MoveStatesType
     DEF TypeOK, MoveStates, MovePhases, ReleaseFlushFails, recordVars, deviceVars, gapVars, moveVars,
         mailVars, historyVars
<1>4. CASE ReleaseOvertaken(d)
  BY <1>4, RequestsType, HoldingType
     DEF TypeOK, ReleaseOvertaken, ReleaseEnds, recordVars, deviceVars, gapVars, moveVars,
         mailVars, historyVars
<1>5. CASE ReleaseWrites(d)
  <2>1. Record("released", d, Larger(io[d]["release"].seen.seq, io[d]["release"].mine.seq) + 1) \in Records
    BY RequestsType, RecordType
  <2> QED BY <1>5, <2>1, PutType DEF ReleaseWrites, TypeOK, recordVars, deviceVars, gapVars, moveVars,
         mailVars, historyVars
<1>6. CASE ReleaseWritten(d)
  BY <1>6, RequestsType, HoldingType
     DEF TypeOK, ReleaseWritten, ReleaseEnds, recordVars, deviceVars, gapVars, moveVars,
         mailVars, historyVars
<1>7. CASE ReleaseRetries(d)
  BY <1>7, RequestsType, HoldingType
     DEF TypeOK, ReleaseRetries, recordVars, deviceVars, gapVars, moveVars,
         mailVars, historyVars
<1>8. CASE ReleaseGivesUp(d)
  BY <1>8, RequestsType, HoldingType
     DEF TypeOK, ReleaseGivesUp, ReleaseEnds, recordVars, deviceVars, gapVars, moveVars,
         mailVars, historyVars
<1> QED BY <1>1, <1>2, <1>3, <1>4, <1>5, <1>6, <1>7, <1>8

LEMMA SpendType ==
    ASSUME HoldingAssumption, TypeOK, NEW d \in Devices,
           Serves(d) \/ SpendStarts(d) \/ SpendFresh(d) \/
               SpendChecks(d) \/ SpendChecked(d) \/ Signs(d)
    PROVE  TypeOK'
<1> "check" \in Operations
  BY DEF Operations
<1>1. CASE Serves(d)
  <2>1. requests' \subseteq requests
    BY <1>1 DEF Serves
  <2>2. accepts' \subseteq [to : Devices, nonce : Nonces]
    BY <1>1 DEF Serves, TypeOK
  <2>3. io' \in [Devices -> [Operations -> Requests]]
    <3>1. io' = io \/ io' = [io EXCEPT ![d]["check"] = Asking(d, 0)]
      BY <1>1 DEF Serves, CheckBegins
    <3>2. io \in [Devices -> [Operations -> Requests]]
      BY RequestsType
    <3>3. [io EXCEPT ![d]["check"] = Asking(d, 0)]
             \in [Devices -> [Operations -> Requests]]
      BY RequestsType
    <3> QED BY <3>1, <3>2, <3>3
  <2>4. clean' \in [Devices -> BOOLEAN]
    BY <1>1 DEF Serves, CheckBegins, TypeOK
  <2>5. rel' \in [Devices -> {"idle", "draining", "flushing", "writing"}]
    BY <1>1 DEF Serves, TypeOK
  <2> QED BY <1>1, <2>1, <2>2, <2>3, <2>4, <2>5 DEF Serves, TypeOK, MoveStates,
         recordVars, deviceVars, gapVars, moveVars, mailVars, historyVars
<1>2. CASE SpendStarts(d)
  BY <1>2, RequestsType, HoldingType
     DEF TypeOK, SpendStarts, recordVars, deviceVars, gapVars, moveVars,
         mailVars, historyVars
<1>3. CASE SpendFresh(d)
  BY <1>3, RequestsType, HoldingType
     DEF TypeOK, SpendFresh, Clears, recordVars, deviceVars, gapVars, moveVars,
         mailVars, historyVars
<1>4. CASE SpendChecks(d)
  BY <1>4, RequestsType, HoldingType
     DEF TypeOK, SpendChecks, CheckBegins, recordVars, deviceVars, gapVars, moveVars,
         mailVars, historyVars
<1>5. CASE SpendChecked(d)
  BY <1>5, RequestsType, HoldingType
     DEF TypeOK, SpendChecked, Clears, recordVars, deviceVars, gapVars, moveVars,
         mailVars, historyVars
<1>6. CASE Signs(d)
  BY <1>6, RequestsType, HoldingType
     DEF TypeOK, Signs, recordVars, deviceVars, gapVars, moveVars,
         mailVars, historyVars
<1> QED BY <1>1, <1>2, <1>3, <1>4, <1>5, <1>6

LEMMA PauseType ==
    ASSUME HoldingAssumption, TypeOK, NEW d \in Devices,
           Sleeps(d) \/ Wakes(d) \/ Restarts(d)
    PROVE  TypeOK'
<1> "check" \in Operations
  BY DEF Operations
<1>1. CASE Sleeps(d)
  <2>1. naps' \in Nat /\ asleep' \subseteq Devices
    BY <1>1 DEF Sleeps, TypeOK
  <2>2. UNCHANGED <<recordVars, deviceVars, io, fresh, clean, moveVars, mailVars, rel, spend,
                    historyVars>>
    BY <1>1 DEF Sleeps
  <2> QED BY <2>1, <2>2 DEF TypeOK, recordVars, deviceVars, moveVars, mailVars, historyVars
<1>2. CASE Wakes(d)
  BY <1>2, RequestsType, HoldingType
     DEF TypeOK, Wakes, Gap, recordVars, deviceVars, gapVars, moveVars,
         mailVars, historyVars
<1>3. CASE Restarts(d)
  <2>1. mv' \in [Devices -> MoveStates]
    BY <1>3, MoveStatesType DEF Restarts
  <2>2. [op \in Operations |-> Resting] \in [Operations -> Requests]
    BY RestingType
  <2>3. io' \in [Devices -> [Operations -> Requests]]
    BY <1>3, <2>2 DEF Restarts, TypeOK
  <2> QED BY <1>3, <2>1, <2>2, <2>3 DEF Restarts, TypeOK, MoveStates, Gap,
         recordVars, deviceVars, gapVars, moveVars, mailVars, historyVars
<1> QED BY <1>1, <1>2, <1>3
----------------------------------------------------------------------------
(* The line of succession: what one step does to the record, to the        *)
(* requests about it, and to what installs hold.                           *)

\* No answer from the host: requests are begun, begun again or dropped.
QuietStep ==
    /\ UNCHANGED recordVars
    /\ \A e \in Devices, o \in Operations :
          io'[e][o] = io[e][o] \/ io'[e][o].pc \in {"idle", "ask"}

\* An operation that has read the record writes its successor.
WriteStep(d, op, r) ==
    /\ io[d][op].pc = "seen"
    /\ r.seq > io[d][op].seen.seq
    /\ op # "release" => HeldBy(r, d)
    /\ Put(d, op, r)

\* Whoever takes the account up holds it by a record that names it.
LocalFollows ==
    \A e \in Devices :
        \/ local'[e] = local[e]
        \/ local'[e].kind = "here" => Record("held", e, local'[e].seq) \in published

Step ==
    /\ LocalFollows
    /\ \/ QuietStep
       \/ \E d \in Devices, op \in Operations :
             HostReads(d, op) \/ \E r \in Records : WriteStep(d, op, r)

LEMMA QuietKeepsLine ==
    ASSUME Lineage, HeardWasSaid, QuietStep
    PROVE  Lineage' /\ HeardWasSaid' /\ UNCHANGED recordVars
<1>1. Lineage'
  BY DEF Lineage, QuietStep, recordVars
<1>2. ASSUME NEW e \in Devices, NEW o \in Operations
      PROVE  /\ io'[e][o].pc = "seen" => io'[e][o].seen \in published' \cup {Absent}
             /\ io'[e][o].pc = "replied" /\ io'[e][o].out = "written" /\ o # "release"
                => io'[e][o].seen \in published' /\ HeldBy(io'[e][o].seen, e)
  <2>1. CASE io'[e][o] = io[e][o]
    BY <2>1 DEF HeardWasSaid, QuietStep, recordVars
  <2>2. CASE io'[e][o].pc \in {"idle", "ask"}
    BY <2>2
  <2> QED BY <2>1, <2>2 DEF QuietStep
<1> QED BY <1>1, <1>2 DEF HeardWasSaid, HeldBy, QuietStep

LEMMA ReadKeepsLine ==
    ASSUME TypeOK, Lineage, HeardWasSaid, NEW d \in Devices, NEW op \in Operations,
           HostReads(d, op)
    PROVE  Lineage' /\ HeardWasSaid' /\ UNCHANGED recordVars
<1>1. UNCHANGED recordVars /\ Lineage'
  BY DEF HostReads, Lineage, recordVars
<1>2. \E x \in Requests :
         /\ io' = [io EXCEPT ![d][op] = x]
         /\ \/ x.pc = "seen" /\ x.seen \in published \cup {Absent}
            \/ x.pc = "replied" /\ x.out = "offline"
  <2>1. CASE \E r \in {host} \cup published \cup {Absent} :
               io' = [io EXCEPT ![d][op] = Seeing(d, op, r)]
    <3>1. PICK r \in {host} \cup published \cup {Absent} :
                 io' = [io EXCEPT ![d][op] = Seeing(d, op, r)]
      BY <2>1
    <3>2. r \in published \cup {Absent} /\ r \in Records
      BY AbsentType DEF Lineage, TypeOK
    <3>3. /\ Seeing(d, op, r) \in Requests /\ Seeing(d, op, r).pc = "seen"
          /\ Seeing(d, op, r).seen = r
      BY <3>2, RequestsType DEF Seeing, Requests
    <3> QED BY <3>1, <3>2, <3>3
  <2>2. CASE io' = [io EXCEPT ![d][op] = Replying(d, op, Absent, "offline")]
    <3>1. /\ Replying(d, op, Absent, "offline") \in Requests
          /\ Replying(d, op, Absent, "offline").pc = "replied"
          /\ Replying(d, op, Absent, "offline").out = "offline"
      BY ReplyingType, AbsentType
    <3> QED BY <2>2, <3>1
  <2> QED BY <2>1, <2>2 DEF HostReads
<1>3. PICK x \in Requests :
         /\ io' = [io EXCEPT ![d][op] = x]
         /\ \/ x.pc = "seen" /\ x.seen \in published \cup {Absent}
            \/ x.pc = "replied" /\ x.out = "offline"
  BY <1>2
<1>4. \A e \in Devices, o \in Operations :
         io'[e][o] = IF e = d /\ o = op THEN x ELSE io[e][o]
  BY <1>3, OneRequest
<1>5. HeardWasSaid'
  BY <1>1, <1>3, <1>4 DEF HeardWasSaid, HeldBy, recordVars
<1> QED BY <1>1, <1>5

\* A conditional write succeeds only over the record it read, the last one.
LEMMA WriteKeepsLine ==
    ASSUME TypeOK, Lineage, HeardWasSaid, NEW d \in Devices, NEW op \in Operations,
           NEW r \in Records, WriteStep(d, op, r)
    PROVE  /\ Lineage' /\ HeardWasSaid' /\ published \subseteq published'
           /\ host' # host => host'.seq > host.seq
<1> USE DEF WriteStep
<1>1. /\ published \subseteq published'
      /\ host' # host => host = io[d][op].seen /\ host' = r /\ published' = published \cup {r}
      /\ published' # published => host' = r /\ host = io[d][op].seen
                                     /\ published' = published \cup {r}
  BY DEF Put, recordVars
<1>2. host.seq \in Nat /\ r.seq \in Nat /\ \A q \in published : q.seq \in Nat
  BY DEF TypeOK, Records
<1>3. Lineage'
  <2>1. CASE host' = host /\ published' = published
    BY <2>1 DEF Lineage
  <2>2. CASE host = io[d][op].seen /\ host' = r /\ published' = published \cup {r}
    BY <2>2, <1>2 DEF Lineage
  <2> QED BY <1>1, <2>1, <2>2
<1>4. \E x \in Requests :
         /\ io' = [io EXCEPT ![d][op] = x]
         /\ x.pc = "replied"
         /\ x.out = "written" => x.seen = r /\ r \in published'
  <2>1. CASE host = io[d][op].seen /\ published' = published \cup {r}
             /\ \E out \in {"written", "offline"} :
                   io' = [io EXCEPT ![d][op] = Replying(d, op, r, out)]
    <3>1. PICK out \in {"written", "offline"} :
               io' = [io EXCEPT ![d][op] = Replying(d, op, r, out)]
      BY <2>1
    <3>2. r \in published'
      BY <2>1
    <3>3. /\ Replying(d, op, r, out) \in Requests
          /\ Replying(d, op, r, out).pc = "replied"
          /\ Replying(d, op, r, out).seen = r
      BY ReplyingType
    <3> QED BY <3>1, <3>2, <3>3
  <2>2. CASE \E out \in {"conflict", "offline"} :
               io' = [io EXCEPT ![d][op] = Replying(d, op, Absent, out)]
    <3>1. PICK out \in {"conflict", "offline"} :
               io' = [io EXCEPT ![d][op] = Replying(d, op, Absent, out)]
      BY <2>2
    <3> QED BY <3>1, ReplyingType, AbsentType
  <2> QED BY <2>1, <2>2 DEF Put
<1>5. PICK x \in Requests :
         /\ io' = [io EXCEPT ![d][op] = x]
         /\ x.pc = "replied"
         /\ x.out = "written" => x.seen = r /\ r \in published'
  BY <1>4
<1>6. \A e \in Devices, o \in Operations :
         io'[e][o] = IF e = d /\ o = op THEN x ELSE io[e][o]
  BY <1>5, OneRequest
<1>7. HeardWasSaid'
  BY <1>1, <1>5, <1>6 DEF HeardWasSaid, HeldBy
<1> QED BY <1>1, <1>2, <1>3, <1>7

LEMMA StepKeepsLine ==
    ASSUME HInv, TypeOK', Step
    PROVE  HInv' /\ (host' # host => host'.seq > host.seq)
<1>1. /\ Lineage' /\ HeardWasSaid' /\ published \subseteq published'
      /\ host' # host => host'.seq > host.seq
  <2>1. CASE QuietStep
    BY <2>1, QuietKeepsLine DEF HInv, recordVars
  <2>2. ASSUME NEW d \in Devices, NEW op \in Operations, HostReads(d, op)
        PROVE  /\ Lineage' /\ HeardWasSaid' /\ published \subseteq published'
               /\ host' # host => host'.seq > host.seq
    BY <2>2, ReadKeepsLine DEF HInv, recordVars
  <2>3. ASSUME NEW d \in Devices, NEW op \in Operations, NEW r \in Records,
               WriteStep(d, op, r)
        PROVE  /\ Lineage' /\ HeardWasSaid' /\ published \subseteq published'
               /\ host' # host => host'.seq > host.seq
    BY <2>3, WriteKeepsLine DEF HInv
  <2> QED BY <2>1, <2>2, <2>3 DEF Step
<1>2. HeldIsPublished'
  BY <1>1 DEF HInv, HeldIsPublished, Step, LocalFollows, IsHeldHere
<1> QED BY <1>1, <1>2 DEF HInv
----------------------------------------------------------------------------
(* Every action is such a step. *)

LEMMA QuietRequests ==
    ASSUME TypeOK, NEW d \in Devices, NEW op \in Operations, UNCHANGED recordVars,
           \/ io' = io
           \/ \E n \in Nat : io' = [io EXCEPT ![d][op] = Asking(d, n)]
           \/ io' = Ended(d, op)
    PROVE  QuietStep
<1>1. Resting.pc = "idle"
  BY DEF Resting
<1>2. CASE io' = io
  BY <1>2 DEF QuietStep
<1>3. CASE \E n \in Nat : io' = [io EXCEPT ![d][op] = Asking(d, n)]
  <2>1. PICK n \in Nat : io' = [io EXCEPT ![d][op] = Asking(d, n)]
    BY <1>3
  <2>2. \A e \in Devices, o \in Operations :
           io'[e][o] = IF e = d /\ o = op THEN Asking(d, n) ELSE io[e][o]
    BY <2>1, AskingType, OneRequest
  <2> QED BY <2>2, AskingType DEF QuietStep
<1>4. CASE io' = Ended(d, op)
  <2>1. \A e \in Devices, o \in Operations :
           io'[e][o] = IF e = d /\ o = op THEN Resting ELSE io[e][o]
    BY <1>4, RestingType, OneRequest DEF Ended
  <2> QED BY <2>1, <1>1 DEF QuietStep
<1> QED BY <1>2, <1>3, <1>4

\* A holding taken from a record that names the install.
LEMMA FollowsRecord ==
    ASSUME TypeOK, NEW d \in Devices, NEW r \in published, HeldBy(r, d),
           NEW h, local' = [local EXCEPT ![d] = h],
           h = Here(r.seq)
    PROVE  LocalFollows
<1>1. r = Record("held", d, r.seq)
  BY DEF TypeOK, Records, HeldBy, Record
<1>2. h.seq = r.seq
  BY DEF Here
<1> QED BY <1>1, <1>2 DEF LocalFollows, TypeOK

LEMMA FollowsElsewhere ==
    ASSUME TypeOK, NEW d \in Devices, NEW h, local' = [local EXCEPT ![d] = h],
           h.kind = "elsewhere"
    PROVE  LocalFollows
BY DEF LocalFollows, TypeOK

LEMMA QuietLocally ==
    ASSUME TypeOK, NEW d \in Devices,
           CheckStarts(d) \/ CheckRetries(d) \/ CheckIncomplete(d) \/
               Serves(d) \/ SpendStarts(d) \/ SpendFresh(d) \/
               SpendChecks(d) \/ SpendChecked(d) \/ Signs(d) \/ Sleeps(d)
               \/ Wakes(d)
    PROVE  Step
<1> "check" \in Operations /\ "take" \in Operations /\ "release" \in Operations
  BY DEF Operations
<1>1. CASE CheckStarts(d)
  <2>1. UNCHANGED recordVars /\ LocalFollows
    BY <1>1 DEF CheckStarts, CheckBegins, recordVars, deviceVars, LocalFollows
  <2>2. \/ io' = io \/ io' = [io EXCEPT ![d]["check"] = Asking(d, 0)]
        \/ io' = Ended(d, "check")
    BY <1>1 DEF CheckStarts, CheckBegins
  <2> QED BY <2>1, <2>2, QuietRequests DEF Step
<1>2. CASE CheckRetries(d)
  <2>1. io[d]["check"].tries + 1 \in Nat
    BY RequestsType DEF Requests
  <2>2. UNCHANGED recordVars /\ LocalFollows
    BY <1>2 DEF CheckRetries, deviceVars, LocalFollows
  <2>3. \E n \in Nat : io' = [io EXCEPT ![d]["check"] = Asking(d, n)]
    BY <1>2, <2>1 DEF CheckRetries, Retrying
  <2> QED BY <2>2, <2>3, QuietRequests DEF Step
<1>3. CASE CheckIncomplete(d)
  <2>1. UNCHANGED recordVars /\ LocalFollows
    BY <1>3 DEF CheckIncomplete, CheckEnds, recordVars, deviceVars, LocalFollows
  <2>2. \/ io' = io \/ io' = [io EXCEPT ![d]["check"] = Asking(d, 0)]
        \/ io' = Ended(d, "check")
    BY <1>3 DEF CheckIncomplete, CheckEnds
  <2> QED BY <2>1, <2>2, QuietRequests DEF Step
<1>4. CASE Serves(d)
  <2>1. UNCHANGED recordVars /\ LocalFollows
    BY <1>4 DEF Serves, CheckBegins, recordVars, deviceVars, LocalFollows
  <2>2. \/ io' = io \/ io' = [io EXCEPT ![d]["check"] = Asking(d, 0)]
        \/ io' = Ended(d, "check")
    BY <1>4 DEF Serves, CheckBegins
  <2> QED BY <2>1, <2>2, QuietRequests DEF Step
<1>5. CASE SpendStarts(d)
  <2>1. UNCHANGED recordVars /\ LocalFollows
    BY <1>5 DEF SpendStarts, recordVars, deviceVars, LocalFollows
  <2>2. \/ io' = io \/ io' = [io EXCEPT ![d]["check"] = Asking(d, 0)]
        \/ io' = Ended(d, "check")
    BY <1>5 DEF SpendStarts
  <2> QED BY <2>1, <2>2, QuietRequests DEF Step
<1>6. CASE SpendFresh(d)
  <2>1. UNCHANGED recordVars /\ LocalFollows
    BY <1>6 DEF SpendFresh, recordVars, deviceVars, LocalFollows
  <2>2. \/ io' = io \/ io' = [io EXCEPT ![d]["check"] = Asking(d, 0)]
        \/ io' = Ended(d, "check")
    BY <1>6 DEF SpendFresh
  <2> QED BY <2>1, <2>2, QuietRequests DEF Step
<1>7. CASE SpendChecks(d)
  <2>1. UNCHANGED recordVars /\ LocalFollows
    BY <1>7 DEF SpendChecks, CheckBegins, recordVars, deviceVars, LocalFollows
  <2>2. \/ io' = io \/ io' = [io EXCEPT ![d]["check"] = Asking(d, 0)]
        \/ io' = Ended(d, "check")
    BY <1>7 DEF SpendChecks, CheckBegins
  <2> QED BY <2>1, <2>2, QuietRequests DEF Step
<1>8. CASE SpendChecked(d)
  <2>1. UNCHANGED recordVars /\ LocalFollows
    BY <1>8 DEF SpendChecked, recordVars, deviceVars, LocalFollows
  <2>2. \/ io' = io \/ io' = [io EXCEPT ![d]["check"] = Asking(d, 0)]
        \/ io' = Ended(d, "check")
    BY <1>8 DEF SpendChecked
  <2> QED BY <2>1, <2>2, QuietRequests DEF Step
<1>9. CASE Signs(d)
  <2>1. UNCHANGED recordVars /\ LocalFollows
    BY <1>9 DEF Signs, recordVars, deviceVars, LocalFollows
  <2>2. \/ io' = io \/ io' = [io EXCEPT ![d]["check"] = Asking(d, 0)]
        \/ io' = Ended(d, "check")
    BY <1>9 DEF Signs
  <2> QED BY <2>1, <2>2, QuietRequests DEF Step
<1>10. CASE Sleeps(d)
  <2>1. UNCHANGED recordVars /\ LocalFollows
    BY <1>10 DEF Sleeps, recordVars, deviceVars, LocalFollows
  <2>2. \/ io' = io \/ io' = [io EXCEPT ![d]["check"] = Asking(d, 0)]
        \/ io' = Ended(d, "check")
    BY <1>10 DEF Sleeps
  <2> QED BY <2>1, <2>2, QuietRequests DEF Step
<1>11. CASE Wakes(d)
  <2>1. UNCHANGED recordVars /\ LocalFollows
    BY <1>11 DEF Wakes, recordVars, deviceVars, LocalFollows
  <2>2. \/ io' = io \/ io' = [io EXCEPT ![d]["check"] = Asking(d, 0)]
        \/ io' = Ended(d, "check")
    BY <1>11 DEF Wakes
  <2> QED BY <2>1, <2>2, QuietRequests DEF Step
<1> QED BY <1>1, <1>2, <1>3, <1>4, <1>5, <1>6, <1>7, <1>8, <1>9, <1>10, <1>11

LEMMA QuietMoves ==
    ASSUME TypeOK, NEW d \in Devices,
           MoveStarts(d) \/ MoveReads(d) \/ MoveRequests(d) \/
               MoveAccepted(d) \/ MoveWatches(d) \/ AnswerLapses(d) \/
               ReleaseLapses(d) \/ Arrives(d) \/ TakeRefused(d) \/
               TakeRetries(d) \/ TakeUnavailable(d)
    PROVE  Step
<1> "check" \in Operations /\ "take" \in Operations /\ "release" \in Operations
  BY DEF Operations
<1>1. CASE MoveStarts(d)
  <2>1. UNCHANGED recordVars /\ LocalFollows
    BY <1>1 DEF MoveStarts, recordVars, deviceVars, LocalFollows
  <2>2. \/ io' = io \/ io' = [io EXCEPT ![d]["take"] = Asking(d, 0)]
        \/ io' = Ended(d, "take")
    BY <1>1 DEF MoveStarts
  <2> QED BY <2>1, <2>2, QuietRequests DEF Step
<1>2. CASE MoveReads(d)
  <2>1. UNCHANGED recordVars /\ LocalFollows
    BY <1>2 DEF MoveReads, BeginsTake, recordVars, deviceVars, LocalFollows
  <2>2. \/ io' = io \/ io' = [io EXCEPT ![d]["take"] = Asking(d, 0)]
        \/ io' = Ended(d, "take")
    BY <1>2 DEF MoveReads, BeginsTake
  <2> QED BY <2>1, <2>2, QuietRequests DEF Step
<1>3. CASE MoveRequests(d)
  <2>1. UNCHANGED recordVars /\ LocalFollows
    BY <1>3 DEF MoveRequests, recordVars, deviceVars, LocalFollows
  <2>2. \/ io' = io \/ io' = [io EXCEPT ![d]["take"] = Asking(d, 0)]
        \/ io' = Ended(d, "take")
    BY <1>3 DEF MoveRequests
  <2> QED BY <2>1, <2>2, QuietRequests DEF Step
<1>4. CASE MoveAccepted(d)
  <2>1. UNCHANGED recordVars /\ LocalFollows
    BY <1>4 DEF MoveAccepted, recordVars, deviceVars, LocalFollows
  <2>2. \/ io' = io \/ io' = [io EXCEPT ![d]["take"] = Asking(d, 0)]
        \/ io' = Ended(d, "take")
    BY <1>4 DEF MoveAccepted
  <2> QED BY <2>1, <2>2, QuietRequests DEF Step
<1>5. CASE MoveWatches(d)
  <2>1. UNCHANGED recordVars /\ LocalFollows
    BY <1>5 DEF MoveWatches, BeginsTake, recordVars, deviceVars, LocalFollows
  <2>2. \/ io' = io \/ io' = [io EXCEPT ![d]["take"] = Asking(d, 0)]
        \/ io' = Ended(d, "take")
    BY <1>5 DEF MoveWatches, BeginsTake
  <2> QED BY <2>1, <2>2, QuietRequests DEF Step
<1>6. CASE AnswerLapses(d)
  <2>1. UNCHANGED recordVars /\ LocalFollows
    BY <1>6 DEF AnswerLapses, BeginsTake, recordVars, deviceVars, LocalFollows
  <2>2. \/ io' = io \/ io' = [io EXCEPT ![d]["take"] = Asking(d, 0)]
        \/ io' = Ended(d, "take")
    BY <1>6 DEF AnswerLapses, BeginsTake
  <2> QED BY <2>1, <2>2, QuietRequests DEF Step
<1>7. CASE ReleaseLapses(d)
  <2>1. UNCHANGED recordVars /\ LocalFollows
    BY <1>7 DEF ReleaseLapses, BeginsTake, recordVars, deviceVars, LocalFollows
  <2>2. \/ io' = io \/ io' = [io EXCEPT ![d]["take"] = Asking(d, 0)]
        \/ io' = Ended(d, "take")
    BY <1>7 DEF ReleaseLapses, BeginsTake
  <2> QED BY <2>1, <2>2, QuietRequests DEF Step
<1>8. CASE Arrives(d)
  <2>1. UNCHANGED recordVars /\ LocalFollows
    BY <1>8 DEF Arrives, recordVars, deviceVars, LocalFollows
  <2>2. \/ io' = io \/ io' = [io EXCEPT ![d]["take"] = Asking(d, 0)]
        \/ io' = Ended(d, "take")
    BY <1>8 DEF Arrives
  <2> QED BY <2>1, <2>2, QuietRequests DEF Step
<1>9. CASE TakeRefused(d)
  <2>1. UNCHANGED recordVars /\ LocalFollows
    BY <1>9 DEF TakeRefused, recordVars, deviceVars, LocalFollows
  <2>2. \/ io' = io \/ io' = [io EXCEPT ![d]["take"] = Asking(d, 0)]
        \/ io' = Ended(d, "take")
    BY <1>9 DEF TakeRefused
  <2> QED BY <2>1, <2>2, QuietRequests DEF Step
<1>10. CASE TakeRetries(d)
  <2>1. io[d]["take"].tries + 1 \in Nat
    BY RequestsType DEF Requests
  <2>2. UNCHANGED recordVars /\ LocalFollows
    BY <1>10 DEF TakeRetries, deviceVars, LocalFollows
  <2>3. \E n \in Nat : io' = [io EXCEPT ![d]["take"] = Asking(d, n)]
    BY <1>10, <2>1 DEF TakeRetries, Retrying
  <2> QED BY <2>2, <2>3, QuietRequests DEF Step
<1>11. CASE TakeUnavailable(d)
  <2>1. UNCHANGED recordVars /\ LocalFollows
    BY <1>11 DEF TakeUnavailable, recordVars, deviceVars, LocalFollows
  <2>2. \/ io' = io \/ io' = [io EXCEPT ![d]["take"] = Asking(d, 0)]
        \/ io' = Ended(d, "take")
    BY <1>11 DEF TakeUnavailable
  <2> QED BY <2>1, <2>2, QuietRequests DEF Step
<1> QED BY <1>1, <1>2, <1>3, <1>4, <1>5, <1>6, <1>7, <1>8, <1>9, <1>10, <1>11

LEMMA QuietReleases ==
    ASSUME TypeOK, NEW d \in Devices,
           ReleaseDrains(d) \/ ReleaseFlushes(d) \/
               ReleaseFlushFails(d) \/ ReleaseRetries(d) \/
               ReleaseGivesUp(d)
    PROVE  Step
<1> "check" \in Operations /\ "take" \in Operations /\ "release" \in Operations
  BY DEF Operations
<1>1. CASE ReleaseDrains(d)
  <2>1. UNCHANGED recordVars /\ LocalFollows
    BY <1>1 DEF ReleaseDrains, recordVars, deviceVars, LocalFollows
  <2>2. \/ io' = io \/ io' = [io EXCEPT ![d]["release"] = Asking(d, 0)]
        \/ io' = Ended(d, "release")
    BY <1>1 DEF ReleaseDrains
  <2> QED BY <2>1, <2>2, QuietRequests DEF Step
<1>2. CASE ReleaseFlushes(d)
  <2>1. UNCHANGED recordVars /\ LocalFollows
    BY <1>2 DEF ReleaseFlushes, recordVars, deviceVars, LocalFollows
  <2>2. \/ io' = io \/ io' = [io EXCEPT ![d]["release"] = Asking(d, 0)]
        \/ io' = Ended(d, "release")
    BY <1>2 DEF ReleaseFlushes
  <2> QED BY <2>1, <2>2, QuietRequests DEF Step
<1>3. CASE ReleaseFlushFails(d)
  <2>1. UNCHANGED recordVars /\ LocalFollows
    BY <1>3 DEF ReleaseFlushFails, recordVars, deviceVars, LocalFollows
  <2>2. \/ io' = io \/ io' = [io EXCEPT ![d]["release"] = Asking(d, 0)]
        \/ io' = Ended(d, "release")
    BY <1>3 DEF ReleaseFlushFails
  <2> QED BY <2>1, <2>2, QuietRequests DEF Step
<1>4. CASE ReleaseRetries(d)
  <2>1. io[d]["release"].tries + 1 \in Nat
    BY RequestsType DEF Requests
  <2>2. UNCHANGED recordVars /\ LocalFollows
    BY <1>4 DEF ReleaseRetries, deviceVars, LocalFollows
  <2>3. \E n \in Nat : io' = [io EXCEPT ![d]["release"] = Asking(d, n)]
    BY <1>4, <2>1 DEF ReleaseRetries, Retrying
  <2> QED BY <2>2, <2>3, QuietRequests DEF Step
<1>5. CASE ReleaseGivesUp(d)
  <2>1. UNCHANGED recordVars /\ LocalFollows
    BY <1>5 DEF ReleaseGivesUp, ReleaseEnds, recordVars, deviceVars, LocalFollows
  <2>2. \/ io' = io \/ io' = [io EXCEPT ![d]["release"] = Asking(d, 0)]
        \/ io' = Ended(d, "release")
    BY <1>5 DEF ReleaseGivesUp, ReleaseEnds
  <2> QED BY <2>1, <2>2, QuietRequests DEF Step
<1> QED BY <1>1, <1>2, <1>3, <1>4, <1>5
LEMMA RestartsStep ==
    ASSUME TypeOK, NEW d \in Devices, Restarts(d)
    PROVE  Step
<1>1. \A e \in Devices, o \in Operations :
         io'[e][o] = io[e][o] \/ io'[e][o] = Resting
  BY DEF Restarts, TypeOK
<1>2. Resting.pc = "idle"
  BY DEF Resting
<1>3. QuietStep
  BY <1>1, <1>2 DEF QuietStep, Restarts
<1>4. LocalFollows
  BY DEF Restarts, deviceVars, LocalFollows
<1> QED BY <1>3, <1>4 DEF Step

\* The writes: a check's publication, a take, a release.
LEMMA WritesStep ==
    ASSUME TypeOK, NEW d \in Devices,
           CheckPublishes(d) \/ TakeWrites(d) \/ ReleaseWrites(d)
    PROVE  Step
<1> "check" \in Operations /\ "take" \in Operations /\ "release" \in Operations
  BY DEF Operations
<1> DEFINE seenIn(op) == io[d][op].seen
           mineIn(op) == io[d][op].mine
<1>1. LocalFollows
  BY DEF CheckPublishes, TakeWrites, ReleaseWrites, deviceVars, LocalFollows
<1>2. CASE CheckPublishes(d)
  <2> DEFINE r == Record("held", d, Larger(seenIn("check").seq, mineIn("check").seq) + 1)
  <2>1. r \in Records /\ HeldBy(r, d) /\ r.seq > seenIn("check").seq
    BY RequestsType, RecordType DEF Record, HeldBy
  <2>2. io[d]["check"].pc = "seen" /\ Put(d, "check", r)
    BY <1>2 DEF CheckPublishes, At
  <2> HIDE DEF r
  <2> QED BY <2>1, <2>2, <1>1 DEF Step, WriteStep
<1>3. CASE TakeWrites(d)
  <2> DEFINE r == Record("held", d, seenIn("take").seq + 1)
  <2>1. r \in Records /\ HeldBy(r, d) /\ r.seq > seenIn("take").seq
    BY RequestsType DEF Record, Records, HeldBy
  <2>2. io[d]["take"].pc = "seen" /\ Put(d, "take", r)
    BY <1>3 DEF TakeWrites, At
  <2> HIDE DEF r
  <2> QED BY <2>1, <2>2, <1>1 DEF Step, WriteStep
<1>4. CASE ReleaseWrites(d)
  <2> DEFINE r == Record("released", d, Larger(seenIn("release").seq, mineIn("release").seq) + 1)
  <2>1. r \in Records /\ r.seq > seenIn("release").seq
    BY RequestsType, RecordType DEF Record
  <2>2. io[d]["release"].pc = "seen" /\ Put(d, "release", r)
    BY <1>4 DEF ReleaseWrites, At
  <2> HIDE DEF r
  <2> QED BY <2>1, <2>2, <1>1 DEF Step, WriteStep
<1> QED BY <1>2, <1>3, <1>4

\* The adoptions: a check's and a lost release's of what they read, a check's
\* and a take's of what they wrote, a take's of its own record.
LEMMA AdoptsStep ==
    ASSUME TypeOK, Lineage, HeardWasSaid, NEW d \in Devices,
           CheckReconciles(d) \/ CheckPublished(d) \/ TakeFindsOwn(d)
               \/ TakeWritten(d) \/ ReleaseOvertaken(d) \/ ReleaseWritten(d)
    PROVE  Step
<1> "check" \in Operations /\ "take" \in Operations /\ "release" \in Operations
  BY DEF Operations
<1>1. \A op \in Operations : io[d][op].seen \in Records
  BY RequestsType
<1>2. QuietStep
  <2>1. UNCHANGED recordVars
    BY DEF CheckReconciles, CheckPublished, CheckCompletes, CheckEnds, TakeFindsOwn,
       TakeWritten, Taken, ReleaseOvertaken, ReleaseWritten, ReleaseEnds
  <2>2. io' = Ended(d, "check") \/ io' = Ended(d, "take") \/ io' = Ended(d, "release")
    BY DEF CheckReconciles, CheckPublished, CheckCompletes, CheckEnds, TakeFindsOwn,
       TakeWritten, Taken, ReleaseOvertaken, ReleaseWritten, ReleaseEnds
  <2> QED BY <2>1, <2>2, QuietRequests
<1>3. CASE CheckReconciles(d)
  <2> DEFINE r == io[d]["check"].seen
  <2>1. ASSUME local' = local PROVE LocalFollows
    BY <2>1 DEF LocalFollows
  <2>2. ASSUME Adopts(io[d]["check"].mine, r, d) PROVE LocalFollows
    <3>1. r \in published
      BY <1>3, <2>2 DEF CheckReconciles, At, Adopts, HeardWasSaid
    <3>2. local' = [local EXCEPT ![d] = HoldingFromRecord(r, d)]
      BY <1>3, <2>2 DEF CheckReconciles
    <3>3. CASE HeldBy(r, d)
      <4>1. HoldingFromRecord(r, d) = Here(r.seq)
        BY <3>3 DEF HoldingFromRecord
      <4> HIDE DEF r
      <4> QED BY <3>1, <3>2, <3>3, <4>1, FollowsRecord
    <3>4. CASE ~HeldBy(r, d)
      <4>1. HoldingFromRecord(r, d).kind = "elsewhere"
        BY <3>4 DEF HoldingFromRecord, Elsewhere
      <4> HIDE DEF r
      <4> QED BY <3>2, <4>1, FollowsElsewhere
    <3> QED BY <3>3, <3>4
  <2> QED BY <1>2, <1>3, <2>1, <2>2 DEF Step, CheckReconciles
<1>4. CASE CheckPublished(d)
  <2>1. io[d]["check"].seen \in published /\ HeldBy(io[d]["check"].seen, d)
    BY <1>4 DEF CheckPublished, Replied, At, HeardWasSaid
  <2>2. LocalFollows
    BY <1>4, <2>1, FollowsRecord DEF CheckPublished
  <2> QED BY <1>2, <2>2 DEF Step
<1>5. CASE TakeFindsOwn(d)
  <2>1. io[d]["take"].seen \in published /\ HeldBy(io[d]["take"].seen, d)
    BY <1>5 DEF TakeFindsOwn, At, HeardWasSaid, HeldBy, Absent, Record
  <2>2. LocalFollows
    BY <1>5, <2>1, FollowsRecord DEF TakeFindsOwn, Taken
  <2> QED BY <1>2, <2>2 DEF Step
<1>6. CASE TakeWritten(d)
  <2>1. io[d]["take"].seen \in published /\ HeldBy(io[d]["take"].seen, d)
    BY <1>6 DEF TakeWritten, Replied, At, HeardWasSaid
  <2>2. LocalFollows
    BY <1>6, <2>1, FollowsRecord DEF TakeWritten, Taken
  <2> QED BY <1>2, <2>2 DEF Step
<1>7. CASE ReleaseOvertaken(d)
  <2>1. HoldingFromRecord(io[d]["release"].seen, d).kind = "elsewhere"
    BY <1>7 DEF ReleaseOvertaken, HoldingFromRecord, Elsewhere
  <2>2. LocalFollows
    BY <1>7, <2>1, FollowsElsewhere DEF ReleaseOvertaken
  <2> QED BY <1>2, <2>2 DEF Step
<1>8. CASE ReleaseWritten(d)
  <2>1. Elsewhere(io[d]["release"].seen.seq, None).kind = "elsewhere"
    BY DEF Elsewhere
  <2>2. LocalFollows
    BY <1>8, <2>1, FollowsElsewhere DEF ReleaseWritten
  <2> QED BY <1>2, <2>2 DEF Step
<1> QED BY <1>3, <1>4, <1>5, <1>6, <1>7, <1>8
LEMMA DeviceSteps ==
    ASSUME TypeOK, Lineage, HeardWasSaid, NEW d \in Devices,
           \/ DeviceStep(d)
           \/ CheckStarts(d) \/ MoveStarts(d) \/ SpendStarts(d)
           \/ Sleeps(d) \/ Wakes(d) \/ Restarts(d)
    PROVE  Step /\ TypeOK'
<1>1. ASSUME NEW op \in Operations, HostReads(d, op)
      PROVE  Step /\ TypeOK'
  <2>1. LocalFollows
    BY <1>1 DEF HostReads, deviceVars, LocalFollows
  <2> QED BY <1>1, <2>1, HostReadsType DEF Step
<1>2. CASE CheckStep(d) \/ CheckStarts(d)
  BY <1>2, CheckType, HoldingAssumption, QuietLocally, WritesStep, AdoptsStep DEF CheckStep
<1>3. CASE MoveStep(d) \/ MoveStarts(d)
  BY <1>3, MoveType, HoldingAssumption, QuietMoves DEF MoveStep
<1>4. CASE TakeStep(d)
  BY <1>4, TakeType, HoldingAssumption, QuietMoves, WritesStep, AdoptsStep DEF TakeStep
<1>5. CASE ReleaseStep(d)
  BY <1>5, ReleaseType, HoldingAssumption, QuietReleases, WritesStep, AdoptsStep DEF ReleaseStep
<1>6. CASE Serves(d) \/ SpendStep(d) \/ SpendStarts(d)
  BY <1>6, SpendType, HoldingAssumption, QuietLocally DEF SpendStep
<1>7. CASE Sleeps(d) \/ Wakes(d) \/ Restarts(d)
  BY <1>7, PauseType, HoldingAssumption, QuietLocally, RestartsStep
<1> QED BY <1>1, <1>2, <1>3, <1>4, <1>5, <1>6, <1>7 DEF DeviceStep

----------------------------------------------------------------------------
(* The theorems *)

LEMMA InitHInv == Init => HInv
BY InitType DEF Init, HInv, Lineage, HeardWasSaid, HeldIsPublished, IsHeldHere, Here,
   Elsewhere, Resting

LEMMA NextHInv ==
    HInv /\ [Next]_vars => HInv' /\ (host' # host => host'.seq > host.seq)
<1>1. ASSUME HInv, Next PROVE HInv' /\ (host' # host => host'.seq > host.seq)
  <2>1. Step /\ TypeOK'
    BY <1>1, DeviceSteps DEF HInv, Next
  <2> QED BY <1>1, <2>1, StepKeepsLine
<1>2. ASSUME HInv, UNCHANGED vars PROVE HInv' /\ host' = host
  <2>1. UNCHANGED <<recordVars, deviceVars, io, gapVars, moveVars, mailVars, rel, spend,
                    historyVars>>
    BY <1>2 DEF vars
  <2>2. TypeOK'
    BY <1>2, <2>1 DEF HInv, TypeOK, recordVars, deviceVars, gapVars, moveVars, mailVars,
       historyVars
  <2>3. Lineage' /\ HeardWasSaid' /\ HeldIsPublished'
    BY <1>2, <2>1 DEF HInv, Lineage, HeardWasSaid, HeldIsPublished, IsHeldHere, HeldBy,
       recordVars, deviceVars
  <2> QED BY <2>1, <2>2, <2>3 DEF HInv, recordVars
<1> QED BY <1>1, <1>2

\* The inductive invariant holds from the start and after every step, for every
\* set of installs and whatever disturbances they meet (the reconciliation of
\* vaultAccountHolding.ts over accountHolderRecord.ts).
THEOREM HoldingInvariance == Spec => []HInv
<1>1. HInv /\ [Next]_vars => HInv'
  BY NextHInv
<1> QED BY InitHInv, <1>1, PTL DEF Spec

\* Every variable of the holding protocol keeps its type (accountHolding.ts:
\* holdings and records have the shapes their readers expect).
THEOREM HoldingTypeCorrect == Spec => []TypeOK
<1>1. HInv => TypeOK
  BY DEF HInv
<1> QED BY <1>1, HoldingInvariance, PTL

\* Two installs never hold the account under the same published seq: the
\* conditional write of writeHolderRecord decides every contest.
THEOREM OneHolder == Spec => []OneHolderPerSeq
<1>1. HInv => OneHolderPerSeq
  <2>1. ASSUME HInv, NEW d \in Devices, NEW e \in Devices, IsHeldHere(d), IsHeldHere(e),
               local[d].seq = local[e].seq, local[d].seq > 0
        PROVE  d = e
    <3>1. /\ Record("held", d, local[d].seq) \in published
          /\ Record("held", e, local[e].seq) \in published
      BY <2>1 DEF HInv, HeldIsPublished
    <3>2. Record("held", d, local[d].seq) = Record("held", e, local[e].seq)
      BY <2>1, <3>1 DEF HInv, Lineage, Record
    <3> QED BY <3>2 DEF Record
  <2> QED BY <2>1 DEF OneHolderPerSeq
<1> QED BY <1>1, HoldingInvariance, PTL

\* The record the host serves is only ever replaced by a later one: no check,
\* take or release undoes another (writeHolderRecord's If-Match).
THEOREM RecordGrows == Spec => RecordOnlyGrows
<1>1. HInv /\ [Next]_vars => [host' # host => host'.seq > host.seq]_vars
  BY NextHInv
<1> QED BY <1>1, HoldingInvariance, PTL DEF Spec, RecordOnlyGrows
----------------------------------------------------------------------------
(* What an install knows of the record, when nothing makes it doubt what   *)
(* the host said.                                                          *)

\* No write's answer is lost, on the wire or to a restart, no read is stale,
\* and the operations of one install wait for one another.
AnswersCount ==
    \A d \in Devices : ~Suffers("lost", d) /\ ~Suffers("crash", d)
                       /\ ~Suffers("stale", d) /\ ~Suffers("race", d)

InFlight(d, op) == io[d][op].pc # "idle"
Answered(d, op) == io[d][op].pc = "replied" /\ io[d][op].out = "written"
Told(d, op) == io[d][op].pc = "seen" \/ Answered(d, op)
Heard(d, op) == io[d][op].seen

\* Between the start of a move and the take that ends it.
Moving(d) == mv[d].pc \in {"reading", "requesting", "awaitingAccept",
                           "awaitingRelease", "taking", "forcing"}

\* An install has one operation on the wire, a move takes what is elsewhere, and
\* a release gives up what is here.
OneAtATime(d) ==
    /\ \A p, q \in Operations : InFlight(d, p) /\ InFlight(d, q) => p = q
    /\ InFlight(d, "take") => mv[d].pc \in {"taking", "forcing"}
    /\ InFlight(d, "release") => rel[d] = "writing" /\ IsHeldHere(d)
    /\ Moving(d) => ~IsHeldHere(d) /\ rel[d] = "idle"

\* What an operation heard is no older than what its install lists, and is the
\* record the host still serves if that record is of this install's making.
NewsIsRecent(d) ==
    /\ local[d].seq <= host.seq
    /\ \A op \in Operations :
          /\ InFlight(d, op) => io[d][op].mine = local[d]
          /\ Told(d, op) => /\ local[d].seq <= Heard(d, op).seq
                            /\ Heard(d, op).seq <= host.seq
                            /\ host.device = d => host = Heard(d, op)
          /\ io[d][op].pc = "seen" /\ HeldBy(Heard(d, op), d) => IsHeldHere(d)
    /\ Answered(d, "check") => IsHeldHere(d)
    /\ Answered(d, "check") => HeldBy(Heard(d, "check"), d)
    /\ Answered(d, "take") => HeldBy(Heard(d, "take"), d)
    /\ Answered(d, "release") => Heard(d, "release").state = "released"

\* The install a record names holds the account, or has the answer that says so.
HolderKnows(d) ==
    HeldBy(host, d) => IsHeldHere(d) \/ Answered(d, "take") \/ Answered(d, "check")

\* A release flushes what was signed before it is announced, and nothing is
\* signed between.
FlushedFirst(d) ==
    /\ rel[d] \in {"flushing", "writing"} => spend[d] = "idle"
    /\ rel[d] = "writing" => known[d] \subseteq backup
    /\ host.state = "released" /\ host.device = d =>
          /\ known[d] \subseteq backup
          /\ spend[d] # "cleared"
          /\ IsHeldHere(d) => Answered(d, "release")

KnowsOwn(d) == OneAtATime(d) /\ NewsIsRecent(d) /\ HolderKnows(d) /\ FlushedFirst(d)
RecordIsNamed == host # Absent => host.device \in Devices
NewsInv == HInv /\ RecordIsNamed /\ \A d \in Devices : KnowsOwn(d)

----------------------------------------------------------------------------
(* The seven things an operation of an install may do to what it knows.    *)

\* Everything of the other installs stays.
OthersKeep(d) ==
    /\ \A e \in Devices :
          e # d => /\ local'[e] = local[e] /\ mv'[e] = mv[e] /\ rel'[e] = rel[e]
                   /\ spend'[e] = spend[e] /\ known'[e] = known[e]
    /\ backup \subseteq backup'

OnlyAt(d, op) ==
    \A e \in Devices, o \in Operations :
        e # d \/ o # op => io'[e][o] = io[e][o]

Alone(d, op) == \A o \in Operations \ {op} : ~InFlight(d, o)

SameRecord == host' = host /\ published' = published
SameHere(d) == SameRecord /\ local'[d] = local[d]

Passes(d) == SameHere(d) /\ io'[d] = io[d]

Begins(d, op) ==
    /\ SameHere(d) /\ ~Answered(d, op) /\ Alone(d, op)
    /\ io'[d][op].pc = "ask" /\ io'[d][op].mine = local[d]
    /\ io'[d][op].tries = 0 \/ io[d][op].pc = "replied"

Reads(d, op) ==
    /\ SameHere(d) /\ io[d][op].pc = "ask" /\ io'[d][op].mine = io[d][op].mine
    /\ io'[d][op].tries = io[d][op].tries
    /\ \/ io'[d][op].pc = "seen" /\ io'[d][op].seen = host
       \/ /\ io'[d][op].pc = "replied" /\ io'[d][op].out = "offline"
          /\ Suffers("offline", d)

\* What it read lets an operation write.
MayWrite(d, op) ==
    \/ op = "check" /\ IsHeldHere(d) /\ (Heard(d, op) = Absent \/ takeover[d])
    \/ op = "take" /\ (Heard(d, op).state = "released" \/ Forced(d))
    \/ op = "release" /\ (Heard(d, op) = Absent \/ HeldBy(Heard(d, op), d))

Writes(d, op) ==
    /\ local'[d] = local[d] /\ io[d][op].pc = "seen" /\ MayWrite(d, op)
    /\ io'[d][op].pc = "replied" /\ io'[d][op].mine = io[d][op].mine
    /\ io'[d][op].tries = io[d][op].tries
    /\ \/ /\ io'[d][op].out = "written" /\ io'[d][op].seen = host'
          /\ host = Heard(d, op) /\ published' = published \cup {host'}
          /\ host'.device = d /\ host'.seq > host.seq
          /\ host'.state = IF op = "release" THEN "released" ELSE "held"
       \/ /\ io'[d][op].out # "written" /\ SameRecord
          /\ \/ io'[d][op].out = "conflict" /\ host # Heard(d, op)
             \/ Suffers("offline", d)

Drops(d, op) ==
    SameHere(d) /\ InFlight(d, op) /\ ~Answered(d, op) /\ io'[d][op].pc = "idle"

TakesUp(d, op) ==
    /\ SameRecord /\ op # "release" /\ io'[d][op].pc = "idle"
    /\ Told(d, op) /\ HeldBy(Heard(d, op), d)
    /\ local'[d] = Here(Heard(d, op).seq)

LetsGo(d, op) ==
    /\ SameRecord /\ io'[d][op].pc = "idle"
    /\ Told(d, op) /\ ~HeldBy(Heard(d, op), d) /\ Heard(d, op) # Absent
    /\ local'[d].kind = "elsewhere" /\ local'[d].seq = Heard(d, op).seq

Turn(d, op) ==
    /\ OthersKeep(d) /\ OnlyAt(d, op)
    /\ \/ Passes(d) \/ Begins(d, op) \/ Reads(d, op) \/ Writes(d, op)
       \/ Drops(d, op) \/ TakesUp(d, op) \/ LetsGo(d, op)

\* Only the install's own writes name it: what it knows outlasts the others'.
LEMMA OthersKnow ==
    ASSUME TypeOK, TypeOK', NEW d \in Devices, NEW op \in Operations, Turn(d, op),
           NEW e \in Devices, e # d, KnowsOwn(e)
    PROVE  KnowsOwn(e)'
<1>1. /\ local'[e] = local[e] /\ mv'[e] = mv[e] /\ rel'[e] = rel[e]
      /\ spend'[e] = spend[e] /\ known'[e] = known[e] /\ backup \subseteq backup'
      /\ \A o \in Operations : io'[e][o] = io[e][o]
  BY DEF Turn, OthersKeep, OnlyAt
<1>2. host' = host \/ (host'.device = d /\ host'.seq > host.seq)
  BY DEF Turn, Passes, SameHere, SameRecord, Begins, Reads, Writes, Drops, TakesUp, LetsGo
<1>3. /\ host.seq \in Nat /\ host'.seq \in Nat /\ host'.seq >= host.seq /\ local[e].seq \in Nat
      /\ \A o \in Operations : io[e][o].seen.seq \in Nat
      /\ "check" \in Operations /\ "take" \in Operations /\ "release" \in Operations
  <2>1. \A o \in Operations : io[e][o].seen.seq \in Nat
    BY RequestsType
  <2>2. host.seq \in Nat /\ host'.seq \in Nat /\ local[e].seq \in Nat
    BY DEF TypeOK, Records, Holdings
  <2>3. host'.seq >= host.seq
    BY <1>2, <2>2
  <2> QED BY <2>1, <2>2, <2>3 DEF Operations
<1>4. OneAtATime(e)'
  BY <1>1, <1>3 DEF KnowsOwn, OneAtATime, InFlight, IsHeldHere, Moving
<1>5. NewsIsRecent(e)'
  <2>1. host'.device = e => host' = host
    BY <1>2
  <2>2. /\ NewsIsRecent(e) /\ IsHeldHere(e)' = IsHeldHere(e)
        /\ \A o \in Operations : /\ InFlight(e, o)' = InFlight(e, o) /\ Told(e, o)' = Told(e, o)
                                 /\ Answered(e, o)' = Answered(e, o) /\ Heard(e, o)' = Heard(e, o)
    BY <1>1 DEF KnowsOwn, InFlight, IsHeldHere, Told, Answered, Heard
  <2>3. \A o \in Operations : Heard(e, o).seq \in Nat
    BY <1>3 DEF Heard
  <2>4. \A o \in Operations :
           Told(e, o)' => /\ local'[e].seq <= Heard(e, o).seq' /\ Heard(e, o).seq' <= host'.seq
                          /\ host'.device = e => host' = Heard(e, o)'
    <3> SUFFICES ASSUME NEW o \in Operations, Told(e, o)
                 PROVE  /\ local[e].seq <= Heard(e, o).seq /\ Heard(e, o).seq <= host'.seq
                        /\ host'.device = e => host' = Heard(e, o)
      BY <1>1, <2>2
    <3>1. /\ local[e].seq <= Heard(e, o).seq /\ Heard(e, o).seq <= host.seq
          /\ host.device = e => host = Heard(e, o)
      BY <2>2 DEF NewsIsRecent
    <3>2. Heard(e, o).seq <= host'.seq
      BY <3>1, <2>3, <1>3
    <3> QED BY <3>1, <3>2, <2>1
  <2>5. local'[e].seq <= host'.seq
    <3>1. local[e].seq <= host.seq
      BY <2>2 DEF NewsIsRecent
    <3> QED BY <3>1, <1>1, <1>3
  <2> QED BY <1>1, <1>3, <2>2, <2>4, <2>5 DEF NewsIsRecent, HeldBy
<1>6. HolderKnows(e)'
  BY <1>1, <1>2, <1>3 DEF KnowsOwn, HolderKnows, IsHeldHere, Answered, HeldBy
<1>7. FlushedFirst(e)'
  BY <1>1, <1>2, <1>3 DEF KnowsOwn, FlushedFirst, IsHeldHere, Answered
<1> QED BY <1>4, <1>5, <1>6, <1>7 DEF KnowsOwn

\* Its own steps keep what an install heard in line with what it lists.
LEMMA TurnKeepsNews ==
    ASSUME TypeOK, TypeOK', NEW d \in Devices, NEW op \in Operations, Turn(d, op), KnowsOwn(d)
    PROVE  /\ NewsIsRecent(d)' /\ HolderKnows(d)'
           /\ local'[d].seq >= local[d].seq
<1> DEFINE c == "check"
           t == "take"
           r == "release"
<1>1. /\ host.seq \in Nat /\ host'.seq \in Nat /\ local[d].seq \in Nat
      /\ \A o \in Operations : io[d][o].seen.seq \in Nat
  <2>1. \A o \in Operations : io[d][o].seen.seq \in Nat
    BY RequestsType
  <2> QED BY <2>1 DEF TypeOK, Records, Holdings
<1>2. \A o \in Operations \ {op} : io'[d][o] = io[d][o]
  BY DEF Turn, OnlyAt
<1>3. /\ OneAtATime(d) /\ NewsIsRecent(d) /\ HolderKnows(d)
      /\ \A o \in Operations \ {op} : InFlight(d, op) => ~InFlight(d, o)
      /\ c \in Operations /\ t \in Operations /\ r \in Operations
  BY DEF KnowsOwn, OneAtATime, Operations
<1>4. CASE Passes(d)
  <2>1. \A o \in Operations : io'[d][o] = io[d][o]
    BY <1>4 DEF Passes
  <2> QED BY <1>1, <2>1, <1>3, <1>4 DEF Passes, SameHere, SameRecord, NewsIsRecent, HolderKnows,
             InFlight, IsHeldHere, Told, Answered, Heard, HeldBy
<1>5. CASE Begins(d, op)
  <2>1. NewsIsRecent(d)'
    BY <1>1, <1>2, <1>3, <1>5 DEF Begins, SameHere, SameRecord, Alone, NewsIsRecent,
       InFlight, Told, Answered, Heard
  <2>2. ~Answered(d, t) /\ ~Answered(d, c)
    BY <1>3, <1>5 DEF Begins, Alone, InFlight, Answered
  <2>3. HolderKnows(d)'
    BY <1>3, <1>5, <2>2 DEF Begins, SameHere, SameRecord, HolderKnows, IsHeldHere, HeldBy
  <2> QED BY <1>1, <1>5, <2>1, <2>3 DEF Begins, SameHere
<1>6. CASE Reads(d, op)
  <2>1. NewsIsRecent(d)'
    BY <1>1, <1>2, <1>3, <1>6 DEF Reads, SameHere, SameRecord, NewsIsRecent, HolderKnows,
       InFlight, IsHeldHere, Told, Answered, Heard, HeldBy
  <2>2. ~Answered(d, t) /\ ~Answered(d, c)
    BY <1>3, <1>6 DEF Reads, InFlight, Answered
  <2>3. HolderKnows(d)'
    BY <1>3, <1>6, <2>2 DEF Reads, SameHere, SameRecord, HolderKnows, IsHeldHere, HeldBy
  <2> QED BY <1>1, <1>6, <2>1, <2>3 DEF Reads, SameHere
<1>7. CASE Writes(d, op)
  <2>1. /\ local'[d] = local[d] /\ InFlight(d, op) /\ io'[d][op].mine = local[d]
        /\ host'.seq >= host.seq /\ \A o \in Operations \ {op} : ~InFlight(d, o)'
    BY <1>1, <1>2, <1>3, <1>7 DEF Writes, SameRecord, MayWrite, InFlight, NewsIsRecent
  <2>2. CASE ~Answered(d, op)'
    <3>1. host' = host /\ \A o \in Operations : ~Told(d, o)'
      BY <2>1, <2>2, <1>7 DEF Writes, SameRecord, MayWrite, Told, Answered, InFlight
    <3> QED BY <1>1, <1>3, <1>7, <2>1, <3>1 DEF Writes, SameRecord, MayWrite, NewsIsRecent, HolderKnows, InFlight,
               IsHeldHere, Told, Answered
  <2>3. CASE Answered(d, op)'
    <3>1. /\ Heard(d, op)' = host' /\ host'.seq > host.seq /\ host'.device = d
          /\ host'.state = IF op = "release" THEN "released" ELSE "held"
      BY <2>3, <1>7 DEF Writes, SameRecord, MayWrite, Answered, Heard
    <3>2. \A o \in Operations : Told(d, o)' => o = op
      BY <2>1 DEF Told, Answered, InFlight
    <3>3. io'[d][op].pc = "replied" /\ (op = "check" => IsHeldHere(d)')
      BY <1>7, <2>1 DEF Writes, SameRecord, MayWrite, IsHeldHere
    <3>4. NewsIsRecent(d)'
      BY <1>1, <1>3, <2>1, <3>1, <3>2, <3>3 DEF NewsIsRecent, InFlight, Told, Answered, HeldBy
    <3>5. HolderKnows(d)'
      BY <2>3, <3>1 DEF HolderKnows, HeldBy, Operations
    <3> QED BY <2>1, <3>4, <3>5, <1>1
  <2> QED BY <2>2, <2>3
<1>8. CASE Drops(d, op)
  BY <1>1, <1>2, <1>3, <1>8 DEF Drops, SameHere, SameRecord, NewsIsRecent, HolderKnows,
     InFlight, IsHeldHere, Told, Answered, Heard, HeldBy
<1>9. CASE TakesUp(d, op)
  BY <1>1, <1>2, <1>3, <1>9 DEF TakesUp, SameRecord, Here, NewsIsRecent, HolderKnows,
     InFlight, IsHeldHere, Told, Answered, Heard, HeldBy
<1>10. CASE LetsGo(d, op)
  BY <1>1, <1>2, <1>3, <1>10 DEF LetsGo, SameRecord, NewsIsRecent, HolderKnows,
     InFlight, IsHeldHere, Told, Answered, Heard, HeldBy
<1> QED BY <1>4, <1>5, <1>6, <1>7, <1>8, <1>9, <1>10 DEF Turn

\* While its move and its release stand still, an install stays in order.
LEMMA TurnKeepsOrder ==
    ASSUME TypeOK, NEW d \in Devices, NEW op \in Operations, Turn(d, op), KnowsOwn(d),
           mv'[d] = mv[d], rel'[d] = rel[d],
           Begins(d, op) => op = "check" \/ InFlight(d, op),
           TakesUp(d, op) \/ LetsGo(d, op) => op = "check"
    PROVE  OneAtATime(d)'
<1>1. \A o \in Operations \ {op} : io'[d][o] = io[d][o]
  BY DEF Turn, OnlyAt
<1>2. /\ OneAtATime(d) /\ NewsIsRecent(d)
      /\ "check" \in Operations /\ "take" \in Operations /\ "release" \in Operations
  BY DEF KnowsOwn, Operations
<1>3. CASE Passes(d) \/ Reads(d, op) \/ Writes(d, op) \/ Drops(d, op)
  <2>1. local'[d] = local[d] /\ (InFlight(d, op)' => InFlight(d, op))
    BY <1>3 DEF Passes, Reads, Writes, Drops, SameHere, SameRecord, InFlight
  <2>2. \A o \in Operations : InFlight(d, o)' => InFlight(d, o)
    BY <1>1, <2>1 DEF InFlight
  <2> QED BY <2>1, <2>2, <1>2 DEF OneAtATime, IsHeldHere, Moving
<1>4. CASE Begins(d, op)
  BY <1>1, <1>2, <1>4 DEF OneAtATime, IsHeldHere, Moving, Begins, Alone, SameHere, SameRecord, InFlight
<1>5. CASE TakesUp(d, op) \/ LetsGo(d, op)
  <2>1. op = "check" /\ InFlight(d, op) /\ ~InFlight(d, op)'
    BY <1>5 DEF TakesUp, SameRecord, LetsGo, InFlight, Told, Answered
  <2>2. \A o \in Operations : ~InFlight(d, o)'
    BY <1>1, <1>2, <2>1 DEF InFlight, OneAtATime
  <2>3. IsHeldHere(d)' => IsHeldHere(d)
    BY <1>2, <1>5, <2>1 DEF TakesUp, SameRecord, LetsGo, NewsIsRecent, Told, IsHeldHere
  <2> QED BY <1>2, <2>2, <2>3 DEF OneAtATime, Moving
<1> QED BY <1>3, <1>4, <1>5 DEF Turn

\* While its release and its spend stand still, so does what is flushed.
LEMMA TurnKeepsFlushed ==
    ASSUME TypeOK, NEW d \in Devices, NEW op \in Operations, Turn(d, op), KnowsOwn(d),
           rel'[d] = rel[d], spend'[d] = spend[d], known'[d] = known[d]
    PROVE  FlushedFirst(d)'
<1>1. \A o \in Operations \ {op} : io'[d][o] = io[d][o]
  BY DEF Turn, OnlyAt
<1>2. /\ OneAtATime(d) /\ NewsIsRecent(d) /\ FlushedFirst(d) /\ backup \subseteq backup'
      /\ "check" \in Operations /\ "take" \in Operations /\ "release" \in Operations
  BY DEF KnowsOwn, Operations, Turn, OthersKeep
<1>3. CASE Passes(d)
  BY <1>2, <1>3 DEF Passes, SameHere, SameRecord, FlushedFirst, IsHeldHere, Answered
<1>4. CASE Begins(d, op) \/ Reads(d, op) \/ Drops(d, op)
  <2>1. SameHere(d) /\ ~Answered(d, op)
    BY <1>4 DEF Begins, Reads, Drops, Answered
  <2> QED BY <1>1, <1>2, <2>1 DEF SameHere, SameRecord, FlushedFirst, IsHeldHere, Answered
<1>5. CASE Writes(d, op)
  <2>1. CASE op = "release"
    BY <1>2, <1>5, <2>1 DEF Writes, SameRecord, MayWrite, FlushedFirst, IsHeldHere, Answered, OneAtATime, InFlight
  <2>2. CASE op # "release"
    BY <1>1, <1>2, <1>5, <2>2 DEF Writes, SameRecord, MayWrite, FlushedFirst, IsHeldHere, Answered
  <2> QED BY <2>1, <2>2
<1>6. CASE TakesUp(d, op)
  <2>1. ~(host.state = "released" /\ host.device = d)
    BY <1>2, <1>6 DEF TakesUp, SameRecord, NewsIsRecent, HeldBy
  <2> QED BY <1>2, <1>6, <2>1 DEF TakesUp, SameRecord, FlushedFirst
<1>7. CASE LetsGo(d, op)
  BY <1>2, <1>7 DEF LetsGo, SameRecord, FlushedFirst, IsHeldHere
<1> QED BY <1>3, <1>4, <1>5, <1>6, <1>7 DEF Turn

----------------------------------------------------------------------------
(* Every step of an install is such a turn. *)

LEMMA AskingTurns ==
    ASSUME TypeOK, NEW d \in Devices, NEW op \in Operations, SameHere(d), Alone(d, op),
           ~Answered(d, op),
           \/ io' = [io EXCEPT ![d][op] = Asking(d, 0)]
           \/ io[d][op].pc = "replied" /\ io' = Retrying(d, op)
    PROVE  OnlyAt(d, op) /\ Begins(d, op)
<1>1. \A n \in Nat : Asking(d, n) \in Requests /\ Asking(d, n).pc = "ask"
                     /\ Asking(d, n).mine = local[d] /\ Asking(d, n).tries = n
  <2>1. local[d] \in Holdings
    BY DEF TypeOK
  <2> QED BY <2>1, RestingType DEF Asking, Resting, Requests, Holdings
<1>2. io[d][op].tries + 1 \in Nat
  BY RequestsType DEF Requests
<1> DEFINE First(n) == n = 0 \/ io[d][op].pc = "replied"
<1>3. PICK n \in Nat : io' = [io EXCEPT ![d][op] = Asking(d, n)] /\ First(n)
  <2>1. CASE io' = [io EXCEPT ![d][op] = Asking(d, 0)]
    BY <2>1
  <2>2. CASE io[d][op].pc = "replied" /\ io' = Retrying(d, op)
    <3>1. io' = [io EXCEPT ![d][op] = Asking(d, io[d][op].tries + 1)]
      BY <2>2 DEF Retrying
    <3>2. First(io[d][op].tries + 1)
      BY <2>2
    <3> HIDE DEF First
    <3> QED BY <1>2, <3>1, <3>2
  <2> QED BY <2>1, <2>2
<1>4. \A e \in Devices, o \in Operations :
         io'[e][o] = IF e = d /\ o = op THEN Asking(d, n) ELSE io[e][o]
  BY <1>1, <1>3, OneRequest
<1> QED BY <1>1, <1>3, <1>4 DEF OnlyAt, Begins

LEMMA EndingTurns ==
    ASSUME TypeOK, NEW d \in Devices, NEW op \in Operations, io' = Ended(d, op)
    PROVE  OnlyAt(d, op) /\ io'[d][op].pc = "idle"
<1>1. \A e \in Devices, o \in Operations :
         io'[e][o] = IF e = d /\ o = op THEN Resting ELSE io[e][o]
  BY RestingType, OneRequest DEF Ended
<1> QED BY <1>1 DEF OnlyAt, Resting

LEMMA ReadingTurns ==
    ASSUME TypeOK, AnswersCount, NEW d \in Devices, NEW op \in Operations, HostReads(d, op)
    PROVE  OnlyAt(d, op) /\ Reads(d, op)
<1>1. /\ Seeing(d, op, host) \in Requests /\ Seeing(d, op, host).pc = "seen"
      /\ Seeing(d, op, host).seen = host /\ Seeing(d, op, host).mine = io[d][op].mine
      /\ Seeing(d, op, host).tries = io[d][op].tries
  <2>1. host \in Records
    BY DEF TypeOK
  <2> QED BY <2>1, RequestsType DEF Requests, Seeing
<1>2. /\ Replying(d, op, Absent, "offline") \in Requests
      /\ Replying(d, op, Absent, "offline").pc = "replied"
      /\ Replying(d, op, Absent, "offline").out = "offline"
      /\ Replying(d, op, Absent, "offline").mine = io[d][op].mine
      /\ Replying(d, op, Absent, "offline").tries = io[d][op].tries
  <2>1. io[d][op] \in Requests
    BY RequestsType
  <2>2. /\ Replying(d, op, Absent, "offline").mine = io[d][op].mine
        /\ Replying(d, op, Absent, "offline").tries = io[d][op].tries
    BY <2>1 DEF Replying, Requests
  <2> QED BY <2>2, ReplyingType, AbsentType
<1>3. SameHere(d) /\ io[d][op].pc = "ask"
  BY DEF HostReads, recordVars, deviceVars, SameHere, SameRecord
<1>4. \E x \in {Seeing(d, op, host), Replying(d, op, Absent, "offline")} :
         /\ io' = [io EXCEPT ![d][op] = x]
         /\ x = Seeing(d, op, host) \/ Suffers("offline", d)
  <2>1. ~Suffers("stale", d)
    BY DEF AnswersCount
  <2> QED BY <2>1 DEF HostReads
<1>5. PICK x \in {Seeing(d, op, host), Replying(d, op, Absent, "offline")} :
         /\ io' = [io EXCEPT ![d][op] = x]
         /\ x = Seeing(d, op, host) \/ Suffers("offline", d)
  BY <1>4
<1>6. \A e \in Devices, o \in Operations :
         io'[e][o] = IF e = d /\ o = op THEN x ELSE io[e][o]
  BY <1>1, <1>2, <1>5, OneRequest
<1> QED BY <1>1, <1>2, <1>3, <1>5, <1>6 DEF OnlyAt, Reads

\* A conditional write whose answer comes.
LEMMA WritingTurns ==
    ASSUME TypeOK, AnswersCount, NEW d \in Devices, NEW op \in Operations,
           NEW r \in Records, Put(d, op, r), io[d][op].pc = "seen",
           r.device = d, r.seq > io[d][op].seen.seq,
           r.state = (IF op = "release" THEN "released" ELSE "held"),
           MayWrite(d, op), local' = local
    PROVE  OnlyAt(d, op) /\ Writes(d, op) /\ (host' # host => host'.device = d)
<1>1. \A q \in Records, out \in {"written", "conflict", "offline"} :
         /\ Replying(d, op, q, out) \in Requests
         /\ Replying(d, op, q, out).pc = "replied" /\ Replying(d, op, q, out).out = out
         /\ Replying(d, op, q, out).seen = q
         /\ Replying(d, op, q, out).mine = io[d][op].mine
         /\ Replying(d, op, q, out).tries = io[d][op].tries
  <2>1. io[d][op] \in Requests
    BY RequestsType
  <2>2. \A q \in Records, out \in {"written", "conflict", "offline"} :
           /\ Replying(d, op, q, out).mine = io[d][op].mine
           /\ Replying(d, op, q, out).tries = io[d][op].tries
    BY <2>1 DEF Replying, Requests
  <2> QED BY <2>2, ReplyingType
<1> DEFINE Lands == /\ host = io[d][op].seen /\ host' = r /\ published' = published \cup {r}
                    /\ io' = [io EXCEPT ![d][op] = Replying(d, op, r, "written")]
           Misses == /\ SameRecord
                     /\ \E out \in {"conflict", "offline"} :
                           /\ io' = [io EXCEPT ![d][op] = Replying(d, op, Absent, out)]
                           /\ \/ out = "conflict" /\ host # io[d][op].seen
                              \/ Suffers("offline", d)
<1>2. Lands \/ Misses
  <2>1. ~Suffers("lost", d)
    BY DEF AnswersCount
  <2> QED BY <2>1 DEF Put, recordVars, SameRecord
<1>3. CASE Lands
  <2>1. \A e \in Devices, o \in Operations :
           io'[e][o] = IF e = d /\ o = op THEN Replying(d, op, r, "written") ELSE io[e][o]
    BY <1>1, <1>3, OneRequest
  <2>2. io'[d][op] = Replying(d, op, r, "written")
    BY <2>1
  <2> QED BY <1>1, <1>3, <2>1, <2>2 DEF OnlyAt, Writes, Heard
<1>4. CASE Misses
  <2>1. PICK out \in {"conflict", "offline"} :
           /\ io' = [io EXCEPT ![d][op] = Replying(d, op, Absent, out)]
           /\ \/ out = "conflict" /\ host # io[d][op].seen
              \/ Suffers("offline", d)
    BY <1>4
  <2>2. \A e \in Devices, o \in Operations :
           io'[e][o] = IF e = d /\ o = op THEN Replying(d, op, Absent, out) ELSE io[e][o]
    BY <1>1, <2>1, OneRequest, AbsentType
  <2>3. io'[d][op] = Replying(d, op, Absent, out)
    BY <2>2
  <2> QED BY <1>1, <1>4, <2>1, <2>2, <2>3, AbsentType DEF OnlyAt, Writes, Heard, SameRecord
<1> HIDE DEF Lands, Misses
<1> QED BY <1>2, <1>3, <1>4

\* What it does is its own.
Stays(d) ==
    /\ mv'[d] = mv[d] /\ rel'[d] = rel[d] /\ spend'[d] = spend[d]
    /\ known'[d] = known[d]

LEMMA StaysKeeps ==
    ASSUME NEW d \in Devices, NEW x,
           local' = local \/ local' = [local EXCEPT ![d] = x], TypeOK,
           UNCHANGED <<mv, rel, spend, historyVars>>
    PROVE  OthersKeep(d) /\ Stays(d)
BY DEF OthersKeep, Stays, TypeOK, historyVars

\* A turn that leaves the install's move, release and spend alone.
LEMMA QuietTurn ==
    ASSUME TypeOK, TypeOK', NEW d \in Devices, NEW op \in Operations, Turn(d, op),
           KnowsOwn(d), Stays(d),
           Begins(d, op) => op = "check" \/ InFlight(d, op),
           TakesUp(d, op) \/ LetsGo(d, op) => op = "check"
    PROVE  KnowsOwn(d)'
BY TurnKeepsNews, TurnKeepsOrder, TurnKeepsFlushed DEF KnowsOwn, Stays

\* What a step of install d comes to.
Own(d) == KnowsOwn(d)' /\ \E op \in Operations : Turn(d, op)

LEMMA HostReadsOwn ==
    ASSUME TypeOK, TypeOK', AnswersCount, NEW d \in Devices, NEW op \in Operations,
           HostReads(d, op), KnowsOwn(d)
    PROVE  Own(d)
<1>1. OthersKeep(d) /\ Stays(d)
  BY StaysKeeps DEF HostReads, deviceVars, moveVars, historyVars
<1>2. Turn(d, op)
  BY <1>1, ReadingTurns DEF Turn
<1>3. ~Begins(d, op) /\ ~TakesUp(d, op) /\ ~LetsGo(d, op)
  BY ReadingTurns DEF Reads, Begins, TakesUp, LetsGo
<1> QED BY <1>1, <1>2, <1>3, QuietTurn DEF Own


\* Without a race a check begins when nothing else is on the wire.
LEMMA CheckAlone ==
    ASSUME AnswersCount, NEW d \in Devices, CanCheck(d)
    PROVE  Alone(d, "check") /\ ~Answered(d, "check")
BY DEF AnswersCount, CanCheck, Alone, InFlight, Answered, Operations

LEMMA InFlightAlone ==
    ASSUME NEW d \in Devices, NEW op \in Operations, KnowsOwn(d), InFlight(d, op)
    PROVE  Alone(d, op)
BY DEF KnowsOwn, OneAtATime, Alone

LEMMA CheckBeginsTurn ==
    ASSUME TypeOK, AnswersCount, NEW d \in Devices, CanCheck(d), CheckBegins(d), SameHere(d)
    PROVE  OnlyAt(d, "check") /\ Begins(d, "check")
<1> "check" \in Operations
  BY DEF Operations
<1> QED BY CheckAlone, AskingTurns DEF CheckBegins

LEMMA CheckStartsOwn ==
    ASSUME TypeOK, TypeOK', AnswersCount, NEW d \in Devices, CheckStarts(d), KnowsOwn(d)
    PROVE  Own(d)
<1> "check" \in Operations
  BY DEF Operations
<1>1. OthersKeep(d) /\ Stays(d) /\ SameHere(d)
  BY StaysKeeps DEF CheckStarts, deviceVars, recordVars, moveVars, historyVars, SameHere, SameRecord
<1>2. Begins(d, "check") /\ OnlyAt(d, "check")
  BY <1>1, CheckBeginsTurn DEF CheckStarts
<1>3. Turn(d, "check")
  BY <1>1, <1>2 DEF Turn
<1> QED BY <1>1, <1>3, QuietTurn DEF Own

LEMMA CheckReconcilesOwn ==
    ASSUME TypeOK, TypeOK', AnswersCount, NEW d \in Devices, CheckReconciles(d), KnowsOwn(d)
    PROVE  Own(d)
<1> DEFINE c == io[d]["check"]
<1>1. "check" \in Operations /\ c.seen \in Records
  BY RequestsType DEF Operations
<1>2. OthersKeep(d) /\ Stays(d) /\ SameRecord
  <2>1. \E x : local' = local \/ local' = [local EXCEPT ![d] = x]
    BY DEF CheckReconciles
  <2>2. UNCHANGED <<mv, rel, spend, historyVars>> /\ SameRecord
    BY DEF CheckReconciles, CheckCompletes, CheckEnds, recordVars, SameRecord, moveVars
  <2> QED BY <2>1, <2>2, StaysKeeps
<1>3. OnlyAt(d, "check") /\ io'[d]["check"].pc = "idle"
  BY <1>1, EndingTurns DEF CheckReconciles, CheckCompletes, CheckEnds
<1>4. c.pc = "seen" /\ c.mine = local[d]
  BY <1>1 DEF CheckReconciles, At, KnowsOwn, NewsIsRecent, InFlight
<1>5. CASE Adopts(c.mine, c.seen, d)
  <2>1. local'[d] = HoldingFromRecord(c.seen, d)
    BY <1>5 DEF CheckReconciles, TypeOK
  <2>2. CASE HeldBy(c.seen, d)
    <3>1. TakesUp(d, "check")
      BY <1>2, <1>3, <1>4, <2>1, <2>2 DEF TakesUp, HoldingFromRecord, Told, Heard
    <3> QED BY <1>1, <1>2, <1>3, <3>1, QuietTurn, <1>4 DEF Own, Turn, Begins
  <2>3. CASE ~HeldBy(c.seen, d)
    <3>1. LetsGo(d, "check")
      BY <1>2, <1>3, <1>4, <1>5, <2>1, <2>3 DEF LetsGo, Adopts, HoldingFromRecord, Elsewhere, Told, Heard
    <3> QED BY <1>1, <1>2, <1>3, <3>1, QuietTurn, <1>4 DEF Own, Turn, Begins
  <2> QED BY <2>2, <2>3
<1>6. CASE ~Adopts(c.mine, c.seen, d)
  <2>1. local' = local
    BY <1>6 DEF CheckReconciles
  <2>2. Drops(d, "check")
    BY <1>2, <1>3, <1>4, <2>1 DEF Drops, SameHere, SameRecord, InFlight, Answered
  <2> QED BY <1>1, <1>2, <1>3, <2>2, QuietTurn, <1>4 DEF Own, Turn
<1> QED BY <1>5, <1>6

LEMMA CheckPublishesOwn ==
    ASSUME TypeOK, TypeOK', AnswersCount, NEW d \in Devices, CheckPublishes(d), KnowsOwn(d)
    PROVE  Own(d)
<1> DEFINE c == io[d]["check"]
           r == Record("held", d, Larger(c.seen.seq, c.mine.seq) + 1)
<1>1. "check" \in Operations
  BY DEF Operations
<1>2. OthersKeep(d) /\ Stays(d) /\ local' = local
  BY StaysKeeps DEF CheckPublishes, deviceVars, moveVars, historyVars
<1>3. c.pc = "seen" /\ c.mine = local[d] /\ MayWrite(d, "check")
  <2>1. c.pc = "seen" /\ Publishes(c.mine, c.seen, d)
    BY DEF CheckPublishes, At
  <2>2. c.mine = local[d] /\ local[d].seq <= c.seen.seq
    BY <1>1, <2>1 DEF KnowsOwn, NewsIsRecent, InFlight, Told, Heard
  <2>3. c.seen.seq \in Nat /\ local[d].seq \in Nat
    BY <1>1, RequestsType DEF TypeOK, Holdings
  <2> QED BY <2>1, <2>2, <2>3 DEF Publishes, MayWrite, IsHeldHere, Heard
<1>4. r \in Records /\ r.device = d /\ r.state = "held" /\ r.seq > c.seen.seq
  BY <1>1, RequestsType, RecordType DEF Record
<1>5. Put(d, "check", r)
  BY DEF CheckPublishes
<1> HIDE DEF r
<1>6. OnlyAt(d, "check") /\ Writes(d, "check")
  BY <1>1, <1>2, <1>3, <1>4, <1>5, WritingTurns
<1>7. ~Begins(d, "check")
  BY <1>6 DEF Writes, Begins
<1> QED BY <1>1, <1>2, <1>6, <1>7, QuietTurn DEF Own, Turn

LEMMA CheckPublishedOwn ==
    ASSUME TypeOK, TypeOK', AnswersCount, NEW d \in Devices, CheckPublished(d), KnowsOwn(d)
    PROVE  Own(d)
<1>1. "check" \in Operations
  BY DEF Operations
<1>2. OthersKeep(d) /\ Stays(d) /\ SameRecord
  <2>1. local' = [local EXCEPT ![d] = Here(io[d]["check"].seen.seq)]
    BY DEF CheckPublished
  <2>2. UNCHANGED <<mv, rel, spend, historyVars>> /\ SameRecord
    BY DEF CheckPublished, CheckCompletes, CheckEnds, recordVars, SameRecord, moveVars
  <2> QED BY <2>1, <2>2, StaysKeeps
<1>3. OnlyAt(d, "check") /\ io'[d]["check"].pc = "idle"
  BY <1>1, EndingTurns DEF CheckPublished, CheckCompletes, CheckEnds
<1>4. Answered(d, "check") /\ HeldBy(Heard(d, "check"), d)
  BY <1>1 DEF CheckPublished, Replied, At, KnowsOwn, NewsIsRecent, Answered
<1>5. TakesUp(d, "check")
  BY <1>2, <1>3, <1>4 DEF TakesUp, CheckPublished, Told, Heard, TypeOK
<1>6. Turn(d, "check") /\ ~Begins(d, "check")
  BY <1>2, <1>3, <1>5 DEF Turn, Begins
<1> QED BY <1>1, <1>2, <1>6, QuietTurn DEF Own

LEMMA CheckRetriesOwn ==
    ASSUME TypeOK, TypeOK', AnswersCount, NEW d \in Devices, CheckRetries(d), KnowsOwn(d)
    PROVE  Own(d)
<1>1. "check" \in Operations
  BY DEF Operations
<1>2. OthersKeep(d) /\ Stays(d) /\ SameHere(d)
  BY StaysKeeps DEF CheckRetries, deviceVars, recordVars, moveVars, historyVars, SameHere, SameRecord
<1>3. InFlight(d, "check") /\ ~Answered(d, "check") /\ io[d]["check"].pc = "replied"
  BY DEF CheckRetries, Replied, At, InFlight, Answered
<1>4. OnlyAt(d, "check") /\ Begins(d, "check")
  BY <1>1, <1>2, <1>3, AskingTurns, InFlightAlone DEF CheckRetries
<1>5. Turn(d, "check")
  BY <1>2, <1>4 DEF Turn
<1> QED BY <1>1, <1>2, <1>5, QuietTurn DEF Own

LEMMA CheckIncompleteOwn ==
    ASSUME TypeOK, TypeOK', AnswersCount, NEW d \in Devices, CheckIncomplete(d), KnowsOwn(d)
    PROVE  Own(d)
<1>1. "check" \in Operations
  BY DEF Operations
<1>2. OthersKeep(d) /\ Stays(d) /\ SameHere(d)
  BY StaysKeeps DEF CheckIncomplete, CheckEnds, deviceVars, recordVars, moveVars,
     historyVars, SameHere, SameRecord
<1>3. InFlight(d, "check") /\ ~Answered(d, "check")
  BY DEF CheckIncomplete, Replied, At, InFlight, Answered
<1>4. OnlyAt(d, "check") /\ Drops(d, "check")
  BY <1>1, <1>2, <1>3, EndingTurns DEF CheckIncomplete, CheckEnds, Drops
<1>5. Turn(d, "check")
  BY <1>2, <1>4 DEF Turn
<1> QED BY <1>1, <1>2, <1>5, QuietTurn DEF Own


\* A spend is entered while nothing is released, and cleared while the account is here.
LEMMA SpendKeepsFlushed ==
    ASSUME NEW d \in Devices, KnowsOwn(d), SameHere(d), rel'[d] = rel[d],
           io'[d]["release"] = io[d]["release"], backup' = backup,
           \/ spend'[d] = "idle" /\ (known'[d] = known[d] \/ spend[d] = "cleared")
           \/ /\ spend'[d] \in {"entered", "checking"} /\ known'[d] = known[d]
              /\ rel[d] = "idle" \/ spend[d] # "idle"
           \/ spend'[d] = "cleared" /\ known'[d] = known[d] /\ ~Refused(d)
    PROVE  FlushedFirst(d)'
<1> "release" \in Operations
  BY DEF Operations
<1>1. FlushedFirst(d) /\ OneAtATime(d)
  BY DEF KnowsOwn
<1>2. IsHeldHere(d)' = IsHeldHere(d) /\ Answered(d, "release")' = Answered(d, "release")
  BY DEF SameHere, IsHeldHere, Answered
<1>3. CASE spend'[d] = "idle" /\ (known'[d] = known[d] \/ spend[d] = "cleared")
  BY <1>1, <1>2, <1>3 DEF FlushedFirst, SameHere, SameRecord
<1>4. CASE /\ spend'[d] \in {"entered", "checking"} /\ known'[d] = known[d]
           /\ rel[d] = "idle" \/ spend[d] # "idle"
  BY <1>1, <1>2, <1>4 DEF FlushedFirst, SameHere, SameRecord
<1>5. CASE spend'[d] = "cleared" /\ known'[d] = known[d] /\ ~Refused(d)
  <2>1. IsHeldHere(d) /\ rel[d] = "idle" /\ ~Answered(d, "release")
    BY <1>1, <1>5 DEF Refused, OneAtATime, InFlight, Answered
  <2> QED BY <1>1, <1>2, <1>5, <2>1 DEF FlushedFirst, SameHere, SameRecord
<1> QED BY <1>3, <1>4, <1>5

LEMMA PassingTurns ==
    ASSUME NEW d \in Devices, NEW op \in Operations, io' = io, SameHere(d)
    PROVE  OnlyAt(d, op) /\ Passes(d)
BY DEF OnlyAt, Passes

LEMMA SpendOwn ==
    ASSUME TypeOK, TypeOK', AnswersCount, NEW d \in Devices, KnowsOwn(d),
           SpendStarts(d) \/ SpendFresh(d) \/ SpendChecks(d) \/ SpendChecked(d) \/ Signs(d)
    PROVE  Own(d)
<1> "check" \in Operations /\ "release" \in Operations
  BY DEF Operations
<1>1. OthersKeep(d) /\ SameHere(d) /\ mv'[d] = mv[d] /\ rel'[d] = rel[d] /\ backup' = backup
  <2>1. /\ local' = local /\ SameRecord /\ mv' = mv /\ rel' = rel /\ backup' = backup
        /\ \E x : spend' = [spend EXCEPT ![d] = x]
        /\ known' = known \/ \E x : known' = [known EXCEPT ![d] = x]
    BY DEF SpendStarts, SpendFresh, SpendChecks, SpendChecked, Signs, Clears, deviceVars,
       recordVars, SameRecord, moveVars, historyVars
  <2> QED BY <2>1 DEF OthersKeep, SameHere, SameRecord, TypeOK
<1>2. OnlyAt(d, "check") /\ (Passes(d) \/ Begins(d, "check"))
  <2>1. CASE SpendStarts(d) \/ SpendFresh(d) \/ SpendChecked(d) \/ Signs(d)
    BY <1>1, <2>1, PassingTurns DEF SpendStarts, SpendFresh, SpendChecked, Signs
  <2>2. CASE SpendChecks(d)
    BY <1>1, <2>2, CheckBeginsTurn DEF SpendChecks
  <2> QED BY <2>1, <2>2
<1>3. Turn(d, "check") /\ ~TakesUp(d, "check") /\ ~LetsGo(d, "check")
  BY <1>1, <1>2 DEF Turn, Passes, Begins, TakesUp, LetsGo, Told, Answered, InFlight
<1>4. NewsIsRecent(d)' /\ HolderKnows(d)' /\ OneAtATime(d)'
  BY <1>1, <1>3, TurnKeepsNews, TurnKeepsOrder
<1>5. \/ spend'[d] = "idle" /\ (known'[d] = known[d] \/ spend[d] = "cleared")
      \/ /\ spend'[d] \in {"entered", "checking"} /\ known'[d] = known[d]
         /\ rel[d] = "idle" \/ spend[d] # "idle"
      \/ spend'[d] = "cleared" /\ known'[d] = known[d] /\ ~Refused(d)
  <2>1. CASE SpendStarts(d)
    BY <2>1 DEF SpendStarts, Refused, TypeOK, historyVars
  <2>2. CASE SpendFresh(d) \/ SpendChecked(d)
    BY <2>2 DEF SpendFresh, SpendChecked, Clears, TypeOK, historyVars
  <2>3. CASE SpendChecks(d)
    BY <2>3 DEF SpendChecks, TypeOK, historyVars
  <2>4. CASE Signs(d)
    BY <2>4 DEF Signs, TypeOK
  <2> QED BY <2>1, <2>2, <2>3, <2>4
<1>6. FlushedFirst(d)'
  <2>1. io'[d]["release"] = io[d]["release"]
    BY <1>2 DEF OnlyAt
  <2> QED BY <1>1, <1>5, <2>1, SpendKeepsFlushed
<1> QED BY <1>3, <1>4, <1>6 DEF Own, KnowsOwn

LEMMA PauseOwn ==
    ASSUME TypeOK, TypeOK', NEW d \in Devices, KnowsOwn(d), Sleeps(d) \/ Wakes(d)
    PROVE  Own(d)
<1> "check" \in Operations
  BY DEF Operations
<1>1. OthersKeep(d) /\ Stays(d) /\ SameHere(d) /\ io' = io
  BY StaysKeeps DEF Sleeps, Wakes, deviceVars, recordVars, moveVars, historyVars, SameHere, SameRecord
<1>2. Turn(d, "check") /\ Passes(d)
  BY <1>1, PassingTurns DEF Turn
<1>3. ~TakesUp(d, "check") /\ (Begins(d, "check") => InFlight(d, "check"))
         /\ ~LetsGo(d, "check")
  BY <1>2 DEF Passes, TakesUp, LetsGo, Begins, Told, Answered, InFlight
<1> QED BY <1>1, <1>2, <1>3, QuietTurn DEF Own

\* A move takes what is elsewhere, and takes it in taking and forcing only.
LEMMA MoveKeepsOrder ==
    ASSUME TypeOK, NEW d \in Devices, KnowsOwn(d), OnlyAt(d, "take"), SameHere(d),
           rel'[d] = rel[d], Moving(d) \/ (~IsHeldHere(d) /\ rel[d] = "idle"),
           \/ Passes(d) /\ mv[d].pc \notin {"taking", "forcing"}
           \/ Begins(d, "take") /\ mv'[d].pc \in {"taking", "forcing"}
           \/ Drops(d, "take")
    PROVE  OneAtATime(d)'
<1> "check" \in Operations /\ "take" \in Operations /\ "release" \in Operations
  BY DEF Operations
<1>1. OneAtATime(d) /\ ~IsHeldHere(d) /\ rel[d] = "idle" /\ ~InFlight(d, "release")
  BY DEF KnowsOwn, OneAtATime
<1>2. ~IsHeldHere(d)' /\ rel'[d] = "idle"
  BY <1>1 DEF SameHere, IsHeldHere
<1>3. \A o \in Operations \ {"take"} : InFlight(d, o)' = InFlight(d, o)
  BY DEF OnlyAt, InFlight
<1>4. CASE Passes(d) /\ mv[d].pc \notin {"taking", "forcing"}
  BY <1>1, <1>2, <1>3, <1>4 DEF OneAtATime, Passes, InFlight, Operations
<1>5. CASE Begins(d, "take") /\ mv'[d].pc \in {"taking", "forcing"}
  BY <1>1, <1>2, <1>3, <1>5 DEF OneAtATime, Begins, Alone
<1>6. CASE Drops(d, "take")
  BY <1>1, <1>2, <1>3, <1>6 DEF OneAtATime, Drops, InFlight
<1> QED BY <1>4, <1>5, <1>6

LEMMA TakeBegins ==
    ASSUME TypeOK, AnswersCount, NEW d \in Devices, NEW pc, KnowsOwn(d), SameHere(d),
           Moving(d), mv[d].pc \notin {"taking", "forcing"}, BeginsTake(d, pc)
    PROVE  /\ OnlyAt(d, "take") /\ Begins(d, "take")
           /\ mv' = [mv EXCEPT ![d].pc = pc]
<1> "check" \in Operations /\ "take" \in Operations /\ "release" \in Operations
  BY DEF Operations
<1>1. ~InFlight(d, "take") /\ ~InFlight(d, "release") /\ ~InFlight(d, "check")
  BY DEF KnowsOwn, OneAtATime, BeginsTake, CheckSettled, AnswersCount, InFlight
<1>2. Alone(d, "take") /\ ~Answered(d, "take")
  BY <1>1 DEF Alone, Answered, InFlight, Operations
<1> QED BY <1>2, AskingTurns DEF BeginsTake, GoesTo

MoveTurn(d) ==
    \/ MoveStarts(d) \/ MoveReads(d) \/ MoveRequests(d) \/ MoveAccepted(d) \/ MoveWatches(d)
    \/ AnswerLapses(d) \/ ReleaseLapses(d) \/ TakeRefused(d) \/ TakeUnavailable(d)

LEMMA MoveFrame ==
    ASSUME TypeOK, NEW d \in Devices, MoveTurn(d)
    PROVE  /\ OthersKeep(d) /\ SameHere(d)
           /\ rel'[d] = rel[d] /\ spend'[d] = spend[d] /\ known'[d] = known[d]
<1>1. \E x : mv' = [mv EXCEPT ![d] = x]
  <2>1. CASE MoveStarts(d)
    BY <2>1 DEF MoveStarts, GoesTo
  <2>2. CASE MoveReads(d)
    BY <2>2 DEF MoveReads, BeginsTake, GoesTo, Fails
  <2>3. CASE MoveRequests(d)
    BY <2>3 DEF MoveRequests, GoesTo, Fails
  <2>4. CASE MoveAccepted(d)
    BY <2>4 DEF MoveAccepted, GoesTo
  <2>5. CASE MoveWatches(d)
    BY <2>5 DEF MoveWatches, BeginsTake, GoesTo, StartsOver, Fails
  <2>6. CASE AnswerLapses(d) \/ ReleaseLapses(d)
    BY <2>6 DEF AnswerLapses, ReleaseLapses, BeginsTake, GoesTo
  <2>7. CASE TakeRefused(d) \/ TakeUnavailable(d)
    BY <2>7 DEF TakeRefused, TakeUnavailable, StartsOver, Fails
  <2> QED BY <2>1, <2>2, <2>3, <2>4, <2>5, <2>6, <2>7 DEF MoveTurn
<1>2. /\ local' = local /\ SameRecord /\ rel' = rel /\ spend' = spend
      /\ known' = known /\ backup' = backup
  BY DEF MoveTurn, MoveStarts, MoveReads, MoveRequests, MoveAccepted, MoveWatches,
     AnswerLapses, ReleaseLapses, TakeRefused, TakeUnavailable, deviceVars, recordVars,
     SameRecord, historyVars
<1> QED BY <1>1, <1>2 DEF OthersKeep, SameHere, SameRecord, TypeOK


LEMMA MoveShape ==
    ASSUME TypeOK, AnswersCount, NEW d \in Devices, KnowsOwn(d), MoveTurn(d)
    PROVE  /\ OnlyAt(d, "take")
           /\ Moving(d) \/ (~IsHeldHere(d) /\ rel[d] = "idle")
           /\ \/ Passes(d) /\ mv[d].pc \notin {"taking", "forcing"}
              \/ Begins(d, "take") /\ mv'[d].pc \in {"taking", "forcing"}
              \/ Drops(d, "take")
<1> "take" \in Operations
  BY DEF Operations
<1>1. SameHere(d)
  BY MoveFrame
<1>2. ASSUME NEW pc \in {"taking", "forcing"}, BeginsTake(d, pc), Moving(d),
             mv[d].pc \notin {"taking", "forcing"}
      PROVE  /\ OnlyAt(d, "take") /\ Begins(d, "take")
             /\ mv'[d].pc \in {"taking", "forcing"}
  <2>1. OnlyAt(d, "take") /\ Begins(d, "take") /\ mv' = [mv EXCEPT ![d].pc = pc]
    BY <1>1, <1>2, TakeBegins
  <2> QED BY <2>1 DEF TypeOK
<1>3. io' = io => OnlyAt(d, "take") /\ Passes(d)
  BY <1>1, PassingTurns
<1>4. CASE MoveStarts(d) \/ MoveRequests(d) \/ MoveAccepted(d)
  BY <1>3, <1>4 DEF MoveStarts, MoveRequests, MoveAccepted, Moving
<1>5. CASE MoveReads(d)
  BY <1>2, <1>3, <1>5 DEF MoveReads, Moving
<1>6. CASE MoveWatches(d)
  BY <1>2, <1>3, <1>6 DEF MoveWatches, Awaiting, Moving
<1>7. CASE AnswerLapses(d) \/ ReleaseLapses(d)
  BY <1>2, <1>7 DEF AnswerLapses, ReleaseLapses, Moving
<1>8. CASE TakeRefused(d) \/ TakeUnavailable(d)
  <2>1. InFlight(d, "take") /\ ~Answered(d, "take") /\ io' = Ended(d, "take")
    BY <1>8 DEF TakeRefused, TakeUnavailable, At, Replied, InFlight, Answered
  <2>2. OnlyAt(d, "take") /\ Drops(d, "take")
    BY <1>1, <2>1, EndingTurns DEF Drops
  <2>3. Moving(d)
    BY <2>1 DEF KnowsOwn, OneAtATime, Moving
  <2> QED BY <2>2, <2>3
<1> QED BY <1>4, <1>5, <1>6, <1>7, <1>8 DEF MoveTurn

LEMMA MoveOwn ==
    ASSUME TypeOK, TypeOK', AnswersCount, NEW d \in Devices, KnowsOwn(d), MoveTurn(d)
    PROVE  Own(d)
<1> "take" \in Operations
  BY DEF Operations
<1>1. Turn(d, "take")
  BY MoveShape, MoveFrame DEF Turn
<1>2. OneAtATime(d)'
  BY MoveShape, MoveFrame, MoveKeepsOrder
<1>3. FlushedFirst(d)'
  BY <1>1, MoveFrame, TurnKeepsFlushed
<1> QED BY <1>1, <1>2, <1>3, TurnKeepsNews DEF Own, KnowsOwn

\* The arrival merge adds to what the install knows nothing the backup lacks.
LEMMA ArrivesOwn ==
    ASSUME TypeOK, TypeOK', NEW d \in Devices, KnowsOwn(d), Arrives(d)
    PROVE  Own(d)
<1> "take" \in Operations /\ "release" \in Operations
  BY DEF Operations
<1>1. /\ local' = local /\ SameRecord /\ rel' = rel /\ spend' = spend /\ io' = io
      /\ backup' = backup /\ mv' = [mv EXCEPT ![d] = Still]
      /\ known' = known \/ known' = [known EXCEPT ![d] = @ \cup backup]
  BY DEF Arrives, deviceVars, recordVars, SameRecord
<1>2. /\ OthersKeep(d) /\ SameHere(d) /\ mv'[d].pc = "idle"
      /\ known'[d] = known[d] \/ known'[d] = known[d] \cup backup
  BY <1>1 DEF OthersKeep, SameHere, SameRecord, TypeOK, Still
<1>3. Turn(d, "take") /\ Passes(d)
  BY <1>1, <1>2, PassingTurns DEF Turn
<1>4. OneAtATime(d)'
  <2>1. OneAtATime(d) /\ ~InFlight(d, "take")
    BY DEF KnowsOwn, OneAtATime, Arrives
  <2>2. \A o \in Operations : InFlight(d, o)' = InFlight(d, o)
    BY <1>3 DEF Passes, InFlight
  <2> QED BY <1>1, <1>2, <2>1, <2>2 DEF OneAtATime, Moving, IsHeldHere
<1>5. FlushedFirst(d)'
  <2>1. FlushedFirst(d) /\ known'[d] \subseteq known[d] \cup backup
    BY <1>2 DEF KnowsOwn
  <2>2. /\ host' = host /\ rel' = rel /\ spend' = spend /\ backup' = backup
        /\ IsHeldHere(d)' = IsHeldHere(d) /\ Answered(d, "release")' = Answered(d, "release")
    BY <1>1 DEF SameRecord, IsHeldHere, Answered
  <2>3. known[d] \subseteq backup => known'[d] \subseteq backup'
    BY <2>1, <2>2
  <2> QED BY <2>1, <2>2, <2>3 DEF FlushedFirst
<1> QED BY <1>3, <1>4, <1>5, TurnKeepsNews DEF Own, KnowsOwn

LEMMA TakenOwn ==
    ASSUME TypeOK, TypeOK', NEW d \in Devices, KnowsOwn(d),
           TakeFindsOwn(d) \/ TakeWritten(d)
    PROVE  Own(d)
<1> "take" \in Operations
  BY DEF Operations
<1>1. Taken(d, Heard(d, "take").seq)
  BY DEF TakeFindsOwn, TakeWritten, Heard
<1>2. /\ OthersKeep(d) /\ SameRecord /\ local'[d] = Here(Heard(d, "take").seq)
      /\ rel'[d] = rel[d] /\ spend'[d] = spend[d] /\ known'[d] = known[d]
      /\ mv'[d].pc = "arriving"
  <2>1. /\ SameRecord /\ rel' = rel /\ spend' = spend /\ known' = known
        /\ backup' = backup /\ mv' = [mv EXCEPT ![d].pc = "arriving"]
        /\ local' = [local EXCEPT ![d] = Here(Heard(d, "take").seq)]
    BY <1>1 DEF Taken, GoesTo, recordVars, SameRecord, historyVars
  <2> QED BY <2>1 DEF OthersKeep, TypeOK
<1>3. OnlyAt(d, "take") /\ io'[d]["take"].pc = "idle"
  BY <1>1, EndingTurns DEF Taken
<1>4. Told(d, "take") /\ HeldBy(Heard(d, "take"), d)
  BY DEF TakeFindsOwn, TakeWritten, At, Replied, Told, Answered, Heard, KnowsOwn, NewsIsRecent
<1>5. TakesUp(d, "take")
  BY <1>2, <1>3, <1>4 DEF TakesUp
<1>6. Turn(d, "take")
  BY <1>2, <1>3, <1>5 DEF Turn
<1>7. OneAtATime(d)'
  <2>1. InFlight(d, "take")
    BY <1>4 DEF Told, Answered, InFlight
  <2>2. \A o \in Operations : ~InFlight(d, o)'
    BY <1>3, <2>1, InFlightAlone DEF Alone, OnlyAt, InFlight
  <2>3. ~Moving(d)'
    BY <1>2 DEF Moving
  <2> QED BY <2>2, <2>3 DEF OneAtATime, Operations
<1>8. FlushedFirst(d)'
  BY <1>2, <1>6, TurnKeepsFlushed
<1> QED BY <1>6, <1>7, <1>8, TurnKeepsNews DEF Own, KnowsOwn

LEMMA TakeWritesOwn ==
    ASSUME TypeOK, TypeOK', AnswersCount, NEW d \in Devices, KnowsOwn(d), TakeWrites(d)
    PROVE  Own(d)
<1> DEFINE s == io[d]["take"].seen
           r == Record("held", d, s.seq + 1)
<1>1. "take" \in Operations
  BY DEF Operations
<1>2. OthersKeep(d) /\ Stays(d) /\ local' = local
  BY StaysKeeps DEF TakeWrites, deviceVars, moveVars, historyVars
<1>3. r \in Records /\ r.device = d /\ r.state = "held" /\ r.seq > s.seq
  BY <1>1, RequestsType DEF Record, Records
<1>4. Put(d, "take", r) /\ io[d]["take"].pc = "seen" /\ MayWrite(d, "take")
  BY DEF TakeWrites, At, MayWrite, Heard
<1> HIDE DEF r
<1>5. OnlyAt(d, "take") /\ Writes(d, "take")
  BY <1>1, <1>2, <1>3, <1>4, WritingTurns
<1>6. ~Begins(d, "take") /\ ~TakesUp(d, "take") /\ ~LetsGo(d, "take")
  BY <1>5 DEF Writes, Begins, TakesUp, LetsGo
<1> QED BY <1>1, <1>2, <1>5, <1>6, QuietTurn DEF Own, Turn

LEMMA RetriesOwn ==
    ASSUME TypeOK, TypeOK', NEW d \in Devices, KnowsOwn(d), TakeRetries(d) \/ ReleaseRetries(d)
    PROVE  Own(d)
<1>1. OthersKeep(d) /\ Stays(d) /\ SameHere(d)
  BY StaysKeeps DEF TakeRetries, ReleaseRetries, deviceVars, recordVars, moveVars,
     historyVars, SameHere, SameRecord
<1>2. PICK op \in Operations : /\ InFlight(d, op) /\ ~Answered(d, op)
                               /\ io[d][op].pc = "replied"
                               /\ io' = Retrying(d, op)
  BY DEF TakeRetries, ReleaseRetries, Replied, At, InFlight, Answered, Operations
<1>3. OnlyAt(d, op) /\ Begins(d, op)
  BY <1>1, <1>2, AskingTurns, InFlightAlone
<1>4. Turn(d, op) /\ ~TakesUp(d, op) /\ ~LetsGo(d, op)
  BY <1>1, <1>3 DEF Turn, Begins, TakesUp, LetsGo
<1> QED BY <1>1, <1>2, <1>4, QuietTurn DEF Own


LEMMA ServesOwn ==
    ASSUME TypeOK, TypeOK', AnswersCount, NEW d \in Devices, KnowsOwn(d), Serves(d)
    PROVE  Own(d)
<1> "check" \in Operations /\ "release" \in Operations
  BY DEF Operations
<1>1. OthersKeep(d) /\ SameHere(d) /\ mv' = mv /\ spend' = spend /\ known' = known
  <2>1. /\ local' = local /\ SameRecord /\ mv' = mv /\ spend' = spend /\ known' = known
        /\ backup' = backup /\ (rel' = rel \/ rel' = [rel EXCEPT ![d] = "draining"])
    BY DEF Serves, deviceVars, recordVars, SameRecord, moveVars, historyVars
  <2> QED BY <2>1 DEF OthersKeep, SameHere, SameRecord, TypeOK
<1>2. rel[d] = "idle" /\ rel'[d] \in {"idle", "draining"} /\ IsHeldHere(d)
  BY DEF Serves, TypeOK
<1>3. OnlyAt(d, "check") /\ (Passes(d) \/ Begins(d, "check"))
  <2>1. io' = io \/ (CanCheck(d) /\ CheckBegins(d))
    BY DEF Serves
  <2>2. CASE io' = io
    BY <1>1, <2>2, PassingTurns
  <2>3. CASE CanCheck(d) /\ CheckBegins(d)
    BY <1>1, <2>3, CheckBeginsTurn
  <2> QED BY <2>1, <2>2, <2>3
<1>4. Turn(d, "check")
  BY <1>1, <1>3 DEF Turn
<1>5. ~InFlight(d, "release") /\ ~Moving(d) /\ OneAtATime(d) /\ FlushedFirst(d)
  BY <1>2 DEF KnowsOwn, OneAtATime
<1>6. OneAtATime(d)'
  <2>1. ~InFlight(d, "release")' /\ ~Moving(d)'
    BY <1>1, <1>3, <1>5 DEF OnlyAt, InFlight, Moving
  <2>2. ~InFlight(d, "take")'
    BY <1>3, <1>5 DEF OneAtATime, Moving, OnlyAt, InFlight, Operations
  <2> QED BY <2>1, <2>2 DEF OneAtATime, Operations
<1>7. FlushedFirst(d)'
  <2>1. ~(host.state = "released" /\ host.device = d)
    BY <1>2, <1>5 DEF FlushedFirst, Answered, InFlight
  <2> QED BY <1>1, <1>2, <2>1 DEF FlushedFirst, SameHere, SameRecord
<1> QED BY <1>4, <1>6, <1>7, TurnKeepsNews DEF Own, KnowsOwn

LEMMA DrainsOwn ==
    ASSUME TypeOK, TypeOK', NEW d \in Devices, KnowsOwn(d),
           ReleaseDrains(d) \/ ReleaseFlushFails(d)
    PROVE  Own(d)
<1> "release" \in Operations
  BY DEF Operations
<1>1. /\ OthersKeep(d) /\ SameHere(d) /\ io' = io
      /\ mv' = mv /\ spend' = spend /\ known' = known /\ backup' = backup
  <2>1. /\ local' = local /\ SameRecord /\ mv' = mv /\ spend' = spend /\ known' = known
        /\ backup' = backup /\ io' = io /\ \E x : rel' = [rel EXCEPT ![d] = x]
    BY DEF ReleaseDrains, ReleaseFlushFails, deviceVars, recordVars, SameRecord, moveVars, historyVars
  <2> QED BY <2>1 DEF OthersKeep, SameHere, SameRecord, TypeOK
<1>2. /\ rel[d] \in {"draining", "flushing"} /\ rel'[d] \in {"idle", "flushing"}
      /\ rel'[d] = "flushing" => spend[d] = "idle"
  BY DEF ReleaseDrains, ReleaseFlushFails, TypeOK
<1>3. Turn(d, "release") /\ Passes(d)
  BY <1>1, PassingTurns DEF Turn
<1>4. ~InFlight(d, "release") /\ ~Moving(d) /\ OneAtATime(d) /\ FlushedFirst(d)
  BY <1>2 DEF KnowsOwn, OneAtATime
<1>5. OneAtATime(d)'
  BY <1>1, <1>4 DEF OneAtATime, InFlight, Moving
<1>6. FlushedFirst(d)'
  BY <1>1, <1>2, <1>4 DEF FlushedFirst, SameHere, SameRecord, IsHeldHere, Answered, InFlight
<1> QED BY <1>3, <1>5, <1>6, TurnKeepsNews DEF Own, KnowsOwn

\* The flush puts all the install knows in the backup before the record is asked for.
LEMMA FlushesOwn ==
    ASSUME TypeOK, TypeOK', AnswersCount, NEW d \in Devices, KnowsOwn(d), ReleaseFlushes(d)
    PROVE  Own(d)
<1> "check" \in Operations /\ "take" \in Operations /\ "release" \in Operations
  BY DEF Operations
<1>1. /\ OthersKeep(d) /\ SameHere(d)
      /\ mv' = mv /\ spend' = spend /\ known' = known /\ known[d] \subseteq backup'
  <2>1. /\ local' = local /\ SameRecord /\ mv' = mv /\ spend' = spend /\ known' = known
        /\ backup' = backup \cup known[d] /\ \E x : rel' = [rel EXCEPT ![d] = x]
    BY DEF ReleaseFlushes, deviceVars, recordVars, SameRecord, moveVars
  <2> QED BY <2>1 DEF OthersKeep, SameHere, SameRecord, TypeOK
<1>2. ~InFlight(d, "release") /\ ~Moving(d) /\ OneAtATime(d) /\ FlushedFirst(d)
      /\ rel[d] = "flushing"
  BY DEF KnowsOwn, OneAtATime, ReleaseFlushes
<1>3. ~InFlight(d, "take") /\ ~InFlight(d, "check")
  BY <1>2 DEF OneAtATime, Moving, ReleaseFlushes, CheckSettled, AnswersCount, InFlight
<1>4. /\ OnlyAt(d, "release")
      /\ \/ Passes(d) /\ rel'[d] = "idle"
         \/ Begins(d, "release") /\ rel'[d] = "writing" /\ IsHeldHere(d)
  <2>1. Alone(d, "release") /\ ~Answered(d, "release")
    BY <1>2, <1>3 DEF Alone, Answered, InFlight, Operations
  <2>2. CASE /\ IsHeldHere(d) /\ io' = [io EXCEPT ![d]["release"] = Asking(d, 0)]
             /\ rel' = [rel EXCEPT ![d] = "writing"]
    BY <1>1, <2>1, <2>2, AskingTurns DEF TypeOK
  <2>3. CASE rel' = [rel EXCEPT ![d] = "idle"] /\ io' = io
    BY <1>1, <2>3, PassingTurns DEF TypeOK
  <2> QED BY <2>2, <2>3 DEF ReleaseFlushes
<1>5. Turn(d, "release")
  BY <1>1, <1>4 DEF Turn
<1>6. OneAtATime(d)'
  <2>1. ~InFlight(d, "take")' /\ ~InFlight(d, "check")' /\ ~Moving(d)'
    BY <1>1, <1>2, <1>3, <1>4 DEF OnlyAt, InFlight, Moving
  <2>2. InFlight(d, "release")' => rel'[d] = "writing" /\ IsHeldHere(d)'
    BY <1>1, <1>2, <1>4 DEF Passes, InFlight, SameHere, SameRecord, IsHeldHere
  <2> QED BY <2>1, <2>2 DEF OneAtATime, Operations
<1>7. FlushedFirst(d)'
  <2>1. ~(host.state = "released" /\ host.device = d /\ IsHeldHere(d))
    BY <1>2 DEF FlushedFirst, Answered, InFlight
  <2> QED BY <1>1, <1>2, <1>4, <2>1 DEF FlushedFirst, SameHere, SameRecord, IsHeldHere
<1> QED BY <1>5, <1>6, <1>7, TurnKeepsNews DEF Own, KnowsOwn

LEMMA ReleaseWritesOwn ==
    ASSUME TypeOK, TypeOK', AnswersCount, NEW d \in Devices, KnowsOwn(d), ReleaseWrites(d)
    PROVE  Own(d)
<1> DEFINE c == io[d]["release"]
           r == Record("released", d, Larger(c.seen.seq, c.mine.seq) + 1)
<1>1. "release" \in Operations
  BY DEF Operations
<1>2. OthersKeep(d) /\ Stays(d) /\ local' = local
  BY StaysKeeps DEF ReleaseWrites, deviceVars, moveVars, historyVars
<1>3. r \in Records /\ r.device = d /\ r.state = "released" /\ r.seq > c.seen.seq
  BY <1>1, RequestsType, RecordType DEF Record
<1>4. Put(d, "release", r) /\ c.pc = "seen" /\ MayWrite(d, "release")
  <2>1. c.pc = "seen" /\ (c.seen = Absent \/ c.seen.seq < c.mine.seq \/ HeldBy(c.seen, d))
    BY DEF ReleaseWrites, At
  <2>2. c.mine = local[d] /\ local[d].seq <= c.seen.seq
    BY <1>1, <2>1 DEF KnowsOwn, NewsIsRecent, InFlight, Told, Heard
  <2>3. c.seen.seq \in Nat /\ local[d].seq \in Nat
    BY <1>1, RequestsType DEF TypeOK, Holdings
  <2> QED BY <2>1, <2>2, <2>3 DEF ReleaseWrites, MayWrite, Heard
<1> HIDE DEF r
<1>5. OnlyAt(d, "release") /\ Writes(d, "release")
  BY <1>1, <1>2, <1>3, <1>4, WritingTurns
<1>6. ~Begins(d, "release") /\ ~TakesUp(d, "release") /\ ~LetsGo(d, "release")
  BY <1>5 DEF Writes, Begins, TakesUp, LetsGo
<1> QED BY <1>1, <1>2, <1>5, <1>6, QuietTurn DEF Own, Turn

\* However it ends, a release leaves nothing on the wire.
LEMMA ReleaseEndsOwn ==
    ASSUME TypeOK, TypeOK', NEW d \in Devices, KnowsOwn(d),
           ReleaseOvertaken(d) \/ ReleaseWritten(d) \/ ReleaseGivesUp(d)
    PROVE  Own(d)
<1> "release" \in Operations
  BY DEF Operations
<1>1. /\ OthersKeep(d) /\ SameRecord /\ rel'[d] = "idle"
      /\ mv' = mv /\ spend' = spend /\ known' = known /\ backup' = backup
  <2>1. ReleaseEnds(d) /\ \E x : local' = local \/ local' = [local EXCEPT ![d] = x]
    BY DEF ReleaseOvertaken, ReleaseWritten, ReleaseGivesUp
  <2>2. /\ SameRecord /\ mv' = mv /\ spend' = spend /\ known' = known /\ backup' = backup
        /\ rel' = [rel EXCEPT ![d] = "idle"]
    BY <2>1 DEF ReleaseEnds, recordVars, SameRecord, moveVars, historyVars
  <2> QED BY <2>1, <2>2 DEF OthersKeep, TypeOK
<1>2. OnlyAt(d, "release") /\ io'[d]["release"].pc = "idle"
  BY EndingTurns DEF ReleaseOvertaken, ReleaseWritten, ReleaseGivesUp, ReleaseEnds
<1>3. InFlight(d, "release") /\ OneAtATime(d) /\ FlushedFirst(d) /\ NewsIsRecent(d)
  BY DEF ReleaseOvertaken, ReleaseWritten, ReleaseGivesUp, At, Replied, InFlight, KnowsOwn
<1>4. Drops(d, "release") \/ LetsGo(d, "release")
  <2>1. CASE ReleaseOvertaken(d)
    <3>1. local'[d] = HoldingFromRecord(Heard(d, "release"), d)
      BY <2>1 DEF ReleaseOvertaken, Heard, TypeOK
    <3>2. /\ Told(d, "release") /\ ~HeldBy(Heard(d, "release"), d)
          /\ Heard(d, "release") # Absent
      BY <2>1 DEF ReleaseOvertaken, Told, At, Heard
    <3> QED BY <1>1, <1>2, <3>1, <3>2 DEF LetsGo, HoldingFromRecord, Elsewhere
  <2>2. CASE ReleaseWritten(d)
    <3>1. local'[d] = Elsewhere(Heard(d, "release").seq, None)
      BY <2>2 DEF ReleaseWritten, Heard, TypeOK
    <3>2. /\ Told(d, "release") /\ ~HeldBy(Heard(d, "release"), d)
          /\ Heard(d, "release") # Absent
      BY <2>2, <1>3 DEF ReleaseWritten, Replied, At, Told, Answered, NewsIsRecent, HeldBy,
         Absent, Record
    <3> QED BY <1>1, <1>2, <3>1, <3>2 DEF LetsGo, Elsewhere
  <2>3. CASE ReleaseGivesUp(d)
    BY <1>1, <1>2, <1>3, <2>3 DEF ReleaseGivesUp, Replied, At, Answered, Drops, SameHere, SameRecord
  <2> QED BY <2>1, <2>2, <2>3
<1>5. Turn(d, "release")
  BY <1>1, <1>2, <1>4 DEF Turn
<1>6. OneAtATime(d)'
  <2>1. \A o \in Operations : ~InFlight(d, o)'
    BY <1>2, <1>3, InFlightAlone DEF Alone, OnlyAt, InFlight
  <2>2. ~Moving(d)'
    BY <1>1, <1>3 DEF OneAtATime, Moving
  <2> QED BY <2>1, <2>2 DEF OneAtATime, Operations
<1>7. FlushedFirst(d)'
  <2>1. CASE Drops(d, "release")
    <3>1. ~(host.state = "released" /\ host.device = d)
      BY <1>3, <2>1 DEF FlushedFirst, OneAtATime, Drops
    <3> QED BY <1>1, <3>1 DEF FlushedFirst, SameRecord
  <2>2. CASE LetsGo(d, "release")
    BY <1>1, <1>3, <2>2 DEF FlushedFirst, SameRecord, LetsGo, IsHeldHere
  <2> QED BY <1>4, <2>1, <2>2
<1> QED BY <1>5, <1>6, <1>7, TurnKeepsNews DEF Own, KnowsOwn

LEMMA StepsOwn ==
    ASSUME TypeOK, TypeOK', AnswersCount, NEW d \in Devices, KnowsOwn(d),
           \/ DeviceStep(d)
           \/ CheckStarts(d) \/ MoveStarts(d) \/ SpendStarts(d)
           \/ Sleeps(d) \/ Wakes(d) \/ Restarts(d)
    PROVE  Own(d)
<1>1. CASE \E op \in Operations : HostReads(d, op)
  BY <1>1, HostReadsOwn
<1>2. CASE CheckStep(d) \/ CheckStarts(d)
  BY <1>2, CheckStartsOwn, CheckReconcilesOwn, CheckPublishesOwn, CheckPublishedOwn,
     CheckRetriesOwn, CheckIncompleteOwn DEF CheckStep
<1>3. CASE MoveStep(d) \/ MoveStarts(d)
  BY <1>3, MoveOwn, ArrivesOwn DEF MoveStep, MoveTurn
<1>4. CASE TakeStep(d)
  BY <1>4, MoveOwn, TakenOwn, TakeWritesOwn, RetriesOwn DEF TakeStep, MoveTurn
<1>5. CASE ReleaseStep(d)
  BY <1>5, DrainsOwn, FlushesOwn, ReleaseWritesOwn, ReleaseEndsOwn, RetriesOwn
     DEF ReleaseStep
<1>6. CASE Serves(d) \/ SpendStep(d) \/ SpendStarts(d)
  BY <1>6, ServesOwn, SpendOwn DEF SpendStep
<1>7. CASE Sleeps(d) \/ Wakes(d)
  BY <1>7, PauseOwn
<1>8. ~Restarts(d)
  BY DEF Restarts, AnswersCount
<1> QED BY <1>1, <1>2, <1>3, <1>4, <1>5, <1>6, <1>7, <1>8 DEF DeviceStep

----------------------------------------------------------------------------
(* The theorems about what an install knows *)

LEMMA InitNews == Init => NewsInv
<1>1. ASSUME Init, NEW d \in Devices PROVE KnowsOwn(d)
  <2>1. /\ \A op \in Operations : io[d][op] = Resting
        /\ local[d].seq = 0 /\ host = Absent /\ mv[d] = Still /\ rel[d] = "idle"
    BY <1>1 DEF Init, Here, Elsewhere
  <2>2. \A op \in Operations : ~InFlight(d, op) /\ ~Told(d, op) /\ ~Answered(d, op)
    BY <2>1 DEF InFlight, Told, Answered, Resting
  <2>3. io[d]["check"].pc # "seen" /\ \A op \in Operations : io[d][op].pc = "idle"
    BY <2>1 DEF Resting, Operations
  <2> QED BY <2>1, <2>2, <2>3 DEF KnowsOwn, OneAtATime, NewsIsRecent, HolderKnows, FlushedFirst,
             Moving, Still, Absent, Record, HeldBy, Operations
<1>2. Init => RecordIsNamed
  BY DEF Init, RecordIsNamed
<1> QED BY <1>1, <1>2, InitHInv DEF NewsInv

LEMMA NextNews ==
    ASSUME AnswersCount, NewsInv, [Next]_vars
    PROVE  NewsInv' /\ \A d \in Devices : local'[d].seq >= local[d].seq
<1>1. HInv' /\ TypeOK /\ TypeOK'
  BY NextHInv DEF NewsInv, HInv
<1>2. ASSUME NEW d \in Devices,
             \/ DeviceStep(d)
             \/ CheckStarts(d) \/ MoveStarts(d) \/ SpendStarts(d)
             \/ Sleeps(d) \/ Wakes(d) \/ Restarts(d)
      PROVE  NewsInv' /\ \A e \in Devices : local'[e].seq >= local[e].seq
  <2>1. Own(d)
    BY <1>1, <1>2, StepsOwn DEF NewsInv
  <2>2. PICK op \in Operations : Turn(d, op)
    BY <2>1 DEF Own
  <2>3. \A e \in Devices : KnowsOwn(e)'
    <3>1. \A e \in Devices : e # d => KnowsOwn(e)'
      BY <1>1, <2>2, OthersKnow DEF NewsInv
    <3> QED BY <2>1, <3>1 DEF Own
  <2>4. RecordIsNamed'
    BY <2>2 DEF NewsInv, RecordIsNamed, Turn, Passes, SameHere, SameRecord, Begins, Reads, Writes, Drops,
       TakesUp, LetsGo
  <2>5. \A e \in Devices : local'[e].seq >= local[e].seq
    <3>1. \A e \in Devices : e # d => local'[e] = local[e]
      BY <2>2 DEF Turn, OthersKeep
    <3>2. local'[d].seq >= local[d].seq
      BY <1>1, <2>2, TurnKeepsNews DEF NewsInv
    <3>3. \A e \in Devices : local[e].seq \in Nat
      BY <1>1 DEF TypeOK, Holdings
    <3> QED BY <3>1, <3>2, <3>3
  <2> QED BY <1>1, <2>3, <2>4, <2>5 DEF NewsInv
<1>3. CASE UNCHANGED vars
  <2>1. /\ host' = host /\ local' = local /\ io' = io /\ mv' = mv /\ rel' = rel
        /\ spend' = spend /\ known' = known /\ backup' = backup
    BY <1>3 DEF vars, recordVars, deviceVars, moveVars, historyVars
  <2>2. ASSUME NEW d \in Devices PROVE KnowsOwn(d)'
    <3>1. KnowsOwn(d)
      BY DEF NewsInv
    <3>2. OneAtATime(d)' /\ HolderKnows(d)' /\ FlushedFirst(d)'
      BY <2>1, <3>1 DEF KnowsOwn, OneAtATime, HolderKnows, FlushedFirst, InFlight, Moving,
         Answered, IsHeldHere
    <3>3. NewsIsRecent(d)'
      BY <2>1, <3>1 DEF KnowsOwn, NewsIsRecent, InFlight, Told, Answered, Heard, IsHeldHere
    <3> QED BY <3>2, <3>3 DEF KnowsOwn
  <2>3. \A d \in Devices : local[d].seq \in Nat
    BY <1>1 DEF TypeOK, Holdings
  <2> QED BY <1>1, <2>1, <2>2, <2>3 DEF NewsInv, RecordIsNamed
<1> QED BY <1>2, <1>3 DEF Next

\* When answers count, every install knows its own record for as long as the
\* host serves it, and does one thing at a time about it.
THEOREM InstallsKnowTheirs == ASSUME AnswersCount PROVE Spec => []NewsInv
<1>1. NewsInv /\ [Next]_vars => NewsInv'
  BY NextNews
<1> QED BY InitNews, <1>1, PTL DEF Spec

\* When answers count, an install never acts on a record older than the one it
\* last acted on (decideHoldingStep, takeVaultAccount, releaseVaultAccount).
THEOREM SeqsRise == ASSUME AnswersCount PROVE Spec => SeqNeverFalls
<1>1. NewsInv /\ [Next]_vars => [\A d \in Devices : local'[d].seq >= local[d].seq]_vars
  BY NextNews
<1> QED BY <1>1, InstallsKnowTheirs, PTL DEF Spec, SeqNeverFalls

\* When answers count, a record that reads released was preceded by all its
\* install signed or merged (releaseActiveVaultAccount: drain, flush, announce).
THEOREM ReleasesAreFlushed == ASSUME AnswersCount PROVE Spec => []ReleasedIsFlushed
<1>1. NewsInv => ReleasedIsFlushed
  <2>1. ASSUME NewsInv, host.state = "released" PROVE known[host.device] \subseteq backup
    <3>1. host.device \in Devices
      BY <2>1 DEF NewsInv, RecordIsNamed, Absent, Record
    <3> QED BY <2>1, <3>1 DEF NewsInv, KnowsOwn, FlushedFirst
  <2> QED BY <2>1 DEF ReleasedIsFlushed
<1> QED BY <1>1, InstallsKnowTheirs, PTL

----------------------------------------------------------------------------
(* Who may sign, when installs do nothing worse than sleep between spends. *)

\* Those who may come to hold the account.
Contenders == Movers \cup Upgrading

\* An install may sleep, spend eagerly or miss a merge; some install holds the
\* account from the start and none replaces another; and where one may sleep, two
\* at most contend for the account.
Peace ==
    /\ Faults \subseteq {"sleep", "unmerged", "eager"} \X Devices
    /\ Upgrading # {} /\ Replacing = {} /\ MaxConflicts > 0
    /\ (\E h \in Contenders : Suffers("sleep", h)) =>
           \A a, b, c \in Contenders : a = b \/ b = c \/ a = c

NoTakeover == \A d \in Devices : ~takeover[d]

OnlyContenders ==
    \A d \in Devices :
        IsHeldHere(d) \/ mv[d].pc # "idle" \/ HeldBy(host, d) => d \in Contenders

\* Before the first record every upgrading install lists the account.
Unborn ==
    /\ host = Absent =>
          /\ published = {} /\ \A u \in Upgrading : IsHeldHere(u)
          /\ \A d \in Devices, op \in Operations : ~Answered(d, op)
    /\ host # Absent => host.seq > 0 /\ host.state # "absent"

\* Who lost a conditional write lost it to another install.
Beaten(d) ==
    \A op \in Operations :
        io[d][op].pc = "replied" /\ io[d][op].out # "written"
            => io[d][op].out = "conflict" /\ host # Absent /\ host.device # d

\* A check that lost once finds a record, and has nothing left to write.
CheckTries(d) ==
    /\ io[d]["check"].tries > 0 /\ InFlight(d, "check") => host # Absent
    /\ io[d]["check"].tries > 0 /\ io[d]["check"].pc = "seen"
           => Heard(d, "check") # Absent
    /\ io[d]["check"].pc = "replied" => io[d]["check"].tries = 0

\* The nonce belongs to a request that has gone out.
Used(d, n) ==
    \/ n[1] < moves[d]
    \/ /\ n[1] = moves[d]
       /\ \/ mv[d].pc \in {"idle", "arriving"}
          \/ n[2] < mv[d].restarts
          \/ n[2] = mv[d].restarts /\ mv[d].pc \notin {"reading", "requesting"}

MailIsSent ==
    /\ \A r \in requests :
          /\ Used(r.from, r.nonce)
          /\ mv[r.from].pc = "awaitingAccept" /\ r.nonce = Nonce(r.from)
                 => r.seq = mv[r.from].seq
    /\ \A a \in accepts : Used(a.to, a.nonce)
    /\ \A d \in Devices :
          mv[d].pc \in {"requesting", "awaitingAccept", "awaitingRelease"}
              => mv[d].seq <= host.seq

Accepted(d) ==
    \/ mv[d].pc = "awaitingRelease"
    \/ mv[d].pc = "awaitingAccept" /\ [to |-> d, nonce |-> Nonce(d)] \in accepts

Holds(h) == HeldBy(host, h) \/ (host = Absent /\ IsHeldHere(h))

\* Who accepted is still releasing, or the record has moved on.
AcceptedIsReleased ==
    \A d \in Devices : Accepted(d) =>
        \/ host.seq > mv[d].seq
        \/ \E h \in Contenders \ {d} : rel[h] # "idle" /\ Holds(h)

\* Only over a sleeping install is the account taken by force.
ForcedOverAsleep ==
    /\ \A h \in asleep : Suffers("sleep", h)
    /\ \A d \in Devices : Forced(d) => \E h \in Contenders \ {d} : h \in asleep

\* A spend runs on an install that is up, whose holding is fresh when it clears.
SpendsAwake(d) ==
    /\ spend[d] # "idle" => Awake(d)
    /\ spend[d] = "checking" => fresh[d] \/ (InFlight(d, "check") /\ clean[d])
    /\ spend[d] = "cleared" => fresh[d] /\ IsHeldHere(d)

\* While its holding is fresh, an install that holds the account is its holder.
FreshKnows(d) ==
    Awake(d) =>
        /\ fresh[d] /\ IsHeldHere(d) => HeldBy(host, d) \/ Answered(d, "release")
        /\ fresh[d] /\ Answered(d, "take") => HeldBy(host, d)
        /\ clean[d] /\ Answered(d, "check") => HeldBy(host, d)
        /\ clean[d] /\ io[d]["check"].pc = "seen" /\ HeldBy(Heard(d, "check"), d)
               => HeldBy(host, d)

PeaceInv ==
    /\ NewsInv /\ NoTakeover /\ OnlyContenders /\ Unborn
    /\ \A d \in Devices : Beaten(d) /\ CheckTries(d)
    /\ MailIsSent /\ AcceptedIsReleased /\ ForcedOverAsleep
    /\ \A d \in Devices : SpendsAwake(d) /\ FreshKnows(d)

LEMMA PeacefulKinds ==
    ASSUME Peace, NEW d \in Devices
    PROVE  /\ ~Suffers("nap", d) /\ ~Suffers("early", d) /\ ~Suffers("drowsy", d)
           /\ ~Suffers("crash", d) /\ ~Suffers("cut", d) /\ ~Suffers("offline", d)
           /\ ~Suffers("lost", d) /\ ~Suffers("stale", d) /\ ~Suffers("flush", d)
           /\ ~Suffers("slow", d) /\ ~Suffers("race", d)
BY DEF Peace, Suffers

LEMMA PeaceCounts == Peace => AnswersCount
BY PeacefulKinds DEF AnswersCount

LEMMA PeaceTyped ==
    ASSUME PeaceInv
    PROVE  /\ TypeOK /\ \A d \in Devices : KnowsOwn(d)
           /\ "check" \in Operations /\ "take" \in Operations /\ "release" \in Operations
BY DEF PeaceInv, NewsInv, HInv, Operations

\* Before the first record nothing has been read but its absence.
LEMMA NothingHeard ==
    ASSUME PeaceInv, host = Absent, NEW d \in Devices, NEW op \in Operations, Told(d, op)
    PROVE  Heard(d, op) = Absent
<1>1. ~Answered(d, op) /\ published = {}
  BY DEF PeaceInv, Unborn
<1>2. io[d][op].pc = "seen"
  BY <1>1 DEF Told
<1> QED BY <1>1, <1>2 DEF PeaceInv, NewsInv, HInv, HeardWasSaid, Heard

\* An install that is up is not displaced.
LEMMA AwakeStays ==
    ASSUME Peace, PeaceInv, NEW d \in Devices, NEW e \in Devices, e # d,
           NEW op \in Operations, Turn(e, op), Awake(d), HeldBy(host, d)
    PROVE  SameRecord
<1>1. CASE Writes(e, op)
  <2>1. CASE io'[e][op].out # "written"
    BY <1>1, <2>1 DEF Writes
  <2>2. CASE io'[e][op].out = "written"
    <3>1. host = Heard(e, op) /\ MayWrite(e, op) /\ io[e][op].pc = "seen"
      BY <1>1, <2>2 DEF Writes
    <3>2. host # Absent /\ host.state = "held" /\ host.device = d /\ ~takeover[e]
      BY DEF HeldBy, Absent, Record, PeaceInv, NoTakeover
    <3>3. op = "take" /\ Forced(e)
      BY <3>1, <3>2 DEF MayWrite, HeldBy
    <3>4. PICK h \in Contenders \ {e} : h \in asleep
      BY <3>3 DEF PeaceInv, ForcedOverAsleep
    <3>5. d \in Contenders /\ e \in Contenders
      BY <3>3 DEF PeaceInv, OnlyContenders, Forced
    <3>6. Suffers("sleep", h) /\ h # d
      BY <3>4 DEF PeaceInv, ForcedOverAsleep, Awake
    <3> QED BY <3>4, <3>5, <3>6 DEF Peace
  <2> QED BY <2>1, <2>2
<1>2. CASE ~Writes(e, op)
  BY <1>2 DEF Turn, Passes, SameHere, Begins, Reads, Drops, TakesUp, LetsGo
<1> QED BY <1>1, <1>2

----------------------------------------------------------------------------
(* What a step does to the gap in serving the channel. *)

StepOf(d) ==
    \/ DeviceStep(d)
    \/ CheckStarts(d) \/ MoveStarts(d) \/ SpendStarts(d)
    \/ Sleeps(d) \/ Wakes(d) \/ Restarts(d)

CheckGoesOn(d) == InFlight(d, "check") => InFlight(d, "check")'

Attending(d) == Awake(d) /\ asleep' = asleep /\ fresh'[d] = fresh[d]

Keeps(d) == Attending(d) /\ clean'[d] = clean[d] /\ CheckGoesOn(d)

StartsCheck(d) == Attending(d) /\ clean'[d] /\ io'[d]["check"].pc = "ask"

ChecksOut(d) ==
    /\ Awake(d) /\ asleep' = asleep /\ SameRecord
    /\ Told(d, "check") /\ io'[d]["check"].pc = "idle"
    /\ fresh'[d] = (fresh[d] \/ clean[d]) /\ clean'[d] = FALSE
    /\ IsHeldHere(d)' => HeldBy(Heard(d, "check"), d)

Dozes(d) ==
    /\ Awake(d) /\ asleep' = asleep \cup {d} /\ Suffers("sleep", d)
    /\ spend[d] = "idle" /\ io' = io

Rises(d) ==
    /\ d \in asleep /\ asleep' = asleep \ {d} /\ ~ForcedTakeInFlight(d)
    /\ fresh'[d] = FALSE /\ clean'[d] = FALSE /\ io' = io

Attends(d) ==
    /\ \A e \in Devices : e # d => fresh'[e] = fresh[e] /\ clean'[e] = clean[e]
    /\ Keeps(d) \/ StartsCheck(d) \/ ChecksOut(d) \/ Dozes(d) \/ Rises(d)

LEMMA QuietAttends ==
    ASSUME NEW d \in Devices, Awake(d), UNCHANGED gapVars, CheckGoesOn(d)
    PROVE  Attends(d)
BY DEF Attends, Keeps, Attending, gapVars

LEMMA OtherGoesOn ==
    ASSUME TypeOK, NEW d \in Devices, NEW op \in Operations, op # "check", NEW x,
           io' = io \/ io' = [io EXCEPT ![d][op] = x]
    PROVE  CheckGoesOn(d)
<1> "check" \in Operations
  BY DEF Operations
<1>1. io'[d]["check"] = io[d]["check"]
  BY DEF TypeOK
<1> QED BY <1>1 DEF CheckGoesOn, InFlight

LEMMA PutGoesOn ==
    ASSUME TypeOK, NEW d \in Devices, NEW op \in Operations, NEW r \in Records, Put(d, op, r)
    PROVE  CheckGoesOn(d)
<1> "check" \in Operations
  BY DEF Operations
<1>1. \E q \in Records, out \in {"written", "conflict", "offline"} :
         io' = [io EXCEPT ![d][op] = Replying(d, op, q, out)]
  BY AbsentType DEF Put
<1>2. PICK q \in Records, out \in {"written", "conflict", "offline"} :
         io' = [io EXCEPT ![d][op] = Replying(d, op, q, out)]
  BY <1>1
<1>3. io'[d]["check"] = IF op = "check" THEN Replying(d, op, q, out) ELSE io[d]["check"]
  BY <1>2, ReplyingType, OneRequest
<1> QED BY <1>3, ReplyingType DEF CheckGoesOn, InFlight

LEMMA CheckStartsAttends ==
    ASSUME TypeOK, NEW d \in Devices, CanCheck(d), CheckBegins(d),
           UNCHANGED <<fresh, asleep>>
    PROVE  Attends(d)
<1> "check" \in Operations
  BY DEF Operations
<1>1. io'[d]["check"].pc = "ask"
  <2>1. 0 \in Nat
    OBVIOUS
  <2>2. io'[d]["check"] = Asking(d, 0)
    BY DEF CheckBegins, TypeOK
  <2> QED BY <2>1, <2>2, AskingType
<1>2. clean' = [clean EXCEPT ![d] = TRUE] /\ Awake(d)
  BY DEF CheckBegins, CanCheck
<1> QED BY <1>1, <1>2 DEF Attends, StartsCheck, Attending, TypeOK

LEMMA CheckEndsAttends ==
    ASSUME TypeOK, NEW d \in Devices, Awake(d), Told(d, "check"), CheckEnds(d),
           IsHeldHere(d)' => HeldBy(Heard(d, "check"), d)
    PROVE  Attends(d)
<1> "check" \in Operations
  BY DEF Operations
<1>1. io'[d]["check"].pc = "idle"
  BY EndingTurns DEF CheckEnds
<1>2. /\ fresh' = [fresh EXCEPT ![d] = @ \/ clean[d]] /\ clean' = [clean EXCEPT ![d] = FALSE]
      /\ asleep' = asleep /\ SameRecord
  BY DEF CheckEnds, SameRecord, recordVars
<1> QED BY <1>1, <1>2 DEF Attends, ChecksOut, TypeOK

LEMMA CheckAttends ==
    ASSUME Peace, PeaceInv, NEW d \in Devices, CheckStep(d) \/ CheckStarts(d)
    PROVE  Attends(d)
<1>1. TypeOK /\ KnowsOwn(d) /\ AnswersCount /\ "check" \in Operations
  BY PeaceTyped, PeaceCounts
<1>2. CASE CheckStarts(d)
  BY <1>1, <1>2, CheckStartsAttends DEF CheckStarts
<1>3. CASE CheckReconciles(d)
  <2> DEFINE c == io[d]["check"]
  <2>1. /\ Told(d, "check") /\ c.mine = local[d] /\ ~Publishes(c.mine, c.seen, d) /\ Awake(d)
        /\ local[d].seq <= c.seen.seq /\ c.seen.seq \in Nat /\ local[d].seq \in Nat
    <3>1. c.pc = "seen" /\ ~Publishes(c.mine, c.seen, d) /\ Awake(d)
      BY <1>3 DEF CheckReconciles, At
    <3>2. Told(d, "check") /\ InFlight(d, "check")
      BY <3>1 DEF Told, InFlight
    <3> QED BY <1>1, <3>1, <3>2, RequestsType DEF KnowsOwn, NewsIsRecent, Heard, TypeOK, Holdings
  <2>2. ASSUME IsHeldHere(d)' PROVE HeldBy(c.seen, d)
    <3>1. CASE Adopts(c.mine, c.seen, d)
      <4>1. local'[d] = HoldingFromRecord(c.seen, d)
        BY <1>1, <1>3, <3>1 DEF CheckReconciles, TypeOK
      <4> QED BY <2>2, <4>1 DEF HoldingFromRecord, Elsewhere, IsHeldHere
    <3>2. CASE ~Adopts(c.mine, c.seen, d)
      <4>1. local' = local
        BY <1>3, <3>2 DEF CheckReconciles
      <4>2. local[d].kind = "here"
        BY <2>2, <4>1 DEF IsHeldHere
      <4>3. c.seen # Absent /\ c.seen.seq >= c.mine.seq
        BY <2>1, <4>2 DEF Publishes
      <4>4. HoldingFromRecord(c.seen, d) = local[d]
        BY <2>1, <3>2, <4>3 DEF Adopts
      <4> QED BY <4>2, <4>4 DEF HoldingFromRecord, Elsewhere
    <3> QED BY <3>1, <3>2
  <2> QED BY <1>1, <1>3, <2>1, <2>2, CheckEndsAttends DEF CheckReconciles, CheckCompletes, Heard
<1>4. CASE CheckPublished(d)
  <2>1. Answered(d, "check") /\ Awake(d)
    BY <1>4 DEF CheckPublished, Replied, At, Answered
  <2>2. Told(d, "check") /\ HeldBy(Heard(d, "check"), d)
    BY <1>1, <2>1 DEF Told, KnowsOwn, NewsIsRecent
  <2> QED BY <1>1, <1>4, <2>1, <2>2, CheckEndsAttends DEF CheckPublished, CheckCompletes
<1>5. CASE CheckPublishes(d)
  <2>1. Record("held", d, Larger(io[d]["check"].seen.seq, io[d]["check"].mine.seq) + 1) \in Records
    BY <1>1, RequestsType, RecordType
  <2>2. CheckGoesOn(d)
    BY <1>1, <1>5, <2>1, PutGoesOn DEF CheckPublishes
  <2> QED BY <1>5, <2>2, QuietAttends DEF CheckPublishes, At
<1>6. CASE CheckRetries(d)
  <2>1. io[d]["check"].tries + 1 \in Nat
    BY <1>1, RequestsType DEF Requests
  <2>2. io'[d]["check"] = Asking(d, io[d]["check"].tries + 1)
    BY <1>1, <1>6 DEF CheckRetries, Retrying, TypeOK
  <2>3. CheckGoesOn(d)
    BY <1>1, <2>1, <2>2, AskingType DEF CheckGoesOn, InFlight
  <2> QED BY <1>6, <2>3, QuietAttends DEF CheckRetries, Replied, At
<1>7. ~CheckIncomplete(d)
  <2>1. ~Replied(d, "check", "offline")
    BY <1>1 DEF Replied, At, PeaceInv, Beaten
  <2>2. ~(Replied(d, "check", "conflict") /\ ~MayRetry(d, "check"))
    BY DEF Replied, At, MayRetry, PeaceInv, CheckTries, Peace
  <2> QED BY <2>1, <2>2 DEF CheckIncomplete
<1> QED BY <1>2, <1>3, <1>4, <1>5, <1>6, <1>7 DEF CheckStep


LEMMA MoveAttends ==
    ASSUME Peace, PeaceInv, NEW d \in Devices, MoveTurn(d) \/ Arrives(d)
    PROVE  Attends(d)
<1>1. TypeOK /\ "take" \in Operations
  BY PeaceTyped
<1>2. UNCHANGED gapVars /\ Awake(d)
  BY DEF MoveTurn, MoveStarts, MoveReads, MoveRequests, MoveAccepted, MoveWatches,
     AnswerLapses, ReleaseLapses, TakeRefused, TakeUnavailable, Arrives, At, Replied
<1>3. \E x : io' = io \/ io' = [io EXCEPT ![d]["take"] = x]
  BY DEF MoveTurn, MoveStarts, MoveReads, MoveRequests, MoveAccepted, MoveWatches,
     AnswerLapses, ReleaseLapses, TakeRefused, TakeUnavailable, Arrives, BeginsTake, Ended
<1>4. CheckGoesOn(d)
  BY <1>1, <1>3, OtherGoesOn
<1> QED BY <1>2, <1>4, QuietAttends

LEMMA TakeAttends ==
    ASSUME Peace, PeaceInv, NEW d \in Devices,
           TakeFindsOwn(d) \/ TakeWrites(d) \/ TakeWritten(d) \/ TakeRetries(d)
    PROVE  Attends(d)
<1>1. TypeOK /\ "take" \in Operations
  BY PeaceTyped
<1>2. UNCHANGED gapVars /\ Awake(d)
  BY DEF TakeFindsOwn, TakeWrites, TakeWritten, TakeRetries, Taken, At, Replied
<1>3. CheckGoesOn(d)
  <2>1. CASE TakeWrites(d)
    <3>1. Record("held", d, io[d]["take"].seen.seq + 1) \in Records
      BY <1>1, RequestsType DEF Record, Records
    <3> QED BY <1>1, <2>1, <3>1, PutGoesOn DEF TakeWrites
  <2>2. CASE TakeFindsOwn(d) \/ TakeWritten(d) \/ TakeRetries(d)
    <3>1. \E x : io' = [io EXCEPT ![d]["take"] = x]
      BY <2>2 DEF TakeFindsOwn, TakeWritten, TakeRetries, Taken, Ended, Retrying
    <3> QED BY <1>1, <3>1, OtherGoesOn
  <2> QED BY <2>1, <2>2
<1> QED BY <1>2, <1>3, QuietAttends

LEMMA ReleaseAttends ==
    ASSUME Peace, PeaceInv, NEW d \in Devices, ReleaseStep(d)
    PROVE  Attends(d)
<1>1. TypeOK /\ "release" \in Operations
  BY PeaceTyped
<1>2. UNCHANGED gapVars /\ Awake(d)
  BY DEF ReleaseStep, ReleaseDrains, ReleaseFlushes, ReleaseFlushFails, ReleaseOvertaken,
     ReleaseWrites, ReleaseWritten, ReleaseRetries, ReleaseGivesUp, ReleaseEnds, At, Replied
<1>3. CheckGoesOn(d)
  <2>1. CASE ReleaseWrites(d)
    <3>1. Record("released", d, Larger(io[d]["release"].seen.seq, io[d]["release"].mine.seq) + 1)
             \in Records
      BY <1>1, RequestsType, RecordType
    <3> QED BY <1>1, <2>1, <3>1, PutGoesOn DEF ReleaseWrites
  <2>2. CASE ~ReleaseWrites(d)
    <3>1. \E x : io' = io \/ io' = [io EXCEPT ![d]["release"] = x]
      BY <2>2 DEF ReleaseStep, ReleaseDrains, ReleaseFlushes, ReleaseFlushFails,
         ReleaseOvertaken, ReleaseWritten, ReleaseRetries, ReleaseGivesUp, ReleaseEnds,
         Ended, Retrying
    <3> QED BY <1>1, <3>1, OtherGoesOn
  <2> QED BY <2>1, <2>2
<1> QED BY <1>2, <1>3, QuietAttends

LEMMA SpendAttends ==
    ASSUME Peace, PeaceInv, NEW d \in Devices, SpendStep(d) \/ SpendStarts(d) \/ Serves(d)
    PROVE  Attends(d)
<1>1. TypeOK
  BY PeaceTyped
<1>2. CASE io' = io /\ UNCHANGED gapVars /\ Awake(d)
  BY <1>2, QuietAttends DEF CheckGoesOn, InFlight
<1>3. CASE CanCheck(d) /\ CheckBegins(d) /\ UNCHANGED <<fresh, asleep>>
  BY <1>1, <1>3, CheckStartsAttends
<1>4. CASE SpendStep(d) \/ SpendStarts(d)
  BY <1>2, <1>3, <1>4 DEF SpendStep, SpendStarts, SpendFresh, SpendChecks, SpendChecked, Signs
<1>5. CASE Serves(d)
  BY <1>2, <1>3, <1>5 DEF Serves, gapVars
<1> QED BY <1>4, <1>5

LEMMA PauseAttends ==
    ASSUME Peace, PeaceInv, NEW d \in Devices, Sleeps(d) \/ Wakes(d)
    PROVE  Attends(d)
<1>1. TypeOK
  BY PeaceTyped
<1>2. CASE Sleeps(d)
  BY <1>2, PeacefulKinds DEF Sleeps, Attends, Dozes
<1>3. CASE Wakes(d)
  BY <1>1, <1>3, PeacefulKinds DEF Wakes, Gap, Attends, Rises, Awake, TypeOK
<1> QED BY <1>2, <1>3

LEMMA StepAttends ==
    ASSUME Peace, PeaceInv, NEW d \in Devices, StepOf(d)
    PROVE  Attends(d)
<1>1. ASSUME NEW op \in Operations, HostReads(d, op) PROVE Attends(d)
  <2>1. OnlyAt(d, op) /\ Reads(d, op)
    BY <1>1, PeaceTyped, PeaceCounts, ReadingTurns
  <2>2. CheckGoesOn(d)
    BY <2>1, PeaceTyped DEF OnlyAt, Reads, CheckGoesOn, InFlight
  <2> QED BY <1>1, <2>2, QuietAttends DEF HostReads
<1>2. CASE CheckStep(d) \/ CheckStarts(d)
  BY <1>2, CheckAttends
<1>3. CASE MoveStep(d) \/ MoveStarts(d)
  BY <1>3, MoveAttends DEF MoveStep, MoveTurn
<1>4. CASE TakeStep(d)
  BY <1>4, MoveAttends, TakeAttends DEF TakeStep, MoveTurn
<1>5. CASE ReleaseStep(d)
  BY <1>5, ReleaseAttends
<1>6. CASE SpendStep(d) \/ SpendStarts(d) \/ Serves(d)
  BY <1>6, SpendAttends
<1>7. CASE Sleeps(d) \/ Wakes(d)
  BY <1>7, PauseAttends
<1>8. ~Restarts(d)
  BY PeacefulKinds DEF Restarts
<1> QED BY <1>1, <1>2, <1>3, <1>4, <1>5, <1>6, <1>7, <1>8 DEF StepOf, DeviceStep

----------------------------------------------------------------------------
(* Fresh holdings *)

LEMMA OwnFresh ==
    ASSUME Peace, PeaceInv, NEW d \in Devices, NEW op \in Operations, Turn(d, op), Attends(d)
    PROVE  FreshKnows(d)'
<1> DEFINE c == "check"
           t == "take"
           r == "release"
           Hears == io[d][c].pc = "seen" /\ HeldBy(Heard(d, c), d)
<1>1. /\ c \in Operations /\ t \in Operations /\ r \in Operations
      /\ OneAtATime(d) /\ NewsIsRecent(d)
      /\ \A o \in Operations : o # op => io'[d][o] = io[d][o]
      /\ \A o \in Operations : o # op /\ InFlight(d, op) => ~InFlight(d, o)
  BY PeaceTyped DEF KnowsOwn, OneAtATime, Turn, OnlyAt
<1>2. Awake(d) => /\ fresh[d] /\ IsHeldHere(d) => HeldBy(host, d) \/ Answered(d, r)
                  /\ fresh[d] /\ Answered(d, t) => HeldBy(host, d)
                  /\ clean[d] /\ Answered(d, c) => HeldBy(host, d)
                  /\ clean[d] /\ Hears => HeldBy(host, d)
  BY DEF PeaceInv, FreshKnows
<1>3. CASE Dozes(d) \/ Rises(d)
  BY <1>3 DEF Dozes, Rises, FreshKnows, Awake
<1>4. CASE ChecksOut(d)
  <2>1. InFlight(d, c) /\ ~InFlight(d, c)' /\ ~InFlight(d, t) /\ ~InFlight(d, r) /\ op = c
    BY <1>1, <1>4 DEF ChecksOut, Told, Answered, InFlight
  <2>2. ~Answered(d, t)' /\ ~Answered(d, c)' /\ io'[d][c].pc # "seen" /\ ~Answered(d, r)
    BY <1>1, <1>4, <2>1 DEF ChecksOut, Answered, InFlight
  <2>3. ASSUME fresh'[d], IsHeldHere(d)' PROVE HeldBy(host, d)
    <3>1. HeldBy(Heard(d, c), d) /\ (fresh[d] \/ clean[d]) /\ Awake(d) /\ Told(d, c)
      BY <1>4, <2>3 DEF ChecksOut
    <3>2. IsHeldHere(d) /\ (Hears \/ Answered(d, c))
      BY <1>1, <3>1 DEF NewsIsRecent, Told
    <3> QED BY <1>2, <2>2, <3>1, <3>2
  <2>4. host' = host
    BY <1>4 DEF ChecksOut, SameRecord
  <2> QED BY <2>2, <2>3, <2>4 DEF FreshKnows
<1>5. CASE Keeps(d) \/ StartsCheck(d)
  <2>1. /\ Awake(d) /\ fresh'[d] = fresh[d]
        /\ clean'[d] = clean[d] \/ io'[d][c].pc = "ask"
    BY <1>5 DEF Keeps, StartsCheck, Attending
  <2> SUFFICES /\ fresh[d] /\ IsHeldHere(d)' => HeldBy(host', d) \/ Answered(d, r)'
               /\ fresh[d] /\ Answered(d, t)' => HeldBy(host', d)
               /\ clean[d] /\ Answered(d, c)' => HeldBy(host', d)
               /\ clean[d] /\ Hears' => HeldBy(host', d)
    BY <2>1 DEF FreshKnows, Answered
  <2>2. CASE /\ SameHere(d) /\ \A o \in Operations : Answered(d, o)' = Answered(d, o)
             /\ Hears' => Hears
    BY <1>1, <1>2, <2>1, <2>2 DEF SameHere, SameRecord, IsHeldHere
  <2>3. CASE Passes(d)
    BY <1>1, <2>2, <2>3 DEF Passes, Answered, Heard
  <2>4. CASE Begins(d, op) \/ Drops(d, op)
    <3>1. SameHere(d) /\ ~Answered(d, op) /\ io'[d][op].pc \in {"ask", "idle"}
      BY <2>4 DEF Begins, Drops
    <3>2. \A o \in Operations : Answered(d, o)' = Answered(d, o)
      BY <1>1, <3>1 DEF Answered
    <3>3. Hears' => Hears
      BY <1>1, <3>1 DEF Heard
    <3> QED BY <2>2, <3>1, <3>2, <3>3
  <2>5. CASE Reads(d, op)
    <3>1. SameHere(d) /\ \A o \in Operations : Answered(d, o)' = Answered(d, o)
      BY <1>1, <2>5 DEF Reads, Answered
    <3>2. CASE op # c
      <4>1. Hears' => Hears
        BY <1>1, <3>2 DEF Heard
      <4> QED BY <2>2, <3>1, <4>1
    <3>3. CASE op = c
      <4>1. Hears' => HeldBy(host', d)
        BY <2>5, <3>3 DEF Reads, Heard, SameHere, SameRecord
      <4> QED BY <1>1, <1>2, <2>1, <3>1, <4>1 DEF SameHere, SameRecord, IsHeldHere
    <3> QED BY <3>2, <3>3
  <2>6. CASE Writes(d, op)
    <3>1. /\ local'[d] = local[d] /\ InFlight(d, op) /\ ~Answered(d, op)
          /\ io'[d][op].pc = "replied"
      BY <2>6 DEF Writes, InFlight, Answered
    <3>2. \A o \in Operations : o # op => ~InFlight(d, o)'
      BY <1>1, <3>1 DEF InFlight
    <3>3. Hears' => Hears
      BY <1>1, <3>1 DEF Heard
    <3>4. CASE io'[d][op].out # "written"
      <4>1. SameHere(d) /\ \A o \in Operations : Answered(d, o)' = Answered(d, o)
        BY <1>1, <2>6, <3>1, <3>4 DEF Writes, Answered, SameHere
      <4> QED BY <2>2, <3>3, <4>1
    <3>5. CASE io'[d][op].out = "written"
      <4>1. host'.device = d /\ host'.state = IF op = r THEN "released" ELSE "held"
        BY <2>6, <3>5 DEF Writes
      <4>2. HeldBy(host', d) \/ (op = r /\ Answered(d, r)')
        BY <3>1, <3>5, <4>1 DEF HeldBy, Answered
      <4>3. op = r => ~Answered(d, t)' /\ ~Answered(d, c)' /\ ~Hears'
        BY <1>1, <3>2 DEF Answered, InFlight
      <4> QED BY <4>2, <4>3
    <3> QED BY <3>4, <3>5
  <2>7. CASE TakesUp(d, op)
    <3>1. /\ op # r /\ SameRecord /\ Told(d, op) /\ HeldBy(Heard(d, op), d)
          /\ InFlight(d, op) /\ io'[d][op].pc = "idle"
      BY <2>7 DEF TakesUp, Told, Answered, InFlight
    <3>2. /\ \A o \in Operations : ~Answered(d, o)'
          /\ ~Hears' /\ ~Answered(d, r)
      BY <1>1, <3>1 DEF Answered, InFlight
    <3>3. ASSUME fresh[d] PROVE HeldBy(host, d)
      <4>1. CASE io[d][op].pc = "seen" \/ op = c
        <5>1. IsHeldHere(d)
          BY <1>1, <3>1, <4>1 DEF NewsIsRecent, Told
        <5> QED BY <1>2, <2>1, <3>2, <3>3, <5>1
      <4>2. CASE Answered(d, op) /\ op = t
        BY <1>2, <2>1, <3>3, <4>2
      <4> QED BY <3>1, <4>1, <4>2 DEF Told, Operations
    <3> QED BY <3>1, <3>2, <3>3, <1>1 DEF SameRecord
  <2>8. CASE LetsGo(d, op)
    <3>1. InFlight(d, op) /\ io'[d][op].pc = "idle" /\ ~IsHeldHere(d)'
      BY <2>8 DEF LetsGo, Told, Answered, InFlight, IsHeldHere
    <3>2. (\A o \in Operations : ~Answered(d, o)') /\ ~Hears'
      BY <1>1, <3>1 DEF Answered, InFlight
    <3> QED BY <3>1, <3>2, <1>1
  <2> QED BY <2>3, <2>4, <2>5, <2>6, <2>7, <2>8 DEF Turn
<1> QED BY <1>3, <1>4, <1>5 DEF Attends

LEMMA OthersFresh ==
    ASSUME Peace, PeaceInv, NEW d \in Devices, NEW op \in Operations, Turn(d, op), Attends(d),
           NEW e \in Devices, e # d
    PROVE  FreshKnows(e)'
<1>1. /\ local'[e] = local[e] /\ \A o \in Operations : io'[e][o] = io[e][o]
      /\ "check" \in Operations /\ "take" \in Operations /\ "release" \in Operations
  BY PeaceTyped DEF Turn, OthersKeep, OnlyAt
<1>2. fresh'[e] = fresh[e] /\ clean'[e] = clean[e] /\ Awake(e)' = Awake(e)
  BY DEF Attends, Keeps, StartsCheck, Attending, ChecksOut, Dozes, Rises, Awake
<1>3. Awake(e) /\ HeldBy(host, e) => host' = host
  BY AwakeStays DEF SameRecord
<1>4. FreshKnows(e)
  BY DEF PeaceInv
<1>5. /\ IsHeldHere(e)' = IsHeldHere(e) /\ Heard(e, "check")' = Heard(e, "check")
      /\ \A o \in Operations : Answered(e, o)' = Answered(e, o)
      /\ io'[e]["check"].pc = io[e]["check"].pc
  BY <1>1 DEF IsHeldHere, Answered, Heard
<1> QED BY <1>1, <1>2, <1>3, <1>4, <1>5 DEF FreshKnows

----------------------------------------------------------------------------
(* Spends *)

Spends(d) ==
    \/ spend'[d] \in {spend[d], "idle"}
    \/ spend'[d] = "entered" /\ Attending(d)
    \/ spend'[d] = "checking" /\ StartsCheck(d)
    \/ /\ spend'[d] = "cleared" /\ Attending(d) /\ SameHere(d) /\ ~Refused(d)
       /\ fresh[d] \/ (spend[d] = "checking" /\ ~InFlight(d, "check"))

LEMMA StepSpends ==
    ASSUME Peace, PeaceInv, NEW d \in Devices, StepOf(d)
    PROVE  Spends(d)
<1>1. TypeOK /\ "check" \in Operations
  BY PeaceTyped
<1>2. CASE SpendStarts(d)
  BY <1>1, <1>2 DEF SpendStarts, Spends, Attending, gapVars, TypeOK
<1>3. CASE SpendFresh(d) \/ SpendChecked(d)
  <2>1. /\ Attending(d) /\ SameHere(d) /\ Clears(d)
        /\ fresh[d] \/ (spend[d] = "checking" /\ ~InFlight(d, "check"))
    BY <1>3 DEF SpendFresh, SpendChecked, Attending, gapVars, SameHere, SameRecord,
       deviceVars, recordVars, InFlight
  <2>2. spend'[d] = IF Refused(d) THEN "idle" ELSE "cleared"
    BY <1>1, <2>1 DEF Clears, TypeOK
  <2> QED BY <2>1, <2>2 DEF Spends
<1>4. CASE SpendChecks(d)
  <2>1. spend'[d] = "checking" /\ Attending(d) /\ CheckBegins(d)
    BY <1>1, <1>4 DEF SpendChecks, CanCheck, Attending, TypeOK
  <2>2. 0 \in Nat /\ io'[d]["check"] = Asking(d, 0) /\ clean'[d] = TRUE
    BY <1>1, <2>1 DEF CheckBegins, TypeOK
  <2>3. StartsCheck(d)
    BY <1>1, <2>1, <2>2, AskingType DEF StartsCheck
  <2> QED BY <2>1, <2>3 DEF Spends
<1>5. CASE Signs(d)
  BY <1>1, <1>5 DEF Signs, Spends, TypeOK
<1>6. CASE ~(SpendStep(d) \/ SpendStarts(d))
  <2>1. CASE (\E op \in Operations : HostReads(d, op)) \/ CheckStep(d) \/ CheckStarts(d)
    BY <2>1 DEF HostReads, CheckStep, CheckStarts, CheckReconciles, CheckPublishes,
       CheckPublished, CheckRetries, CheckIncomplete, CheckCompletes, CheckEnds, Spends
  <2>2. CASE MoveStep(d) \/ MoveStarts(d)
    BY <2>2 DEF MoveStep, MoveStarts, MoveReads, MoveRequests, MoveAccepted, MoveWatches,
       AnswerLapses, ReleaseLapses, Arrives, Spends
  <2>3. CASE TakeStep(d)
    BY <2>3 DEF TakeStep, TakeFindsOwn, TakeRefused, TakeWrites, TakeWritten, TakeRetries,
       TakeUnavailable, Taken, Spends
  <2>4. CASE ReleaseStep(d) \/ Serves(d)
    BY <2>4 DEF ReleaseStep, ReleaseDrains, ReleaseFlushes, ReleaseFlushFails,
       ReleaseOvertaken, ReleaseWrites, ReleaseWritten, ReleaseRetries, ReleaseGivesUp,
       ReleaseEnds, Serves, Spends
  <2>5. CASE Sleeps(d) \/ Wakes(d) \/ Restarts(d)
    BY <2>5, PeacefulKinds DEF Sleeps, Wakes, Restarts, Spends
  <2> QED BY <1>6, <2>1, <2>2, <2>3, <2>4, <2>5 DEF StepOf, DeviceStep
<1> QED BY <1>2, <1>3, <1>4, <1>5, <1>6 DEF SpendStep

\* Who cleared a spend is named by the record.
LEMMA ClearedHolds ==
    ASSUME PeaceInv, NEW d \in Devices, spend[d] = "cleared"
    PROVE  HeldBy(host, d)
<1>1. Awake(d) /\ fresh[d] /\ IsHeldHere(d)
  BY DEF PeaceInv, SpendsAwake
<1>2. ~Answered(d, "release")
  BY PeaceTyped DEF KnowsOwn, OneAtATime, FlushedFirst, Answered, InFlight
<1> QED BY <1>1, <1>2 DEF PeaceInv, FreshKnows

LEMMA HolderStaysHere ==
    ASSUME PeaceInv, NEW d \in Devices, NEW op \in Operations, Turn(d, op),
           HeldBy(host, d), IsHeldHere(d)
    PROVE  IsHeldHere(d)'
<1>1. NewsIsRecent(d)
  BY PeaceTyped DEF KnowsOwn
<1>2. ~LetsGo(d, op)
  BY <1>1 DEF LetsGo, NewsIsRecent, HeldBy
<1>3. CASE local'[d] = local[d]
  BY <1>3 DEF IsHeldHere
<1>4. CASE TakesUp(d, op)
  BY <1>4 DEF TakesUp, IsHeldHere, Here
<1> QED BY <1>2, <1>3, <1>4 DEF Turn, Passes, SameHere, Begins, Reads, Writes, Drops

LEMMA OwnSpends ==
    ASSUME Peace, PeaceInv, NEW d \in Devices, NEW op \in Operations, Turn(d, op),
           Attends(d), Spends(d)
    PROVE  SpendsAwake(d)'
<1>1. /\ spend[d] # "idle" => Awake(d)
      /\ spend[d] = "checking" => fresh[d] \/ (InFlight(d, "check") /\ clean[d])
      /\ spend[d] = "cleared" => fresh[d] /\ IsHeldHere(d)
  BY DEF PeaceInv, SpendsAwake
<1>2. CASE spend'[d] = "idle"
  BY <1>2 DEF SpendsAwake
<1>3. CASE spend'[d] = spend[d] /\ spend[d] # "idle"
  <2>1. Awake(d)' /\ (fresh[d] => fresh'[d]) /\ ~Dozes(d) /\ ~Rises(d)
    BY <1>1, <1>3 DEF Attends, Keeps, StartsCheck, Attending, ChecksOut, Dozes, Rises, Awake
  <2>2. spend[d] = "checking" => fresh'[d] \/ (InFlight(d, "check")' /\ clean'[d])
    BY <1>1, <2>1 DEF Attends, Keeps, StartsCheck, Attending, ChecksOut, CheckGoesOn, InFlight
  <2>3. spend[d] = "cleared" => IsHeldHere(d)'
    BY <1>1, ClearedHolds, HolderStaysHere
  <2> QED BY <1>1, <1>3, <2>1, <2>2, <2>3 DEF SpendsAwake
<1>4. CASE spend'[d] = "entered" /\ Attending(d)
  BY <1>4 DEF SpendsAwake, Attending, Awake
<1>5. CASE spend'[d] = "checking" /\ StartsCheck(d)
  BY <1>5 DEF SpendsAwake, StartsCheck, Attending, Awake, InFlight
<1>6. CASE /\ spend'[d] = "cleared" /\ Attending(d) /\ SameHere(d) /\ ~Refused(d)
           /\ fresh[d] \/ (spend[d] = "checking" /\ ~InFlight(d, "check"))
  BY <1>1, <1>6 DEF SpendsAwake, Attending, Awake, SameHere, Refused, IsHeldHere
<1> QED BY <1>2, <1>3, <1>4, <1>5, <1>6 DEF Spends

LEMMA OthersSpend ==
    ASSUME Peace, PeaceInv, NEW d \in Devices, NEW op \in Operations, Turn(d, op), Attends(d),
           NEW e \in Devices, e # d
    PROVE  SpendsAwake(e)'
<1>1. /\ local'[e] = local[e] /\ spend'[e] = spend[e] /\ io'[e]["check"] = io[e]["check"]
  BY PeaceTyped DEF Turn, OthersKeep, OnlyAt
<1>2. fresh'[e] = fresh[e] /\ clean'[e] = clean[e] /\ Awake(e)' = Awake(e)
  BY DEF Attends, Keeps, StartsCheck, Attending, ChecksOut, Dozes, Rises, Awake
<1>3. SpendsAwake(e)
  BY DEF PeaceInv
<1> QED BY <1>1, <1>2, <1>3 DEF SpendsAwake, InFlight, IsHeldHere

----------------------------------------------------------------------------
(* The move's mail *)

MailStays(d) ==
    /\ mv'[d] = mv[d] /\ moves'[d] = moves[d]
    /\ requests' \subseteq requests /\ accepts' \subseteq accepts

\* Every try has a nonce of its own.
Outdates(d) ==
    \/ moves'[d] > moves[d]
    \/ /\ moves'[d] = moves[d] /\ mv[d].pc # "idle"
       /\ \/ mv'[d].pc \in {"idle", "arriving"}
          \/ /\ mv[d].pc # "arriving"
             /\ \/ mv'[d].restarts > mv[d].restarts
                \/ /\ mv'[d].restarts = mv[d].restarts
                   /\ \/ mv'[d].pc \notin {"reading", "requesting"}
                      \/ mv[d].pc = "reading"

Advances(d) ==
    /\ requests' \subseteq requests /\ accepts' \subseteq accepts /\ Outdates(d)
    /\ mv'[d].pc \notin {"awaitingAccept", "awaitingRelease"} /\ SameRecord
    /\ mv'[d].pc = "requesting" => mv'[d].seq = host.seq
    /\ mv[d].pc = "idle" => d \in Movers
    /\ mv'[d].pc = "forcing" => AnswerLapses(d) \/ ReleaseLapses(d)

Sends(d) ==
    /\ mv[d].pc = "requesting" /\ mv'[d] = [mv[d] EXCEPT !.pc = "awaitingAccept"]
    /\ moves'[d] = moves[d] /\ SameRecord
    /\ requests' = requests \cup {Request(d)} /\ accepts' = accepts

IsAccepted(d) ==
    /\ Accepted(d) /\ mv'[d] = [mv[d] EXCEPT !.pc = "awaitingRelease"]
    /\ mv[d].pc = "awaitingAccept" /\ moves'[d] = moves[d] /\ SameRecord
    /\ requests' = requests /\ accepts' \subseteq accepts

Grants(d) ==
    /\ mv'[d] = mv[d] /\ moves'[d] = moves[d] /\ SameRecord
    /\ IsHeldHere(d) /\ rel'[d] # "idle" /\ requests' \subseteq requests
    /\ \E r \in requests :
          /\ r.from # d /\ r.seq = local[d].seq
          /\ accepts' = accepts \cup {[to |-> r.from, nonce |-> r.nonce]}

Mails(d) ==
    /\ \A e \in Devices : e # d => moves'[e] = moves[e]
    /\ MailStays(d) \/ Advances(d) \/ Sends(d) \/ IsAccepted(d) \/ Grants(d)

LEMMA StayingMails ==
    ASSUME NEW d \in Devices, UNCHANGED <<mv, moves, requests, accepts>>
    PROVE  Mails(d)
BY DEF Mails, MailStays

\* What may become of the try a move has under way.
LEMMA TryStates ==
    ASSUME TypeOK, NEW d \in Devices
    PROVE  /\ \A pc \in MovePhases : GoesTo(d, pc) =>
                 /\ mv'[d] = [mv[d] EXCEPT !.pc = pc]
                 /\ mv'[d].pc = pc /\ mv'[d].restarts = mv[d].restarts
           /\ StartsOver(d) => mv'[d].pc = "reading" /\ mv'[d].restarts > mv[d].restarts
           /\ Fails(d) => mv'[d].pc = "idle" /\ requests' \subseteq requests
           /\ mv[d].restarts \in Nat /\ moves[d] \in Nat
<1>1. mv[d] \in [pc : MovePhases, seq : Nat, restarts : Nat] /\ moves[d] \in Nat
  BY DEF TypeOK
<1>2. ASSUME NEW pc \in MovePhases, GoesTo(d, pc)
      PROVE  /\ mv'[d] = [mv[d] EXCEPT !.pc = pc]
             /\ mv'[d].pc = pc /\ mv'[d].restarts = mv[d].restarts
  <2>1. mv'[d] = [mv[d] EXCEPT !.pc = pc]
    BY <1>2 DEF GoesTo, TypeOK
  <2> QED BY <1>1, <2>1
<1>3. ASSUME StartsOver(d) PROVE mv'[d].pc = "reading" /\ mv'[d].restarts > mv[d].restarts
  <2>1. mv'[d] = [pc |-> "reading", seq |-> 0, restarts |-> mv[d].restarts + 1]
    BY <1>3 DEF StartsOver, TypeOK
  <2> QED BY <1>1, <2>1
<1>4. Fails(d) => mv'[d].pc = "idle" /\ requests' \subseteq requests
  BY DEF Fails, Retires, Still, TypeOK
<1> QED BY <1>1, <1>2, <1>3, <1>4

LEMMA MoveMails ==
    ASSUME PeaceInv, NEW d \in Devices, MoveTurn(d)
    PROVE  Mails(d)
<1>1. TypeOK /\ KnowsOwn(d) /\ SameRecord
  BY PeaceTyped, MoveFrame DEF SameHere
<1>2. \A pc \in {"reading", "taking", "forcing", "awaitingAccept", "awaitingRelease"} : pc \in MovePhases
  BY DEF MovePhases
<1>3. CASE MoveStarts(d)
  <2>1. GoesTo(d, "reading") /\ moves' = [moves EXCEPT ![d] = @ + 1] /\ d \in Movers
        /\ requests' = requests /\ accepts' = accepts
    BY <1>3 DEF MoveStarts, mailVars
  <2>2. moves'[d] > moves[d] /\ \A e \in Devices : e # d => moves'[e] = moves[e]
    <3>1. moves'[d] = moves[d] + 1 /\ moves[d] \in Nat
      BY <1>1, <2>1 DEF TypeOK
    <3> QED BY <1>1, <2>1, <3>1 DEF TypeOK
  <2> QED BY <1>1, <1>2, <2>1, <2>2, TryStates DEF Mails, Advances, Outdates
<1>4. ASSUME NEW pc \in {"taking", "forcing"}, BeginsTake(d, pc), Moving(d),
             moves' = moves, requests' = requests, accepts' = accepts,
             pc = "forcing" => AnswerLapses(d) \/ ReleaseLapses(d)
      PROVE  Mails(d)
  <2>1. mv'[d].pc = pc /\ mv'[d].restarts = mv[d].restarts /\ mv[d].pc \notin {"idle", "arriving"}
    BY <1>1, <1>2, <1>4, TryStates DEF BeginsTake, Moving
  <2> QED BY <1>1, <1>4, <2>1 DEF Mails, Advances, Outdates
<1>5. ASSUME StartsOver(d) \/ Fails(d), Moving(d), moves' = moves, accepts' = accepts,
             requests' \subseteq requests
      PROVE  Mails(d)
  <2>1. mv[d].pc \notin {"idle", "arriving"}
    BY <1>5 DEF Moving
  <2>2. CASE StartsOver(d)
    BY <1>1, <1>5, <2>1, <2>2, TryStates DEF Mails, Advances, Outdates
  <2>3. CASE Fails(d)
    BY <1>1, <1>5, <2>1, <2>3, TryStates DEF Mails, Advances, Outdates
  <2> QED BY <1>5, <2>2, <2>3
<1>6. CASE MoveReads(d)
  <2>1. Moving(d) /\ moves' = moves /\ accepts' = accepts
    BY <1>6 DEF MoveReads, Moving
  <2>2. CASE BeginsTake(d, "taking") /\ UNCHANGED requests
    BY <1>4, <2>1, <2>2
  <2>3. CASE /\ mv' = [mv EXCEPT ![d] = [pc |-> "requesting", seq |-> host.seq,
                                          restarts |-> @.restarts]]
             /\ UNCHANGED <<io, requests>>
    <3>1. mv'[d] = [pc |-> "requesting", seq |-> host.seq, restarts |-> mv[d].restarts]
      BY <1>1, <2>3 DEF TypeOK
    <3>2. mv[d].pc = "reading"
      BY <1>6 DEF MoveReads
    <3> QED BY <1>1, <2>1, <2>3, <3>1, <3>2 DEF Mails, Advances, Outdates
  <2>4. CASE Fails(d)
    BY <1>1, <1>5, <2>1, <2>4, TryStates
  <2> QED BY <1>6, <2>2, <2>3, <2>4 DEF MoveReads
<1>7. CASE MoveRequests(d)
  <2>1. Moving(d) /\ moves' = moves /\ accepts' = accepts /\ mv[d].pc = "requesting"
    BY <1>7 DEF MoveRequests, Moving
  <2>2. CASE requests' = requests \cup {Request(d)} /\ GoesTo(d, "awaitingAccept")
    BY <1>1, <1>2, <2>1, <2>2, TryStates DEF Mails, Sends
  <2>3. CASE Fails(d)
    BY <1>1, <1>5, <2>1, <2>3, TryStates
  <2> QED BY <1>7, <2>2, <2>3 DEF MoveRequests
<1>8. CASE MoveAccepted(d)
  <2>1. /\ GoesTo(d, "awaitingRelease") /\ Accepted(d) /\ mv[d].pc = "awaitingAccept"
        /\ moves' = moves /\ requests' = requests /\ accepts' \subseteq accepts
    BY <1>8 DEF MoveAccepted, Accepted
  <2> QED BY <1>1, <1>2, <2>1, TryStates DEF Mails, IsAccepted
<1>9. CASE MoveWatches(d)
  <2>1. Moving(d) /\ moves' = moves /\ accepts' = accepts
    BY <1>9 DEF MoveWatches, Awaiting, Moving
  <2>2. CASE BeginsTake(d, "taking") /\ UNCHANGED requests
    BY <1>4, <2>1, <2>2
  <2>3. CASE StartsOver(d) /\ UNCHANGED <<io, requests>>
    BY <1>5, <2>1, <2>3
  <2>4. CASE Fails(d)
    BY <1>1, <1>5, <2>1, <2>4, TryStates
  <2> QED BY <1>9, <2>2, <2>3, <2>4 DEF MoveWatches
<1>10. CASE AnswerLapses(d) \/ ReleaseLapses(d)
  <2>1. /\ Moving(d) /\ moves' = moves /\ requests' = requests /\ accepts' = accepts
        /\ BeginsTake(d, "forcing")
    BY <1>10 DEF AnswerLapses, ReleaseLapses, mailVars, Moving
  <2> QED BY <1>4, <1>10, <2>1
<1>11. CASE TakeRefused(d) \/ TakeUnavailable(d)
  <2>1. InFlight(d, "take") /\ moves' = moves /\ accepts' = accepts
    BY <1>11 DEF TakeRefused, TakeUnavailable, At, Replied, InFlight
  <2>2. Moving(d)
    BY <1>1, <2>1 DEF KnowsOwn, OneAtATime, Moving
  <2>3. (StartsOver(d) /\ UNCHANGED requests) \/ Fails(d)
    BY <1>11 DEF TakeRefused, TakeUnavailable
  <2> QED BY <1>1, <1>5, <2>1, <2>2, <2>3, TryStates
<1> QED BY <1>3, <1>6, <1>7, <1>8, <1>9, <1>10, <1>11 DEF MoveTurn

LEMMA TakenMails ==
    ASSUME PeaceInv, NEW d \in Devices, TakeFindsOwn(d) \/ TakeWritten(d) \/ Arrives(d)
    PROVE  Mails(d)
<1>1. TypeOK /\ KnowsOwn(d)
  BY PeaceTyped
<1>2. moves' = moves /\ accepts' = accepts /\ SameRecord /\ requests' \subseteq requests
  BY DEF TakeFindsOwn, TakeWritten, Arrives, Taken, Retires, mailVars, SameRecord, recordVars
<1>3. CASE TakeFindsOwn(d) \/ TakeWritten(d)
  <2>1. InFlight(d, "take") /\ GoesTo(d, "arriving")
    BY <1>3 DEF TakeFindsOwn, TakeWritten, Taken, At, Replied, InFlight
  <2>2. mv[d].pc # "idle" /\ mv'[d].pc = "arriving"
    BY <1>1, <2>1 DEF KnowsOwn, OneAtATime, GoesTo, TypeOK
  <2> QED BY <1>2, <2>2 DEF Mails, Advances, Outdates
<1>4. CASE Arrives(d)
  <2>1. mv[d].pc # "idle" /\ mv'[d].pc = "idle"
    BY <1>1, <1>4 DEF Arrives, Still, TypeOK
  <2> QED BY <1>2, <2>1 DEF Mails, Advances, Outdates
<1> QED BY <1>3, <1>4

LEMMA ServesMails ==
    ASSUME PeaceInv, NEW d \in Devices, Serves(d)
    PROVE  Mails(d)
<1>1. TypeOK
  BY PeaceTyped
<1>2. mv' = mv /\ moves' = moves /\ SameRecord /\ requests' \subseteq requests /\ IsHeldHere(d)
  BY DEF Serves, moveVars, SameRecord, recordVars
<1>3. CASE accepts' = accepts
  BY <1>2, <1>3 DEF Mails, MailStays
<1>4. CASE \E r \in {r \in {q \in requests : q.from # d} : r.seq = local[d].seq} :
              /\ accepts' = accepts \cup {[to |-> r.from, nonce |-> r.nonce]}
              /\ rel' = [rel EXCEPT ![d] = "draining"]
  BY <1>1, <1>2, <1>4 DEF Mails, Grants, TypeOK
<1> QED BY <1>3, <1>4 DEF Serves

LEMMA StepMails ==
    ASSUME Peace, PeaceInv, NEW d \in Devices, StepOf(d)
    PROVE  Mails(d)
<1>1. CASE (\E op \in Operations : HostReads(d, op)) \/ CheckStep(d) \/ CheckStarts(d)
  BY <1>1, StayingMails DEF HostReads, CheckStep, CheckStarts, CheckReconciles, CheckPublishes,
     CheckPublished, CheckRetries, CheckIncomplete, CheckCompletes, CheckEnds, moveVars, mailVars
<1>2. CASE MoveStep(d) \/ MoveStarts(d)
  BY <1>2, MoveMails, TakenMails DEF MoveStep, MoveTurn
<1>3. CASE TakeStep(d)
  <2>1. TakeWrites(d) \/ TakeRetries(d) => Mails(d)
    BY StayingMails DEF TakeWrites, TakeRetries, moveVars, mailVars
  <2> QED BY <1>3, <2>1, MoveMails, TakenMails DEF TakeStep, MoveTurn
<1>4. CASE ReleaseStep(d)
  BY <1>4, StayingMails DEF ReleaseStep, ReleaseDrains, ReleaseFlushes, ReleaseFlushFails,
     ReleaseOvertaken, ReleaseWrites, ReleaseWritten, ReleaseRetries, ReleaseGivesUp,
     ReleaseEnds, moveVars, mailVars
<1>5. CASE Serves(d)
  BY <1>5, ServesMails
<1>6. CASE SpendStep(d) \/ SpendStarts(d)
  BY <1>6, StayingMails DEF SpendStep, SpendStarts, SpendFresh, SpendChecks, SpendChecked,
     Signs, moveVars, mailVars
<1>7. CASE Sleeps(d) \/ Wakes(d)
  BY <1>7, StayingMails DEF Sleeps, Wakes, moveVars, mailVars
<1>8. ~Restarts(d)
  BY PeacefulKinds DEF Restarts
<1> QED BY <1>1, <1>2, <1>3, <1>4, <1>5, <1>6, <1>7, <1>8 DEF StepOf, DeviceStep

----------------------------------------------------------------------------
(* The record and those who contend for it *)

WritesRecord(d, op) ==
    /\ host' # Absent /\ host'.seq > 0 /\ host'.seq > host.seq /\ host'.device = d
    /\ host'.state = IF op = "release" THEN "released" ELSE "held"
    /\ io[d][op].pc = "seen" /\ MayWrite(d, op) /\ host = Heard(d, op)

LEMMA TurnRecord ==
    ASSUME PeaceInv, TypeOK', NEW d \in Devices, NEW op \in Operations, Turn(d, op)
    PROVE  SameRecord \/ WritesRecord(d, op)
<1>1. host.seq \in Nat /\ host'.seq \in Nat
  BY PeaceTyped DEF TypeOK, Records
<1>2. CASE Writes(d, op) /\ io'[d][op].out = "written"
  <2>1. /\ host'.seq > host.seq /\ host'.device = d
        /\ host'.state = IF op = "release" THEN "released" ELSE "held"
        /\ io[d][op].pc = "seen" /\ MayWrite(d, op) /\ host = Heard(d, op)
    BY <1>2 DEF Writes
  <2>2. host' # Absent
    BY <2>1 DEF Absent, Record
  <2> QED BY <1>1, <2>1, <2>2 DEF WritesRecord
<1>3. CASE Writes(d, op) /\ io'[d][op].out # "written"
  BY <1>3 DEF Writes
<1>4. CASE ~Writes(d, op)
  BY <1>4 DEF Turn, Passes, SameHere, Begins, Reads, Drops, TakesUp, LetsGo
<1> QED BY <1>2, <1>3, <1>4

LEMMA TurnContenders ==
    ASSUME PeaceInv, TypeOK', NEW d \in Devices, NEW op \in Operations, Turn(d, op), Mails(d)
    PROVE  OnlyContenders'
<1>1. /\ OneAtATime(d) /\ NewsIsRecent(d)
      /\ IsHeldHere(d) \/ mv[d].pc # "idle" \/ HeldBy(host, d) => d \in Contenders
  BY PeaceTyped DEF KnowsOwn, PeaceInv, OnlyContenders
<1>2. SameRecord \/ WritesRecord(d, op)
  BY TurnRecord
<1>3. ASSUME NEW e \in Devices, e # d,
             IsHeldHere(e)' \/ mv'[e].pc # "idle" \/ HeldBy(host', e)
      PROVE  e \in Contenders
  <2>1. IsHeldHere(e)' = IsHeldHere(e) /\ mv'[e] = mv[e]
    BY <1>3 DEF Turn, OthersKeep, IsHeldHere
  <2>2. HeldBy(host', e) => HeldBy(host, e)
    BY <1>2, <1>3 DEF SameRecord, WritesRecord, HeldBy
  <2> QED BY <1>3, <2>1, <2>2 DEF PeaceInv, OnlyContenders
<1>4. ASSUME mv'[d].pc # "idle" PROVE d \in Contenders
  <2>1. mv[d].pc # "idle" \/ d \in Movers
    BY <1>4 DEF Mails, MailStays, Advances, Sends, IsAccepted, Grants
  <2> QED BY <1>1, <2>1 DEF Contenders
<1>5. ASSUME IsHeldHere(d)' PROVE d \in Contenders
  <2>1. CASE local'[d] = local[d]
    BY <1>1, <1>5, <2>1 DEF IsHeldHere
  <2>2. CASE TakesUp(d, op)
    <3>1. op # "release" /\ Told(d, op) /\ HeldBy(Heard(d, op), d) /\ InFlight(d, op)
      BY <2>2 DEF TakesUp, Told, Answered, InFlight
    <3>2. IsHeldHere(d) \/ mv[d].pc # "idle"
      BY <1>1, <3>1 DEF NewsIsRecent, OneAtATime, Told, Operations
    <3> QED BY <1>1, <3>2
  <2>3. CASE LetsGo(d, op)
    BY <1>5, <2>3 DEF LetsGo, IsHeldHere
  <2> QED BY <2>1, <2>2, <2>3 DEF Turn, Passes, SameHere, Begins, Reads, Writes, Drops
<1>6. ASSUME HeldBy(host', d) PROVE d \in Contenders
  <2>1. CASE SameRecord
    BY <1>1, <1>6, <2>1 DEF SameRecord
  <2>2. CASE WritesRecord(d, op)
    <3>1. op # "release" /\ MayWrite(d, op) /\ InFlight(d, op)
      BY <1>6, <2>2 DEF WritesRecord, HeldBy, InFlight
    <3>2. IsHeldHere(d) \/ mv[d].pc # "idle"
      BY <1>1, <3>1 DEF MayWrite, OneAtATime
    <3> QED BY <1>1, <3>2
  <2> QED BY <1>2, <2>1, <2>2
<1> QED BY <1>3, <1>4, <1>5, <1>6 DEF OnlyContenders

\* What an install is told is what it was told, or the answer to its own write.
LEMMA TurnAnswers ==
    ASSUME NEW d \in Devices, NEW op \in Operations, Turn(d, op), SameRecord,
           host.seq \in Nat,
           NEW e \in Devices, NEW o \in Operations, Answered(e, o)'
    PROVE  Answered(e, o)
<1>1. CASE e # d \/ o # op
  BY <1>1 DEF Turn, OnlyAt, Answered
<1>2. CASE e = d /\ o = op
  BY <1>2 DEF Turn, Passes, Begins, Reads, Writes, Drops, TakesUp, LetsGo, Answered, SameRecord
<1> QED BY <1>1, <1>2

LEMMA TurnUnborn ==
    ASSUME PeaceInv, Peace, TypeOK', NEW d \in Devices, NEW op \in Operations, Turn(d, op)
    PROVE  Unborn'
<1>1. Unborn /\ TypeOK /\ host.seq \in Nat
  BY PeaceTyped DEF PeaceInv, TypeOK, Records
<1>2. CASE WritesRecord(d, op)
  BY <1>2 DEF WritesRecord, Unborn
<1>3. CASE SameRecord
  <2>1. host' # Absent => host'.seq > 0 /\ host'.state # "absent"
    BY <1>1, <1>3 DEF SameRecord, Unborn
  <2>2. ASSUME host' = Absent
        PROVE  /\ published' = {} /\ \A u \in Upgrading : IsHeldHere(u)'
               /\ \A e \in Devices, o \in Operations : ~Answered(e, o)'
    <3>1. host = Absent /\ published' = {}
      BY <1>1, <1>3, <2>2 DEF SameRecord, Unborn
    <3>2. \A e \in Devices, o \in Operations : ~Answered(e, o)'
      BY <1>1, <1>3, <3>1, TurnAnswers DEF Unborn
    <3>3. ASSUME NEW u \in Upgrading PROVE IsHeldHere(u)'
      <4>1. IsHeldHere(u) /\ u \in Devices
        BY <1>1, <3>1, HoldingAssumption DEF Unborn
      <4>2. CASE local'[u] = local[u]
        BY <4>1, <4>2 DEF IsHeldHere
      <4>3. CASE u = d /\ TakesUp(d, op)
        BY <4>3 DEF TakesUp, IsHeldHere, Here
      <4>4. ~LetsGo(d, op)
        BY <3>1, NothingHeard DEF LetsGo
      <4> QED BY <4>1, <4>2, <4>3, <4>4
                 DEF Turn, OthersKeep, Passes, SameHere, Begins, Reads, Writes, Drops
    <3> QED BY <3>1, <3>2, <3>3
  <2> QED BY <2>1, <2>2 DEF Unborn
<1> QED BY <1>2, <1>3, TurnRecord

LEMMA TurnBeaten ==
    ASSUME PeaceInv, Peace, TypeOK', NEW d \in Devices, NEW op \in Operations, Turn(d, op),
           NEW e \in Devices
    PROVE  Beaten(e)'
<1>1. /\ NewsIsRecent(d) /\ Beaten(e) /\ \A o \in Operations : e # d \/ o # op => io'[e][o] = io[e][o]
      /\ \A o \in Operations : o # op /\ InFlight(d, op) => ~InFlight(d, o)
  BY PeaceTyped DEF PeaceInv, KnowsOwn, OneAtATime, Turn, OnlyAt
<1>2. SameRecord \/ WritesRecord(d, op)
  BY TurnRecord
<1> SUFFICES ASSUME NEW o \in Operations, io'[e][o].pc = "replied", io'[e][o].out # "written"
             PROVE  io'[e][o].out = "conflict" /\ host' # Absent /\ host'.device # e
  BY DEF Beaten
<1>3. CASE e # d
  <2>1. io[e][o].pc = "replied" /\ io[e][o].out # "written" /\ io'[e][o] = io[e][o]
    BY <1>1, <1>3
  <2>2. io[e][o].out = "conflict" /\ host # Absent /\ host.device # e
    BY <1>1, <2>1 DEF Beaten
  <2> QED BY <1>2, <1>3, <2>1, <2>2 DEF SameRecord, WritesRecord
<1>4. CASE e = d /\ o # op
  <2>1. io[d][o].pc = "replied" /\ io[d][o].out # "written" /\ io'[d][o] = io[d][o]
    BY <1>1, <1>4
  <2>2. io[d][o].out = "conflict" /\ host # Absent /\ host.device # d
    BY <1>1, <1>4, <2>1 DEF Beaten
  <2>3. ~WritesRecord(d, op)
    BY <1>1, <1>4, <2>1 DEF WritesRecord, InFlight
  <2> QED BY <1>2, <1>4, <2>1, <2>2, <2>3 DEF SameRecord
<1>5. CASE e = d /\ o = op
  <2>1. ~Suffers("offline", d)
    BY PeacefulKinds
  <2>2. CASE Passes(d)
    <3>1. io'[d][op] = io[d][op] /\ host' = host
      BY <2>2 DEF Passes, SameHere, SameRecord
    <3> QED BY <1>1, <1>5, <3>1 DEF Beaten
  <2>3. CASE Writes(d, op)
    <3>1. host' = host /\ io'[d][op].out = "conflict" /\ host # Heard(d, op) /\ Told(d, op)
      BY <1>5, <2>1, <2>3 DEF Writes, SameRecord, Told
    <3>2. host # Absent
      BY <3>1, NothingHeard
    <3>3. host.device # d
      BY <1>1, <3>1 DEF NewsIsRecent
    <3> QED BY <1>5, <3>1, <3>2, <3>3
  <2> QED BY <1>5, <2>1, <2>2, <2>3 DEF Turn, Begins, Reads, Drops, TakesUp, LetsGo
<1> QED BY <1>3, <1>4, <1>5

LEMMA TurnTries ==
    ASSUME PeaceInv, Peace, TypeOK', NEW d \in Devices, NEW op \in Operations, Turn(d, op),
           NEW e \in Devices
    PROVE  CheckTries(e)'
<1> DEFINE c == "check"
<1>1. /\ c \in Operations /\ CheckTries(e) /\ Beaten(e) /\ ~takeover[e]
      /\ io[e][c].tries \in Nat /\ io'[e][c].tries \in Nat
  BY PeaceTyped DEF PeaceInv, NoTakeover, TypeOK, Requests
<1>2. host # Absent => host' # Absent
  BY TurnRecord DEF SameRecord, WritesRecord
<1>3. CASE e # d \/ op # c
  <2>1. io'[e][c] = io[e][c]
    BY <1>1, <1>3 DEF Turn, OnlyAt
  <2> QED BY <1>1, <1>2, <2>1 DEF CheckTries, InFlight, Heard
<1>4. CASE e = d /\ op = c
  <2>1. CASE Passes(d)
    BY <1>1, <1>2, <1>4, <2>1 DEF Passes, CheckTries, InFlight, Heard
  <2>2. CASE Begins(d, c)
    <3>1. io[d][c].pc = "replied" => host # Absent
      BY <1>1, <1>4, <2>2 DEF Begins, Answered, Beaten
    <3> QED BY <1>1, <1>2, <1>4, <2>2, <3>1 DEF Begins, CheckTries
  <2>3. CASE Reads(d, c)
    <3>1. /\ io'[d][c].pc = "seen" /\ io'[d][c].seen = host /\ io'[d][c].tries = io[d][c].tries
          /\ io[d][c].pc = "ask"
      BY <2>3, PeacefulKinds DEF Reads
    <3> QED BY <1>1, <1>2, <1>4, <3>1 DEF CheckTries, InFlight, Heard
  <2>4. CASE Writes(d, c)
    <3>1. Heard(d, c) = Absent /\ io[d][c].pc = "seen" /\ io'[d][c].tries = io[d][c].tries
      BY <1>1, <1>4, <2>4 DEF Writes, MayWrite
    <3>2. io'[d][c].tries = 0
      BY <1>1, <1>4, <3>1 DEF CheckTries
    <3> QED BY <1>4, <2>4, <3>2 DEF Writes, CheckTries
  <2>5. CASE Drops(d, c) \/ TakesUp(d, c) \/ LetsGo(d, c)
    BY <1>4, <2>5 DEF Drops, TakesUp, LetsGo, CheckTries, InFlight
  <2> QED BY <1>4, <2>1, <2>2, <2>3, <2>4, <2>5 DEF Turn
<1> QED BY <1>3, <1>4

----------------------------------------------------------------------------
(* The mail, the releases it starts, and the takes that wait for neither *)

LEMMA MailShape ==
    ASSUME TypeOK, NEW d \in Devices
    PROVE  /\ mv[d].restarts \in Nat /\ mv[d].seq \in Nat /\ moves[d] \in Nat
           /\ Nonce(d) \in Nonces /\ Nonce(d)[1] = moves[d] /\ Nonce(d)[2] = mv[d].restarts
           /\ LET m == [mv[d] EXCEPT !.pc = "awaitingAccept"] IN
                 /\ m.pc = "awaitingAccept" /\ m.seq = mv[d].seq
                 /\ m.restarts = mv[d].restarts
           /\ LET m == [mv[d] EXCEPT !.pc = "awaitingRelease"] IN
                 /\ m.pc = "awaitingRelease" /\ m.seq = mv[d].seq
                 /\ m.restarts = mv[d].restarts
<1>1. mv[d] \in [pc : MovePhases, seq : Nat, restarts : Nat] /\ moves[d] \in Nat
  BY DEF TypeOK
<1> QED BY <1>1 DEF Nonce, Nonces, MovePhases

LEMMA UsedOnce ==
    ASSUME PeaceInv, TypeOK', NEW d \in Devices, NEW op \in Operations, Turn(d, op), Mails(d),
           NEW e \in Devices, NEW n \in Nonces, Used(e, n)
    PROVE  Used(e, n)'
<1>1. /\ TypeOK /\ n[1] \in Nat /\ n[2] \in Nat /\ mv[e].restarts \in Nat
      /\ moves[e] \in Nat /\ moves'[e] \in Nat /\ mv'[e].restarts \in Nat
  BY PeaceTyped, MailShape DEF Nonces, TypeOK
<1>2. CASE mv'[e] = mv[e] /\ moves'[e] = moves[e]
  BY <1>2 DEF Used
<1>3. CASE e = d /\ Outdates(d)
  <2>1. n[1] <= moves[d]
    BY <1>1, <1>3 DEF Used
  <2>2. CASE moves'[d] > moves[d]
    <3>1. n[1] < moves'[e]
      BY <1>1, <1>3, <2>1, <2>2
    <3> QED BY <3>1 DEF Used
  <2>3. CASE ~(moves'[d] > moves[d])
    <3>1. moves'[d] = moves[d] /\ mv[d].pc # "idle"
      BY <1>3, <2>3 DEF Outdates
    <3>2. CASE mv'[d].pc \in {"idle", "arriving"}
      BY <1>1, <1>3, <2>1, <3>1, <3>2 DEF Used
    <3>3. CASE mv[d].pc # "arriving" /\ mv'[d].restarts > mv[d].restarts
      <4>1. n[1] = moves[d] => n[2] <= mv[d].restarts
        BY <1>1, <1>3, <3>1, <3>3 DEF Used
      <4>2. n[1] = moves[d] => n[2] < mv'[d].restarts
        BY <1>1, <1>3, <3>3, <4>1
      <4> QED BY <1>1, <1>3, <2>1, <3>1, <4>2 DEF Used
    <3>4. CASE /\ mv[d].pc # "arriving" /\ mv'[d].restarts = mv[d].restarts
               /\ mv'[d].pc \notin {"reading", "requesting"} \/ mv[d].pc = "reading"
      <4>1. n[1] = moves[d] =>
               \/ n[2] < mv'[d].restarts
               \/ /\ n[2] = mv'[d].restarts
                  /\ mv[d].pc \notin {"reading", "requesting"}
        BY <1>1, <1>3, <3>1, <3>4 DEF Used
      <4>2. CASE n[1] = moves[d]
        BY <1>3, <3>1, <3>4, <4>1, <4>2 DEF Used
      <4>3. CASE n[1] # moves[d]
        <5>1. n[1] < moves'[d]
          BY <1>1, <1>3, <2>1, <3>1, <4>3
        <5> QED BY <1>3, <5>1 DEF Used
      <4> QED BY <4>2, <4>3
    <3> QED BY <1>3, <2>3, <3>2, <3>3, <3>4 DEF Outdates
  <2> QED BY <2>2, <2>3
<1>4. CASE e = d /\ (Sends(d) \/ IsAccepted(d))
  <2>1. /\ moves'[d] = moves[d] /\ mv'[d].restarts = mv[d].restarts
        /\ mv'[d].pc \in {"awaitingAccept", "awaitingRelease"}
        /\ mv[d].pc \in {"requesting", "awaitingAccept"}
    BY <1>1, <1>4, MailShape DEF Sends, IsAccepted
  <2> QED BY <1>1, <1>4, <2>1 DEF Used
<1> QED BY <1>2, <1>3, <1>4 DEF Turn, OthersKeep, Mails, MailStays, Grants, Advances

LEMMA RecordRises ==
    ASSUME PeaceInv, TypeOK', NEW d \in Devices, NEW op \in Operations, Turn(d, op)
    PROVE  /\ host.seq \in Nat /\ host'.seq \in Nat /\ host'.seq >= host.seq
           /\ SameRecord \/ host'.seq > host.seq
<1>1. host.seq \in Nat /\ host'.seq \in Nat
  BY PeaceTyped DEF TypeOK, Records
<1> QED BY <1>1, TurnRecord DEF SameRecord, WritesRecord

LEMMA TurnMail ==
    ASSUME PeaceInv, TypeOK', NEW d \in Devices, NEW op \in Operations, Turn(d, op), Mails(d)
    PROVE  MailIsSent'
<1>1. /\ TypeOK /\ MailIsSent
      /\ \A e \in Devices : e # d => mv'[e] = mv[e] /\ moves'[e] = moves[e]
  BY PeaceTyped DEF PeaceInv, Turn, OthersKeep, Mails
<1>2. /\ \A r \in requests : r.from \in Devices /\ r.nonce \in Nonces
      /\ \A a \in accepts : a.to \in Devices /\ a.nonce \in Nonces
  BY <1>1 DEF TypeOK
<1>3. /\ \A r \in requests : Used(r.from, r.nonce)'
      /\ \A a \in accepts : Used(a.to, a.nonce)'
  BY <1>1, <1>2, UsedOnce DEF MailIsSent
<1>4. ASSUME Sends(d)
      PROVE  /\ Used(d, Nonce(d))' /\ Nonce(d)' = Nonce(d)
             /\ mv'[d].pc = "awaitingAccept" /\ mv'[d].seq = mv[d].seq
             /\ ~Used(d, Nonce(d))
  <2>1. /\ mv'[d].pc = "awaitingAccept" /\ mv'[d].seq = mv[d].seq
        /\ mv'[d].restarts = mv[d].restarts /\ moves'[d] = moves[d]
    BY <1>1, <1>4, MailShape DEF Sends
  <2>2. Nonce(d)' = Nonce(d)
    BY <2>1 DEF Nonce
  <2>3. ~Used(d, Nonce(d))
    BY <1>1, <1>4, MailShape DEF Used, Sends
  <2>4. Used(d, Nonce(d))'
    BY <1>1, <2>1, <2>2, MailShape DEF Used
  <2> QED BY <2>1, <2>2, <2>3, <2>4
<1>5. ASSUME NEW r \in requests'
      PROVE  /\ Used(r.from, r.nonce)'
             /\ mv'[r.from].pc = "awaitingAccept" /\ r.nonce = Nonce(r.from)'
                    => r.seq = mv'[r.from].seq
  <2>1. CASE r \in requests /\ mv'[r.from] = mv[r.from] /\ moves'[r.from] = moves[r.from]
    BY <1>1, <1>3, <2>1 DEF MailIsSent, Nonce
  <2>2. CASE r \in requests /\ mv'[r.from].pc # "awaitingAccept"
    BY <1>3, <2>2
  <2>3. CASE Sends(d) /\ r.from = d /\ r \in requests
    <3>1. Used(d, r.nonce)
      BY <1>1, <2>3 DEF MailIsSent
    <3> QED BY <1>3, <1>4, <2>3, <3>1
  <2>4. CASE Sends(d) /\ r = Request(d)
    <3>1. r.from = d /\ r.nonce = Nonce(d) /\ r.seq = mv[d].seq
      BY <2>4 DEF Request
    <3> QED BY <1>4, <2>4, <3>1
  <2>5. r.from # d /\ r \in requests => mv'[r.from] = mv[r.from] /\ moves'[r.from] = moves[r.from]
    BY <1>1, <1>2
  <2>6. \/ r \in requests /\ mv'[d] = mv[d] /\ moves'[d] = moves[d]
        \/ r \in requests /\ mv'[d].pc # "awaitingAccept"
        \/ Sends(d) /\ r \in requests \cup {Request(d)}
    <3>1. MailStays(d) \/ Grants(d) => r \in requests /\ mv'[d] = mv[d] /\ moves'[d] = moves[d]
      BY DEF MailStays, Grants
    <3>2. Advances(d) => r \in requests /\ mv'[d].pc # "awaitingAccept"
      BY DEF Advances
    <3>3. IsAccepted(d) => r \in requests /\ mv'[d].pc # "awaitingAccept"
      BY <1>1, MailShape DEF IsAccepted
    <3>4. Sends(d) => r \in requests \cup {Request(d)}
      BY DEF Sends
    <3> QED BY <3>1, <3>2, <3>3, <3>4 DEF Mails
  <2> QED BY <2>1, <2>2, <2>3, <2>4, <2>5, <2>6
<1>6. ASSUME NEW a \in accepts' PROVE Used(a.to, a.nonce)'
  <2>1. CASE a \in accepts
    BY <1>3, <2>1
  <2>2. CASE a \notin accepts
    <3>1. Grants(d)
      BY <2>2 DEF Mails, MailStays, Advances, Sends, IsAccepted
    <3>2. PICK r \in requests : a = [to |-> r.from, nonce |-> r.nonce]
      BY <2>2, <3>1 DEF Grants
    <3> QED BY <1>3, <3>2
  <2> QED BY <2>1, <2>2
<1>7. ASSUME NEW e \in Devices,
             mv'[e].pc \in {"requesting", "awaitingAccept", "awaitingRelease"}
      PROVE  mv'[e].seq <= host'.seq
  <2>1. host.seq \in Nat /\ host'.seq \in Nat /\ host'.seq >= host.seq
        /\ mv[e].seq \in Nat
    BY <1>1, RecordRises, MailShape
  <2>2. CASE mv'[e] = mv[e]
    <3>1. mv[e].seq <= host.seq
      BY <1>1, <1>7, <2>2 DEF MailIsSent
    <3> QED BY <2>1, <2>2, <3>1
  <2>3. CASE e = d /\ Advances(d)
    BY <1>7, <2>1, <2>3 DEF Advances, SameRecord
  <2>4. CASE e = d /\ (Sends(d) \/ IsAccepted(d))
    <3>1. mv'[d].seq = mv[d].seq /\ mv[d].pc \in {"requesting", "awaitingAccept"}
      BY <1>1, <2>4, MailShape DEF Sends, IsAccepted
    <3>2. mv[d].seq <= host.seq
      BY <1>1, <3>1 DEF MailIsSent
    <3> QED BY <2>1, <2>4, <3>1, <3>2
  <2> QED BY <1>1, <2>2, <2>3, <2>4 DEF Mails, MailStays, Grants
<1> QED BY <1>5, <1>6, <1>7 DEF MailIsSent


LEMMA HolderSits ==
    ASSUME PeaceInv, NEW h \in Devices, rel[h] # "idle", Holds(h)
    PROVE  IsHeldHere(h)
<1>1. CASE HeldBy(host, h)
  <2>1. ~InFlight(h, "take")
    BY PeaceTyped DEF KnowsOwn, OneAtATime, Moving
  <2>2. Answered(h, "check") => IsHeldHere(h)
    BY PeaceTyped DEF KnowsOwn, NewsIsRecent
  <2> QED BY <1>1, <2>1, <2>2, PeaceTyped DEF KnowsOwn, HolderKnows, Answered, InFlight
<1> QED BY <1>1 DEF Holds

\* A release under way ends in the record it writes, or in one already written.
LEMMA ReleaseGoesOn ==
    ASSUME Peace, PeaceInv, NEW d \in Devices, StepOf(d), rel[d] # "idle", Holds(d)
    PROVE  rel'[d] # "idle"
<1>1. TypeOK /\ IsHeldHere(d) /\ NewsIsRecent(d) /\ Beaten(d) /\ "release" \in Operations
  BY PeaceTyped, HolderSits DEF PeaceInv, KnowsOwn
<1>2. CASE ReleaseDrains(d) \/ ReleaseFlushes(d)
  BY <1>1, <1>2 DEF ReleaseDrains, ReleaseFlushes, TypeOK
<1>3. ~ReleaseFlushFails(d)
  BY PeacefulKinds DEF ReleaseFlushFails
<1>4. ASSUME Told(d, "release") PROVE ~HeldBy(host, d) \/ HeldBy(Heard(d, "release"), d)
  BY <1>1, <1>4 DEF NewsIsRecent, HeldBy
<1>5. ~ReleaseOvertaken(d)
  <2>1. SUFFICES ASSUME ReleaseOvertaken(d) PROVE FALSE
    OBVIOUS
  <2>2. /\ Told(d, "release") /\ Heard(d, "release") # Absent
        /\ ~HeldBy(Heard(d, "release"), d)
    BY <2>1 DEF ReleaseOvertaken, At, Told, Heard
  <2> QED BY <1>1, <1>4, <2>2, NothingHeard DEF Holds
<1>6. ~ReleaseWritten(d)
  <2>1. SUFFICES ASSUME ReleaseWritten(d) PROVE FALSE
    OBVIOUS
  <2>2. Answered(d, "release") /\ Told(d, "release")
    BY <2>1 DEF ReleaseWritten, Replied, At, Answered, Told
  <2>3. Heard(d, "release").state = "released"
    BY <1>1, <2>2 DEF NewsIsRecent
  <2> QED BY <1>1, <1>4, <2>2, <2>3, NothingHeard DEF Holds, HeldBy, Absent, Record
<1>7. ~ReleaseGivesUp(d)
  <2>1. SUFFICES ASSUME ReleaseGivesUp(d) PROVE FALSE
    OBVIOUS
  <2>2. io[d]["release"].pc = "replied" /\ io[d]["release"].out # "written"
    BY <2>1 DEF ReleaseGivesUp, Replied, At
  <2> QED BY <1>1, <2>2 DEF Beaten, Holds, HeldBy
<1>8. CASE rel' = rel
  BY <1>8
<1>9. CASE Serves(d)
  BY <1>9 DEF Serves
<1>10. CASE (\E op \in Operations : HostReads(d, op)) \/ CheckStep(d) \/ CheckStarts(d)
  BY <1>8, <1>10 DEF HostReads, CheckStep, CheckStarts, CheckReconciles, CheckPublishes,
     CheckPublished, CheckRetries, CheckIncomplete, CheckCompletes, CheckEnds
<1>11. CASE MoveStep(d) \/ MoveStarts(d) \/ TakeStep(d)
  BY <1>8, <1>11 DEF MoveStep, MoveStarts, MoveReads, MoveRequests, MoveAccepted, MoveWatches,
     AnswerLapses, ReleaseLapses, Arrives, TakeStep, TakeFindsOwn, TakeRefused, TakeWrites,
     TakeWritten, TakeRetries, TakeUnavailable, Taken
<1>12. CASE ReleaseStep(d)
  BY <1>2, <1>3, <1>5, <1>6, <1>7, <1>8, <1>12 DEF ReleaseStep, ReleaseWrites, ReleaseRetries
<1>13. CASE SpendStep(d) \/ SpendStarts(d) \/ Sleeps(d) \/ Wakes(d)
  BY <1>8, <1>13 DEF SpendStep, SpendStarts, SpendFresh, SpendChecks, SpendChecked, Signs,
     Sleeps, Wakes
<1>14. ~Restarts(d)
  BY PeacefulKinds DEF Restarts
<1> QED BY <1>9, <1>10, <1>11, <1>12, <1>13, <1>14 DEF StepOf, DeviceStep

LEMMA StillReleasing ==
    ASSUME Peace, PeaceInv, TypeOK', NEW d \in Devices, NEW op \in Operations, Turn(d, op),
           StepOf(d), SameRecord, NEW h \in Devices, rel[h] # "idle", Holds(h)
    PROVE  rel'[h] # "idle" /\ Holds(h)'
<1>1. rel'[h] # "idle"
  BY ReleaseGoesOn DEF Turn, OthersKeep
<1>2. Holds(h)'
  <2>1. CASE HeldBy(host, h)
    BY <2>1 DEF Holds, SameRecord
  <2>2. CASE host = Absent /\ IsHeldHere(h)
    <3>1. ~LetsGo(d, op)
      BY <2>2, NothingHeard DEF LetsGo
    <3>2. CASE local'[h] = local[h]
      BY <2>2, <3>2 DEF Holds, IsHeldHere, SameRecord
    <3>3. CASE h = d /\ TakesUp(d, op)
      BY <2>2, <3>3 DEF TakesUp, Holds, IsHeldHere, SameRecord, Here
    <3> QED BY <3>1, <3>2, <3>3
               DEF Turn, OthersKeep, Passes, SameHere, Begins, Reads, Writes, Drops
  <2> QED BY <2>1, <2>2 DEF Holds
<1> QED BY <1>1, <1>2

\* An install grants a request made on the record it holds.
LEMMA GrantIsCurrent ==
    ASSUME PeaceInv, NEW h \in Devices, IsHeldHere(h)
    PROVE  local[h].seq = host.seq => Holds(h)
<1>1. HInv /\ local[h].seq \in Nat /\ TypeOK /\ (host # Absent => host.seq > 0)
  BY PeaceTyped DEF PeaceInv, NewsInv, TypeOK, Holdings, Unborn
<1>2. CASE host = Absent
  BY <1>2 DEF Holds
<1>3. CASE host # Absent /\ local[h].seq = host.seq
  <2>1. Record("held", h, local[h].seq) \in published
    BY <1>1, <1>3 DEF HInv, HeldIsPublished
  <2>2. host \in published /\ \A r, q \in published : r.seq = q.seq => r = q
    BY <1>1, <1>3 DEF HInv, Lineage
  <2>3. host = Record("held", h, local[h].seq)
    BY <1>3, <2>1, <2>2 DEF Record
  <2> QED BY <2>3 DEF Holds, HeldBy, Record
<1> QED BY <1>2, <1>3

LEMMA TurnAccepted ==
    ASSUME Peace, PeaceInv, TypeOK', NEW d \in Devices, NEW op \in Operations, Turn(d, op),
           Mails(d), StepOf(d)
    PROVE  AcceptedIsReleased'
<1>1. /\ TypeOK /\ OnlyContenders /\ MailIsSent
      /\ \A e \in Devices : e # d => mv'[e] = mv[e] /\ moves'[e] = moves[e]
  BY PeaceTyped DEF PeaceInv, Turn, OthersKeep, Mails
<1> SUFFICES ASSUME NEW e \in Devices, Accepted(e)'
             PROVE  \/ host'.seq > mv'[e].seq
                    \/ \E h \in Contenders \ {e} : rel'[h] # "idle" /\ Holds(h)'
  BY DEF AcceptedIsReleased
<1>2. /\ host.seq \in Nat /\ host'.seq \in Nat /\ mv[e].seq \in Nat
      /\ SameRecord \/ host'.seq > host.seq
  BY <1>1, RecordRises, MailShape
<1>3. ASSUME Accepted(e), mv'[e].seq = mv[e].seq
      PROVE  \/ host'.seq > mv'[e].seq
             \/ \E h \in Contenders \ {e} : rel'[h] # "idle" /\ Holds(h)'
  <2>1. mv[e].seq <= host.seq
    BY <1>1, <1>3 DEF MailIsSent, Accepted
  <2>2. CASE host'.seq > host.seq
    BY <1>2, <1>3, <2>1, <2>2
  <2>3. CASE SameRecord /\ host.seq > mv[e].seq
    BY <1>3, <2>3 DEF SameRecord
  <2>4. CASE SameRecord /\ \E h \in Contenders \ {e} : rel[h] # "idle" /\ Holds(h)
    <3>1. PICK h \in Contenders \ {e} : rel[h] # "idle" /\ Holds(h)
      BY <2>4
    <3>2. h \in Devices
      BY <3>1, HoldingAssumption DEF Contenders
    <3> QED BY <2>4, <3>1, <3>2, StillReleasing
  <2> QED BY <1>2, <1>3, <2>2, <2>3, <2>4 DEF PeaceInv, AcceptedIsReleased
<1>4. CASE Accepted(e) /\ mv'[e].seq = mv[e].seq
  BY <1>3, <1>4
<1>5. CASE /\ e # d /\ Grants(d) /\ mv[e].pc = "awaitingAccept"
           /\ [to |-> e, nonce |-> Nonce(e)] \notin accepts
           /\ [to |-> e, nonce |-> Nonce(e)] \in accepts'
  <2>1. PICK r \in requests : /\ r.seq = local[d].seq /\ r.from = e /\ r.nonce = Nonce(e)
    BY <1>5 DEF Grants
  <2>2. mv[e].seq = local[d].seq /\ mv'[e] = mv[e]
    BY <1>1, <1>5, <2>1 DEF MailIsSent
  <2>3. IsHeldHere(d) /\ rel'[d] # "idle" /\ SameRecord /\ d \in Contenders
    BY <1>1, <1>5 DEF Grants, OnlyContenders
  <2>4. local[d].seq <= host.seq /\ local[d].seq \in Nat
    BY <1>1, PeaceTyped DEF KnowsOwn, NewsIsRecent, TypeOK, Holdings
  <2>5. CASE local[d].seq < host.seq
    BY <2>2, <2>3, <2>5 DEF SameRecord
  <2>6. CASE local[d].seq = host.seq
    <3>1. Holds(d)
      BY <2>3, <2>6, GrantIsCurrent
    <3>2. IsHeldHere(d)'
      <4>1. CASE HeldBy(host, d)
        BY <2>3, <4>1, HolderStaysHere
      <4>2. CASE host = Absent
        <5>1. ~LetsGo(d, op)
          BY <4>2, NothingHeard DEF LetsGo
        <5>2. CASE local'[d] = local[d]
          BY <2>3, <5>2 DEF IsHeldHere
        <5>3. CASE TakesUp(d, op)
          BY <5>3 DEF TakesUp, IsHeldHere, Here
        <5> QED BY <5>1, <5>2, <5>3
                   DEF Turn, Passes, SameHere, Begins, Reads, Writes, Drops
      <4> QED BY <3>1, <4>1, <4>2 DEF Holds
    <3>3. Holds(d)'
      BY <2>3, <3>1, <3>2 DEF Holds, SameRecord
    <3> QED BY <1>5, <2>3, <3>3
  <2> QED BY <1>2, <2>4, <2>5, <2>6
<1>6. CASE e # d
  <2>1. mv'[e] = mv[e] /\ Nonce(e)' = Nonce(e)
    BY <1>1, <1>6 DEF Nonce
  <2>2. CASE Accepted(e)
    BY <1>4, <2>1, <2>2
  <2>3. CASE ~Accepted(e)
    <3>1. /\ mv[e].pc = "awaitingAccept" /\ [to |-> e, nonce |-> Nonce(e)] \notin accepts
          /\ [to |-> e, nonce |-> Nonce(e)] \in accepts'
      BY <2>1, <2>3 DEF Accepted
    <3>2. Grants(d)
      BY <3>1 DEF Mails, MailStays, Advances, Sends, IsAccepted
    <3> QED BY <1>5, <1>6, <3>1, <3>2
  <2> QED BY <2>2, <2>3
<1>7. CASE e = d
  <2>1. CASE MailStays(d) \/ Grants(d)
    <3>1. mv'[d] = mv[d] /\ Nonce(d)' = Nonce(d)
      BY <2>1 DEF MailStays, Grants, Nonce
    <3>2. [to |-> d, nonce |-> Nonce(d)] \in accepts' => [to |-> d, nonce |-> Nonce(d)] \in accepts
      BY <2>1 DEF MailStays, Grants
    <3> QED BY <1>4, <1>7, <3>1, <3>2 DEF Accepted
  <2>2. CASE Advances(d)
    BY <1>7, <2>2 DEF Advances, Accepted
  <2>3. CASE Sends(d)
    <3>1. mv'[d].pc = "awaitingAccept" /\ mv'[d].restarts = mv[d].restarts /\ moves'[d] = moves[d]
      BY <1>1, <2>3, MailShape DEF Sends
    <3>2. Nonce(d)' = Nonce(d)
      BY <3>1 DEF Nonce
    <3>3. [to |-> d, nonce |-> Nonce(d)] \in accepts
      BY <1>7, <2>3, <3>1, <3>2 DEF Accepted, Sends
    <3>4. Used(d, Nonce(d))
      BY <1>1, <3>3 DEF MailIsSent
    <3> QED BY <1>1, <2>3, <3>4, MailShape DEF Used, Sends
  <2>4. CASE IsAccepted(d)
    <3>1. Accepted(d) /\ mv'[d].seq = mv[d].seq
      BY <1>1, <2>4, MailShape DEF IsAccepted
    <3> QED BY <1>4, <1>7, <3>1
  <2> QED BY <2>1, <2>2, <2>3, <2>4 DEF Mails
<1> QED BY <1>6, <1>7


\* Had anybody been up who holds the account, the request would have been heard.
LEMMA AnswerLapsesOverAsleep ==
    ASSUME Peace, PeaceInv, NEW d \in Devices, AnswerLapses(d)
    PROVE  \E h \in Contenders \ {d} : h \in asleep
<1>1. /\ TypeOK /\ OneAtATime(d) /\ mv[d].pc = "awaitingAccept"
      /\ NoNews(d) /\ ~\E h \in Devices \ {d} : Answers(h)
  BY PeaceTyped DEF KnowsOwn, AnswerLapses
<1>2. ASSUME NEW h \in Devices, h # d, h \in Contenders,
             IsHeldHere(h) \/ io[h]["take"].out = "written"
      PROVE  h \in asleep
  <2>1. ~Answers(h)
    BY <1>1, <1>2
  <2> QED BY <1>2, <2>1, PeacefulKinds DEF Answers, Awake
<1>3. CASE host = Absent
  <2>1. PICK u \in Upgrading : IsHeldHere(u) /\ u \in Devices
    BY <1>3, HoldingAssumption DEF Peace, PeaceInv, Unborn
  <2>2. ~IsHeldHere(d)
    BY <1>1 DEF OneAtATime, Moving
  <2>3. u # d /\ u \in Contenders
    BY <2>1, <2>2 DEF Contenders
  <2> QED BY <1>2, <2>1, <2>3
<1>4. CASE host # Absent
  <2>1. host.state = "held" /\ host.device \in Devices /\ host.device # d
    <3>1. host.state \in {"absent", "held", "released"}
      BY <1>1 DEF TypeOK, Records
    <3>2. host.state # "absent" /\ host.device \in Devices
      BY <1>4 DEF PeaceInv, Unborn, NewsInv, RecordIsNamed
    <3> QED BY <1>1, <3>1, <3>2 DEF NoNews, Movable, HeldBy
  <2> DEFINE h == host.device
  <2>2. HeldBy(host, h) /\ h \in Contenders
    BY <2>1 DEF HeldBy, PeaceInv, OnlyContenders
  <2>3. HolderKnows(h) /\ NewsIsRecent(h)
    BY <2>1, PeaceTyped DEF KnowsOwn
  <2>4. IsHeldHere(h) \/ io[h]["take"].out = "written"
    BY <2>2, <2>3 DEF HolderKnows, NewsIsRecent, Answered
  <2> QED BY <1>2, <2>1, <2>2, <2>4
<1> QED BY <1>3, <1>4

\* Had the release been going on, or the record moved, the move would know.
LEMMA ReleaseLapsesOverAsleep ==
    ASSUME Peace, PeaceInv, NEW d \in Devices, ReleaseLapses(d)
    PROVE  \E h \in Contenders \ {d} : h \in asleep
<1>1. /\ TypeOK /\ Accepted(d) /\ NoNews(d)
      /\ ~\E h \in Devices \ {d} : rel[h] # "idle" /\ Awake(h) /\ ~Suffers("slow", h)
      /\ host.seq \in Nat /\ mv[d].seq \in Nat
  BY PeaceTyped, MailShape DEF ReleaseLapses, Accepted, TypeOK, Records
<1>2. ~(host.seq > mv[d].seq)
  <2>1. SUFFICES ASSUME host.seq > mv[d].seq PROVE FALSE
    OBVIOUS
  <2>2. host # Absent
    BY <1>1, <2>1 DEF Absent, Record
  <2>3. host.state \in {"held", "released"}
    BY <1>1, <2>2 DEF PeaceInv, Unborn, TypeOK, Records
  <2> QED BY <1>1, <2>1, <2>3 DEF NoNews, Movable, Overtaken
<1>3. PICK h \in Contenders \ {d} : rel[h] # "idle"
  BY <1>1, <1>2 DEF PeaceInv, AcceptedIsReleased
<1>4. h \in Devices
  BY HoldingAssumption DEF Contenders
<1>5. h \in asleep
  BY <1>1, <1>3, <1>4, PeacefulKinds DEF Awake
<1> QED BY <1>3, <1>5

LEMMA TurnForced ==
    ASSUME Peace, PeaceInv, NEW d \in Devices, NEW op \in Operations, Turn(d, op),
           Mails(d), Attends(d)
    PROVE  ForcedOverAsleep'
<1>1. /\ \A h \in asleep : Suffers("sleep", h)
      /\ \A e \in Devices : Forced(e) => \E h \in Contenders \ {e} : h \in asleep
  BY DEF PeaceInv, ForcedOverAsleep
<1>2. /\ asleep \ {d} \subseteq asleep'
      /\ asleep \subseteq asleep' \/ (Rises(d) /\ asleep' = asleep \ {d})
      /\ \A h \in asleep' : Suffers("sleep", h)
  BY <1>1 DEF Attends, Keeps, StartsCheck, Attending, ChecksOut, Dozes, Rises
<1>3. ASSUME NEW e \in Devices, Forced(e)'
      PROVE  \E h \in Contenders \ {e} : h \in asleep'
  <2>1. CASE e # d
    <3>1. Forced(e)
      BY <1>3, <2>1 DEF Turn, OthersKeep, Forced
    <3>2. ~Rises(d)
      BY <2>1, <3>1 DEF Rises, ForcedTakeInFlight
    <3> QED BY <1>1, <1>2, <3>1, <3>2
  <2>2. CASE e = d
    <3>1. \E h \in Contenders \ {d} : h \in asleep
      <4>1. CASE Forced(d)
        BY <1>1, <4>1
      <4>2. CASE Advances(d)
        <5>1. AnswerLapses(d) \/ ReleaseLapses(d)
          BY <1>3, <2>2, <4>2 DEF Advances, Forced
        <5> QED BY <5>1, AnswerLapsesOverAsleep, ReleaseLapsesOverAsleep
      <4>3. CASE MailStays(d) \/ Grants(d)
        BY <1>3, <2>2, <4>1, <4>3 DEF MailStays, Grants, Forced
      <4>4. CASE Sends(d) \/ IsAccepted(d)
        <5>1. mv'[d].pc # "forcing"
          BY <4>4, PeaceTyped, MailShape DEF Sends, IsAccepted
        <5> QED BY <1>3, <2>2, <5>1 DEF Forced
      <4> QED BY <4>2, <4>3, <4>4 DEF Mails
    <3> QED BY <1>2, <2>2, <3>1
  <2> QED BY <2>1, <2>2
<1> QED BY <1>2, <1>3 DEF ForcedOverAsleep

LEMMA StepTakeover ==
    ASSUME PeaceInv, NEW d \in Devices, StepOf(d)
    PROVE  NoTakeover'
<1>1. TypeOK /\ NoTakeover
  BY PeaceTyped DEF PeaceInv
<1>2. takeover' \in {takeover, [takeover EXCEPT ![d] = FALSE]}
  <2>1. CASE \E op \in Operations : HostReads(d, op)
    BY <2>1 DEF HostReads, deviceVars
  <2>2. CASE CheckStep(d) \/ CheckStarts(d)
    BY <2>2 DEF CheckStep, CheckStarts, CheckReconciles, CheckPublishes, CheckPublished,
       CheckRetries, CheckIncomplete, CheckCompletes, deviceVars
  <2>3. CASE MoveStep(d) \/ MoveStarts(d)
    BY <2>3 DEF MoveStep, MoveStarts, MoveReads, MoveRequests, MoveAccepted, MoveWatches,
       AnswerLapses, ReleaseLapses, Arrives, deviceVars
  <2>4. CASE TakeStep(d)
    BY <2>4 DEF TakeStep, TakeFindsOwn, TakeRefused, TakeWrites, TakeWritten, TakeRetries,
       TakeUnavailable, Taken, deviceVars
  <2>5. CASE ReleaseStep(d) \/ Serves(d)
    BY <2>5 DEF ReleaseStep, ReleaseDrains, ReleaseFlushes, ReleaseFlushFails,
       ReleaseOvertaken, ReleaseWrites, ReleaseWritten, ReleaseRetries, ReleaseGivesUp,
       ReleaseEnds, Serves, deviceVars
  <2>6. CASE SpendStep(d) \/ SpendStarts(d) \/ Sleeps(d) \/ Wakes(d) \/ Restarts(d)
    BY <2>6 DEF SpendStep, SpendStarts, SpendFresh, SpendChecks, SpendChecked, Signs,
       Sleeps, Wakes, Restarts, deviceVars
  <2> QED BY <2>1, <2>2, <2>3, <2>4, <2>5, <2>6 DEF StepOf, DeviceStep
<1> QED BY <1>1, <1>2 DEF NoTakeover, TypeOK

LEMMA InitPeace == ASSUME Peace, Init PROVE PeaceInv
<1>1. /\ NewsInv /\ host = Absent /\ published = {} /\ requests = {} /\ accepts = {}
      /\ asleep = {}
      /\ local = [d \in Devices |-> IF d \in Upgrading \cup Replacing
                                    THEN Here(0) ELSE Elsewhere(0, None)]
      /\ takeover = [d \in Devices |-> d \in Replacing]
      /\ \A d \in Devices : /\ mv[d] = Still /\ ~fresh[d] /\ ~clean[d] /\ spend[d] = "idle"
                            /\ \A op \in Operations : io[d][op] = Resting
  BY InitNews DEF Init
<1>2. \A d \in Devices : ~takeover[d] /\ (IsHeldHere(d) <=> d \in Upgrading)
  BY <1>1 DEF Peace, IsHeldHere, Here, Elsewhere
<1>3. \A d \in Devices : mv[d].pc = "idle" /\ ~Accepted(d) /\ ~Forced(d)
  BY <1>1 DEF Still, Accepted, Forced
<1>4. \A d \in Devices, op \in Operations :
         io[d][op].pc = "idle" /\ ~InFlight(d, op) /\ ~Answered(d, op)
  BY <1>1 DEF Resting, InFlight, Answered
<1>5. \A d \in Devices : ~HeldBy(host, d) /\ "check" \in Operations
  BY <1>1 DEF HeldBy, Absent, Record, Operations
<1>6. OnlyContenders /\ NoTakeover
  BY <1>2, <1>3, <1>5 DEF OnlyContenders, NoTakeover, Contenders
<1>7. Unborn
  BY <1>1, <1>2, <1>4, HoldingAssumption DEF Unborn
<1>8. \A d \in Devices : Beaten(d) /\ CheckTries(d)
  BY <1>4, <1>5 DEF Beaten, CheckTries
<1>9. MailIsSent /\ AcceptedIsReleased /\ ForcedOverAsleep
  BY <1>1, <1>3 DEF MailIsSent, AcceptedIsReleased, ForcedOverAsleep
<1>10. \A d \in Devices : SpendsAwake(d) /\ FreshKnows(d)
  BY <1>1 DEF SpendsAwake, FreshKnows
<1> QED BY <1>1, <1>6, <1>7, <1>8, <1>9, <1>10 DEF PeaceInv

LEMMA NextPeace == ASSUME Peace, PeaceInv, [Next]_vars PROVE PeaceInv'
<1>1. NewsInv' /\ TypeOK' /\ TypeOK
  BY PeaceCounts, NextNews, PeaceTyped DEF PeaceInv, NewsInv, HInv
<1>2. ASSUME NEW d \in Devices, StepOf(d) PROVE PeaceInv'
  <2>1. PICK op \in Operations : Turn(d, op)
    <3>1. Own(d)
      BY <1>1, <1>2, PeaceTyped, PeaceCounts, StepsOwn DEF StepOf
    <3> QED BY <3>1 DEF Own
  <2>2. Attends(d) /\ Spends(d) /\ Mails(d)
    BY <1>2, StepAttends, StepSpends, StepMails
  <2>3. NoTakeover' /\ OnlyContenders' /\ Unborn'
    BY <1>1, <1>2, <2>1, <2>2, StepTakeover, TurnContenders, TurnUnborn
  <2>4. \A e \in Devices : Beaten(e)' /\ CheckTries(e)'
    BY <1>1, <2>1, TurnBeaten, TurnTries
  <2>5. MailIsSent' /\ AcceptedIsReleased' /\ ForcedOverAsleep'
    BY <1>1, <1>2, <2>1, <2>2, TurnMail, TurnAccepted, TurnForced
  <2>6. \A e \in Devices : SpendsAwake(e)' /\ FreshKnows(e)'
    <3>1. SpendsAwake(d)' /\ FreshKnows(d)'
      BY <2>1, <2>2, OwnSpends, OwnFresh
    <3>2. \A e \in Devices : e # d => SpendsAwake(e)' /\ FreshKnows(e)'
      BY <2>1, <2>2, OthersSpend, OthersFresh
    <3> QED BY <3>1, <3>2
  <2> QED BY <1>1, <2>3, <2>4, <2>5, <2>6 DEF PeaceInv
<1>3. CASE UNCHANGED vars
  <2>1. /\ host' = host /\ published' = published /\ local' = local /\ takeover' = takeover
        /\ io' = io /\ fresh' = fresh /\ clean' = clean /\ asleep' = asleep /\ mv' = mv
        /\ moves' = moves /\ requests' = requests /\ accepts' = accepts /\ rel' = rel
        /\ spend' = spend
    BY <1>3 DEF vars, recordVars, deviceVars, gapVars, moveVars, mailVars
  <2>2. NoTakeover' /\ OnlyContenders' /\ Unborn'
    BY <2>1 DEF PeaceInv, NoTakeover, OnlyContenders, Unborn, IsHeldHere, Answered
  <2>3. \A e \in Devices : Beaten(e)' /\ CheckTries(e)'
    BY <2>1 DEF PeaceInv, Beaten, CheckTries, InFlight, Heard
  <2>4. \A e \in Devices : /\ Nonce(e)' = Nonce(e) /\ Accepted(e)' = Accepted(e)
                           /\ Holds(e)' = Holds(e) /\ Forced(e)' = Forced(e)
                           /\ \A n \in Nonces : Used(e, n)' = Used(e, n)
    BY <2>1 DEF Nonce, Accepted, Holds, Forced, Used, IsHeldHere
  <2>5. MailIsSent'
    <3>1. /\ \A r \in requests : r.from \in Devices /\ r.nonce \in Nonces
          /\ \A a \in accepts : a.to \in Devices /\ a.nonce \in Nonces
      BY <1>1 DEF TypeOK
    <3> QED BY <2>1, <2>4, <3>1 DEF PeaceInv, MailIsSent
  <2>6. AcceptedIsReleased' /\ ForcedOverAsleep'
    <3>1. Contenders \subseteq Devices
      BY HoldingAssumption DEF Contenders
    <3> QED BY <2>1, <2>4, <3>1 DEF PeaceInv, AcceptedIsReleased, ForcedOverAsleep
  <2>7. \A e \in Devices : SpendsAwake(e)' /\ FreshKnows(e)'
    BY <2>1 DEF PeaceInv, SpendsAwake, FreshKnows, Awake, InFlight, Answered, IsHeldHere, Heard
  <2> QED BY <1>1, <2>2, <2>3, <2>5, <2>6, <2>7 DEF PeaceInv
<1> QED BY <1>2, <1>3 DEF Next, StepOf

\* In peace a move takes by force only over an install that sleeps, and whoever is
\* up and fresh holds the account exactly while the record says so.
THEOREM PeaceHolds == ASSUME Peace PROVE Spec => []PeaceInv
<1>1. PeaceInv /\ [Next]_vars => PeaceInv'
  BY NextPeace
<1>2. Init => PeaceInv
  BY InitPeace
<1> QED BY <1>1, <1>2, PTL DEF Spec

\* In peace a spend that passed the holding checks of runExclusiveSpend runs on the
\* install the record names until it signs, however the account moves meanwhile.
THEOREM ClearedHolder == ASSUME Peace PROVE Spec => []ClearedIsHolder
<1>1. PeaceInv => ClearedIsHolder
  BY ClearedHolds DEF ClearedIsHolder
<1> QED BY <1>1, PeaceHolds, PTL

----------------------------------------------------------------------------
(* What whoever signs has merged, when nothing goes wrong at all. *)

\* Nothing fails, and one install brings the account under the record.
Calm ==
    /\ Faults = {} /\ Replacing = {} /\ MaxConflicts > 0
    /\ \E u \in Devices : Upgrading = {u}

\* Who lists the account is its holder, brings it, or has just released it.
HolderIsListed(d) ==
    /\ IsHeldHere(d) =>
          \/ HeldBy(host, d)
          \/ host = Absent /\ d \in Upgrading
          \/ Answered(d, "release")
    /\ Answered(d, "take") => HeldBy(host, d)

SpendsHere(d) == spend[d] # "idle" => IsHeldHere(d) /\ mv[d].pc # "arriving"

AllSigned == 1..signed

\* The backup and the holder have every spend between them: the backup alone
\* once the record reads released, the holder once it has arrived.
HistoryIsKept ==
    /\ backup \subseteq AllSigned /\ \A d \in Devices : known[d] \subseteq AllSigned
    /\ host = Absent => signed = 0
    /\ host.state = "released" => AllSigned \subseteq backup
    /\ \A d \in Devices : HeldBy(host, d) =>
          /\ AllSigned \subseteq backup \cup known[d]
          /\ IsHeldHere(d) /\ mv[d].pc # "arriving" => AllSigned \subseteq known[d]

CalmInv ==
    /\ PeaceInv /\ HistoryIsKept
    /\ \A d \in Devices : HolderIsListed(d) /\ SpendsHere(d)

LEMMA CalmIsPeace == Calm => Peace
BY DEF Calm, Peace, Suffers

\* With nobody asleep, nothing is taken by force.
LEMMA NoneForces ==
    ASSUME Calm, PeaceInv, NEW d \in Devices
    PROVE  ~Forced(d) /\ \A kind : ~Suffers(kind, d)
<1>1. \A h \in Devices : \A kind : ~Suffers(kind, h)
  BY DEF Calm, Suffers
<1>2. asleep \subseteq Devices
  BY PeaceTyped DEF TypeOK
<1>3. asleep = {}
  BY <1>1, <1>2 DEF PeaceInv, ForcedOverAsleep
<1> QED BY <1>1, <1>3 DEF PeaceInv, ForcedOverAsleep

\* The three writes of the record there are.
FirstPublished(d) == host = Absent /\ IsHeldHere(d) /\ host'.state = "held"
TakenReleased(d) == host.state = "released" /\ ~IsHeldHere(d) /\ host'.state = "held"
GivenUp(d) ==
    /\ host = Absent \/ HeldBy(host, d)
    /\ IsHeldHere(d) /\ host'.state = "released"
    /\ known[d] \subseteq backup /\ spend[d] = "idle"

LEMMA CalmWrites ==
    ASSUME Calm, PeaceInv, NEW d \in Devices, NEW op \in Operations, Turn(d, op)
    PROVE  \/ SameRecord
           \/ /\ host'.device = d /\ local'[d] = local[d]
              /\ InFlight(d, op) /\ Answered(d, op)'
              /\ \/ op = "check" /\ FirstPublished(d)
                 \/ op = "take" /\ TakenReleased(d)
                 \/ op = "release" /\ GivenUp(d)
<1>1. KnowsOwn(d) /\ ~Forced(d) /\ ~takeover[d]
  BY PeaceTyped, NoneForces DEF PeaceInv, NoTakeover
<1>2. CASE ~Writes(d, op)
  BY <1>2 DEF Turn, Passes, SameHere, Begins, Reads, Drops, TakesUp, LetsGo
<1>3. CASE Writes(d, op) /\ ~SameRecord
  <2>1. /\ host'.device = d /\ local'[d] = local[d] /\ host = Heard(d, op)
        /\ InFlight(d, op) /\ Answered(d, op)' /\ MayWrite(d, op)
        /\ host'.state = IF op = "release" THEN "released" ELSE "held"
    BY <1>3 DEF Writes, InFlight, Answered
  <2>2. CASE op = "check"
    BY <1>1, <2>1, <2>2 DEF MayWrite, FirstPublished
  <2>3. CASE op = "take"
    <3>1. ~IsHeldHere(d)
      BY <1>1, <2>1, <2>3 DEF KnowsOwn, OneAtATime, Moving
    <3> QED BY <1>1, <2>1, <2>3, <3>1 DEF MayWrite, TakenReleased
  <2>4. CASE op = "release"
    <3>1. IsHeldHere(d) /\ rel[d] = "writing"
      BY <1>1, <2>1, <2>4 DEF KnowsOwn, OneAtATime
    <3>2. known[d] \subseteq backup /\ spend[d] = "idle"
      BY <1>1, <3>1 DEF KnowsOwn, FlushedFirst
    <3> QED BY <2>1, <2>4, <3>1, <3>2 DEF MayWrite, GivenUp
  <2> QED BY <2>1, <2>2, <2>3, <2>4 DEF Operations
<1> QED BY <1>2, <1>3

\* An install comes to list the account by a take alone.
LEMMA OnlyTakesList ==
    ASSUME PeaceInv, NEW d \in Devices, NEW op \in Operations, TakesUp(d, op)
    PROVE  IF op = "check" THEN IsHeldHere(d)
           ELSE op = "take" /\ ~IsHeldHere(d) /\ Answered(d, "take")
<1>1. KnowsOwn(d) /\ Told(d, op) /\ HeldBy(Heard(d, op), d) /\ op # "release"
  BY PeaceTyped DEF TakesUp
<1>2. io[d][op].pc = "seen" => IsHeldHere(d)
  BY <1>1 DEF KnowsOwn, NewsIsRecent
<1>3. CASE op = "check"
  BY <1>1, <1>2, <1>3 DEF KnowsOwn, NewsIsRecent, Told
<1>4. CASE op = "take"
  <2>1. ~IsHeldHere(d)
    BY <1>1, <1>4 DEF KnowsOwn, OneAtATime, Told, InFlight, Answered, Moving
  <2> QED BY <1>1, <1>2, <1>4, <2>1 DEF Told
<1> QED BY <1>1, <1>3, <1>4 DEF Operations


LEMMA OwnListed ==
    ASSUME Calm, CalmInv, NEW d \in Devices, NEW op \in Operations, Turn(d, op)
    PROVE  HolderIsListed(d)'
<1>1. /\ PeaceInv /\ HolderIsListed(d)
      /\ "check" \in Operations /\ "take" \in Operations /\ "release" \in Operations
      /\ \A o \in Operations \ {op} : io'[d][o] = io[d][o]
  BY PeaceTyped DEF CalmInv, Turn, OnlyAt
<1>2. \A o \in Operations : o # op => Answered(d, o)' = Answered(d, o)
  BY <1>1 DEF Answered
<1>3. \A o \in Operations : InFlight(d, op) /\ Answered(d, o) => o = op
  BY <1>1, PeaceTyped DEF KnowsOwn, OneAtATime, InFlight, Answered
<1>4. CASE Passes(d) \/ Begins(d, op) \/ Reads(d, op) \/ Drops(d, op)
  <2>1. SameHere(d) /\ (Answered(d, op)' => Answered(d, op))
    BY <1>4, NoneForces, <1>1 DEF Passes, Begins, Reads, Drops, Answered
  <2>2. Answered(d, op) => Answered(d, op)'
    BY <1>4 DEF Passes, Begins, Reads, Drops, Answered
  <2>3. \A o \in Operations : Answered(d, o)' <=> Answered(d, o)
    BY <1>2, <2>1, <2>2
  <2> QED BY <1>1, <2>1, <2>3 DEF HolderIsListed, SameHere, SameRecord, IsHeldHere
<1>5. CASE Writes(d, op)
  <2>1. ~Answered(d, op) /\ local'[d] = local[d] /\ InFlight(d, op)
    BY <1>5 DEF Writes, Answered, InFlight
  <2>2. CASE SameRecord
    <3>1. host.seq \in Nat
      BY <1>1, PeaceTyped DEF TypeOK, Records
    <3>2. ~Answered(d, op)'
      BY <1>5, <2>2, <3>1 DEF Writes, SameRecord, Answered
    <3> QED BY <1>1, <1>2, <2>1, <2>2, <3>2 DEF HolderIsListed, SameRecord, IsHeldHere
  <2>3. CASE ~SameRecord
    <3>1. /\ host'.device = d /\ Answered(d, op)'
          /\ op = "release" \/ host'.state = "held"
      BY <1>1, <2>3, CalmWrites DEF FirstPublished, TakenReleased
    <3>2. op = "release" => ~Answered(d, "take")'
      BY <1>1, <1>2, <1>3, <2>1
    <3> QED BY <3>1, <3>2 DEF HolderIsListed, HeldBy
  <2> QED BY <2>2, <2>3
<1>6. CASE TakesUp(d, op)
  <2>1. SameRecord /\ op # "release" /\ InFlight(d, op) /\ ~Answered(d, op)'
    BY <1>6 DEF TakesUp, Told, InFlight, Answered
  <2>2. CASE op = "check"
    <3>1. IsHeldHere(d) /\ ~Answered(d, "release") /\ ~Answered(d, "take")'
      BY <1>1, <1>2, <1>3, <1>6, <2>1, <2>2, OnlyTakesList
    <3> QED BY <1>1, <2>1, <3>1 DEF HolderIsListed, SameRecord
  <2>3. CASE op = "take"
    <3>1. HeldBy(host, d)
      BY <1>1, <1>6, <2>3, OnlyTakesList DEF HolderIsListed
    <3> QED BY <2>1, <3>1 DEF HolderIsListed, SameRecord
  <2> QED BY <2>1, <2>2, <2>3 DEF Operations
<1>7. CASE LetsGo(d, op)
  <2>1. ~IsHeldHere(d)' /\ InFlight(d, op) /\ ~Answered(d, op)'
    BY <1>7 DEF LetsGo, IsHeldHere, Told, InFlight, Answered
  <2>2. ~Answered(d, "take")'
    BY <1>1, <1>2, <1>3, <2>1
  <2> QED BY <2>1, <2>2 DEF HolderIsListed
<1> QED BY <1>4, <1>5, <1>6, <1>7 DEF Turn

LEMMA OthersListed ==
    ASSUME Calm, CalmInv, NEW d \in Devices, NEW op \in Operations, Turn(d, op),
           NEW e \in Devices, e # d
    PROVE  HolderIsListed(e)'
<1>1. /\ PeaceInv /\ HolderIsListed(e) /\ HolderIsListed(d)
      /\ "take" \in Operations /\ "release" \in Operations
      /\ local'[e] = local[e] /\ \A o \in Operations : io'[e][o] = io[e][o]
  BY PeaceTyped DEF CalmInv, Turn, OthersKeep, OnlyAt
<1>2. /\ IsHeldHere(e)' = IsHeldHere(e)
      /\ \A o \in Operations : Answered(e, o)' = Answered(e, o)
  BY <1>1 DEF IsHeldHere, Answered
<1>3. CASE SameRecord
  BY <1>1, <1>2, <1>3 DEF HolderIsListed, SameRecord
<1>4. CASE ~SameRecord
  <2>1. FirstPublished(d) \/ TakenReleased(d) \/ GivenUp(d)
    BY <1>1, <1>4, CalmWrites
  <2>2. ~HeldBy(host, e)
    BY <2>1 DEF FirstPublished, TakenReleased, GivenUp, HeldBy, Absent, Record
  <2>3. ~(host = Absent /\ e \in Upgrading /\ IsHeldHere(e))
    <3>1. SUFFICES ASSUME host = Absent, e \in Upgrading PROVE FALSE
      OBVIOUS
    <3>2. IsHeldHere(d)
      BY <2>1, <3>1 DEF FirstPublished, TakenReleased, GivenUp, Absent, Record
    <3>3. ~HeldBy(host, d) /\ ~Answered(d, "release")
      BY <1>1, <3>1 DEF PeaceInv, Unborn, HeldBy, Absent, Record
    <3>4. d \in Upgrading
      BY <1>1, <3>2, <3>3 DEF HolderIsListed
    <3> QED BY <3>1, <3>4 DEF Calm
  <2> QED BY <1>1, <1>2, <2>2, <2>3 DEF HolderIsListed
<1> QED BY <1>3, <1>4

\* An install lists the account from the start of a spend to its end.
LEMMA SpenderStaysHere ==
    ASSUME Calm, CalmInv, NEW d \in Devices, NEW op \in Operations, Turn(d, op),
           spend[d] # "idle"
    PROVE  IsHeldHere(d)'
<1>1. PeaceInv /\ HolderIsListed(d) /\ IsHeldHere(d) /\ "release" \in Operations
  BY PeaceTyped DEF CalmInv, SpendsHere
<1>2. ~Answered(d, "release")
  BY <1>1, PeaceTyped DEF KnowsOwn, OneAtATime, FlushedFirst, Answered, InFlight
<1>3. CASE HeldBy(host, d)
  BY <1>1, <1>3, HolderStaysHere
<1>4. CASE host = Absent
  <2>1. ~LetsGo(d, op)
    BY <1>1, <1>4, NothingHeard DEF LetsGo
  <2>2. CASE local'[d] = local[d]
    BY <1>1, <2>2 DEF IsHeldHere
  <2>3. CASE TakesUp(d, op)
    BY <2>3 DEF TakesUp, IsHeldHere, Here
  <2> QED BY <2>1, <2>2, <2>3 DEF Turn, Passes, SameHere, Begins, Reads, Writes, Drops
<1> QED BY <1>1, <1>2, <1>3, <1>4 DEF HolderIsListed


Signing(d) ==
    /\ spend[d] = "cleared" /\ SameHere(d) /\ mv' = mv
    /\ signed' = signed + 1 /\ backup' = backup
    /\ known' = [known EXCEPT ![d] = @ \cup {signed + 1}]

Flushing(d) ==
    /\ SameHere(d) /\ mv' = mv /\ known' = known /\ signed' = signed
    /\ backup' = backup \cup known[d]

Merging(d) ==
    /\ SameHere(d) /\ backup' = backup /\ signed' = signed
    /\ known' = [known EXCEPT ![d] = @ \cup backup]

SameHistory == known' = known /\ backup' = backup /\ signed' = signed

\* The history grows by a signature, a flush or a merge; a take ends in its merge.
Histories(d) ==
    /\ SameHistory \/ Signing(d) \/ Flushing(d) \/ Merging(d)
    /\ mv[d].pc = "arriving" => mv'[d].pc = "arriving" \/ Merging(d)
    /\ mv'[d].pc = "arriving" => mv[d].pc = "arriving" \/ Moving(d)
    /\ IsHeldHere(d)' => IsHeldHere(d) \/ mv'[d].pc = "arriving"

\* A spend starts where the account is and nothing is left to merge.
Enters(d) ==
    spend'[d] # "idle" =>
        \/ spend[d] # "idle"
        \/ SameHere(d) /\ IsHeldHere(d) /\ mv' = mv /\ mv[d].pc # "arriving"

LEMMA StepEnters ==
    ASSUME Calm, CalmInv, NEW d \in Devices, StepOf(d)
    PROVE  Enters(d)
<1>1. PeaceInv /\ TypeOK /\ Spends(d) /\ ~Suffers("eager", d)
  BY CalmIsPeace, StepSpends, PeaceTyped, NoneForces DEF CalmInv
<1>2. CASE SpendStarts(d)
  BY <1>1, <1>2 DEF SpendStarts, Enters, Refused, SameHere, SameRecord, recordVars,
     deviceVars, moveVars
<1>3. CASE SpendStep(d)
  BY <1>3 DEF SpendStep, SpendFresh, SpendChecks, SpendChecked, Signs, Enters
<1>4. CASE ~(SpendStep(d) \/ SpendStarts(d))
  <2>1. CASE (\E op \in Operations : HostReads(d, op)) \/ CheckStep(d) \/ CheckStarts(d)
    BY <2>1 DEF HostReads, CheckStep, CheckStarts, CheckReconciles, CheckPublishes,
       CheckPublished, CheckRetries, CheckIncomplete, CheckCompletes, CheckEnds, Enters
  <2>2. CASE MoveStep(d) \/ MoveStarts(d)
    BY <2>2 DEF MoveStep, MoveStarts, MoveReads, MoveRequests, MoveAccepted, MoveWatches,
       AnswerLapses, ReleaseLapses, Arrives, Enters
  <2>3. CASE TakeStep(d)
    BY <2>3 DEF TakeStep, TakeFindsOwn, TakeRefused, TakeWrites, TakeWritten, TakeRetries,
       TakeUnavailable, Taken, Enters
  <2>4. CASE ReleaseStep(d) \/ Serves(d)
    BY <2>4 DEF ReleaseStep, ReleaseDrains, ReleaseFlushes, ReleaseFlushFails,
       ReleaseOvertaken, ReleaseWrites, ReleaseWritten, ReleaseRetries, ReleaseGivesUp,
       ReleaseEnds, Serves, Enters
  <2>5. CASE Sleeps(d) \/ Wakes(d) \/ Restarts(d)
    BY <1>1, <2>5, NoneForces DEF Sleeps, Wakes, Restarts, Enters
  <2> QED BY <1>4, <2>1, <2>2, <2>3, <2>4, <2>5 DEF StepOf, DeviceStep
<1> QED BY <1>2, <1>3, <1>4

LEMMA StayingHistories ==
    ASSUME NEW d \in Devices, mv'[d] = mv[d], IsHeldHere(d)' => IsHeldHere(d),
           SameHistory \/ Signing(d) \/ Flushing(d)
    PROVE  Histories(d)
BY DEF Histories

LEMMA MovingHistories ==
    ASSUME TypeOK, NEW d \in Devices, local' = local, SameHistory, mv[d].pc # "arriving",
           \/ mv'[d].pc # "arriving"
           \/ Moving(d)
    PROVE  Histories(d)
BY DEF Histories, IsHeldHere

LEMMA CheckHistories ==
    ASSUME PeaceInv, NEW d \in Devices,
           (\E op \in Operations : HostReads(d, op)) \/ CheckStep(d) \/ CheckStarts(d)
    PROVE  Histories(d)
<1>1. TypeOK /\ KnowsOwn(d) /\ local[d] \in Holdings
  BY PeaceTyped DEF TypeOK
<1>2. mv' = mv /\ SameHistory
  BY DEF HostReads, CheckStep, CheckStarts, CheckReconciles, CheckPublishes,
     CheckPublished, CheckRetries, CheckIncomplete, CheckCompletes, CheckEnds, moveVars,
     historyVars, SameHistory
<1>3. IsHeldHere(d)' => IsHeldHere(d)
  <2>1. CASE local' = local
    BY <2>1 DEF IsHeldHere
  <2>2. CASE CheckReconciles(d) /\ local' # local
    <3>1. io[d]["check"].pc = "seen"
      BY <2>2 DEF CheckReconciles, At
    <3>2. local'[d] = HoldingFromRecord(Heard(d, "check"), d)
      BY <1>1, <2>2 DEF CheckReconciles, Heard, TypeOK
    <3>3. IsHeldHere(d)' => HeldBy(Heard(d, "check"), d)
      BY <3>2 DEF HoldingFromRecord, IsHeldHere, Elsewhere
    <3> QED BY <1>1, <3>1, <3>3, PeaceTyped DEF KnowsOwn, NewsIsRecent
  <2>3. CASE CheckPublished(d)
    BY <1>1, <2>3 DEF CheckPublished, Replied, At, KnowsOwn, NewsIsRecent, Answered
  <2>4. CheckReconciles(d) \/ CheckPublished(d) \/ local' = local
    BY DEF HostReads, CheckStep, CheckStarts, CheckPublishes, CheckRetries,
       CheckIncomplete, deviceVars
  <2> QED BY <2>1, <2>2, <2>3, <2>4
<1> QED BY <1>2, <1>3, StayingHistories


LEMMA MoveHistories ==
    ASSUME PeaceInv, NEW d \in Devices, MoveTurn(d)
    PROVE  Histories(d)
<1>1. TypeOK /\ KnowsOwn(d) /\ local' = local /\ SameHistory
  BY PeaceTyped DEF MoveTurn, MoveStarts, MoveReads, MoveRequests, MoveAccepted,
     MoveWatches, AnswerLapses, ReleaseLapses, TakeRefused, TakeUnavailable, deviceVars,
     historyVars, SameHistory
<1>2. mv[d].pc # "arriving"
  <2>1. CASE TakeRefused(d) \/ TakeUnavailable(d)
    <3>1. InFlight(d, "take")
      BY <2>1 DEF TakeRefused, TakeUnavailable, At, Replied, InFlight
    <3> QED BY <1>1, <3>1 DEF KnowsOwn, OneAtATime
  <2>2. CASE ~(TakeRefused(d) \/ TakeUnavailable(d))
    BY <2>2 DEF MoveTurn, MoveStarts, MoveReads, MoveRequests, MoveAccepted, MoveWatches,
       Awaiting, AnswerLapses, ReleaseLapses
  <2> QED BY <2>1, <2>2
<1>3. mv'[d].pc # "arriving"
  <2>1. \A pc \in {"reading", "awaitingAccept", "awaitingRelease", "taking", "forcing"} :
           GoesTo(d, pc) => mv'[d].pc = pc
    BY <1>1, TryStates DEF MovePhases
  <2>2. StartsOver(d) \/ Fails(d) => mv'[d].pc # "arriving"
    BY <1>1, TryStates
  <2>3. CASE MoveReads(d)
    <3>1. CASE mv' = [mv EXCEPT ![d] = [pc |-> "requesting", seq |-> host.seq,
                                        restarts |-> @.restarts]]
      BY <1>1, <3>1 DEF TypeOK
    <3> QED BY <2>1, <2>2, <2>3, <3>1 DEF MoveReads, BeginsTake
  <2>4. CASE ~MoveReads(d)
    BY <2>1, <2>2, <2>4 DEF MoveTurn, MoveStarts, MoveRequests, MoveAccepted, MoveWatches,
       AnswerLapses, ReleaseLapses, TakeRefused, TakeUnavailable, BeginsTake
  <2> QED BY <2>3, <2>4
<1> QED BY <1>1, <1>2, <1>3, MovingHistories

LEMMA ArrivesHistories ==
    ASSUME Calm, PeaceInv, NEW d \in Devices, Arrives(d)
    PROVE  Histories(d)
<1>1. TypeOK /\ ~Suffers("unmerged", d)
  BY PeaceTyped, NoneForces
<1>2. Merging(d)
  BY <1>1 DEF Arrives, Merging, SameHere, SameRecord, recordVars, deviceVars
<1>3. mv'[d].pc = "idle" /\ mv[d].pc = "arriving"
  BY <1>1 DEF Arrives, Still, TypeOK
<1> QED BY <1>2, <1>3 DEF Histories, Merging, SameHere, IsHeldHere

LEMMA TakeHistories ==
    ASSUME PeaceInv, NEW d \in Devices,
           TakeFindsOwn(d) \/ TakeWritten(d) \/ TakeWrites(d) \/ TakeRetries(d)
    PROVE  Histories(d)
<1>1. TypeOK /\ KnowsOwn(d)
  BY PeaceTyped
<1>2. CASE TakeFindsOwn(d) \/ TakeWritten(d)
  <2>1. GoesTo(d, "arriving") /\ SameHistory
    BY <1>2 DEF TakeFindsOwn, TakeWritten, Taken, historyVars, SameHistory
  <2>2. mv'[d].pc = "arriving"
    BY <1>1, <2>1, TryStates DEF MovePhases
  <2>3. InFlight(d, "take")
    BY <1>2 DEF TakeFindsOwn, TakeWritten, At, Replied, InFlight
  <2>4. Moving(d)
    BY <1>1, <2>3 DEF KnowsOwn, OneAtATime, Moving
  <2> QED BY <2>1, <2>2, <2>4 DEF Histories
<1>3. CASE TakeWrites(d) \/ TakeRetries(d)
  <2>1. mv' = mv /\ local' = local /\ SameHistory
    BY <1>3 DEF TakeWrites, TakeRetries, moveVars, deviceVars, historyVars, SameHistory
  <2> QED BY <2>1, StayingHistories DEF IsHeldHere
<1> QED BY <1>2, <1>3

LEMMA ReleaseHistories ==
    ASSUME PeaceInv, NEW d \in Devices, ReleaseStep(d) \/ Serves(d)
    PROVE  Histories(d)
<1>1. TypeOK /\ mv' = mv
  BY PeaceTyped DEF ReleaseStep, ReleaseDrains, ReleaseFlushes, ReleaseFlushFails,
     ReleaseOvertaken, ReleaseWrites, ReleaseWritten, ReleaseRetries, ReleaseGivesUp,
     ReleaseEnds, Serves, moveVars
<1>2. SameHistory \/ Flushing(d)
  <2>1. CASE ReleaseFlushes(d)
    BY <1>1, <2>1 DEF ReleaseFlushes, Flushing, SameHere, SameRecord, recordVars, deviceVars
  <2>2. CASE ~ReleaseFlushes(d)
    BY <2>2 DEF ReleaseStep, ReleaseDrains, ReleaseFlushFails, ReleaseOvertaken,
       ReleaseWrites, ReleaseWritten, ReleaseRetries, ReleaseGivesUp, ReleaseEnds, Serves,
       historyVars, SameHistory
  <2> QED BY <2>1, <2>2
<1>3. IsHeldHere(d)' => IsHeldHere(d)
  <2>1. CASE local' = local
    BY <2>1 DEF IsHeldHere
  <2>2. CASE ReleaseWritten(d)
    BY <1>1, <2>2 DEF ReleaseWritten, IsHeldHere, Elsewhere, TypeOK
  <2>3. CASE ReleaseOvertaken(d)
    BY <1>1, <2>3 DEF ReleaseOvertaken, HoldingFromRecord, IsHeldHere, Elsewhere, TypeOK
  <2>4. local' = local \/ ReleaseWritten(d) \/ ReleaseOvertaken(d)
    BY DEF ReleaseStep, ReleaseDrains, ReleaseFlushes, ReleaseFlushFails, ReleaseWrites,
       ReleaseRetries, ReleaseGivesUp, Serves, deviceVars
  <2> QED BY <2>1, <2>2, <2>3, <2>4
<1> QED BY <1>1, <1>2, <1>3, StayingHistories

LEMMA SpendHistories ==
    ASSUME PeaceInv, NEW d \in Devices, SpendStep(d) \/ SpendStarts(d)
    PROVE  Histories(d)
<1>1. mv' = mv /\ SameHere(d) /\ local' = local
  BY DEF SpendStep, SpendStarts, SpendFresh, SpendChecks, SpendChecked, Signs, moveVars,
     recordVars, deviceVars, SameHere, SameRecord
<1>2. SameHistory \/ Signing(d)
  BY <1>1 DEF SpendStep, SpendStarts, SpendFresh, SpendChecks, SpendChecked, Signs, Signing,
     historyVars, SameHistory
<1> QED BY <1>1, <1>2, StayingHistories DEF IsHeldHere

LEMMA StepHistories ==
    ASSUME Calm, PeaceInv, NEW d \in Devices, StepOf(d)
    PROVE  Histories(d)
<1>1. CASE (\E op \in Operations : HostReads(d, op)) \/ CheckStep(d) \/ CheckStarts(d)
  BY <1>1, CheckHistories
<1>2. CASE MoveTurn(d)
  BY <1>2, MoveHistories
<1>3. CASE Arrives(d)
  BY <1>3, ArrivesHistories
<1>4. CASE TakeFindsOwn(d) \/ TakeWritten(d) \/ TakeWrites(d) \/ TakeRetries(d)
  BY <1>4, TakeHistories
<1>5. CASE ReleaseStep(d) \/ Serves(d)
  BY <1>5, ReleaseHistories
<1>6. CASE SpendStep(d) \/ SpendStarts(d)
  BY <1>6, SpendHistories
<1>7. ~(Sleeps(d) \/ Wakes(d) \/ Restarts(d))
  BY NoneForces DEF Sleeps, Wakes, Restarts
<1> QED BY <1>1, <1>2, <1>3, <1>4, <1>5, <1>6, <1>7
        DEF StepOf, DeviceStep, MoveStep, TakeStep, MoveTurn


LEMMA OwnSpendsHere ==
    ASSUME Calm, CalmInv, NEW d \in Devices, NEW op \in Operations, Turn(d, op),
           Histories(d), Enters(d)
    PROVE  SpendsHere(d)'
<1>1. KnowsOwn(d) /\ SpendsHere(d)
  BY PeaceTyped DEF CalmInv
<1>2. CASE spend'[d] = "idle"
  BY <1>2 DEF SpendsHere
<1>3. CASE spend[d] # "idle"
  <2>1. IsHeldHere(d) /\ mv[d].pc # "arriving"
    BY <1>1, <1>3 DEF SpendsHere
  <2>2. mv'[d].pc # "arriving"
    BY <1>1, <2>1 DEF KnowsOwn, OneAtATime, Histories
  <2> QED BY <1>3, <2>2, SpenderStaysHere DEF SpendsHere
<1>4. CASE SameHere(d) /\ IsHeldHere(d) /\ mv' = mv /\ mv[d].pc # "arriving"
  BY <1>4 DEF SpendsHere, SameHere, IsHeldHere
<1> QED BY <1>2, <1>3, <1>4 DEF Enters

LEMMA HistoryShape ==
    ASSUME TypeOK
    PROVE  /\ signed \in Nat /\ AllSigned \cup {signed + 1} = 1..(signed + 1)
           /\ signed = 0 => AllSigned = {}
<1>1. signed \in Nat
  BY DEF TypeOK
<1>2. AllSigned \cup {signed + 1} = 1..(signed + 1)
  BY <1>1 DEF AllSigned
<1>3. signed = 0 => AllSigned = {}
  BY DEF AllSigned
<1> QED BY <1>1, <1>2, <1>3

LEMMA KnownWidens ==
    ASSUME TypeOK, NEW d \in Devices, NEW x, known' = [known EXCEPT ![d] = known[d] \cup x]
    PROVE  \A e \in Devices :
              known'[e] = IF e = d THEN known[d] \cup x ELSE known[e]
BY DEF TypeOK

LEMMA SignerHasMerged ==
    ASSUME Calm, CalmInv, NEW d \in Devices, Signing(d)
    PROVE  HeldBy(host, d) /\ known[d] = AllSigned
<1>1. HeldBy(host, d)
  BY ClearedHolds DEF CalmInv, Signing
<1>2. IsHeldHere(d) /\ mv[d].pc # "arriving"
  BY DEF CalmInv, SpendsHere, Signing
<1> QED BY <1>1, <1>2 DEF CalmInv, HistoryIsKept

LEMMA SigningKeeps ==
    ASSUME Calm, CalmInv, NEW d \in Devices, Signing(d)
    PROVE  HistoryIsKept'
<1>1. /\ TypeOK /\ HistoryIsKept /\ HeldBy(host, d) /\ known[d] = AllSigned
      /\ SameHere(d) /\ signed' = signed + 1 /\ backup' = backup
  BY SignerHasMerged, PeaceTyped DEF CalmInv, Signing
<1>2. /\ AllSigned' = AllSigned \cup {signed + 1}
      /\ \A e \in Devices :
            known'[e] = IF e = d THEN AllSigned' ELSE known[e]
  <2>1. AllSigned' = AllSigned \cup {signed + 1}
    BY <1>1, HistoryShape DEF AllSigned
  <2>2. known' = [known EXCEPT ![d] = known[d] \cup {signed + 1}]
    BY DEF Signing
  <2>3. \A e \in Devices :
           known'[e] = IF e = d THEN known[d] \cup {signed + 1} ELSE known[e]
    BY <1>1, <2>2, KnownWidens
  <2> QED BY <1>1, <2>1, <2>3
<1>3. /\ host' = host /\ host.state = "held" /\ host # Absent
      /\ \A e \in Devices : HeldBy(host, e) => e = d
  BY <1>1 DEF SameHere, SameRecord, HeldBy, Absent, Record
<1>4. backup \subseteq AllSigned /\ \A e \in Devices : known[e] \subseteq AllSigned
  BY <1>1 DEF HistoryIsKept
<1>5. backup' \subseteq AllSigned' /\ \A e \in Devices : known'[e] \subseteq AllSigned'
  BY <1>1, <1>2, <1>4
<1>6. ASSUME NEW e \in Devices, HeldBy(host, e)' PROVE AllSigned' \subseteq known'[e]
  BY <1>2, <1>3, <1>6
<1>7. \A e \in Devices : HeldBy(host', e) =>
         AllSigned' \subseteq backup' \cup known'[e] /\ AllSigned' \subseteq known'[e]
  BY <1>6
<1> QED BY <1>3, <1>5, <1>7 DEF HistoryIsKept

LEMMA FlushingKeeps ==
    ASSUME CalmInv, NEW d \in Devices, Flushing(d), \A e \in Devices : e # d => local'[e] = local[e]
    PROVE  HistoryIsKept'
<1>1. /\ HistoryIsKept /\ SameHere(d) /\ known' = known /\ signed' = signed /\ mv' = mv
      /\ backup' = backup \cup known[d]
  BY DEF CalmInv, Flushing
<1>2. \A e \in Devices : IsHeldHere(e)' = IsHeldHere(e)
  BY <1>1 DEF SameHere, IsHeldHere
<1> QED BY <1>1, <1>2 DEF HistoryIsKept, AllSigned, SameHere, SameRecord

LEMMA MergingKeeps ==
    ASSUME CalmInv, NEW d \in Devices, Merging(d),
           \A e \in Devices : e # d => local'[e] = local[e] /\ mv'[e] = mv[e]
    PROVE  HistoryIsKept'
<1>1. /\ TypeOK /\ HistoryIsKept /\ SameHere(d) /\ signed' = signed /\ backup' = backup
      /\ \A e \in Devices : known'[e] = IF e = d THEN known[d] \cup backup ELSE known[e]
  <2>1. TypeOK /\ known' = [known EXCEPT ![d] = known[d] \cup backup]
    BY PeaceTyped DEF CalmInv, Merging
  <2>2. \A e \in Devices : known'[e] = IF e = d THEN known[d] \cup backup ELSE known[e]
    BY <2>1, KnownWidens
  <2> QED BY <2>1, <2>2 DEF CalmInv, Merging
<1>2. /\ host' = host /\ AllSigned' = AllSigned
      /\ \A e \in Devices : IsHeldHere(e)' = IsHeldHere(e)
  BY <1>1 DEF SameHere, SameRecord, IsHeldHere, AllSigned
<1> QED BY <1>1, <1>2 DEF HistoryIsKept

LEMMA TurningKeeps ==
    ASSUME Calm, CalmInv, NEW d \in Devices, NEW op \in Operations, Turn(d, op),
           Histories(d), SameHistory, ~Merging(d)
    PROVE  HistoryIsKept'
<1>1. /\ PeaceInv /\ TypeOK /\ HistoryIsKept /\ AllSigned' = AllSigned
      /\ known' = known /\ backup' = backup /\ signed' = signed
  BY PeaceTyped DEF CalmInv, SameHistory, AllSigned
<1>2. ASSUME NEW e \in Devices, IsHeldHere(e)', mv'[e].pc # "arriving"
      PROVE  IsHeldHere(e) /\ mv[e].pc # "arriving"
  <2>1. CASE e = d
    BY <1>2, <2>1 DEF Histories
  <2>2. CASE e # d
    BY <1>2, <2>2 DEF Turn, OthersKeep, IsHeldHere
  <2> QED BY <2>1, <2>2
<1>3. CASE SameRecord
  BY <1>1, <1>2, <1>3 DEF HistoryIsKept, SameRecord
<1>4. CASE ~SameRecord
  <2>1. /\ host'.device = d /\ local'[d] = local[d]
        /\ FirstPublished(d) \/ TakenReleased(d) \/ GivenUp(d)
    BY <1>1, <1>4, CalmWrites
  <2>2. host' # Absent /\ \A e \in Devices : HeldBy(host', e) => e = d
    BY <2>1 DEF FirstPublished, TakenReleased, GivenUp, HeldBy, Absent, Record
  <2>3. CASE FirstPublished(d)
    <3>1. AllSigned = {} /\ host'.state = "held"
      BY <1>1, <2>3, HistoryShape DEF HistoryIsKept, FirstPublished
    <3> QED BY <1>1, <2>2, <3>1 DEF HistoryIsKept
  <2>4. CASE TakenReleased(d)
    <3>1. AllSigned \subseteq backup /\ host'.state = "held" /\ ~IsHeldHere(d)'
      BY <1>1, <2>1, <2>4 DEF HistoryIsKept, TakenReleased, IsHeldHere
    <3> QED BY <1>1, <2>2, <3>1 DEF HistoryIsKept
  <2>5. CASE GivenUp(d)
    <3>1. AllSigned \subseteq backup
      BY <1>1, <2>5, HistoryShape DEF HistoryIsKept, GivenUp
    <3>2. \A e \in Devices : ~HeldBy(host', e)
      BY <2>5 DEF GivenUp, HeldBy
    <3> QED BY <1>1, <2>2, <3>1, <3>2 DEF HistoryIsKept
  <2> QED BY <2>1, <2>3, <2>4, <2>5
<1> QED BY <1>3, <1>4


Blind(d) == signed' # signed /\ known'[d] # known[d] /\ known[d] # AllSigned

LEMMA StepCalm ==
    ASSUME Calm, CalmInv, NEW d \in Devices, StepOf(d), PeaceInv'
    PROVE  CalmInv' /\ \A e \in Devices : ~Blind(e)
<1>1. PICK op \in Operations : Turn(d, op)
  <2>1. Own(d)
    BY CalmIsPeace, PeaceCounts, PeaceTyped, StepsOwn DEF CalmInv, PeaceInv, NewsInv, HInv, StepOf
  <2> QED BY <2>1 DEF Own
<1>2. /\ TypeOK /\ Histories(d) /\ Enters(d)
      /\ \A e \in Devices : e # d => /\ local'[e] = local[e] /\ mv'[e] = mv[e]
                                     /\ spend'[e] = spend[e]
  BY <1>1, PeaceTyped, StepHistories, StepEnters DEF CalmInv, Turn, OthersKeep
<1>3. HistoryIsKept'
  <2>1. CASE Signing(d)
    BY <2>1, SigningKeeps
  <2>2. CASE Flushing(d)
    BY <1>2, <2>2, FlushingKeeps
  <2>3. CASE Merging(d)
    BY <1>2, <2>3, MergingKeeps
  <2>4. CASE SameHistory /\ ~Merging(d)
    BY <1>1, <1>2, <2>4, TurningKeeps
  <2> QED BY <1>2, <2>1, <2>2, <2>3, <2>4 DEF Histories
<1>4. \A e \in Devices : HolderIsListed(e)'
  <2>1. HolderIsListed(d)'
    BY <1>1, OwnListed
  <2>2. \A e \in Devices : e # d => HolderIsListed(e)'
    BY <1>1, OthersListed
  <2> QED BY <2>1, <2>2
<1>5. \A e \in Devices : SpendsHere(e)'
  <2>1. SpendsHere(d)'
    BY <1>1, <1>2, OwnSpendsHere
  <2>2. \A e \in Devices : e # d => SpendsHere(e)'
    BY <1>2 DEF CalmInv, SpendsHere, IsHeldHere
  <2> QED BY <2>1, <2>2
<1>6. \A e \in Devices : ~Blind(e)
  <2>1. CASE signed' = signed
    BY <2>1 DEF Blind
  <2>2. CASE Signing(d)
    <3>1. known[d] = AllSigned
      BY <2>2, SignerHasMerged
    <3>2. known' = [known EXCEPT ![d] = known[d] \cup {signed + 1}]
      BY <2>2 DEF Signing
    <3>3. \A e \in Devices : e # d => known'[e] = known[e]
      BY <1>2, <3>2, KnownWidens
    <3> QED BY <3>1, <3>3 DEF Blind
  <2> QED BY <1>2, <2>1, <2>2 DEF Histories, SameHistory, Flushing, Merging
<1> QED BY <1>3, <1>4, <1>5, <1>6 DEF CalmInv

LEMMA NextCalm ==
    ASSUME Calm, CalmInv, [Next]_vars
    PROVE  CalmInv' /\ \A e \in Devices : ~Blind(e)
<1>1. PeaceInv'
  BY CalmIsPeace, NextPeace DEF CalmInv
<1>2. ASSUME NEW d \in Devices, StepOf(d) PROVE CalmInv' /\ \A e \in Devices : ~Blind(e)
  BY <1>1, <1>2, StepCalm
<1>3. CASE UNCHANGED vars
  <2>1. /\ host' = host /\ local' = local /\ io' = io /\ mv' = mv /\ spend' = spend
        /\ known' = known /\ backup' = backup /\ signed' = signed
    BY <1>3 DEF vars, recordVars, deviceVars, moveVars, historyVars
  <2>2. HistoryIsKept'
    BY <2>1 DEF CalmInv, HistoryIsKept, AllSigned, IsHeldHere
  <2>3. \A d \in Devices : HolderIsListed(d)' /\ SpendsHere(d)'
    BY <2>1 DEF CalmInv, HolderIsListed, SpendsHere, Answered, IsHeldHere
  <2> QED BY <1>1, <2>1, <2>2, <2>3 DEF CalmInv, Blind
<1> QED BY <1>2, <1>3 DEF Next, StepOf

LEMMA InitCalm == ASSUME Calm, Init PROVE CalmInv
<1>1. PeaceInv
  BY CalmIsPeace, InitPeace
<1>2. /\ host = Absent /\ signed = 0 /\ backup = {}
      /\ \A d \in Devices : /\ local[d] = IF d \in Upgrading THEN Here(0) ELSE Elsewhere(0, None)
                            /\ spend[d] = "idle" /\ known[d] = {}
                            /\ \A op \in Operations : io[d][op] = Resting
  BY DEF Init, Calm
<1>3. \A d \in Devices : ~HeldBy(host, d) /\ ~Answered(d, "take")
  BY <1>2 DEF HeldBy, Absent, Record, Answered, Resting, Operations
<1>4. \A d \in Devices : HolderIsListed(d) /\ SpendsHere(d)
  BY <1>2, <1>3 DEF HolderIsListed, SpendsHere, IsHeldHere, Elsewhere
<1>5. HistoryIsKept
  BY <1>2, <1>3 DEF HistoryIsKept, AllSigned, Absent, Record
<1> QED BY <1>1, <1>4, <1>5 DEF CalmInv

\* When nothing fails, a released account is wholly in the backup, and the install
\* that holds it has merged that backup before it starts a spend.
THEOREM CalmHolds == ASSUME Calm PROVE Spec => []CalmInv
<1>1. CalmInv /\ [Next]_vars => CalmInv'
  BY NextCalm
<1>2. Init => CalmInv
  BY InitCalm
<1> QED BY <1>1, <1>2, PTL DEF Spec

\* When nothing fails, whoever signs has merged every spend signed before, on any
\* install (mergeArrivedForSpend after every take).
THEOREM SignersHaveMerged == ASSUME Calm PROVE Spec => NoBlindSpend
<1>1. CalmInv /\ [Next]_vars =>
        [\A d \in Devices :
           signed' # signed /\ known'[d] # known[d] => known[d] = 1..signed]_vars
  BY NextCalm DEF Blind, AllSigned
<1> QED BY <1>1, CalmHolds, PTL DEF Spec, NoBlindSpend
=============================================================================
