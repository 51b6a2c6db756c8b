-------------------------- MODULE BasketReadProofs --------------------------
(***************************************************************************)
(* Proofs about BasketRead, for every set of calls and any number of       *)
(* listings.                                                               *)
(*                                                                         *)
(* Why a listing that judges a read of its own by the generation of its    *)
(* start is right: entering a region is the only way to a body, and each   *)
(* entry moves the generation on. So a read that began on an idle wallet   *)
(* and whose generation is still current has met no body, and the wallet's *)
(* depths are still zero (Quiet).                                          *)
(***************************************************************************)
EXTENDS BasketRead, WalletCoordinatorProofs

\* No read is of the future; one that is idle and current met nobody.
Quiet(r) ==
    r # NoRead =>
        /\ r.gen <= generation
        /\ r.idle /\ r.gen = generation => r.touched = {} /\ AllIdle(depth)

QuietReads == Quiet(raw) /\ Quiet(late) /\ (caller # NoRead => Quiet(caller.answer))

\* A kept late answer began idle; a listing that waits has a read to wait for;
\* a panel read that joined nobody is judged by the start of its own read.
OwnReads ==
    /\ late # NoRead => late.idle
    /\ caller # NoRead /\ caller.answer = NoRead => raw # NoRead
    /\ caller # NoRead /\ caller.kind = "panel" /\ ~caller.joined =>
          IF caller.answer = NoRead
          THEN raw.gen = caller.gen /\ raw.idle
          ELSE caller.answer.gen = caller.gen /\ caller.answer.idle

OneRuntime == IInv /\ epoch = 0

RInv == OneRuntime /\ ReadTypeOK /\ QuietReads /\ OwnReads /\ CompleteReadUntouched

----------------------------------------------------------------------------
(* The coordinator beside the reads. *)

\* Entering a region moves the generation on; nothing else raises a depth.
LEMMA EntriesAreCounted ==
    ASSUME TypeOK, [Next]_vars
    PROVE  /\ generation' \in {generation, generation + 1}
           /\ generation' = generation /\ AllIdle(depth) => AllIdle(depth')
<1> DEFINE Goal == /\ generation' \in {generation, generation + 1}
                   /\ generation' = generation /\ AllIdle(depth) => AllIdle(depth')
<1>0. generation \in Nat
  BY DEF TypeOK
<1>a. CASE depth' = depth /\ generation' \in {generation, generation + 1}
  BY <1>a
<1>b. ASSUME NEW c \in Calls, Grant(c) \/ Block(c)
      PROVE  Goal
  BY <1>0, <1>b DEF Grant, Block
<1>c. ASSUME NEW c \in Calls, NEW o, Leave(c, o)
      PROVE  Goal
  <2>1. generation' = generation /\ depth' = Left(c) /\ RegionOf(c) \in Region
    BY <1>c, RegionOfCall DEF Leave
  <2>2. AllIdle(depth) => AllIdle(Left(c))
    BY <2>1 DEF AllIdle, Left, TypeOK
  <2> QED BY <2>1, <2>2
<1>d. ASSUME NEW c \in Calls, NEW o, GiveUp(c, o)
      PROVE  Goal
  BY <1>a, <1>d DEF GiveUp
<1>1. CASE \E c \in Calls : CallStep(c)
  <2> PICK c \in Calls : CallStep(c)
    BY <1>1
  <2>1. CASE CallQueued(c) \/ CallSpend(c)
    BY <1>a, <2>1 DEF CallQueued, CallSpend, Enqueue
  <2>2. CASE \E p \in RecomposeCalls \cup {NoCall} : CallHistory(c, p) \/ CallHistoryBypass(c, p)
    BY <1>a, <2>2 DEF CallHistory, CallHistoryBypass, Enqueue
  <2>3. CASE \E s \in SpendCalls : CallHeal(c, s)
    BY <1>a, <1>b, <2>3 DEF CallHeal
  <2> QED BY <2>1, <2>2, <2>3 DEF CallStep
<1>2. CASE \E c \in Calls : CoordinatorStep(c)
  <2> PICK c \in Calls : CoordinatorStep(c)
    BY <1>2
  <2>1. CASE DequeueStale(c) \/ Defer(c)
    BY <1>d, <2>1 DEF DequeueStale, Defer
  <2>2. CASE Dequeue(c) \/ Resume(c)
    BY <1>b, <2>2 DEF Dequeue, Resume, Attempt
  <2>3. CASE StaleEntry(c) \/ DeferEntry(c)
    BY <1>c, <2>3 DEF StaleEntry, DeferEntry
  <2>4. CASE Start(c)
    BY <1>a, <2>4 DEF Start
  <2> QED BY <2>1, <2>2, <2>3, <2>4 DEF CoordinatorStep
<1>3. CASE \E c \in Calls : BodyEnds(c) \/ AcquireTimeout(c) \/ Abandon(c)
  <2> PICK c \in Calls : BodyEnds(c) \/ AcquireTimeout(c) \/ Abandon(c)
    BY <1>3
  <2>1. CASE Finish(c) \/ Abandon(c)
    BY <1>c, <2>1 DEF Finish, Abandon
  <2>2. CASE SettleOutside(c)
    BY <1>a, <2>2 DEF SettleOutside
  <2>3. CASE AcquireTimeout(c)
    BY <1>d, <2>3 DEF AcquireTimeout
  <2> QED BY <2>1, <2>2, <2>3 DEF BodyEnds
<1>4. CASE \E l \in Leases : Lease(l)
  BY <1>a, <1>4 DEF Lease
<1>5. CASE \E h \in SpendCalls \cup Leases : DropHold(h)
  BY <1>a, <1>5 DEF DropHold
<1>6. CASE Rebind
  BY <1>0, <1>6 DEF Rebind, AllIdle
<1>7. CASE UNCHANGED vars
  BY <1>a, <1>7 DEF vars
<1> QED BY <1>1, <1>2, <1>3, <1>4, <1>5, <1>6, <1>7 DEF Next

\* On one runtime, a wallet whose depths are zero runs no body in a region.
LEMMA IdleRunsNothing == OneRuntime /\ AllIdle(depth) => RegionBodies = {}
<1> SUFFICES ASSUME OneRuntime, AllIdle(depth) PROVE RegionBodies = {}
  OBVIOUS
<1>1. \A c \in RegionBodies : c \in Occupants
  BY MaxEpochNat DEF OneRuntime, IInv, TypeOK, ActorsExist, RegionBodies, Occupants, Holding, Epochs
<1>2. Occupants = {}
  BY RegionOfCall DEF OneRuntime, IInv, DepthIsOccupancy, AllIdle, Occupants
<1> QED BY <1>1, <1>2

LEMMA RuntimeStays ==
    ASSUME OneRuntime, ReadNext \/ UNCHANGED <<vars, readVars>>
    PROVE  OneRuntime' /\ [Next]_vars
<1>1. [Next]_vars /\ epoch' = epoch
  BY DEF ReadNext, PanelRead, ReplaceRead, BasketPage, RawSettles, ListTimeout, Judge,
         LateExpires, Meanwhile, vars
<1>2. IInv'
  BY <1>1, NextStep, StepCounted DEF OneRuntime, IInv, Shape, Counted
<1> QED BY <1>1, <1>2 DEF OneRuntime

----------------------------------------------------------------------------
(* What a coordinator step does to a record of the past. *)

\* A read that does not move stays quiet while the coordinator works.
LEMMA QuietStays ==
    ASSUME TypeOK, [Next]_vars, NEW r \in RawRead \cup {NoRead}, Quiet(r)
    PROVE  r # NoRead =>
              /\ r.gen <= generation'
              /\ r.idle /\ r.gen = generation' => r.touched = {} /\ AllIdle(depth')
<1> SUFFICES ASSUME r # NoRead
             PROVE  /\ r.gen <= generation'
                    /\ r.idle /\ r.gen = generation' => r.touched = {} /\ AllIdle(depth')
  OBVIOUS
<1>1. r.gen \in Nat /\ generation \in Nat
  BY DEF RawRead, TypeOK
<1>2. /\ generation' \in {generation, generation + 1}
      /\ generation' = generation /\ AllIdle(depth) => AllIdle(depth')
  BY EntriesAreCounted
<1> QED BY <1>1, <1>2 DEF Quiet

\* A read started now is quiet, since a wallet that is idle runs no body.
LEMMA FreshIsQuiet ==
    ASSUME OneRuntime
    PROVE  Quiet([gen |-> generation, idle |-> WalletRegionsIdle, orphan |-> FALSE,
                  touched |-> RegionBodies])
<1>1. generation \in Nat
  BY DEF OneRuntime, IInv, TypeOK
<1>2. WalletRegionsIdle => RegionBodies = {} /\ AllIdle(depth)
  BY IdleRunsNothing DEF WalletRegionsIdle
<1>3. WalletRegionsIdle \in BOOLEAN
  BY DEF WalletRegionsIdle, AllIdle
<1> QED BY <1>1, <1>2, <1>3 DEF Quiet

----------------------------------------------------------------------------
(* The invariant. *)

LEMMA RInvInit == ReadInit => RInv
<1> SUFFICES ASSUME ReadInit PROVE RInv
  OBVIOUS
<1>1. IInv /\ epoch = 0
  BY InitShape, InitCounted DEF ReadInit, Init, IInv, Shape, Counted
<1>2. ReadTypeOK
  BY ReadsAssumption DEF ReadInit, ReadTypeOK
<1>3. QuietReads /\ OwnReads /\ CompleteReadUntouched
  BY DEF ReadInit, QuietReads, Quiet, OwnReads, CompleteReadUntouched
<1> QED BY <1>1, <1>2, <1>3 DEF RInv, OneRuntime

\* A listing that is asked for: it joins, reuses, or starts a raw read.
LEMMA PageStep ==
    ASSUME RInv, NEW kind \in {"panel", "replace"}, BasketPage(kind),
           kind = "panel" => WalletRegionsIdle
    PROVE  (ReadTypeOK /\ QuietReads /\ OwnReads /\ CompleteReadUntouched)'
<1> USE DEF RInv
<1>1. caller = NoRead /\ reads' = reads + 1 /\ reads < MaxReads /\ UNCHANGED <<vars, verdict>>
  BY DEF BasketPage
<1>2. UNCHANGED <<pc, holds, depth, generation>>
  BY <1>1 DEF vars
<1>3. generation \in Nat /\ RegionBodies \in SUBSET Calls /\ WalletRegionsIdle \in BOOLEAN
  BY DEF OneRuntime, IInv, TypeOK, RegionBodies, WalletRegionsIdle, AllIdle
<1>4. reads' \in 0..MaxReads /\ verdict' \in Verdicts \cup {NoRead}
  BY <1>1, ReadsAssumption DEF ReadTypeOK
<1>5. CompleteReadUntouched'
  BY <1>1 DEF CompleteReadUntouched
<1>7. CASE JoinRaw(kind)
  <2>1. /\ raw # NoRead /\ UNCHANGED <<raw, late>>
        /\ caller' = [kind |-> kind, gen |-> generation, joined |-> TRUE, answer |-> NoRead]
    BY <1>7 DEF JoinRaw, Asks
  <2>2. caller' \in Listings
    BY <2>1, <1>3 DEF Listings
  <2>3. ReadTypeOK'
    BY <2>1, <2>2, <1>4 DEF ReadTypeOK
  <2>4. QuietReads'
    BY <2>1, <1>2 DEF QuietReads, Quiet, AllIdle
  <2>5. OwnReads'
    BY <2>1 DEF OwnReads
  <2> QED BY <2>3, <2>4, <2>5, <1>5
<1>8. CASE ReuseLate(kind)
  <2>1. /\ raw = NoRead /\ late # NoRead /\ raw' = raw /\ late' = NoRead
        /\ generation = late.gen
        /\ caller' = [kind |-> kind, gen |-> generation, joined |-> FALSE, answer |-> late]
    BY <1>8 DEF ReuseLate, Asks, WalletRegionsIdleSince
  <2>2. caller' \in Listings
    BY <2>1, <1>3 DEF Listings, ReadTypeOK
  <2>3. ReadTypeOK'
    BY <2>1, <2>2, <1>4 DEF ReadTypeOK
  <2>4. QuietReads'
    BY <2>1, <1>2 DEF QuietReads, Quiet, AllIdle
  <2>5. OwnReads'
    BY <2>1 DEF OwnReads
  <2> QED BY <2>3, <2>4, <2>5, <1>5
<1>9. CASE FreshRaw(kind)
  <2> DEFINE r == [gen |-> generation, idle |-> WalletRegionsIdle, orphan |-> FALSE,
                   touched |-> RegionBodies]
  <2>1. /\ raw' = r /\ late' = NoRead
        /\ caller' = [kind |-> kind, gen |-> generation, joined |-> FALSE, answer |-> NoRead]
    BY <1>9 DEF FreshRaw, Asks
  <2>2. r \in RawRead /\ r # NoRead
    <3>1. r \in RawRead
      BY <1>3 DEF RawRead
    <3> QED BY <3>1, ReadsAssumption
  <2>3. caller' \in Listings
    BY <2>1, <1>3 DEF Listings
  <2>4. ReadTypeOK'
    BY <2>1, <2>2, <2>3, <1>4 DEF ReadTypeOK
  <2>5. Quiet(r)
    BY FreshIsQuiet
  <2> HIDE DEF r
  <2>6. QuietReads'
    BY <2>1, <2>5, <1>2 DEF QuietReads, Quiet, AllIdle
  <2>7. r.gen = generation /\ r.idle = WalletRegionsIdle
    BY DEF r
  <2>8. OwnReads'
    BY <2>1, <2>2, <2>7 DEF OwnReads
  <2> QED BY <2>4, <2>6, <2>8, <1>5
<1> QED BY <1>7, <1>8, <1>9 DEF BasketPage

LEMMA SettlesStep ==
    ASSUME RInv, RawSettles
    PROVE  (ReadTypeOK /\ QuietReads /\ OwnReads /\ CompleteReadUntouched)'
<1> USE DEF RInv
<1> DEFINE served == [caller EXCEPT !.answer = raw]
<1>1. /\ raw # NoRead /\ raw' = NoRead
      /\ late' = (IF raw.idle /\ raw.orphan THEN raw ELSE late)
      /\ caller' = (IF caller # NoRead /\ caller.answer = NoRead THEN served ELSE caller)
      /\ UNCHANGED <<vars, verdict, reads>>
  BY DEF RawSettles
<1>2. UNCHANGED <<depth, generation>>
  BY <1>1 DEF vars
<1>3. caller # NoRead =>
         /\ served \in Listings /\ served # NoRead
         /\ served.answer = raw /\ served.kind = caller.kind
         /\ served.gen = caller.gen /\ served.joined = caller.joined
  BY <1>1, ReadsAssumption DEF Listings, ReadTypeOK
<1> HIDE DEF served
<1>4. ReadTypeOK'
  BY <1>1, <1>3 DEF ReadTypeOK
<1>5. QuietReads'
  BY <1>1, <1>2, <1>3 DEF QuietReads, Quiet, AllIdle
<1>6. OwnReads'
  BY <1>1, <1>3 DEF OwnReads
<1>7. CompleteReadUntouched'
  BY <1>1 DEF CompleteReadUntouched
<1> QED BY <1>4, <1>5, <1>6, <1>7

LEMMA TimeoutStep ==
    ASSUME RInv, ListTimeout
    PROVE  (ReadTypeOK /\ QuietReads /\ OwnReads /\ CompleteReadUntouched)'
<1> USE DEF RInv
<1>1. /\ caller # NoRead /\ caller.answer = NoRead
      /\ raw' = [raw EXCEPT !.orphan = TRUE] /\ caller' = NoRead
      /\ UNCHANGED <<vars, late, verdict, reads>>
  BY DEF ListTimeout
<1>2. UNCHANGED <<depth, generation>>
  BY <1>1 DEF vars
<1>3. raw \in RawRead /\ raw # NoRead
  BY <1>1 DEF OwnReads, ReadTypeOK
<1>4. /\ raw' \in RawRead /\ raw'.gen = raw.gen /\ raw'.idle = raw.idle
      /\ raw'.touched = raw.touched
  BY <1>1, <1>3 DEF RawRead
<1>5. ReadTypeOK'
  BY <1>1, <1>4 DEF ReadTypeOK
<1>6. QuietReads'
  BY <1>1, <1>2, <1>3, <1>4 DEF QuietReads, Quiet, AllIdle
<1>7. OwnReads' /\ CompleteReadUntouched'
  BY <1>1 DEF OwnReads, CompleteReadUntouched
<1> QED BY <1>5, <1>6, <1>7

LEMMA JudgeStep ==
    ASSUME RInv, Judge
    PROVE  (ReadTypeOK /\ QuietReads /\ OwnReads /\ CompleteReadUntouched)'
<1> USE DEF RInv
<1> DEFINE answer == caller.answer
           judged == [kind |-> caller.kind, complete |-> WalletRegionsIdleSince(caller.gen),
                      joined |-> caller.joined, idle |-> answer.idle,
                      touched |-> answer.touched]
<1>1. /\ caller # NoRead /\ answer # NoRead /\ caller' = NoRead /\ verdict' = judged
      /\ UNCHANGED <<vars, raw, late, reads>>
  BY DEF Judge
<1>2. UNCHANGED <<depth, generation>>
  BY <1>1 DEF vars
<1>3. caller \in Listings /\ answer \in RawRead
  BY <1>1 DEF ReadTypeOK, Listings
<1>4. judged \in Verdicts
  BY <1>3 DEF Verdicts, Listings, RawRead, WalletRegionsIdleSince, WalletRegionsIdle, AllIdle
<1>5. ReadTypeOK'
  BY <1>1, <1>4 DEF ReadTypeOK
<1>6. QuietReads'
  BY <1>1, <1>2 DEF QuietReads, Quiet, AllIdle
<1>7. OwnReads'
  BY <1>1 DEF OwnReads
<1>8. CompleteReadUntouched'
  <2> SUFFICES ASSUME caller.kind = "panel", generation = caller.gen, ~caller.joined
               PROVE  answer.touched = {}
    BY <1>1 DEF CompleteReadUntouched, WalletRegionsIdleSince
  <2>1. answer.gen = generation /\ answer.idle
    BY <1>1 DEF OwnReads
  <2> QED BY <2>1, <1>1 DEF QuietReads, Quiet
<1> QED BY <1>5, <1>6, <1>7, <1>8

LEMMA ExpiryStep ==
    ASSUME RInv, LateExpires \/ UNCHANGED <<vars, readVars>>
    PROVE  (ReadTypeOK /\ QuietReads /\ OwnReads /\ CompleteReadUntouched)'
<1> USE DEF RInv
<1>1. late' \in {late, NoRead} /\ UNCHANGED <<depth, generation, raw, caller, verdict, reads>>
  BY DEF LateExpires, vars, readVars
<1> QED BY <1>1 DEF ReadTypeOK, QuietReads, Quiet, AllIdle, OwnReads, CompleteReadUntouched

\* While a read is open a body that lives is one that entered since, and so
\* moved the generation on.
LEMMA MeanwhileStep ==
    ASSUME RInv, Meanwhile, OneRuntime', [Next]_vars
    PROVE  (ReadTypeOK /\ QuietReads /\ OwnReads /\ CompleteReadUntouched)'
<1> USE DEF RInv
<1> DEFINE seen == [raw EXCEPT !.touched = @ \cup RegionBodies']
<1>1. /\ raw' = (IF raw = NoRead THEN raw ELSE seen)
      /\ UNCHANGED <<late, caller, verdict, reads>>
  BY DEF Meanwhile
<1>2. TypeOK /\ TypeOK'
  BY DEF OneRuntime, IInv
<1>3. RegionBodies' \in SUBSET Calls
  BY DEF RegionBodies
<1>4. raw # NoRead =>
         /\ seen \in RawRead /\ seen # NoRead /\ seen.gen = raw.gen /\ seen.idle = raw.idle
         /\ seen.touched = raw.touched \cup RegionBodies'
  BY <1>3, ReadsAssumption DEF ReadTypeOK, RawRead
<1> HIDE DEF seen
<1>5. ReadTypeOK'
  BY <1>1, <1>4 DEF ReadTypeOK
<1>6. AllIdle(depth') => RegionBodies' = {}
  <2>1. (OneRuntime /\ AllIdle(depth) => RegionBodies = {})'
    BY IdleRunsNothing, PTL
  <2> QED BY <2>1 DEF AllIdle
<1>7. /\ raw \in RawRead \cup {NoRead} /\ late \in RawRead \cup {NoRead}
      /\ caller # NoRead => caller.answer \in RawRead \cup {NoRead}
  BY DEF ReadTypeOK, Listings
<1>8. Quiet(raw)'
  <2>1. raw # NoRead =>
           /\ raw.gen <= generation'
           /\ raw.idle /\ raw.gen = generation' => raw.touched = {} /\ AllIdle(depth')
    BY <1>2, <1>7, QuietStays DEF QuietReads
  <2> QED BY <1>1, <1>4, <1>6, <2>1 DEF Quiet
<1>9. Quiet(late)'
  <2>1. late # NoRead =>
           /\ late.gen <= generation'
           /\ late.idle /\ late.gen = generation' => late.touched = {} /\ AllIdle(depth')
    BY <1>2, <1>7, QuietStays DEF QuietReads
  <2> QED BY <1>1, <2>1 DEF Quiet
<1>10. (caller # NoRead => Quiet(caller.answer))'
  <2> SUFFICES ASSUME caller # NoRead, caller.answer # NoRead
               PROVE  /\ caller.answer.gen <= generation'
                      /\ caller.answer.idle /\ caller.answer.gen = generation' =>
                            caller.answer.touched = {} /\ AllIdle(depth')
    BY <1>1 DEF Quiet
  <2> QED BY <1>2, <1>7, QuietStays DEF QuietReads
<1>11. OwnReads' /\ CompleteReadUntouched'
  BY <1>1, <1>4 DEF OwnReads, CompleteReadUntouched
<1> QED BY <1>5, <1>8, <1>9, <1>10, <1>11 DEF QuietReads

LEMMA RInvStep ==
    ASSUME RInv, ReadNext \/ UNCHANGED <<vars, readVars>>
    PROVE  RInv'
<1>1. OneRuntime' /\ [Next]_vars
  BY RuntimeStays DEF RInv
<1>2. CASE PanelRead \/ ReplaceRead
  BY <1>1, <1>2, PageStep DEF PanelRead, ReplaceRead, RInv
<1>3. CASE RawSettles
  BY <1>1, <1>3, SettlesStep DEF RInv
<1>4. CASE ListTimeout
  BY <1>1, <1>4, TimeoutStep DEF RInv
<1>5. CASE Judge
  BY <1>1, <1>5, JudgeStep DEF RInv
<1>6. CASE LateExpires \/ UNCHANGED <<vars, readVars>>
  BY <1>1, <1>6, ExpiryStep DEF RInv
<1>7. CASE Meanwhile
  BY <1>1, <1>7, MeanwhileStep DEF RInv
<1> QED BY <1>2, <1>3, <1>4, <1>5, <1>6, <1>7 DEF ReadNext

----------------------------------------------------------------------------

LEMMA ReadsKeepInvariant == ReadSpec => []RInv
BY RInvInit, RInvStep, PTL DEF ReadSpec

\* The reads beside the coordinator keep their types: a listing that waits has
\* a raw read to wait for, so no answer is stored in a listing that is gone.
THEOREM ReadTypes == ReadSpec => []ReadTypeOK
<1>1. RInv => ReadTypeOK
  BY DEF RInv
<1> QED BY <1>1, ReadsKeepInvariant, PTL

\* A listing accepted as complete, by its own read or a kept late answer, has
\* overlapped no region body: the cards it retires are not those of a payment
\* that was being made.
THEOREM CompleteReadsUntouched == ReadSpec => []CompleteReadUntouched
<1>1. RInv => CompleteReadUntouched
  BY DEF RInv
<1> QED BY <1>1, ReadsKeepInvariant, PTL
=============================================================================
