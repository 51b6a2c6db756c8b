----------------------- MODULE WalletCoordinatorProofs -----------------------
(***************************************************************************)
(* Proofs about WalletCoordinator, for every set of calls and any number   *)
(* of runtime replacements.                                                *)
(*                                                                         *)
(* Every step of the coordinator does one of four things to the live       *)
(* actor (OccupancyStep): it admits one call whose guard held, lets one    *)
(* out, changes nothing, or starts afresh.  Exact counters, exclusion and  *)
(* the implementation of RegionArbiter all follow from that case split.    *)
(***************************************************************************)
EXTENDS WalletCoordinator, SequenceTheorems, TLAPS

\* A call that reached its turn is the head of its queue until it leaves.
TurnAtHead ==
    \A c \in Calls \ HealCalls :
        pc[c] \in {"waiting", "woken", "granted", "running"} => IsHead(c)

\* No call belongs to an actor that does not exist yet.
ActorsExist == \A c \in Calls : actorOf[c] <= epoch

\* A backup or a recompose is alone in the wallet.
LonersAlone ==
    \A r \in {"historyReplica", "recompose"} :
        depth[r] > 0 => \A s \in Region \ {r} : depth[s] = 0

IInv == TypeOK /\ TurnAtHead /\ ActorsExist /\ DepthIsOccupancy /\ LonersAlone

Shape == TypeOK /\ TurnAtHead /\ ActorsExist

----------------------------------------------------------------------------
LEMMA RegionOfCall == \A c \in Calls : RegionOf(c) \in Region
BY DEF RegionOf, Region

\* Waking waiters changes no other call and takes nobody out of a region.
LEMMA NotifyOnlyWakes ==
    ASSUME NEW p \in [Calls -> PcStates], NEW d
    PROVE  /\ Notify(p, d) \in [Calls -> PcStates]
           /\ \A c \in Calls : \/ Notify(p, d)[c] = p[c]
                               \/ p[c] = "waiting" /\ Notify(p, d)[c] = "woken"
BY DEF Notify, PcStates, Settled

LEMMA InitShape == Init => Shape
BY MaxEpochNat DEF Init, Shape, TypeOK, TurnAtHead, ActorsExist, Epochs, PcStates, Settled

----------------------------------------------------------------------------
(* The queues: only the head is popped, so a call that has its turn keeps it. *)

LEMMA PopKeepsShape ==
    ASSUME TypeOK, TurnAtHead,
           NEW c \in Calls, c \notin HealCalls => IsHead(c)
    PROVE  /\ Dequeued(c) \in [Epochs -> [Region -> Seq(Calls)]]
           /\ \A d \in Calls \ (HealCalls \cup {c}) :
                 IsHead(d) => /\ Dequeued(c)[born[d]][RegionOf(d)] # <<>>
                              /\ Head(Dequeued(c)[born[d]][RegionOf(d)]) = d
<1>1. CASE c \in HealCalls
  BY <1>1 DEF Dequeued, TypeOK, IsHead
<1>2. CASE c \notin HealCalls
  <2> DEFINE q == queue[born[c]][RegionOf(c)]
  <2>1. born[c] \in Epochs /\ RegionOf(c) \in Region
    BY RegionOfCall DEF TypeOK
  <2>2. q \in Seq(Calls) /\ q # <<>> /\ Head(q) = c
    BY <1>2, <2>1 DEF TypeOK, IsHead
  <2>3. Tail(q) \in Seq(Calls)
    BY <2>2
  <2>4. Dequeued(c) = [queue EXCEPT ![born[c]][RegionOf(c)] = Tail(q)]
    BY <1>2 DEF Dequeued
  <2>5. Dequeued(c) \in [Epochs -> [Region -> Seq(Calls)]]
    BY <2>1, <2>3, <2>4 DEF TypeOK
  <2>6. ASSUME NEW d \in Calls \ (HealCalls \cup {c}), IsHead(d)
        PROVE  Dequeued(c)[born[d]][RegionOf(d)] = queue[born[d]][RegionOf(d)]
    <3>1. born[d] \in Epochs /\ RegionOf(d) \in Region
      BY RegionOfCall DEF TypeOK
    <3>2. ~(born[d] = born[c] /\ RegionOf(d) = RegionOf(c))
      BY <2>2, <2>6 DEF IsHead
    <3> QED BY <2>1, <2>4, <3>1, <3>2 DEF TypeOK
  <2> QED BY <2>5, <2>6 DEF IsHead
<1> QED BY <1>1, <1>2
LEMMA LeaveShape ==
    ASSUME Shape, NEW c \in Calls, NEW o \in Settled \cup {"late"},
           c \notin HealCalls => IsHead(c),
           Leave(c, o)
    PROVE  Shape'
<1> DEFINE p == [pc EXCEPT ![c] = o]
<1> USE DEF Shape
<1>1. p \in [Calls -> PcStates] /\ pc' \in [Calls -> PcStates]
  BY NotifyOnlyWakes DEF Leave, TypeOK, PcStates
<1>2. \A d \in Calls : \/ pc'[d] = p[d]
                       \/ p[d] = "waiting" /\ pc'[d] = "woken"
  BY <1>1, NotifyOnlyWakes DEF Leave
<1>3. depth' \in [Region -> Nat]
  <2>1. \A r \in Region : (IF depth[r] > 0 THEN depth[r] - 1 ELSE 0) \in Nat
    BY DEF TypeOK
  <2>2. Left(c) \in [Region -> Nat]
    BY <2>1, RegionOfCall DEF Left, TypeOK
  <2> QED BY <2>2 DEF Leave
<1>4. TypeOK'
  BY <1>1, <1>3, PopKeepsShape DEF Leave, TypeOK
<1>5. TurnAtHead'
  <2> SUFFICES ASSUME NEW d \in Calls \ HealCalls,
                      pc'[d] \in {"waiting", "woken", "granted", "running"}
               PROVE  IsHead(d)'
    BY DEF TurnAtHead
  <2>1. d # c
    BY <1>2, <1>1 DEF TypeOK, Settled
  <2>2. pc[d] \in {"waiting", "woken", "granted", "running"}
    BY <1>2, <2>1 DEF TypeOK
  <2>3. IsHead(d)
    BY <2>2 DEF TurnAtHead
  <2> QED BY <2>1, <2>3, PopKeepsShape DEF IsHead, Leave
<1>6. ActorsExist'
  BY DEF ActorsExist, Leave
<1> QED BY <1>4, <1>5, <1>6

LEMMA GiveUpShape ==
    ASSUME Shape, NEW c \in Calls, NEW o \in Settled,
           c \notin HealCalls => IsHead(c),
           GiveUp(c, o)
    PROVE  Shape'
<1> USE DEF Shape
<1>1. TypeOK'
  BY PopKeepsShape DEF GiveUp, TypeOK, PcStates
<1>2. TurnAtHead'
  <2> SUFFICES ASSUME NEW d \in Calls \ HealCalls,
                      pc'[d] \in {"waiting", "woken", "granted", "running"}
               PROVE  IsHead(d)'
    BY DEF TurnAtHead
  <2>1. d # c /\ pc'[d] = pc[d]
    BY DEF GiveUp, TypeOK, Settled
  <2> QED BY <2>1, PopKeepsShape DEF IsHead, GiveUp, TurnAtHead
<1>3. ActorsExist'
  BY DEF ActorsExist, GiveUp
<1> QED BY <1>1, <1>2, <1>3

LEMMA AttemptShape ==
    ASSUME Shape, NEW c \in Calls, c \notin HealCalls => IsHead(c),
           Grant(c) \/ Block(c),
           UNCHANGED <<epoch, queue, holds, leased>>,
           parent' \in [Calls -> Calls \cup {NoCall}], born' \in [Calls -> Epochs],
           \A d \in Calls \ HealCalls : born'[d] = born[d]
    PROVE  Shape'
<1> USE DEF Shape
<1>1. /\ pc' \in [Calls -> PcStates]
      /\ \A d \in Calls \ {c} : \/ pc'[d] = pc[d]
                                \/ pc[d] = "waiting" /\ pc'[d] = "woken"
  <2>1. CASE Grant(c)
    <3> DEFINE p == [pc EXCEPT ![c] = "granted"]
    <3>1. p \in [Calls -> PcStates]
      BY DEF TypeOK, PcStates
    <3>2. pc' = Notify(p, Entered(c)) /\ \A d \in Calls \ {c} : p[d] = pc[d]
      BY <2>1 DEF Grant, TypeOK
    <3> HIDE DEF p
    <3> QED BY <3>1, <3>2, NotifyOnlyWakes
  <2>2. CASE Block(c)
    <3> DEFINE p == [pc EXCEPT ![c] = "waiting"]
    <3>1. p \in [Calls -> PcStates]
      BY DEF TypeOK, PcStates
    <3>2. pc' = p \/ pc' = Notify(p, depth)
      BY <2>2 DEF Block
    <3>3. \A d \in Calls \ {c} : p[d] = pc[d]
      BY DEF TypeOK
    <3> HIDE DEF p
    <3> QED BY <3>1, <3>2, <3>3, NotifyOnlyWakes
  <2> QED BY <2>1, <2>2
<1>2. depth' \in [Region -> Nat]
  <2>1. Entered(c) \in [Region -> Nat]
    BY RegionOfCall DEF Entered, TypeOK
  <2> QED BY <2>1 DEF Grant, Block, TypeOK
<1>3. actorOf' = [actorOf EXCEPT ![c] = epoch] /\ generation' \in Nat
  BY DEF Grant, Block, TypeOK
<1>4. TypeOK'
  BY <1>1, <1>2, <1>3 DEF TypeOK
<1>5. TurnAtHead'
  BY <1>1 DEF TurnAtHead, IsHead, TypeOK
<1>6. ActorsExist'
  BY <1>3 DEF ActorsExist, TypeOK, Epochs
<1> QED BY <1>4, <1>5, <1>6

LEMMA EnqueueShape ==
    ASSUME Shape, NEW c \in Calls, pc[c] = "idle", Enqueue(c),
           UNCHANGED <<epoch, depth, actorOf, leased>>,
           holds' \subseteq SpendCalls \cup Leases, generation' \in Nat,
           parent' \in [Calls -> Calls \cup {NoCall}]
    PROVE  Shape'
<1> USE DEF Shape
<1> DEFINE q == queue[epoch][RegionOf(c)]
<1>1. epoch \in Epochs /\ RegionOf(c) \in Region /\ q \in Seq(Calls)
  BY RegionOfCall DEF TypeOK
<1>2. /\ Append(q, c) \in Seq(Calls)
      /\ Append(q, c) # <<>>
      /\ q # <<>> => Head(Append(q, c)) = Head(q)
  <2> HIDE DEF q
  <2> QED BY <1>1, AppendProperties, HeadTailAppend
<1>3. queue' = [queue EXCEPT ![epoch][RegionOf(c)] = Append(q, c)]
  BY DEF Enqueue
<1>4. TypeOK'
  <2>1. queue' \in [Epochs -> [Region -> Seq(Calls)]]
    <3> HIDE DEF q
    <3> QED BY <1>1, <1>2, <1>3 DEF TypeOK
  <2> QED BY <1>1, <2>1 DEF TypeOK, Enqueue, PcStates
<1>5. TurnAtHead'
  <2> SUFFICES ASSUME NEW d \in Calls \ HealCalls,
                      pc'[d] \in {"waiting", "woken", "granted", "running"}
               PROVE  IsHead(d)'
    BY DEF TurnAtHead
  <2>1. d # c /\ pc'[d] = pc[d] /\ born'[d] = born[d]
    BY DEF Enqueue, TypeOK
  <2>2. IsHead(d) /\ born[d] \in Epochs /\ RegionOf(d) \in Region
    BY <2>1, RegionOfCall DEF TurnAtHead, TypeOK
  <2> QED BY <1>1, <1>2, <1>3, <2>1, <2>2 DEF IsHead, TypeOK
<1>6. ActorsExist'
  BY DEF ActorsExist
<1> QED BY <1>4, <1>5, <1>6
----------------------------------------------------------------------------
(* What a step does to the calls inside the live actor. *)

Admits(c) ==
    /\ CanBegin(c, depth)
    /\ c \notin Occupants
    /\ Occupants' = Occupants \cup {c}
    /\ depth' = Entered(c)

LetsOut(c) ==
    /\ c \in Occupants
    /\ Occupants' = Occupants \ {c}
    /\ depth' = [depth EXCEPT ![RegionOf(c)] = IF @ > 0 THEN @ - 1 ELSE 0]

NothingInside == Occupants' = Occupants /\ depth' = depth

StartsAfresh == Occupants' = {} /\ depth' = [r \in Region |-> 0]

LEMMA LeaveOccupancy ==
    ASSUME TypeOK, NEW c \in Calls, Holding(c), NEW o \in Settled \cup {"late"},
           Leave(c, o)
    PROVE  LetsOut(c) \/ NothingInside
<1> DEFINE p == [pc EXCEPT ![c] = o]
<1>1. p \in [Calls -> PcStates] /\ p[c] = o /\ o \notin {"granted", "running", "waiting"}
  BY DEF TypeOK, PcStates, Settled
<1>2. \A d \in Calls : pc'[d] \in {"granted", "running"} <=> d # c /\ Holding(d)
  <2>1. pc' = p \/ pc' = Notify(p, Left(c))
    BY DEF Leave
  <2>2. \A d \in Calls : \/ pc'[d] = p[d]
                         \/ p[d] = "waiting" /\ pc'[d] = "woken"
    <3> HIDE DEF p
    <3> QED BY <1>1, <2>1, NotifyOnlyWakes
  <2> QED BY <1>1, <2>2 DEF Holding, TypeOK
<1>3. epoch' = epoch /\ actorOf' = actorOf /\ depth' = Left(c)
  BY DEF Leave
<1>4. Occupants' = Occupants \ {c}
  BY <1>2, <1>3 DEF Occupants, Holding
<1>5. CASE actorOf[c] = epoch
  BY <1>3, <1>4, <1>5 DEF LetsOut, Left, Occupants
<1>6. CASE actorOf[c] # epoch
  BY <1>3, <1>4, <1>6 DEF NothingInside, Left, Occupants
<1> QED BY <1>5, <1>6

LEMMA AttemptOccupancy ==
    ASSUME TypeOK, NEW c \in Calls, ~Holding(c),
           Grant(c) \/ Block(c), epoch' = epoch
    PROVE  Admits(c) \/ NothingInside
<1>1. CASE Grant(c)
  <2> DEFINE p == [pc EXCEPT ![c] = "granted"]
  <2>1. p \in [Calls -> PcStates] /\ pc' = Notify(p, Entered(c))
    BY <1>1 DEF Grant, TypeOK, PcStates
  <2>2. \A d \in Calls : \/ pc'[d] = p[d]
                         \/ p[d] = "waiting" /\ pc'[d] = "woken"
    <3> HIDE DEF p
    <3> QED BY <2>1, NotifyOnlyWakes
  <2>3. \A d \in Calls : pc'[d] \in {"granted", "running"} <=> d = c \/ Holding(d)
    BY <2>1, <2>2 DEF Holding, TypeOK
  <2>4. actorOf' = [actorOf EXCEPT ![c] = epoch]
    BY <1>1 DEF Grant
  <2>5. Occupants' = Occupants \cup {c}
    BY <2>3, <2>4 DEF Occupants, Holding, TypeOK
  <2> QED BY <1>1, <2>5 DEF Admits, Grant, Occupants
<1>2. CASE Block(c)
  <2> DEFINE p == [pc EXCEPT ![c] = "waiting"]
  <2>1. p \in [Calls -> PcStates] /\ (pc' = p \/ pc' = Notify(p, depth))
    BY <1>2 DEF Block, TypeOK, PcStates
  <2>2. \A d \in Calls : \/ pc'[d] = p[d]
                         \/ p[d] = "waiting" /\ pc'[d] = "woken"
    <3> HIDE DEF p
    <3> QED BY <2>1, NotifyOnlyWakes
  <2>3. \A d \in Calls : pc'[d] \in {"granted", "running"} <=> Holding(d)
    BY <2>1, <2>2 DEF Holding, TypeOK
  <2>4. actorOf' = [actorOf EXCEPT ![c] = epoch] /\ depth' = depth
    BY <1>2 DEF Block
  <2>5. Occupants' = Occupants
    BY <2>3, <2>4 DEF Occupants, Holding, TypeOK
  <2> QED BY <2>4, <2>5 DEF NothingInside
<1> QED BY <1>1, <1>2
OccupancyStep ==
    \/ \E c \in Calls : Admits(c) \/ LetsOut(c)
    \/ NothingInside
    \/ StartsAfresh

LEMMA CallStepLemma ==
    ASSUME Shape, NEW c \in Calls, CallStep(c)
    PROVE  Shape' /\ OccupancyStep
<1> USE DEF Shape
<1>a. ASSUME NEW b \in {"queued", "deferred", "bypass", "refused"},
             pc' = [pc EXCEPT ![c] = b], pc[c] = "idle",
             UNCHANGED <<epoch, depth, actorOf>>
      PROVE  NothingInside
  BY <1>a DEF NothingInside, Occupants, Holding, TypeOK
<1>1. CASE CallQueued(c)
  <2>1. Shape'
    BY <1>1, EnqueueShape DEF CallQueued, TypeOK
  <2> QED BY <1>1, <1>a, <2>1 DEF CallQueued, Enqueue, OccupancyStep
<1>2. CASE CallSpend(c)
  <2>1. parent' \in [Calls -> Calls \cup {NoCall}]
    BY <1>2 DEF CallSpend, TypeOK
  <2>2. /\ pc[c] = "idle" /\ Enqueue(c)
        /\ UNCHANGED <<epoch, depth, actorOf, leased>>
        /\ holds' \subseteq SpendCalls \cup Leases /\ generation' \in Nat
    BY <1>2 DEF CallSpend, TypeOK
  <2>3. Shape'
    BY <2>1, <2>2, EnqueueShape
  <2> QED BY <1>a, <2>2, <2>3 DEF Enqueue, OccupancyStep
<1>3. ASSUME NEW r \in RecomposeCalls \cup {NoCall}, CallHistory(c, r)
      PROVE  Shape' /\ OccupancyStep
  <2>1. parent' \in [Calls -> Calls \cup {NoCall}]
    BY <1>3 DEF CallHistory, TypeOK, RecomposeBodies, Calls
  <2>2. /\ pc[c] = "idle" /\ Enqueue(c)
        /\ UNCHANGED <<epoch, depth, actorOf, leased>>
        /\ holds' \subseteq SpendCalls \cup Leases /\ generation' \in Nat
    BY <1>3 DEF CallHistory, TypeOK
  <2>3. Shape'
    BY <2>1, <2>2, EnqueueShape
  <2> QED BY <1>a, <2>2, <2>3 DEF Enqueue, OccupancyStep
<1>4. ASSUME NEW r \in RecomposeCalls \cup {NoCall}, CallHistoryBypass(c, r)
      PROVE  Shape' /\ OccupancyStep
  <2>1. parent' \in [Calls -> Calls \cup {NoCall}]
    BY <1>4 DEF CallHistoryBypass, TypeOK, RecomposeBodies, Calls
  <2>2. TypeOK'
    BY <1>4, <2>1 DEF CallHistoryBypass, TypeOK, PcStates, Settled
  <2>3. TurnAtHead'
    BY <1>4 DEF CallHistoryBypass, TurnAtHead, IsHead, TypeOK
  <2>4. ActorsExist'
    BY <1>4 DEF CallHistoryBypass, ActorsExist
  <2> QED BY <1>4, <1>a, <2>2, <2>3, <2>4 DEF CallHistoryBypass, OccupancyStep
<1>5. ASSUME NEW s \in SpendCalls, CallHeal(c, s)
      PROVE  Shape' /\ OccupancyStep
  <2>1. /\ c \in HealCalls /\ pc[c] = "idle" /\ ~Holding(c)
        /\ parent' \in [Calls -> Calls \cup {NoCall}]
        /\ born' \in [Calls -> Epochs]
        /\ \A d \in Calls \ HealCalls : born'[d] = born[d]
        /\ UNCHANGED <<epoch, queue, holds, leased>>
    BY <1>5 DEF CallHeal, TypeOK, Calls, Holding
  <2>2. CASE Grant(c) \/ Block(c)
    BY <2>1, <2>2, AttemptShape, AttemptOccupancy DEF OccupancyStep
  <2>3. ASSUME NEW b \in {"bypass", "refused"}, pc' = [pc EXCEPT ![c] = b],
               UNCHANGED <<depth, actorOf, generation>>
        PROVE  Shape' /\ OccupancyStep
    <3>1. TypeOK'
      BY <2>1, <2>3 DEF TypeOK, PcStates, Settled
    <3>2. TurnAtHead' /\ ActorsExist'
      BY <2>1, <2>3 DEF TurnAtHead, IsHead, TypeOK, ActorsExist
    <3> QED BY <1>a, <2>1, <2>3, <3>1, <3>2 DEF OccupancyStep
  <2> QED BY <1>5, <2>2, <2>3 DEF CallHeal
<1> QED BY <1>1, <1>2, <1>3, <1>4, <1>5 DEF CallStep

LEMMA CoordinatorStepLemma ==
    ASSUME Shape, NEW c \in Calls, CoordinatorStep(c)
    PROVE  Shape' /\ OccupancyStep
<1> USE DEF Shape
<1>a. ASSUME NEW o \in Settled, GiveUp(c, o), ~Holding(c), c \notin HealCalls => IsHead(c)
      PROVE  Shape' /\ OccupancyStep
  <2>1. Shape'
    BY <1>a, GiveUpShape
  <2>2. NothingInside
    BY <1>a DEF GiveUp, NothingInside, Occupants, Holding, TypeOK, Settled
  <2> QED BY <2>1, <2>2 DEF OccupancyStep
<1>b. ASSUME NEW o \in Settled, Leave(c, o), pc[c] = "granted"
      PROVE  Shape' /\ OccupancyStep
  <2>1. c \notin HealCalls => IsHead(c)
    BY <1>b DEF TurnAtHead
  <2>2. Shape'
    BY <1>b, <2>1, LeaveShape
  <2>3. LetsOut(c) \/ NothingInside
    BY <1>b, LeaveOccupancy DEF Holding
  <2> QED BY <2>2, <2>3 DEF OccupancyStep
<1>c. ASSUME Attempt(c), ~Holding(c), c \notin HealCalls => IsHead(c)
      PROVE  Shape' /\ OccupancyStep
  <2>1. Shape'
    BY <1>c, AttemptShape DEF Attempt, TypeOK
  <2>2. Admits(c) \/ NothingInside
    BY <1>c, AttemptOccupancy DEF Attempt
  <2> QED BY <2>1, <2>2 DEF OccupancyStep
<1>1. CASE DequeueStale(c)
  BY <1>1, <1>a DEF DequeueStale, Holding, Settled
<1>2. CASE Dequeue(c)
  BY <1>2, <1>c DEF Dequeue, Holding
<1>3. CASE Resume(c)
  BY <1>3, <1>c DEF Resume, Holding, TurnAtHead
<1>4. CASE Defer(c)
  <2>1. ~Holding(c) /\ (c \notin HealCalls => IsHead(c))
    BY <1>4 DEF Defer, Holding, TurnAtHead
  <2> QED BY <1>4, <2>1, <1>a DEF Defer, Settled
<1>5. CASE StaleEntry(c)
  BY <1>5, <1>b DEF StaleEntry, Settled
<1>6. CASE DeferEntry(c)
  BY <1>6, <1>b DEF DeferEntry, Settled
<1>7. CASE Start(c)
  <2>1. TypeOK'
    BY <1>7 DEF Start, TypeOK, PcStates
  <2>2. TurnAtHead' /\ ActorsExist'
    BY <1>7 DEF Start, TurnAtHead, IsHead, TypeOK, ActorsExist
  <2>3. NothingInside
    BY <1>7 DEF Start, NothingInside, Occupants, Holding, TypeOK
  <2> QED BY <2>1, <2>2, <2>3 DEF OccupancyStep
<1> QED BY <1>1, <1>2, <1>3, <1>4, <1>5, <1>6, <1>7 DEF CoordinatorStep

LEMMA BodyStepLemma ==
    ASSUME Shape, NEW c \in Calls,
           BodyEnds(c) \/ AcquireTimeout(c) \/ Abandon(c)
    PROVE  Shape' /\ OccupancyStep
<1> USE DEF Shape
<1>a. ASSUME NEW o \in Settled \cup {"late"}, Leave(c, o), pc[c] = "running"
      PROVE  Shape' /\ OccupancyStep
  <2>1. c \notin HealCalls => IsHead(c)
    BY <1>a DEF TurnAtHead
  <2>2. Shape'
    BY <1>a, <2>1, LeaveShape
  <2>3. LetsOut(c) \/ NothingInside
    BY <1>a, LeaveOccupancy DEF Holding
  <2> QED BY <2>2, <2>3 DEF OccupancyStep
<1>1. CASE Finish(c)
  BY <1>1, <1>a DEF Finish, Settled
<1>2. CASE Abandon(c)
  BY <1>2, <1>a DEF Abandon
<1>3. CASE SettleOutside(c)
  <2>1. TypeOK'
    BY <1>3 DEF SettleOutside, TypeOK, PcStates, Settled
  <2>2. TurnAtHead' /\ ActorsExist'
    BY <1>3 DEF SettleOutside, TurnAtHead, IsHead, TypeOK, ActorsExist
  <2>3. NothingInside
    BY <1>3 DEF SettleOutside, NothingInside, Occupants, Holding, TypeOK
  <2> QED BY <2>1, <2>2, <2>3 DEF OccupancyStep
<1>4. CASE AcquireTimeout(c)
  <2>1. GiveUp(c, "timedOut") /\ pc[c] \in {"waiting", "woken"} /\ "timedOut" \in Settled
    BY <1>4 DEF AcquireTimeout, Settled
  <2>2. c \notin HealCalls => IsHead(c)
    BY <2>1 DEF TurnAtHead
  <2>3. Shape'
    BY <2>1, <2>2, GiveUpShape
  <2>4. NothingInside
    BY <2>1 DEF GiveUp, NothingInside, Occupants, Holding, TypeOK
  <2> QED BY <2>3, <2>4 DEF OccupancyStep
<1> QED BY <1>1, <1>2, <1>3, <1>4 DEF BodyEnds

LEMMA HoldStepLemma ==
    ASSUME Shape, (\E l \in Leases : Lease(l)) \/ (\E h \in SpendCalls \cup Leases : DropHold(h))
    PROVE  Shape' /\ OccupancyStep
<1> USE DEF Shape
<1>1. UNCHANGED <<epoch, depth, queue, pc, born, actorOf, parent>>
  BY DEF Lease, DropHold
<1>2. TypeOK'
  BY <1>1 DEF TypeOK, Lease, DropHold
<1>3. TurnAtHead' /\ ActorsExist'
  BY <1>1 DEF TurnAtHead, IsHead, ActorsExist
<1>4. NothingInside
  BY <1>1 DEF NothingInside, Occupants, Holding
<1> QED BY <1>2, <1>3, <1>4 DEF OccupancyStep

LEMMA RebindLemma ==
    ASSUME Shape, Rebind
    PROVE  Shape' /\ OccupancyStep
<1> USE DEF Shape
<1>1. TypeOK'
  BY MaxEpochNat DEF Rebind, TypeOK, Epochs
<1>2. TurnAtHead'
  BY DEF Rebind, TurnAtHead, IsHead
<1>3. ActorsExist' /\ \A c \in Calls : actorOf'[c] # epoch'
  BY DEF Rebind, ActorsExist, TypeOK, Epochs
<1>4. StartsAfresh
  BY <1>3 DEF Rebind, StartsAfresh, Occupants
<1> QED BY <1>1, <1>2, <1>3, <1>4 DEF OccupancyStep

LEMMA NextStep ==
    ASSUME Shape, [Next]_vars
    PROVE  Shape' /\ OccupancyStep
<1>1. CASE UNCHANGED vars
  <2>1. Shape'
    BY <1>1 DEF vars, Shape, TypeOK, TurnAtHead, IsHead, ActorsExist
  <2>2. NothingInside
    BY <1>1 DEF vars, NothingInside, Occupants, Holding
  <2> QED BY <2>1, <2>2 DEF OccupancyStep
<1>2. CASE Next
  BY <1>2, CallStepLemma, CoordinatorStepLemma, BodyStepLemma, HoldStepLemma, RebindLemma
     DEF Next
<1> QED BY <1>1, <1>2
----------------------------------------------------------------------------
(* Exact counters and lone backups follow from the step and nothing else. *)

Counted == DepthIsOccupancy /\ LonersAlone

LEMMA InitCounted == Init => Counted
BY DEF Init, Counted, DepthIsOccupancy, LonersAlone, Occupants, Holding, Region

LEMMA AdmitCounted ==
    ASSUME TypeOK, Counted, NEW c \in Calls, Admits(c)
    PROVE  Counted'
<1> USE DEF Counted
<1>1. RegionOf(c) \in Region /\ depth[RegionOf(c)] = 0
  BY RegionOfCall, KindsDisjoint
     DEF Admits, CanBegin, CanBeginChainIngest, CanBeginNestedIngest, CanBeginSpend,
         CanBeginHistoryReplica, CanBeginRecompose, AllIdle, RegionOf, Region, Calls
<1>2. \A d \in Occupants : RegionOf(d) # RegionOf(c)
  BY <1>1 DEF DepthIsOccupancy
<1>3. \A r \in Region : depth'[r] = IF r = RegionOf(c) THEN 1 ELSE depth[r]
  BY <1>1 DEF Admits, Entered, TypeOK
<1>4. DepthIsOccupancy'
  <2> SUFFICES ASSUME NEW r \in Region
               PROVE  \/ depth'[r] = 0 /\ \A d \in Occupants' : RegionOf(d) # r
                      \/ depth'[r] = 1 /\ \E d \in Occupants' :
                              \A e \in Occupants' : RegionOf(e) = r <=> e = d
    BY DEF DepthIsOccupancy
  <2>1. Occupants' = Occupants \cup {c}
    BY DEF Admits
  <2>2. CASE r = RegionOf(c)
    BY <1>2, <1>3, <2>1, <2>2
  <2>3. CASE r # RegionOf(c)
    BY <1>3, <2>1, <2>3 DEF DepthIsOccupancy
  <2> QED BY <2>2, <2>3
<1>5. LonersAlone'
  <2>1. CASE RegionOf(c) \in {"historyReplica", "recompose"}
    <3>1. \A r \in Region : depth[r] = 0
      BY <1>1, <2>1, KindsDisjoint
         DEF Admits, CanBegin, CanBeginHistoryReplica, CanBeginRecompose, AllIdle, RegionOf,
             Region, Calls, TypeOK
    <3>2. \A r \in Region \ {RegionOf(c)} : depth'[r] = 0
      BY <1>3, <3>1
    <3> QED BY <3>2 DEF LonersAlone, Region
  <2>2. CASE RegionOf(c) \notin {"historyReplica", "recompose"}
    <3>1. depth["historyReplica"] = 0 /\ depth["recompose"] = 0
      <4>1. c \notin HistoryCalls /\ c \notin RecomposeCalls
        BY <2>2, KindsDisjoint DEF RegionOf
      <4>2. depth["recompose"] = 0 /\ (depth["historyReplica"] = 0 \/ depth["spend"] > 0)
        BY <4>1 DEF Admits, CanBegin, CanBeginChainIngest, CanBeginNestedIngest, CanBeginSpend
      <4>3. {depth["spend"], depth["historyReplica"]} \subseteq Nat
        BY DEF TypeOK, Region
      <4>4. depth["historyReplica"] > 0 => depth["spend"] = 0
        BY DEF LonersAlone, Region
      <4> QED BY <4>2, <4>3, <4>4
    <3>2. depth'["historyReplica"] = 0 /\ depth'["recompose"] = 0
      BY <1>3, <2>2, <3>1 DEF Region
    <3> QED BY <3>2 DEF LonersAlone
  <2> QED BY <2>1, <2>2
<1> QED BY <1>4, <1>5

LEMMA LetOutCounted ==
    ASSUME TypeOK, Counted, NEW c \in Calls, LetsOut(c)
    PROVE  Counted'
<1> USE DEF Counted
<1>1. c \in Occupants /\ RegionOf(c) \in Region
  BY RegionOfCall DEF LetsOut
<1>2. /\ depth[RegionOf(c)] = 1
      /\ \A d \in Occupants : RegionOf(d) = RegionOf(c) => d = c
  BY <1>1 DEF DepthIsOccupancy
<1>3. \A r \in Region : depth'[r] = IF r = RegionOf(c) THEN 0 ELSE depth[r]
  BY <1>1, <1>2 DEF LetsOut, TypeOK
<1>4. DepthIsOccupancy'
  <2> SUFFICES ASSUME NEW r \in Region
               PROVE  \/ depth'[r] = 0 /\ \A d \in Occupants' : RegionOf(d) # r
                      \/ depth'[r] = 1 /\ \E d \in Occupants' :
                              \A e \in Occupants' : RegionOf(e) = r <=> e = d
    BY DEF DepthIsOccupancy
  <2>1. Occupants' = Occupants \ {c}
    BY DEF LetsOut
  <2>2. CASE r = RegionOf(c)
    BY <1>2, <1>3, <2>1, <2>2
  <2>3. CASE r # RegionOf(c)
    BY <1>3, <2>1, <2>3 DEF DepthIsOccupancy
  <2> QED BY <2>2, <2>3
<1>5. LonersAlone'
  <2> SUFFICES ASSUME NEW r \in {"historyReplica", "recompose"}, depth'[r] > 0,
                      NEW s \in Region \ {r}
               PROVE  depth'[s] = 0
    BY DEF LonersAlone
  <2>1. r \in Region /\ depth[r] > 0
    BY <1>3 DEF Region
  <2>2. depth[s] = 0
    BY <2>1 DEF LonersAlone
  <2> QED BY <1>3, <2>2
<1> QED BY <1>4, <1>5

LEMMA StepCounted ==
    ASSUME TypeOK, Counted, OccupancyStep
    PROVE  Counted'
<1>1. ASSUME NothingInside PROVE Counted'
  BY <1>1 DEF NothingInside, Counted, DepthIsOccupancy, LonersAlone
<1>2. ASSUME StartsAfresh PROVE Counted'
  BY <1>2 DEF StartsAfresh, Counted, DepthIsOccupancy, LonersAlone, Region
<1> QED BY <1>1, <1>2, AdmitCounted, LetOutCounted DEF OccupancyStep

----------------------------------------------------------------------------
\* The inductive invariant: well-typed queues whose heads have the turn, exact
\* counters, and backups and recomposes alone.
THEOREM Invariance == Spec => []IInv
<1>1. Init => IInv
  BY InitShape, InitCounted DEF IInv, Shape, Counted
<1>2. IInv /\ [Next]_vars => IInv'
  BY NextStep, StepCounted DEF IInv, Shape, Counted
<1> QED BY <1>1, <1>2, PTL DEF Spec

\* Every variable keeps its type in every run of the coordinator.
THEOREM TypeCorrect == Spec => []TypeOK
BY Invariance, PTL DEF IInv

\* A region's depth is one exactly while one call is inside: every path out of
\* a body, a fence, a deferral or an abandonment sends its END exactly once.
THEOREM CountersExact == Spec => []DepthIsOccupancy
BY Invariance, PTL DEF IInv

LEMMA CountedExcludes == TypeOK /\ Counted => RegionExclusion
<1> SUFFICES ASSUME TypeOK, Counted, NEW c \in Occupants, NEW d \in Occupants, c # d
             PROVE  {RegionOf(c), RegionOf(d)} = {"chainIngest", "spend"}
  BY DEF RegionExclusion
<1> DEFINE a == RegionOf(c)
<1> DEFINE b == RegionOf(d)
<1>1. a \in Region /\ b \in Region
  BY RegionOfCall DEF Occupants
<1>2. depth[a] = 1 /\ depth[b] = 1 /\ a # b
  BY <1>1 DEF Counted, DepthIsOccupancy
<1>3. a \notin {"historyReplica", "recompose"} /\ b \notin {"historyReplica", "recompose"}
  BY <1>1, <1>2 DEF Counted, LonersAlone
<1>4. a \in {"chainIngest", "spend"} /\ b \in {"chainIngest", "spend"}
  BY <1>1, <1>3 DEF Region
<1> QED BY <1>2, <1>4

\* No two calls are inside the live actor together unless one is a chain ingest
\* and the other a spend.
THEOREM Exclusion == Spec => []RegionExclusion
<1>1. IInv => RegionExclusion
  BY CountedExcludes DEF IInv, Counted
<1> QED BY <1>1, Invariance, PTL

----------------------------------------------------------------------------
LEMMA AdmitEnters ==
    ASSUME TypeOK, Counted, NEW c \in Calls, Admits(c)
    PROVE  Arbiter!Enter(c)
<1> USE DEF Admits, CanBegin, Counted
<1>1. \A k \in Occupants : k \in Calls /\ RegionOf(k) \in Region /\ depth[RegionOf(k)] = 1
  BY RegionOfCall DEF Occupants, DepthIsOccupancy
<1>2. CASE c \in IngestCalls \cup HistoryCalls \cup RecomposeCalls
  <2>1. AllIdle(depth)
    BY <1>2, KindsDisjoint
       DEF CanBeginChainIngest, CanBeginHistoryReplica, CanBeginRecompose, AllIdle, Region
  <2>2. Occupants = {}
    BY <1>1, <2>1 DEF AllIdle
  <2>3. c \notin HealCalls
    BY <1>2, KindsDisjoint
  <2> QED BY <2>2, <2>3 DEF Arbiter!Enter
<1>3. CASE c \in SpendCalls
  <2>1. \A r \in Region \ {"chainIngest"} : depth[r] = 0
    BY <1>3, KindsDisjoint DEF CanBeginSpend, Region
  <2>2. \A k \in Occupants : RegionOf(k) = "chainIngest"
    BY <1>1, <2>1
  <2>3. \A k \in Occupants : k \in IngestCalls \cup HealCalls
    BY <1>1, <2>2 DEF RegionOf, Calls
  <2>4. c \notin IngestCalls /\ c \notin HealCalls
    BY <1>3, KindsDisjoint
  <2> QED BY <1>3, <2>3, <2>4 DEF Arbiter!Enter, Arbiter!Compatible
<1>4. CASE c \in HealCalls
  <2>1. /\ depth["recompose"] = 0 /\ depth["chainIngest"] = 0 /\ depth["spend"] > 0
    BY <1>4, KindsDisjoint DEF CanBeginNestedIngest
  <2>2. depth["historyReplica"] = 0
    <3>1. depth["historyReplica"] > 0 => depth["spend"] = 0
      BY DEF LonersAlone, Region
    <3> QED BY <2>1, <3>1 DEF TypeOK, Region
  <2>3. \A k \in Occupants : RegionOf(k) = "spend"
    BY <1>1, <2>1, <2>2 DEF Region
  <2>4. \A k \in Occupants : k \in SpendCalls
    BY <1>1, <2>3 DEF RegionOf
  <2>5. \E k \in Occupants : RegionOf(k) = "spend"
    BY <2>1 DEF DepthIsOccupancy, Region
  <2>6. c \notin IngestCalls
    BY <1>4, KindsDisjoint
  <2> QED BY <1>4, <2>4, <2>5, <2>6 DEF Arbiter!Enter, Arbiter!Compatible
<1> QED BY <1>2, <1>3, <1>4 DEF Calls

\* The coordinator implements the region arbiter, for every set of calls: each
\* step admits a compatible job, lets one out, or replaces the runtime.
THEOREM Implementation == Spec => ImplementsArbiter
<1>1. Init => Arbiter!Init
  BY DEF Init, Arbiter!Init, Occupants, Holding
<1>2. IInv /\ [Next]_vars => [Arbiter!Next]_Occupants
  <2> SUFFICES ASSUME IInv, [Next]_vars
               PROVE  [Arbiter!Next]_Occupants
    OBVIOUS
  <2>1. OccupancyStep
    BY NextStep DEF IInv, Shape
  <2>2. ASSUME NEW c \in Calls, Admits(c) PROVE Arbiter!Next
    BY <2>2, AdmitEnters DEF IInv, Counted, Arbiter!Next, Arbiter!Jobs, Calls
  <2>3. ASSUME NEW c \in Calls, LetsOut(c) PROVE Arbiter!Next
    BY <2>3 DEF LetsOut, Arbiter!Next, Arbiter!Leave, Arbiter!Jobs, Calls
  <2>4. ASSUME NothingInside PROVE UNCHANGED Occupants
    BY <2>4 DEF NothingInside
  <2>5. ASSUME StartsAfresh PROVE Arbiter!Next
    BY <2>5 DEF StartsAfresh, Arbiter!Next, Arbiter!NewRuntime
  <2> QED BY <2>1, <2>2, <2>3, <2>4, <2>5 DEF OccupancyStep
<1> QED BY <1>1, <1>2, Invariance, PTL DEF Spec, ImplementsArbiter, Arbiter!Spec
=============================================================================
