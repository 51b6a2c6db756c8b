----------------------- MODULE CoordinatorQueueProofs -----------------------
(***************************************************************************)
(* Queue order and priority holds of WalletCoordinator, for every set of   *)
(* calls and any number of runtime replacements.                           *)
(*                                                                         *)
(* A queue is disturbed in three ways only: a call that was idle joins at  *)
(* its end, its head leaves, or its head changes state inside it.  That    *)
(* these keep the order needs one more fact than the order itself: no call *)
(* stands in a queue twice, and nested heals stand in none.                *)
(***************************************************************************)
EXTENDS WalletCoordinatorProofs

InTurn == {"queued", "waiting", "woken", "granted", "running"}

\* No call stands twice in a queue, and a nested heal in none.
StandsOnce ==
    \A e \in Epochs, r \in Region : \A i \in 1..Len(queue[e][r]) :
        /\ queue[e][r][i] \notin HealCalls
        /\ \A j \in 1..Len(queue[e][r]) : queue[e][r][i] = queue[e][r][j] => i = j

Ordered == QueueOrder /\ StandsOnce

\* All calls but c keep what the queues see of them, or are woken.
OthersKeep(c) ==
    /\ \A d \in Calls \ {c} : born'[d] = born[d]
    /\ \A d \in Calls \ {c} : pc'[d] = pc[d] \/ (pc[d] = "waiting" /\ pc'[d] = "woken")

----------------------------------------------------------------------------
LEMMA InQueue ==
    ASSUME TypeOK, Ordered, NEW e \in Epochs, NEW r \in Region,
           NEW i \in 1..Len(queue[e][r])
    PROVE  /\ queue[e][r] \in Seq(Calls) /\ queue[e][r][i] \in Calls \ HealCalls
           /\ RegionOf(queue[e][r][i]) = r /\ born[queue[e][r][i]] = e
           /\ pc[queue[e][r][i]] \in InTurn
           /\ i # 1 => pc[queue[e][r][i]] = "queued"
<1>1. queue[e][r] \in Seq(Calls)
  BY DEF TypeOK
<1>2. queue[e][r][i] \in Calls
  BY <1>1
<1> QED BY <1>1, <1>2 DEF Ordered, QueueOrder, StandsOnce, InTurn

\* A call that has its turn, or stands in no queue, changes state.
LEMMA TurnOrder ==
    ASSUME TypeOK, Ordered, NEW c \in Calls, OthersKeep(c), queue' = queue,
           \/ pc[c] \notin InTurn
           \/ c \in HealCalls
           \/ IsHead(c) /\ born'[c] = born[c] /\ pc'[c] \in InTurn
    PROVE  Ordered'
<1>1. StandsOnce'
  BY DEF Ordered, StandsOnce
<1>2. QueueOrder'
  <2> SUFFICES ASSUME NEW e \in Epochs, NEW r \in Region, NEW i \in 1..Len(queue[e][r])
               PROVE  /\ RegionOf(queue[e][r][i]) = r /\ born'[queue[e][r][i]] = e
                      /\ IF i = 1 THEN pc'[queue[e][r][i]] \in InTurn
                                  ELSE pc'[queue[e][r][i]] = "queued"
    BY DEF QueueOrder, InTurn
  <2> DEFINE d == queue[e][r][i]
  <2>0. /\ d \in Calls \ HealCalls /\ RegionOf(d) = r /\ born[d] = e
        /\ pc[d] \in InTurn /\ (i # 1 => pc[d] = "queued")
    BY InQueue
  <2>1. CASE d # c
    <3>1. born'[d] = born[d] /\ (pc'[d] = pc[d] \/ (pc[d] = "waiting" /\ pc'[d] = "woken"))
      BY <2>0, <2>1 DEF OthersKeep
    <3> HIDE DEF d
    <3>2. (i = 1 => pc'[d] \in InTurn) /\ (i # 1 => pc'[d] = "queued")
      BY <2>0, <3>1 DEF InTurn
    <3> QED BY <2>0, <3>1, <3>2 DEF d
  <2>2. CASE d = c
    <3>1. IsHead(c) /\ born'[c] = born[c] /\ pc'[c] \in InTurn
      BY <2>0, <2>2
    <3>2. queue[e][r] # <<>> /\ queue[e][r][1] = c
      BY <2>0, <2>2, <3>1 DEF IsHead
    <3>3. i = 1
      BY <2>2, <3>2, InQueue DEF Ordered, StandsOnce
    <3> QED BY <2>0, <2>2, <3>1, <3>3
  <2> QED BY <2>1, <2>2
<1> QED BY <1>1, <1>2 DEF Ordered

\* The head of a queue leaves it, or a heal, which stands in none, goes away.
LEMMA PopOrder ==
    ASSUME TypeOK, Ordered, NEW c \in Calls, OthersKeep(c),
           born' = born, queue' = Dequeued(c), c \notin HealCalls => IsHead(c)
    PROVE  Ordered'
<1>1. CASE c \in HealCalls
  BY <1>1, TurnOrder DEF Dequeued
<1>2. CASE c \notin HealCalls
  <2> DEFINE q == queue[born[c]][RegionOf(c)]
  <2>1. born[c] \in Epochs /\ RegionOf(c) \in Region
    BY RegionOfCall DEF TypeOK
  <2>2. q \in Seq(Calls) /\ q # <<>> /\ q[1] = c
    BY <1>2, <2>1 DEF TypeOK, IsHead
  <2>3. queue' = [queue EXCEPT ![born[c]][RegionOf(c)] = Tail(q)]
    BY <1>2 DEF Dequeued
  <2> SUFFICES ASSUME NEW e \in Epochs, NEW r \in Region, NEW i \in 1..Len(queue'[e][r])
               PROVE  /\ RegionOf(queue'[e][r][i]) = r /\ born[queue'[e][r][i]] = e
                      /\ queue'[e][r][i] \notin HealCalls
                      /\ IF i = 1 THEN pc'[queue'[e][r][i]] \in InTurn
                                  ELSE pc'[queue'[e][r][i]] = "queued"
                      /\ \A j \in 1..Len(queue'[e][r]) :
                            queue'[e][r][i] = queue'[e][r][j] => i = j
    BY DEF Ordered, QueueOrder, StandsOnce, InTurn
  <2>4. CASE e = born[c] /\ r = RegionOf(c)
    <3>1. queue'[e][r] = Tail(q)
      BY <2>1, <2>3, <2>4 DEF TypeOK
    <3>2. /\ Len(Tail(q)) = Len(q) - 1
          /\ \A j \in 1..Len(Tail(q)) : j + 1 \in 1..Len(q) /\ Tail(q)[j] = q[j + 1]
      <4> HIDE DEF q
      <4> QED BY <2>2
    <3>3. i + 1 \in 1..Len(q) /\ queue'[e][r][i] = q[i + 1]
      BY <3>1, <3>2
    <3>4. /\ q[i + 1] \in Calls \ HealCalls /\ RegionOf(q[i + 1]) = r
          /\ born[q[i + 1]] = e /\ pc[q[i + 1]] = "queued"
      BY <2>1, <2>4, <3>3, InQueue
    <3>5. \A j, k \in 1..Len(q) : q[j] = q[k] => j = k
      BY <2>1 DEF Ordered, StandsOnce
    <3>6. q[i + 1] # c
      BY <2>2, <3>3, <3>5
    <3>7. pc'[q[i + 1]] = "queued"
      BY <3>4, <3>6 DEF OthersKeep
    <3>8. \A j \in 1..Len(queue'[e][r]) : queue'[e][r][i] = queue'[e][r][j] => i = j
      BY <3>1, <3>2, <3>3, <3>5
    <3> QED BY <3>3, <3>4, <3>7, <3>8 DEF InTurn
  <2>5. CASE ~(e = born[c] /\ r = RegionOf(c))
    <3>1. queue'[e][r] = queue[e][r]
      BY <2>1, <2>3, <2>5 DEF TypeOK
    <3> DEFINE d == queue[e][r][i]
    <3>2. /\ d \in Calls \ HealCalls /\ RegionOf(d) = r /\ born[d] = e
          /\ pc[d] \in InTurn /\ (i # 1 => pc[d] = "queued")
      BY <3>1, InQueue
    <3>3. d # c
      BY <2>5, <3>2
    <3>4. pc'[d] = pc[d] \/ (pc[d] = "waiting" /\ pc'[d] = "woken")
      BY <3>2, <3>3 DEF OthersKeep
    <3>5. \A j \in 1..Len(queue[e][r]) : d = queue[e][r][j] => i = j
      BY <3>1 DEF Ordered, StandsOnce
    <3> HIDE DEF d
    <3>6. (i = 1 => pc'[d] \in InTurn) /\ (i # 1 => pc'[d] = "queued")
      BY <3>2, <3>4 DEF InTurn
    <3> QED BY <3>1, <3>2, <3>5, <3>6 DEF d
  <2> QED BY <2>4, <2>5
<1> QED BY <1>1, <1>2

\* An idle call joins the end of its region's queue.
LEMMA EnqueueOrder ==
    ASSUME TypeOK, Ordered, NEW c \in Calls \ HealCalls, pc[c] = "idle", Enqueue(c)
    PROVE  Ordered'
<1> DEFINE q == queue[epoch][RegionOf(c)]
<1>1. epoch \in Epochs /\ RegionOf(c) \in Region /\ q \in Seq(Calls)
  BY RegionOfCall DEF TypeOK
<1>2. queue' = [queue EXCEPT ![epoch][RegionOf(c)] = Append(q, c)]
  BY DEF Enqueue
<1>3. /\ pc'[c] = "queued" /\ born'[c] = epoch
      /\ \A d \in Calls \ {c} : pc'[d] = pc[d] /\ born'[d] = born[d]
  BY DEF Enqueue, TypeOK
<1> SUFFICES ASSUME NEW e \in Epochs, NEW r \in Region, NEW i \in 1..Len(queue'[e][r])
             PROVE  /\ RegionOf(queue'[e][r][i]) = r /\ born'[queue'[e][r][i]] = e
                    /\ queue'[e][r][i] \notin HealCalls
                    /\ IF i = 1 THEN pc'[queue'[e][r][i]] \in InTurn
                                ELSE pc'[queue'[e][r][i]] = "queued"
                    /\ \A j \in 1..Len(queue'[e][r]) :
                          queue'[e][r][i] = queue'[e][r][j] => i = j
  BY DEF Ordered, QueueOrder, StandsOnce, InTurn
<1>4. ASSUME NEW k \in 1..Len(queue[e][r])
      PROVE  /\ queue[e][r][k] \in Calls \ HealCalls /\ queue[e][r][k] # c
             /\ RegionOf(queue[e][r][k]) = r /\ born'[queue[e][r][k]] = e
             /\ IF k = 1 THEN pc'[queue[e][r][k]] \in InTurn
                         ELSE pc'[queue[e][r][k]] = "queued"
  <2> DEFINE d == queue[e][r][k]
  <2>1. /\ d \in Calls \ HealCalls /\ RegionOf(d) = r /\ born[d] = e
        /\ pc[d] \in InTurn /\ (k # 1 => pc[d] = "queued")
    BY InQueue
  <2>2. d # c
    BY <2>1 DEF InTurn
  <2>3. pc'[d] = pc[d] /\ born'[d] = born[d]
    BY <1>3, <2>1, <2>2
  <2> QED BY <2>1, <2>2, <2>3
<1>5. CASE ~(e = epoch /\ r = RegionOf(c))
  <2>1. queue'[e][r] = queue[e][r]
    BY <1>1, <1>2, <1>5 DEF TypeOK
  <2>2. \A j \in 1..Len(queue[e][r]) : queue[e][r][i] = queue[e][r][j] => i = j
    BY <2>1 DEF Ordered, StandsOnce
  <2> QED BY <1>4, <2>1, <2>2
<1>6. CASE e = epoch /\ r = RegionOf(c)
  <2>1. queue'[e][r] = Append(q, c)
    BY <1>1, <1>2, <1>6 DEF TypeOK
  <2>2. /\ Len(Append(q, c)) = Len(q) + 1 /\ Append(q, c)[Len(q) + 1] = c /\ Len(q) \in Nat
        /\ \A j \in 1..Len(q) : Append(q, c)[j] = q[j]
    <3> HIDE DEF q
    <3> QED BY <1>1
  <2>3. \A j, k \in 1..Len(q) : q[j] = q[k] => j = k
    BY <1>1 DEF Ordered, StandsOnce
  <2>4. \A j \in 1..Len(q) : q[j] # c
    BY <1>4, <1>6
  <2>5. \A j \in 1..Len(Append(q, c)) : Append(q, c)[i] = Append(q, c)[j] => i = j
    <3> HIDE DEF q
    <3> QED BY <2>1, <2>2, <2>3, <2>4
  <2>6. CASE i \in 1..Len(q)
    BY <1>4, <1>6, <2>1, <2>2, <2>5, <2>6
  <2>7. CASE i = Len(q) + 1
    BY <1>3, <1>6, <2>1, <2>2, <2>5, <2>7 DEF InTurn
  <2> QED BY <2>1, <2>2, <2>6, <2>7
<1> QED BY <1>5, <1>6

----------------------------------------------------------------------------
LEMMA LeaveKeeps ==
    ASSUME TypeOK, NEW c \in Calls, NEW o \in Settled \cup {"late"}, Leave(c, o)
    PROVE  OthersKeep(c)
<1> DEFINE p == [pc EXCEPT ![c] = o]
<1>1. p \in [Calls -> PcStates] /\ \A d \in Calls \ {c} : p[d] = pc[d]
  BY DEF TypeOK, PcStates
<1>2. pc' = p \/ pc' = Notify(p, Left(c))
  BY DEF Leave
<1> HIDE DEF p
<1>3. \A d \in Calls \ {c} : pc'[d] = pc[d] \/ (pc[d] = "waiting" /\ pc'[d] = "woken")
  BY <1>1, <1>2, NotifyOnlyWakes
<1> QED BY <1>3 DEF OthersKeep, Leave

LEMMA GiveUpKeeps ==
    ASSUME TypeOK, NEW c \in Calls, NEW o, GiveUp(c, o)
    PROVE  OthersKeep(c)
BY DEF OthersKeep, GiveUp, TypeOK

LEMMA AttemptKeeps ==
    ASSUME TypeOK, NEW c \in Calls, Grant(c) \/ Block(c)
    PROVE  /\ \A d \in Calls \ {c} : pc'[d] = pc[d] \/ (pc[d] = "waiting" /\ pc'[d] = "woken")
           /\ pc'[c] \in InTurn
<1>1. CASE Grant(c)
  <2> DEFINE p == [pc EXCEPT ![c] = "granted"]
  <2>1. p \in [Calls -> PcStates] /\ p[c] = "granted" /\ \A d \in Calls \ {c} : p[d] = pc[d]
    BY DEF TypeOK, PcStates
  <2>2. pc' = Notify(p, Entered(c))
    BY <1>1 DEF Grant
  <2> HIDE DEF p
  <2> QED BY <2>1, <2>2, NotifyOnlyWakes DEF InTurn
<1>2. CASE Block(c)
  <2> DEFINE p == [pc EXCEPT ![c] = "waiting"]
  <2>1. p \in [Calls -> PcStates] /\ p[c] = "waiting" /\ \A d \in Calls \ {c} : p[d] = pc[d]
    BY DEF TypeOK, PcStates
  <2>2. pc' = p \/ pc' = Notify(p, depth)
    BY <1>2 DEF Block
  <2> HIDE DEF p
  <2> QED BY <2>1, <2>2, NotifyOnlyWakes DEF InTurn
<1> QED BY <1>1, <1>2

\* A call outside every queue moves on outside it.
LEMMA OutsideOrder ==
    ASSUME TypeOK, Ordered, NEW c \in Calls, pc[c] \notin InTurn, queue' = queue,
           \A d \in Calls \ {c} : pc'[d] = pc[d] /\ born'[d] = born[d]
    PROVE  Ordered'
BY TurnOrder DEF OthersKeep

LEMMA CallsOrder ==
    ASSUME TypeOK, Ordered, NEW c \in Calls, CallStep(c)
    PROVE  Ordered'
<1>1. CASE CallQueued(c)
  BY <1>1, EnqueueOrder, KindsDisjoint DEF CallQueued
<1>2. CASE CallSpend(c)
  BY <1>2, EnqueueOrder, KindsDisjoint DEF CallSpend
<1>3. ASSUME NEW p \in RecomposeCalls \cup {NoCall}, CallHistory(c, p)
      PROVE  Ordered'
  BY <1>3, EnqueueOrder, KindsDisjoint DEF CallHistory
<1>4. ASSUME NEW p \in RecomposeCalls \cup {NoCall}, CallHistoryBypass(c, p)
      PROVE  Ordered'
  BY <1>4, OutsideOrder DEF CallHistoryBypass, TypeOK, InTurn
<1>5. ASSUME NEW s \in SpendCalls, CallHeal(c, s)
      PROVE  Ordered'
  <2>1. pc[c] \notin InTurn /\ queue' = queue /\ \A d \in Calls \ {c} : born'[d] = born[d]
    BY <1>5 DEF CallHeal, TypeOK, InTurn
  <2>2. CASE Grant(c) \/ Block(c)
    BY <2>1, <2>2, AttemptKeeps, TurnOrder DEF OthersKeep
  <2>3. CASE \E o \in {"bypass", "refused"} : pc' = [pc EXCEPT ![c] = o]
    BY <2>1, <2>3, OutsideOrder DEF TypeOK
  <2> QED BY <1>5, <2>2, <2>3 DEF CallHeal
<1> QED BY <1>1, <1>2, <1>3, <1>4, <1>5 DEF CallStep

LEMMA TurnsOrder ==
    ASSUME TypeOK, TurnAtHead, Ordered, NEW c \in Calls,
           CoordinatorStep(c) \/ BodyEnds(c) \/ AcquireTimeout(c) \/ Abandon(c)
    PROVE  Ordered'
<1>1. pc[c] \in {"waiting", "woken", "granted", "running"} => c \in HealCalls \/ IsHead(c)
  BY DEF TurnAtHead
<1>a. ASSUME NEW o \in Settled \cup {"late"}, c \notin HealCalls => IsHead(c), Leave(c, o)
      PROVE  Ordered'
  <2>1. born' = born /\ queue' = Dequeued(c)
    BY <1>a DEF Leave
  <2> QED BY <1>a, <2>1, LeaveKeeps, PopOrder
<1>b. ASSUME NEW o, c \notin HealCalls => IsHead(c), GiveUp(c, o)
      PROVE  Ordered'
  <2>1. born' = born /\ queue' = Dequeued(c)
    BY <1>b DEF GiveUp
  <2> QED BY <1>b, <2>1, GiveUpKeeps, PopOrder
<1>c. ASSUME c \notin HealCalls => IsHead(c), Attempt(c)
      PROVE  Ordered'
  <2>1. queue' = queue /\ born' = born
    BY <1>c DEF Attempt
  <2>2. pc'[c] \in InTurn /\ OthersKeep(c)
    BY <1>c, <2>1, AttemptKeeps DEF Attempt, OthersKeep
  <2> QED BY <1>c, <2>1, <2>2, TurnOrder
<1>2. CASE DequeueStale(c)
  BY <1>2, <1>b DEF DequeueStale
<1>3. CASE Dequeue(c)
  BY <1>3, <1>c DEF Dequeue
<1>4. CASE Resume(c)
  BY <1>1, <1>4, <1>c DEF Resume
<1>5. CASE Defer(c)
  BY <1>1, <1>5, <1>b DEF Defer
<1>6. CASE StaleEntry(c)
  BY <1>1, <1>6, <1>a DEF StaleEntry, Settled
<1>7. CASE DeferEntry(c)
  BY <1>1, <1>7, <1>a DEF DeferEntry, Settled
<1>8. CASE Start(c)
  <2>1. queue' = queue /\ born' = born /\ pc'[c] = "running" /\ OthersKeep(c)
    BY <1>8 DEF Start, TypeOK, OthersKeep
  <2>2. c \in HealCalls \/ IsHead(c)
    BY <1>1, <1>8 DEF Start
  <2> QED BY <2>1, <2>2, TurnOrder DEF InTurn
<1>9. CASE Finish(c)
  BY <1>1, <1>9, <1>a DEF Finish, Settled
<1>10. CASE SettleOutside(c)
  BY <1>10, OutsideOrder DEF SettleOutside, TypeOK, InTurn
<1>11. CASE AcquireTimeout(c)
  BY <1>1, <1>11, <1>b DEF AcquireTimeout
<1>12. CASE Abandon(c)
  BY <1>1, <1>12, <1>a DEF Abandon
<1> QED BY <1>2, <1>3, <1>4, <1>5, <1>6, <1>7, <1>8, <1>9, <1>10, <1>11, <1>12
        DEF CoordinatorStep, BodyEnds

LEMMA InitOrder == Init => Ordered
BY DEF Init, Ordered, QueueOrder, StandsOnce

LEMMA NextOrder == TypeOK /\ TurnAtHead /\ Ordered /\ [Next]_vars => Ordered'
<1> SUFFICES ASSUME TypeOK, TurnAtHead, Ordered, [Next]_vars
             PROVE  Ordered'
  OBVIOUS
<1>1. CASE UNCHANGED <<queue, pc, born>>
  BY <1>1 DEF Ordered, QueueOrder, StandsOnce
<1>2. CASE \E l \in Leases : Lease(l)
  BY <1>1, <1>2 DEF Lease
<1>3. CASE \E h \in SpendCalls \cup Leases : DropHold(h)
  BY <1>1, <1>3 DEF DropHold
<1>4. CASE Rebind
  BY <1>1, <1>4 DEF Rebind
<1>5. CASE \E c \in Calls : CallStep(c)
  BY <1>5, CallsOrder
<1>6. CASE \E c \in Calls : CoordinatorStep(c) \/ BodyEnds(c) \/ AcquireTimeout(c) \/ Abandon(c)
  BY <1>6, TurnsOrder
<1> QED BY <1>1, <1>2, <1>3, <1>4, <1>5, <1>6 DEF Next, vars

\* Calls of a region have their turn in the order they were made, and none that
\* settled or was abandoned blocks the next (serialQueue.ts, and the release of
\* an abandoned spend in walletCoordinator.ts), for any calls and switches.
THEOREM QueuesInOrder == Spec => []QueueOrder
<1>1. Init => Ordered
  BY InitOrder
<1>2. IInv /\ Ordered /\ [Next]_vars => Ordered'
  BY NextOrder DEF IInv
<1>3. Ordered => QueueOrder
  BY DEF Ordered
<1> QED BY <1>1, <1>2, <1>3, Invariance, PTL DEF Spec

----------------------------------------------------------------------------
(* Priority holds.                                                          *)

LEMMA HoldsKept ==
    ASSUME TypeOK, NoGhostHold, NEW c \in Calls, OthersKeep(c),
           \/ holds' \subseteq holds \ {c}
           \/ holds' \subseteq holds \cup {c} /\ pc'[c] \in InTurn
           \/ holds' \subseteq holds /\ pc[c] \notin InTurn
    PROVE  NoGhostHold'
<1> SUFFICES ASSUME NEW d \in holds' \cap SpendCalls
             PROVE  pc'[d] \in InTurn
  BY DEF NoGhostHold, InTurn
<1>1. d \in Calls
  BY DEF Calls
<1>2. CASE d # c
  <2>1. d \in holds /\ pc[d] \in InTurn
    BY <1>2 DEF NoGhostHold, InTurn
  <2> QED BY <1>1, <1>2, <2>1 DEF OthersKeep, InTurn
<1>3. CASE d = c
  BY <1>3 DEF NoGhostHold, InTurn
<1> QED BY <1>2, <1>3

LEMMA NextHolds == TypeOK /\ NoGhostHold /\ [Next]_vars => NoGhostHold'
<1> SUFFICES ASSUME TypeOK, NoGhostHold, [Next]_vars
             PROVE  NoGhostHold'
  OBVIOUS
<1>1. CASE UNCHANGED pc /\ holds' \cap SpendCalls \subseteq holds
  BY <1>1 DEF NoGhostHold
<1>2. CASE \E l \in Leases : Lease(l)
  BY <1>1, <1>2, KindsDisjoint DEF Lease, Calls
<1>3. CASE \E h \in SpendCalls \cup Leases : DropHold(h)
  BY <1>1, <1>3 DEF DropHold
<1>4. CASE Rebind \/ UNCHANGED vars
  BY <1>1, <1>4 DEF Rebind, vars
<1>a. ASSUME NEW c \in Calls, NEW o \in Settled \cup {"late"}, Leave(c, o)
      PROVE  NoGhostHold'
  BY <1>a, LeaveKeeps, HoldsKept DEF Leave
<1>b. ASSUME NEW c \in Calls, NEW o, GiveUp(c, o)
      PROVE  NoGhostHold'
  BY <1>b, GiveUpKeeps, HoldsKept DEF GiveUp
<1>c. ASSUME NEW c \in Calls, Grant(c) \/ Block(c), holds' = holds,
             \A d \in Calls \ {c} : born'[d] = born[d]
      PROVE  NoGhostHold'
  <2>1. OthersKeep(c) /\ pc'[c] \in InTurn
    BY <1>c, AttemptKeeps DEF OthersKeep
  <2> QED BY <1>c, <2>1, HoldsKept
<1>d. ASSUME NEW c \in Calls, pc[c] \notin InTurn, holds' = holds,
             \A d \in Calls \ {c} : pc'[d] = pc[d] /\ born'[d] = born[d]
      PROVE  NoGhostHold'
  BY <1>d, HoldsKept DEF OthersKeep
<1>e. ASSUME NEW c \in Calls, Enqueue(c), holds' \subseteq holds \cup {c}
      PROVE  NoGhostHold'
  <2>1. OthersKeep(c) /\ pc'[c] = "queued"
    BY <1>e DEF Enqueue, OthersKeep, TypeOK
  <2> QED BY <1>e, <2>1, HoldsKept DEF InTurn
<1>5. ASSUME NEW c \in Calls, CallStep(c)
      PROVE  NoGhostHold'
  <2>1. CASE CallQueued(c)
    BY <2>1, <1>e DEF CallQueued
  <2>2. CASE CallSpend(c)
    BY <2>2, <1>e DEF CallSpend
  <2>3. ASSUME NEW p \in RecomposeCalls \cup {NoCall}, CallHistory(c, p)
        PROVE  NoGhostHold'
    BY <2>3, <1>e DEF CallHistory
  <2>4. ASSUME NEW p \in RecomposeCalls \cup {NoCall}, CallHistoryBypass(c, p)
        PROVE  NoGhostHold'
    BY <2>4, <1>d DEF CallHistoryBypass, TypeOK, InTurn
  <2>5. ASSUME NEW s \in SpendCalls, CallHeal(c, s)
        PROVE  NoGhostHold'
    <3>1. pc[c] \notin InTurn /\ holds' = holds /\ \A d \in Calls \ {c} : born'[d] = born[d]
      BY <2>5 DEF CallHeal, TypeOK, InTurn
    <3>2. CASE Grant(c) \/ Block(c)
      BY <3>1, <3>2, <1>c
    <3>3. CASE \E o \in {"bypass", "refused"} : pc' = [pc EXCEPT ![c] = o]
      BY <3>1, <3>3, <1>d DEF TypeOK
    <3> QED BY <2>5, <3>2, <3>3 DEF CallHeal
  <2> QED BY <1>5, <2>1, <2>2, <2>3, <2>4, <2>5 DEF CallStep
<1>6. ASSUME NEW c \in Calls, CoordinatorStep(c)
      PROVE  NoGhostHold'
  <2>1. CASE DequeueStale(c)
    BY <2>1, <1>b DEF DequeueStale
  <2>2. CASE Dequeue(c) \/ Resume(c)
    BY <2>2, <1>c DEF Dequeue, Resume, Attempt
  <2>3. CASE Defer(c)
    BY <2>3, <1>b DEF Defer
  <2>4. CASE StaleEntry(c)
    BY <2>4, <1>a DEF StaleEntry, Settled
  <2>5. CASE DeferEntry(c)
    BY <2>5, <1>a DEF DeferEntry, Settled
  <2>6. CASE Start(c)
    <3>1. OthersKeep(c) /\ pc'[c] = "running" /\ holds' = holds
      BY <2>6 DEF Start, OthersKeep, TypeOK
    <3> QED BY <3>1, HoldsKept DEF InTurn
  <2> QED BY <1>6, <2>1, <2>2, <2>3, <2>4, <2>5, <2>6 DEF CoordinatorStep
<1>7. ASSUME NEW c \in Calls, BodyEnds(c)
      PROVE  NoGhostHold'
  <2>1. CASE Finish(c)
    BY <2>1, <1>a DEF Finish, Settled
  <2>2. CASE SettleOutside(c)
    BY <2>2, <1>d DEF SettleOutside, TypeOK, InTurn
  <2> QED BY <1>7, <2>1, <2>2 DEF BodyEnds
<1>8. ASSUME NEW c \in Calls, AcquireTimeout(c)
      PROVE  NoGhostHold'
  BY <1>8, <1>b DEF AcquireTimeout
<1>9. ASSUME NEW c \in Calls, Abandon(c)
      PROVE  NoGhostHold'
  BY <1>9, <1>a DEF Abandon
<1> QED BY <1>2, <1>3, <1>4, <1>5, <1>6, <1>7, <1>8, <1>9 DEF Next

\* A payment's priority hold never outlives its time in the coordinator: each
\* way out of runExclusiveSpend (walletCoordinator.ts) drops it, for any calls
\* and account switches, so ingest and backup never yield to a ghost.
THEOREM NoHoldOutlives == Spec => []NoGhostHold
<1>1. Init => NoGhostHold
  BY DEF Init, NoGhostHold
<1>2. TypeOK /\ NoGhostHold /\ [Next]_vars => NoGhostHold'
  BY NextHolds
<1> QED BY <1>1, <1>2, TypeCorrect, PTL DEF Spec
=============================================================================
