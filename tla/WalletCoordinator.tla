------------------------- MODULE WalletCoordinator -------------------------
(***************************************************************************)
(* The wallet layer coordinator: a statechart with one depth counter per   *)
(* region, one FIFO promise queue per region in front of it, the spend     *)
(* priority holds that background work yields to, and the epoch fence that *)
(* an account switch raises.                                               *)
(*                                                                         *)
(* One member of Calls is one call of runChainIngest (IngestCalls),        *)
(* runChainIngestDuringSpend (HealCalls), runExclusiveSpend (SpendCalls),  *)
(* runHistoryReplica (HistoryCalls; those of Starved pass 'starved') or    *)
(* runRecompose (RecomposeCalls).  JavaScript runs one job at a time, so   *)
(* an action is the code between two awaits.                               *)
(***************************************************************************)
EXTENDS Naturals, Sequences

CONSTANTS
    IngestCalls, HealCalls, SpendCalls, HistoryCalls, RecomposeCalls,
    Starved,     \* the history calls made with priority 'starved'
    Leases,      \* other holders of spend priority: prompts, import runs
    NoCall,      \* parent of a call nobody in this model made
    MaxEpoch     \* bound: how often the runtime is replaced

Calls == IngestCalls \cup HealCalls \cup SpendCalls \cup HistoryCalls \cup RecomposeCalls

ASSUME KindsDisjoint ==
    /\ IngestCalls \cap (HealCalls \cup SpendCalls \cup HistoryCalls \cup RecomposeCalls) = {}
    /\ HealCalls \cap (SpendCalls \cup HistoryCalls \cup RecomposeCalls) = {}
    /\ SpendCalls \cap (HistoryCalls \cup RecomposeCalls) = {}
    /\ HistoryCalls \cap RecomposeCalls = {}
    /\ Leases \cap Calls = {}
    /\ NoCall \notin Calls
ASSUME StarvedAreHistory == Starved \subseteq HistoryCalls
ASSUME MaxEpochNat == MaxEpoch \in Nat

Region == {"chainIngest", "spend", "historyReplica", "recompose"}

RegionOf(c) == IF c \in SpendCalls THEN "spend"
               ELSE IF c \in HistoryCalls THEN "historyReplica"
               ELSE IF c \in RecomposeCalls THEN "recompose" ELSE "chainIngest"

Epochs == 0..MaxEpoch

VARIABLES
    epoch,       \* coordinatorEpoch; numbers the live actor and its queues
    depth,       \* context of the live actor
    queue,       \* per epoch and region, the calls whose promise is unsettled
    pc,          \* where each call is
    born,        \* the epoch a call captured when it was made
    actorOf,     \* the actor a call waits on or acquired from
    parent,      \* the call whose body made (and awaits) this one
    holds,       \* live spend priority holds
    leased,      \* the leases taken so far
    generation   \* regionGeneration

vars == <<epoch, depth, queue, pc, born, actorOf, parent, holds, leased, generation>>

Settled == {"returned", "aborted", "deferred", "timedOut", "refused"}
PcStates == {"idle", "queued", "waiting", "woken", "granted", "running", "bypass", "late"}
            \cup Settled

\* A call is inside the region of the actor it acquired from.
Holding(c) == pc[c] \in {"granted", "running"}
\* The function passed to the coordinator is executing, inside a region or not.
BodyLive(c) == pc[c] \in {"running", "bypass", "late"}
\* The calls inside a region of the live actor.
Occupants == {c \in Calls : Holding(c) /\ actorOf[c] = epoch}

----------------------------------------------------------------------------
\* The guards of walletCoordinatorMachine, over a context d.

AllIdle(d) == \A r \in Region : d[r] = 0

CanBeginChainIngest(d) ==
    d["recompose"] = 0 /\ d["chainIngest"] = 0 /\ d["spend"] = 0 /\ d["historyReplica"] = 0

CanBeginNestedIngest(d) ==
    d["recompose"] = 0 /\ d["spend"] > 0 /\ d["chainIngest"] = 0

\* Seeded fault: a spend may begin beside a history job.
CanBeginSpendBesideHistory(d) == d["recompose"] = 0 /\ d["spend"] = 0

CanBeginSpend(d) ==
    d["recompose"] = 0 /\ d["spend"] = 0 /\ d["historyReplica"] = 0

\* Seeded fault: a backup no longer waits for chain ingest.
CanBeginHistoryBesideIngest(d) == \A r \in Region \ {"chainIngest"} : d[r] = 0

CanBeginHistoryReplica(d) == AllIdle(d)

CanBeginRecompose(d) == AllIdle(d)

CanBegin(c, d) ==
    \/ c \in IngestCalls /\ CanBeginChainIngest(d)
    \/ c \in HealCalls /\ CanBeginNestedIngest(d)
    \/ c \in SpendCalls /\ CanBeginSpend(d)
    \/ c \in HistoryCalls /\ CanBeginHistoryReplica(d)
    \/ c \in RecomposeCalls /\ CanBeginRecompose(d)

Entered(c) == [depth EXCEPT ![RegionOf(c)] = @ + 1]

\* Seeded fault: END is sent twice and the counter has no floor.
LeftTwice(c) == IF actorOf[c] = epoch THEN [depth EXCEPT ![RegionOf(c)] = @ - 2] ELSE depth

\* END reaches the actor the call acquired from; a stopped actor ignores it.
Left(c) == IF actorOf[c] = epoch
           THEN [depth EXCEPT ![RegionOf(c)] = IF @ > 0 THEN @ - 1 ELSE 0]
           ELSE depth

----------------------------------------------------------------------------
\* A yielding history job steps aside while anyone holds spend priority.
SpendWantsIn(c) == c \in HistoryCalls \ Starved /\ holds # {}

\* Seeded fault: only waiting spends are resumed.
NotifySpendsOnly(p, d) ==
    [c \in Calls |->
        IF p[c] = "waiting" /\ actorOf[c] = epoch /\ c \in SpendCalls /\ CanBegin(c, d)
        THEN "woken" ELSE p[c]]

\* waitFor: after each event the live actor processes, a subscribed call whose
\* predicate is now true is resumed.  Raising a hold is not an actor event.
Notify(p, d) ==
    [c \in Calls |->
        IF p[c] = "waiting" /\ actorOf[c] = epoch /\ (CanBegin(c, d) \/ SpendWantsIn(c))
        THEN "woken" ELSE p[c]]

IsHead(c) == /\ queue[born[c]][RegionOf(c)] # <<>>
             /\ Head(queue[born[c]][RegionOf(c)]) = c

\* The queue's tail promise settles with the call; nested ingest has no queue.
Dequeued(c) == IF c \in HealCalls THEN queue
               ELSE [queue EXCEPT ![born[c]][RegionOf(c)] = Tail(@)]

\* The call leaves its region and queue with the given outcome; its priority
\* hold, if it has one, goes with it.
Leave(c, outcome) ==
    /\ depth' = Left(c)
    /\ pc' = IF actorOf[c] = epoch
             THEN Notify([pc EXCEPT ![c] = outcome], Left(c))
             ELSE [pc EXCEPT ![c] = outcome]
    /\ queue' = Dequeued(c)
    /\ holds' = holds \ {c}
    /\ UNCHANGED <<epoch, born, actorOf, parent, leased, generation>>

\* Seeded fault: a spend that never reached its region keeps its hold.
GiveUpKeepingHold(c, outcome) ==
    /\ pc' = [pc EXCEPT ![c] = outcome]
    /\ queue' = Dequeued(c)
    /\ UNCHANGED <<epoch, depth, born, actorOf, parent, holds, leased, generation>>

\* The call settles without having entered a region.
GiveUp(c, outcome) ==
    /\ pc' = [pc EXCEPT ![c] = outcome]
    /\ queue' = Dequeued(c)
    /\ holds' = holds \ {c}
    /\ UNCHANGED <<epoch, depth, born, actorOf, parent, leased, generation>>

----------------------------------------------------------------------------
Init ==
    /\ epoch = 0
    /\ depth = [r \in Region |-> 0]
    /\ queue = [e \in Epochs |-> [r \in Region |-> <<>>]]
    /\ pc = [c \in Calls |-> "idle"]
    /\ born = [c \in Calls |-> 0]
    /\ actorOf = [c \in Calls |-> 0]
    /\ parent = [c \in Calls |-> NoCall]
    /\ holds = {}
    /\ leased = {}
    /\ generation = 0

Enqueue(c) ==
    /\ pc' = [pc EXCEPT ![c] = "queued"]
    /\ born' = [born EXCEPT ![c] = epoch]
    /\ queue' = [queue EXCEPT ![epoch][RegionOf(c)] = Append(@, c)]

\* runChainIngest and runRecompose: capture the epoch and join the queue.
CallQueued(c) ==
    /\ c \in IngestCalls \cup RecomposeCalls
    /\ pc[c] = "idle"
    /\ Enqueue(c)
    /\ UNCHANGED <<epoch, depth, actorOf, parent, holds, leased, generation>>

\* runExclusiveSpend: the priority hold is raised before the queue is joined.
CallSpend(c) ==
    /\ c \in SpendCalls
    /\ pc[c] = "idle"
    /\ Enqueue(c)
    /\ holds' = holds \cup {c}
    /\ generation' = generation + 1
    /\ UNCHANGED <<epoch, depth, actorOf, parent, leased>>

RecomposeBodies == {r \in RecomposeCalls : pc[r] = "running"}

\* runHistoryReplica outside a recompose: join the queue.  p is the recompose
\* body that made the call, or NoCall for a backup timer, a handover, a dialog.
CallHistory(c, p) ==
    /\ c \in HistoryCalls /\ p \in RecomposeBodies \cup {NoCall}
    /\ pc[c] = "idle"
    /\ depth["recompose"] = 0
    /\ Enqueue(c)
    /\ parent' = [parent EXCEPT ![c] = p]
    /\ UNCHANGED <<epoch, depth, actorOf, holds, leased, generation>>

\* runHistoryReplica while a recompose is active: neither queue nor region,
\* whoever the caller is.
CallHistoryBypass(c, p) ==
    /\ c \in HistoryCalls /\ p \in RecomposeBodies \cup {NoCall}
    /\ pc[c] = "idle"
    /\ depth["recompose"] > 0
    /\ pc' = [pc EXCEPT ![c] = IF SpendWantsIn(c) THEN "deferred" ELSE "bypass"]
    /\ born' = [born EXCEPT ![c] = epoch]
    /\ parent' = [parent EXCEPT ![c] = p]
    /\ UNCHANGED <<epoch, depth, queue, actorOf, holds, leased, generation>>

\* acquire: BEGIN is accepted by the live actor.
Grant(c) ==
    /\ CanBegin(c, depth)
    /\ depth' = Entered(c)
    /\ pc' = Notify([pc EXCEPT ![c] = "granted"], Entered(c))
    /\ actorOf' = [actorOf EXCEPT ![c] = epoch]
    /\ generation' = generation + 1

\* BEGIN is refused and the call subscribes to the live actor.  A history call
\* tests its guard first and sends no event, so it wakes nobody.
Block(c) ==
    /\ ~CanBegin(c, depth)
    /\ LET blocked == [pc EXCEPT ![c] = "waiting"]
       IN pc' = IF c \in HistoryCalls THEN blocked ELSE Notify(blocked, depth)
    /\ actorOf' = [actorOf EXCEPT ![c] = epoch]
    /\ UNCHANGED <<depth, generation>>

\* One turn of the acquire loop.  A call made by the queue's head and a call
\* woken by the actor do the same.
Attempt(c) ==
    /\ ~SpendWantsIn(c)
    /\ Grant(c) \/ Block(c)
    /\ UNCHANGED <<epoch, queue, born, parent, holds, leased>>

\* runChainIngestDuringSpend, called by the body of spend s.  It looks at
\* whatever actor is live, and does not ask whether s still holds its region.
CallHeal(c, s) ==
    /\ c \in HealCalls /\ s \in SpendCalls
    /\ pc[c] = "idle"
    /\ pc[s] \in {"running", "late"}
    /\ parent' = [parent EXCEPT ![c] = s]
    /\ born' = [born EXCEPT ![c] = epoch]
    /\ UNCHANGED <<epoch, queue, holds, leased>>
    /\ \/ /\ depth["recompose"] > 0
          /\ pc' = [pc EXCEPT ![c] = "bypass"]
          /\ UNCHANGED <<depth, actorOf, generation>>
       \/ /\ depth["recompose"] = 0 /\ depth["spend"] = 0
          /\ pc' = [pc EXCEPT ![c] = "refused"]
          /\ UNCHANGED <<depth, actorOf, generation>>
       \/ /\ depth["recompose"] = 0 /\ depth["spend"] > 0
          /\ Grant(c) \/ Block(c)

\* The queue reaches a call of an epoch that is over: AbortError.
DequeueStale(c) ==
    /\ pc[c] = "queued" /\ IsHead(c)
    /\ born[c] # epoch
    /\ GiveUp(c, "aborted")

\* The queue reaches a current call, which tries to enter its region.
Dequeue(c) ==
    /\ pc[c] = "queued" /\ IsHead(c)
    /\ born[c] = epoch
    /\ Attempt(c)

\* A woken call tries again.  acquire keeps the actor it started with, and a
\* stopped actor refuses every event without telling anybody, so its calls have
\* no further turn; the loop of runHistoryReplica reads the live actor.
Resume(c) ==
    /\ pc[c] = "woken"
    /\ actorOf[c] = epoch \/ c \in HistoryCalls
    /\ Attempt(c)

\* HistoryDeferredForSpendError, before the region is entered.
Defer(c) ==
    /\ \/ pc[c] = "queued" /\ IsHead(c) /\ born[c] = epoch
       \/ pc[c] = "woken"
    /\ SpendWantsIn(c)
    /\ GiveUp(c, "deferred")

\* Seeded fault: the wait is bounded only while its actor lives.
AcquireTimeoutLiveActor(c) ==
    /\ c \in SpendCalls
    /\ pc[c] \in {"waiting", "woken"} /\ actorOf[c] = epoch
    /\ GiveUp(c, "timedOut")

\* WalletCoordinatorAcquireTimeoutError after SPEND_ACQUIRE_MAX_MS; only a
\* spend bounds its wait, and the timer outlives the actor.
AcquireTimeout(c) ==
    /\ c \in SpendCalls
    /\ pc[c] \in {"waiting", "woken"}
    /\ GiveUp(c, "timedOut")

\* Seeded fault: the epoch fence throws outside the try, so nothing releases.
StaleEntryKeepingRegion(c) ==
    /\ pc[c] = "granted"
    /\ c \notin HealCalls /\ born[c] # epoch
    /\ GiveUp(c, "aborted")

\* After the await on acquire: the epoch fence (nested ingest has none) and the
\* last look at waiting spends, then the body.
StaleEntry(c) ==
    /\ pc[c] = "granted"
    /\ c \notin HealCalls /\ born[c] # epoch
    /\ Leave(c, "aborted")

DeferEntry(c) ==
    /\ pc[c] = "granted"
    /\ born[c] = epoch /\ SpendWantsIn(c)
    /\ Leave(c, "deferred")

Start(c) ==
    /\ pc[c] = "granted"
    /\ c \in HealCalls \/ born[c] = epoch
    /\ ~SpendWantsIn(c)
    /\ pc' = [pc EXCEPT ![c] = "running"]
    /\ UNCHANGED <<epoch, depth, queue, born, actorOf, parent, holds, leased, generation>>

\* A body awaits the calls it made.
ChildrenSettled(c) ==
    \A d \in Calls : parent[d] = c => pc[d] \in Settled

Finish(c) ==
    /\ pc[c] = "running"
    /\ ChildrenSettled(c)
    /\ Leave(c, "returned")

\* Seeded fault: the region is freed but the queue still waits for the body.
AbandonHoldingQueue(c) ==
    /\ c \in SpendCalls
    /\ pc[c] = "running"
    /\ depth' = Left(c)
    /\ pc' = [pc EXCEPT ![c] = "late"]
    /\ holds' = holds \ {c}
    /\ UNCHANGED <<epoch, queue, born, actorOf, parent, leased, generation>>

\* SpendRegionAbandonedError: on the caller's abort or at the ceiling the
\* region and the queue move on while the body keeps executing.
Abandon(c) ==
    /\ c \in SpendCalls
    /\ pc[c] = "running"
    /\ Leave(c, "late")

\* A body that is in no region settles: an abandoned spend, a bypassed job.
SettleOutside(c) ==
    /\ pc[c] \in {"late", "bypass"}
    /\ ChildrenSettled(c)
    /\ pc' = [pc EXCEPT ![c] = "returned"]
    /\ UNCHANGED <<epoch, depth, queue, born, actorOf, parent, holds, leased, generation>>

\* leaseSpendPriority by a permission prompt, a burn, an import run.
Lease(l) ==
    /\ l \in Leases \ leased
    /\ holds' = holds \cup {l}
    /\ leased' = leased \cup {l}
    /\ generation' = generation + 1
    /\ UNCHANGED <<epoch, depth, queue, pc, born, actorOf, parent>>

\* A lease is released, or any hold goes quiet for SPEND_PRIORITY_MAX_MS and
\* dropExpiredSpendPriority removes it.
DropHold(h) ==
    /\ h \in holds
    /\ holds' = holds \ {h}
    /\ UNCHANGED <<epoch, depth, queue, pc, born, actorOf, parent, leased, generation>>

\* rebindWalletCoordinatorForRuntime, on AccountChanged: a fresh actor, fresh
\* queues, no holds.  Nothing tells the calls of the old epoch.
Rebind ==
    /\ epoch < MaxEpoch
    /\ epoch' = epoch + 1
    /\ depth' = [r \in Region |-> 0]
    /\ holds' = {}
    /\ UNCHANGED <<queue, pc, born, actorOf, parent, leased, generation>>

CallStep(c) ==
    \/ CallQueued(c)
    \/ CallSpend(c)
    \/ \E p \in RecomposeCalls \cup {NoCall} : CallHistory(c, p) \/ CallHistoryBypass(c, p)
    \/ \E s \in SpendCalls : CallHeal(c, s)

\* The steps the coordinator itself takes for a call.
CoordinatorStep(c) ==
    \/ DequeueStale(c) \/ Dequeue(c) \/ Resume(c) \/ Defer(c)
    \/ StaleEntry(c) \/ DeferEntry(c) \/ Start(c)

BodyEnds(c) == Finish(c) \/ SettleOutside(c)

Next ==
    \/ \E c \in Calls : \/ CallStep(c) \/ CoordinatorStep(c) \/ BodyEnds(c)
                        \/ AcquireTimeout(c) \/ Abandon(c)
    \/ \E l \in Leases : Lease(l)
    \/ \E h \in SpendCalls \cup Leases : DropHold(h)
    \/ Rebind

Spec == Init /\ [][Next]_vars

(***************************************************************************)
(* Fairness.  Promise callbacks and the two spend timers always run, so    *)
(* the coordinator's own steps and the spend bounds are weakly fair.       *)
(* Nothing bounds the body of an ingest, history or recompose job: only    *)
(* FairBodies assumes that bodies return.                                  *)
(***************************************************************************)
Fairness ==
    /\ \A c \in Calls : WF_vars(CoordinatorStep(c))
    /\ \A c \in SpendCalls : WF_vars(AcquireTimeout(c)) /\ WF_vars(Abandon(c))

FairBodies == \A c \in Calls : WF_vars(BodyEnds(c))

FairSpec == Spec /\ Fairness
FairBodiesSpec == FairSpec /\ FairBodies
----------------------------------------------------------------------------
TypeOK ==
    /\ epoch \in Epochs
    /\ depth \in [Region -> Nat]
    /\ queue \in [Epochs -> [Region -> Seq(Calls)]]
    /\ pc \in [Calls -> PcStates]
    /\ born \in [Calls -> Epochs]
    /\ actorOf \in [Calls -> Epochs]
    /\ parent \in [Calls -> Calls \cup {NoCall}]
    /\ holds \subseteq SpendCalls \cup Leases
    /\ leased \subseteq Leases
    /\ generation \in Nat

\* Two calls inside regions of the live actor are a chain ingest and a spend:
\* the "Illegal (guarded)" list of walletCoordinatorMachine.ts, over every
\* interleaving of queues, waits, abandonment and account switches.
RegionExclusion ==
    \A c, d \in Occupants :
        c # d => {RegionOf(c), RegionOf(d)} = {"chainIngest", "spend"}

\* The counters are exact: a region's depth is one while one call is inside and
\* zero otherwise.  Math.max(0, depth - 1) never hides a second END, and no
\* path out of a body forgets its END.
DepthIsOccupancy ==
    \A r \in Region :
        \/ depth[r] = 0 /\ \A c \in Occupants : RegionOf(c) # r
        \/ depth[r] = 1 /\ \E c \in Occupants :
                \A d \in Occupants : RegionOf(d) = r <=> d = c

\* A queue serves its calls in the order they were made: only the head has left
\* "queued", and a call that settled or was abandoned no longer blocks it.
QueueOrder ==
    \A e \in Epochs, r \in Region : \A i \in 1..Len(queue[e][r]) :
        LET c == queue[e][r][i]
        IN /\ RegionOf(c) = r /\ born[c] = e
           /\ IF i = 1 THEN pc[c] \in {"queued", "waiting", "woken", "granted", "running"}
                       ELSE pc[c] = "queued"

\* A spend's priority hold never survives the spend: every way out of
\* runExclusiveSpend drops it, so ingest and backup are not held back by a ghost.
NoGhostHold ==
    \A c \in holds \cap SpendCalls :
        pc[c] \in {"queued", "waiting", "woken", "granted", "running"}

\* Every payment gets an answer, although ingest, history, recompose and even
\* its own body may never return and the runtime may be replaced meanwhile: it
\* runs, times out, is fenced off, or is abandoned at its ceiling.
SpendAnswered ==
    \A c \in SpendCalls : pc[c] = "queued" ~> pc[c] \in Settled \cup {"late"}

\* While one runtime lives and bodies return, no queued call is forgotten: no
\* lost wake-up, no queue stuck behind a settled call, no circular wait.
QueuedCallSettles ==
    \A c \in Calls \ HealCalls : pc[c] = "queued" ~> pc[c] \in Settled \cup {"late"}

\* Doc claim, walletCoordinator.test.ts "fences queued work when the wallet
\* runtime changes": work of the old epoch is rejected.
StaleCallSettles ==
    \A c \in Calls \ HealCalls :
        pc[c] = "queued" /\ born[c] # epoch ~> pc[c] \in Settled \cup {"late"}

\* Doc claim, HistoryReplicaPriority: "the worst case is a spend waiting on one
\* export - never a spend running beside one".
NoSpendBesideHistory ==
    \A c \in SpendCalls, d \in HistoryCalls :
        ~(pc[c] = "running" /\ BodyLive(d) /\ born[c] = born[d])

Arbiter == INSTANCE RegionArbiter WITH
    Ingests <- IngestCalls, Heals <- HealCalls, Spends <- SpendCalls,
    Histories <- HistoryCalls, Recomposes <- RecomposeCalls,
    inside <- Occupants

\* The coordinator implements the arbiter: every step of the code enters one
\* job, lets one job out, replaces the runtime, or changes nothing inside.
ImplementsArbiter == Arbiter!Spec
=============================================================================
