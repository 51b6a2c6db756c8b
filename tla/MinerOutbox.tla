---------------------------- MODULE MinerOutbox ----------------------------
(***************************************************************************)
(* The retry queue of signed cheques (transactions) of one account, and    *)
(* who writes it: the send that registers a cheque, its miner round,       *)
(* flushes that load the queue, post row by row and save what they keep,   *)
(* the landing watch and the history heal.                                 *)
(*                                                                         *)
(* Whatever lies between two awaits is one step.  Bodies are always        *)
(* readable here; backoff is the choice between posting a row and skipping *)
(* it.  The local store may refuse a write.                                *)
(***************************************************************************)
EXTENDS Naturals

CONSTANTS Cheques,
          Payments,    \* the cheques signed inside the spend region, not by an app
          Flushes,     \* bound: flushes that may overlap
          NoCheque,
          Refusals,    \* whether the local store may refuse a write
          MaxSwitches, \* bound
          MaxRestarts  \* bound

ASSUME OutboxAssumption ==
    /\ Payments \subseteq Cheques
    /\ NoCheque \notin Cheques
    /\ Refusals \in BOOLEAN
    /\ MaxSwitches \in Nat /\ MaxRestarts \in Nat

VARIABLES
    queued,   \* durable: the rows of the account's queue
    failed,   \* durable: cheques whose action failed and whose inputs are free
    contact,  \* durable: cheques Arcade accepted
    answered, \* history: acknowledged for good, or proven dead
    stage,    \* how far the send that signed it is
    round,    \* minerSubmitInFlight
    flush,
    open,     \* the account's runtime is the current one
    switches, restarts

durable == <<queued, failed, contact, answered>>
bounds == <<switches, restarts>>
vars == <<durable, stage, round, flush, open, bounds>>

IdleFlush == [at |-> "idle", loaded |-> {}, rest |-> {}, keep |-> {},
              on |-> NoCheque, current |-> FALSE]

TypeOK ==
    /\ queued \subseteq Cheques /\ failed \subseteq Cheques
    /\ contact \subseteq Cheques /\ answered \subseteq Cheques
    /\ stage \in [Cheques -> {"new", "signed", "left", "queued", "done"}]
    /\ round \in [Cheques -> {"none", "own", "detached", "dead"}]
    /\ flush \in [Flushes -> [at : {"idle", "rows"}, loaded : SUBSET Cheques,
                              rest : SUBSET Cheques, keep : SUBSET Cheques,
                              on : Cheques \cup {NoCheque}, current : BOOLEAN]]
    /\ open \in BOOLEAN
    /\ switches \in 0..MaxSwitches /\ restarts \in 0..MaxRestarts

Init ==
    /\ queued = {} /\ failed = {} /\ contact = {} /\ answered = {}
    /\ stage = [c \in Cheques |-> "new"]
    /\ round = [c \in Cheques |-> "none"]
    /\ flush = [f \in Flushes |-> IdleFlush]
    /\ open = TRUE
    /\ switches = 0 /\ restarts = 0

\* The store takes the write, or refuses it and keeps the queue it had.
Save(rows) ==
    \/ queued' = rows
    \/ Refusals /\ UNCHANGED queued

PaymentSigning == \E c \in Payments : stage[c] = "signed"

----------------------------------------------------------------------------
(* A send. *)

Sign(c) ==
    /\ stage[c] = "new" /\ open
    /\ stage' = [stage EXCEPT ![c] = "signed"]
    /\ UNCHANGED <<durable, round, flush, open, bounds>>

Register(c) ==
    /\ stage[c] = "signed"
    /\ stage' = [stage EXCEPT ![c] = "queued"]
    /\ Save(queued \cup {c})
    /\ UNCHANGED <<failed, contact, answered, round, flush, open, bounds>>

\* A round of the send's own queues the cheque again; it joins one in flight.
Propagate(c) ==
    /\ stage[c] = "queued"
    /\ stage' = [stage EXCEPT ![c] = "done"]
    /\ IF round[c] # "none" THEN UNCHANGED <<queued, round>>
       ELSE /\ Save(queued \cup {c})
            /\ round' = [round EXCEPT ![c] = IF open THEN "own" ELSE "detached"]
    /\ UNCHANGED <<failed, contact, answered, flush, open, bounds>>

----------------------------------------------------------------------------
(* A miner round, and what its end tells the flushes that wait for it. *)

\* Seeded fault: the settled round stays in the map.
RoundEndsHoldingTheAnswer(c, kept) ==
    /\ round' = [round EXCEPT ![c] = "answered"]
    /\ flush' = [f \in Flushes |->
           IF flush[f].on # c THEN flush[f]
           ELSE [flush[f] EXCEPT !.on = NoCheque,
                                 !.keep = IF kept THEN @ \cup {c} ELSE @]]

\* Seeded fault: a flush that joined the round is never told.
RoundEndsAlone(c, kept) ==
    /\ round' = [round EXCEPT ![c] = "none"]
    /\ UNCHANGED flush

RoundEnds(c, kept) ==
    /\ round' = [round EXCEPT ![c] = "none"]
    /\ flush' = [f \in Flushes |->
           IF flush[f].on # c THEN flush[f]
           ELSE [flush[f] EXCEPT !.on = NoCheque,
                                 !.keep = IF kept THEN @ \cup {c} ELSE @]]

\* Offline, no answer, an unproven conflict, missing ancestors; or a verdict
\* that a round of an account in the background leaves to its owner.
Undecided(c) ==
    /\ round[c] \in {"own", "detached"}
    /\ RoundEnds(c, TRUE)
    /\ UNCHANGED <<durable, stage, open, bounds>>

\* An acceptance outranks a failed action, once the storage can be read.
Revive(c) ==
    \/ UNCHANGED failed
    \/ round[c] = "own" /\ open /\ failed' = failed \ {c}

\* A miner took it; it is posted again until the ancestors' proofs close.
Accepts(c) ==
    /\ round[c] \in {"own", "detached"}
    /\ contact' = contact \cup {c}
    /\ Revive(c)
    /\ RoundEnds(c, TRUE)
    /\ UNCHANGED <<queued, answered, stage, open, bounds>>

Acknowledges(c) ==
    /\ round[c] \in {"own", "detached"}
    /\ contact' = contact \cup {c}
    /\ answered' = answered \cup {c}
    /\ Save(queued \ {c})
    /\ Revive(c)
    /\ RoundEnds(c, FALSE)
    /\ UNCHANGED <<stage, open, bounds>>

\* A proven hard rejection; the inputs are then released, or stay hidden
\* because they are spent.
Rejects(c) ==
    /\ round[c] = "own"
    /\ answered' = answered \cup {c}
    /\ Save(queued \ {c})
    /\ \/ round' = [round EXCEPT ![c] = "dead"] /\ UNCHANGED flush
       \/ RoundEnds(c, FALSE)
    /\ UNCHANGED <<failed, contact, stage, open, bounds>>

\* Releases in whichever account is open by now.
Releases(c) ==
    /\ round[c] = "dead"
    /\ IF open
       THEN Save(queued \ {c}) /\ failed' = failed \cup {c}
       ELSE UNCHANGED <<queued, failed>>
    /\ RoundEnds(c, FALSE)
    /\ UNCHANGED <<contact, answered, stage, open, bounds>>

----------------------------------------------------------------------------
(* A flush. *)

FlushLoads(f) ==
    /\ flush[f].at = "idle" /\ open /\ queued # {}
    /\ flush' = [flush EXCEPT ![f] = [IdleFlush EXCEPT
           !.at = "rows", !.loaded = queued, !.rest = queued, !.current = TRUE]]
    /\ UNCHANGED <<durable, stage, round, open, bounds>>

AtRow(f, c) ==
    flush[f].at = "rows" /\ flush[f].on = NoCheque /\ flush[f].current /\ c \in flush[f].rest

FlushSkips(f, c) ==
    /\ AtRow(f, c)
    /\ flush' = [flush EXCEPT ![f].rest = @ \ {c}, ![f].keep = @ \cup {c}]
    /\ UNCHANGED <<durable, stage, round, open, bounds>>

FlushPosts(f, c) ==
    /\ AtRow(f, c)
    /\ flush' = [flush EXCEPT ![f].rest = @ \ {c}, ![f].on = c]
    /\ round' = [round EXCEPT ![c] = IF @ = "none" THEN "own" ELSE @]
    /\ UNCHANGED <<durable, stage, open, bounds>>

\* Overwrites the queue as it is by now.
FlushSaves(f) ==
    /\ flush[f].at = "rows" /\ flush[f].on = NoCheque /\ flush[f].rest = {}
    /\ Save(flush[f].keep)
    /\ flush' = [flush EXCEPT ![f] = IdleFlush]
    /\ UNCHANGED <<failed, contact, answered, stage, round, open, bounds>>

\* Seeded fault: a flush that is cut short saves what it has kept so far.
FlushStopsSaving(f) ==
    /\ flush[f].at = "rows" /\ flush[f].on = NoCheque /\ flush[f].rest # {}
    /\ ~flush[f].current
    /\ Save(flush[f].keep)
    /\ flush' = [flush EXCEPT ![f] = IdleFlush]
    /\ UNCHANGED <<failed, contact, answered, stage, round, open, bounds>>

\* The runtime it began with is gone: it ends without saving.
FlushStops(f) ==
    /\ flush[f].at = "rows" /\ flush[f].on = NoCheque /\ flush[f].rest # {}
    /\ ~flush[f].current
    /\ flush' = [flush EXCEPT ![f] = IdleFlush]
    /\ UNCHANGED <<durable, stage, round, open, bounds>>

----------------------------------------------------------------------------
(* The landing watch and the heal. *)

\* Arcade took it, and the chain will never: it is dead.
Retires(c) ==
    /\ c \in contact \ failed /\ open /\ ~PaymentSigning
    /\ answered' = answered \cup {c}
    /\ Save(queued \ {c})
    /\ failed' = failed \cup {c}
    /\ UNCHANGED <<contact, stage, round, flush, open, bounds>>

Heals(c) ==
    /\ open /\ stage[c] \in {"queued", "done"} /\ c \notin failed
    /\ Save(queued \cup {c})
    /\ UNCHANGED <<failed, contact, answered, stage, round, flush, open, bounds>>

----------------------------------------------------------------------------
(* Account switches and restarts. *)

Leaves ==
    /\ open /\ switches < MaxSwitches
    /\ open' = FALSE /\ switches' = switches + 1
    /\ flush' = [f \in Flushes |-> [flush[f] EXCEPT !.current = FALSE]]
    /\ UNCHANGED <<durable, stage, round, restarts>>

Returns ==
    /\ ~open /\ open' = TRUE
    /\ UNCHANGED <<durable, stage, round, flush, bounds>>

\* A send cut between signing and registering is not taken up again.
Restart ==
    /\ restarts < MaxRestarts /\ restarts' = restarts + 1
    /\ stage' = [c \in Cheques |-> CASE stage[c] = "signed" -> "left"
                                     [] stage[c] = "queued" -> "done"
                                     [] OTHER -> stage[c]]
    /\ round' = [c \in Cheques |-> "none"]
    /\ flush' = [f \in Flushes |-> IdleFlush]
    /\ open' = TRUE
    /\ UNCHANGED <<durable, switches>>

Next ==
    \/ \E c \in Cheques :
          \/ Sign(c) \/ Register(c) \/ Propagate(c)
          \/ Undecided(c) \/ Accepts(c) \/ Acknowledges(c) \/ Rejects(c) \/ Releases(c)
          \/ Retires(c) \/ Heals(c)
    \/ \E f \in Flushes :
          \/ FlushLoads(f) \/ FlushSaves(f) \/ FlushStops(f)
          \/ \E c \in Cheques : FlushSkips(f, c) \/ FlushPosts(f, c)
    \/ Leaves \/ Returns \/ Restart

Spec == Init /\ [][Next]_vars

Answers(c) == Acknowledges(c) \/ Rejects(c)

(* The flush runs every minute and a row's backoff is at most a quarter of *)
(* an hour; a miner asked again and again gives a final answer in the end. *)
Fairness ==
    /\ WF_vars(Returns)
    /\ \A f \in Flushes : WF_vars(FlushLoads(f)) /\ WF_vars(FlushSaves(f)) /\ WF_vars(FlushStops(f))
    /\ \A c \in Cheques :
          /\ WF_vars(Undecided(c) \/ Answers(c) \/ Releases(c))
          /\ SF_vars(Answers(c))
          /\ SF_vars(\E f \in Flushes : FlushPosts(f, c))

FairSpec == Spec /\ Fairness

----------------------------------------------------------------------------
(* Properties. *)

\* A row leaves the queue with an answer, or to the save of a flush that began
\* before the row was written: no crash, account switch, missing answer or
\* joined round costs a cheque its retries (pendingMinerOutbox.ts:4-5).
LostOnlyToAFlush ==
    [][\A c \in queued \ queued' :
          \/ c \in answered'
          \/ \E f \in Flushes : /\ flush[f].at = "rows" /\ c \notin flush[f].loaded
                                /\ flush'[f].at = "idle"]_vars

\* A queued cheque is answered in the end, whatever flushes overlap, unless
\* one of them overwrites its row.
QueuedIsAnswered ==
    \A c \in Cheques : c \in queued ~> (c \in answered \/ c \notin queued)

\* What the queue's comment promises without exception; an overlapping flush breaks it.
StillQueued ==
    \A c \in Cheques : stage[c] \in {"queued", "done"} /\ c \notin answered => c \in queued

\* "Released means never sent" (staleOutputRelease.ts:601-602): a flush that
\* loaded the row before the release posts it again.
ReleasedIsNotPosted ==
    [][\A c \in Cheques : round[c] = "none" /\ round'[c] # "none" => c \notin failed]_vars
=============================================================================
