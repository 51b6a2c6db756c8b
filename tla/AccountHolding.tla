--------------------------- MODULE AccountHolding ---------------------------
(***************************************************************************)
(* Which of a vault's installs may spend one account.  Each install keeps  *)
(* a local holding; the backup host keeps one signed holder record that    *)
(* changes only by a conditional write.  An install reconciles its holding *)
(* with the record (check), asks the holder to release and then takes the  *)
(* account (move), or takes it without an answer (force).  Spending reads  *)
(* local holding only, after one check per gap in serving the channel.     *)
(*                                                                         *)
(* One account, several installs.  Time appears as what may happen before  *)
(* what: a window lapses only when nobody who would have answered in time  *)
(* was there, unless a fault of Faults says otherwise.                     *)
(***************************************************************************)
EXTENDS Naturals, FiniteSets

CONSTANTS
    Devices,      \* the installs of the vault
    None,         \* no install
    Upgrading,    \* installs that list the account as theirs before any record
    Replacing,    \* those restored to replace the previous install (takeover)
    Movers,       \* those whose user acts on the account when it is elsewhere
    Watching,     \* those that check unasked: the account is open there
    Faults,       \* <<kind, install>>: the disturbances install may meet
    MaxConflicts, \* MAX_CONFLICTS: lost conditional writes before giving up
    MaxRestarts,  \* MAX_RESTARTS of one move
    MaxMoves,     \* bound: moves one install starts
    MaxNaps,      \* bound: suspensions and restarts of all installs together
    MaxSpends     \* bound: no spend starts once this many are signed

(* The disturbances:                                                       *)
(*  sleep     suspended longer than the gap: freshness is lost on waking    *)
(*  nap       suspended past an answer window but under HOLDING_GAP_MS      *)
(*  early     wakes while another install's forced take is on the wire      *)
(*  drowsy    may be suspended inside the spend region                      *)
(*  crash     the process restarts; only local holding survives             *)
(*  cut       its channel reads may fail while its serve ticks go on        *)
(*  offline   holder record reads and writes may be unreachable             *)
(*  lost      a write may be applied and its answer lost                    *)
(*  stale     a read may return a record the host has since replaced        *)
(*  flush     the history flush of a release may fail                       *)
(*  slow      a release may outlast the answer and release windows          *)
(*  unmerged  the history merge of an arrival may fail                      *)
(*  race      a check may be overtaken by the install's own take or release *)
(*  eager     a second spend may start before the arrival merge             *)
FaultKinds == {"sleep", "nap", "early", "drowsy", "crash", "cut", "offline",
               "lost", "stale", "flush", "slow", "unmerged", "race", "eager"}

ASSUME HoldingAssumption ==
    /\ None \notin Devices
    /\ Upgrading \subseteq Devices /\ Replacing \subseteq Devices
    /\ Movers \subseteq Devices /\ Watching \subseteq Devices
    /\ Faults \subseteq FaultKinds \X Devices
    /\ MaxConflicts \in Nat /\ MaxRestarts \in Nat
    /\ MaxMoves \in Nat /\ MaxNaps \in Nat /\ MaxSpends \in Nat

Suffers(kind, d) == <<kind, d>> \in Faults

VARIABLES
    host,      \* the holder record the host serves
    published, \* every record the host has ever accepted
    local,     \* each install's account.holding
    takeover,  \* each install's store.takeover
    io,        \* each install's requests to the host, one per operation
    fresh,     \* isHoldingFresh of each install
    clean,     \* no gap since the running check started
    asleep,    \* suspended installs
    naps,      \* suspensions and restarts so far
    mv,        \* each install's accountMoveMachine
    moves,     \* moves each install has started
    requests,  \* release requests in the holding channel
    accepts,   \* release accepts in the holding channel
    rel,       \* each install's releaseActiveVaultAccount
    spend,     \* each install's runExclusiveSpend
    known,     \* spends in each install's history
    backup,    \* spends in the history backup
    signed     \* spends signed so far, by anyone

recordVars == <<host, published>>
deviceVars == <<local, takeover>>
gapVars == <<fresh, clean, asleep, naps>>
moveVars == <<mv, moves>>
mailVars == <<requests, accepts>>
historyVars == <<known, backup, signed>>
vars == <<recordVars, deviceVars, io, gapVars, moveVars, mailVars, rel, spend,
          historyVars>>

(***************************************************************************)
(* Holdings and records                                                    *)
(***************************************************************************)

Record(state, d, seq) == [state |-> state, device |-> d, seq |-> seq]
Absent == Record("absent", None, 0)
HeldBy(r, d) == r.state = "held" /\ r.device = d

Here(seq) == [kind |-> "here", seq |-> seq, device |-> None]
Elsewhere(seq, d) == [kind |-> "elsewhere", seq |-> seq, device |-> d]
IsHeldHere(d) == local[d].kind = "here"

\* Seeded faults: the record's state taken for a holding kind; an account
\* elsewhere listed as never seen.
HoldingByState(r, d) ==
    [kind |-> IF HeldBy(r, d) THEN "here" ELSE r.state, seq |-> r.seq,
     device |-> None]
HoldingForgettingSeq(r, d) ==
    IF HeldBy(r, d) THEN Here(r.seq) ELSE Elsewhere(0, None)

HoldingFromRecord(r, d) ==
    IF HeldBy(r, d)
    THEN Here(r.seq)
    ELSE Elsewhere(r.seq, IF r.state = "held" THEN r.device ELSE None)

\* Seeded fault: the next seq counted from local holding alone.
LocalSeq(m, n) == n

Larger(m, n) == IF m > n THEN m ELSE n

\* decideHoldingStep: 'publish' when the record is missing, foreign to a
\* takeover, or older than what this install holds; 'adopt' what is new.
Publishes(mine, r, d) ==
    /\ mine.kind = "here"
    /\ \/ r = Absent
       \/ takeover[d] /\ ~HeldBy(r, d)
       \/ r.seq < mine.seq

\* Seeded fault: a newer record waits for a local change.
AdoptsSameSeq(mine, r, d) ==
    /\ r # Absent /\ r.seq = mine.seq
    /\ HoldingFromRecord(r, d) # mine

Adopts(mine, r, d) ==
    /\ r # Absent
    /\ ~Publishes(mine, r, d)
    /\ r.seq >= mine.seq
    /\ HoldingFromRecord(r, d) # mine

(***************************************************************************)
(* Requests to the host                                                    *)
(***************************************************************************)

Operations == {"check", "take", "release"}

Resting == [pc |-> "idle", mine |-> Elsewhere(0, None), seen |-> Absent,
            out |-> "none", tries |-> 0]

\* The local holding is read, and the record asked for.
Asking(d, tries) == [Resting EXCEPT !.pc = "ask", !.mine = local[d],
                                    !.tries = tries]

Seeing(d, op, r) == [io[d][op] EXCEPT !.pc = "seen", !.seen = r]

\* The host's answer: the record this request leaves behind, and the outcome.
Replying(d, op, r, out) ==
    [io[d][op] EXCEPT !.pc = "replied", !.seen = r, !.out = out]

Awake(d) == d \notin asleep

\* readHolderRecord
HostReads(d, op) ==
    /\ Awake(d) /\ io[d][op].pc = "ask"
    /\ \/ \E r \in {host} \cup (IF Suffers("stale", d)
                                THEN published \cup {Absent} ELSE {}) :
             io' = [io EXCEPT ![d][op] = Seeing(d, op, r)]
       \/ /\ Suffers("offline", d)
          /\ io' = [io EXCEPT ![d][op] = Replying(d, op, Absent, "offline")]
    /\ UNCHANGED <<recordVars, deviceVars, gapVars, moveVars, mailVars, rel,
                   spend, historyVars>>

\* Seeded fault: an unconditional PUT.
PutBlind(d, op, r) ==
    /\ host' = r /\ published' = published \cup {r}
    /\ io' = [io EXCEPT ![d][op] = Replying(d, op, r, "written")]

\* writeHolderRecord: If-Match on the record read, If-None-Match when absent.
Put(d, op, r) ==
    \/ /\ host = io[d][op].seen
       /\ host' = r /\ published' = published \cup {r}
       /\ \E out \in {"written"} \cup (IF Suffers("lost", d)
                                       THEN {"offline"} ELSE {}) :
             io' = [io EXCEPT ![d][op] = Replying(d, op, r, out)]
    \/ /\ host # io[d][op].seen
       /\ io' = [io EXCEPT ![d][op] = Replying(d, op, Absent, "conflict")]
       /\ UNCHANGED recordVars
    \/ /\ Suffers("offline", d)
       /\ io' = [io EXCEPT ![d][op] = Replying(d, op, Absent, "offline")]
       /\ UNCHANGED recordVars

At(d, op, pc) == Awake(d) /\ io[d][op].pc = pc
Replied(d, op, out) == At(d, op, "replied") /\ io[d][op].out = out
MayRetry(d, op) == io[d][op].tries < MaxConflicts
Retrying(d, op) ==
    [io EXCEPT ![d][op] = Asking(d, io[d][op].tries + 1)]
Ended(d, op) == [io EXCEPT ![d][op] = Resting]

(***************************************************************************)
(* The check: reconcileAccount in checkVaultAccountHoldings                *)
(***************************************************************************)

CanCheck(d) ==
    /\ Awake(d) /\ io[d]["check"].pc = "idle"
    /\ \/ Suffers("race", d)
       \/ io[d]["take"].pc = "idle" /\ io[d]["release"].pc = "idle"

\* An operation of the install's own waits for its running check.
CheckSettled(d) == Suffers("race", d) \/ io[d]["check"].pc = "idle"

CheckBegins(d) ==
    /\ io' = [io EXCEPT ![d]["check"] = Asking(d, 0)]
    /\ clean' = [clean EXCEPT ![d] = TRUE]

\* On unlock, before a switch, and every HOLDING_WATCH_MS; a spend's own check
\* is left to end first.
CheckStarts(d) ==
    /\ d \in Watching /\ CanCheck(d) /\ spend[d] # "checking"
    /\ CheckBegins(d)
    /\ UNCHANGED <<recordVars, deviceVars, fresh, asleep, naps, moveVars,
                   mailVars, rel, spend, historyVars>>

\* noteHoldingChecked: reachable or not, the check closes the gap it began in.
CheckEnds(d) ==
    /\ io' = Ended(d, "check")
    /\ fresh' = [fresh EXCEPT ![d] = @ \/ clean[d]]
    /\ clean' = [clean EXCEPT ![d] = FALSE]
    /\ UNCHANGED <<recordVars, asleep, naps, moveVars, mailVars, rel, spend,
                   historyVars>>

\* A complete check of every account clears takeover; one of a single account
\* leaves it.
CheckCompletes(d) ==
    /\ CheckEnds(d)
    /\ takeover' \in {takeover, [takeover EXCEPT ![d] = FALSE]}

CheckReconciles(d) ==
    LET c == io[d]["check"] IN
    /\ At(d, "check", "seen")
    /\ ~Publishes(c.mine, c.seen, d)
    /\ local' = IF Adopts(c.mine, c.seen, d)
                THEN [local EXCEPT ![d] = HoldingFromRecord(c.seen, d)]
                ELSE local
    /\ CheckCompletes(d)

CheckPublishes(d) ==
    LET c == io[d]["check"] IN
    /\ At(d, "check", "seen")
    /\ Publishes(c.mine, c.seen, d)
    /\ Put(d, "check",
           Record("held", d, Larger(c.seen.seq, c.mine.seq) + 1))
    /\ UNCHANGED <<deviceVars, gapVars, moveVars, mailVars, rel, spend,
                   historyVars>>

CheckPublished(d) ==
    /\ Replied(d, "check", "written")
    /\ local' = [local EXCEPT ![d] = Here(io[d]["check"].seen.seq)]
    /\ CheckCompletes(d)

CheckRetries(d) ==
    /\ Replied(d, "check", "conflict") /\ MayRetry(d, "check")
    /\ io' = Retrying(d, "check")
    /\ UNCHANGED <<recordVars, deviceVars, gapVars, moveVars, mailVars, rel,
                   spend, historyVars>>

CheckIncomplete(d) ==
    /\ \/ Replied(d, "check", "offline")
       \/ Replied(d, "check", "conflict") /\ ~MayRetry(d, "check")
    /\ CheckEnds(d)
    /\ UNCHANGED deviceVars

(***************************************************************************)
(* The move: accountMoveMachine                                            *)
(***************************************************************************)

Still == [pc |-> "idle", seq |-> 0, restarts |-> 0]
Nonce(d) == <<moves[d], mv[d].restarts>>
Request(d) == [from |-> d, seq |-> mv[d].seq, nonce |-> Nonce(d)]

Movable(r, d) == r.state = "released" \/ HeldBy(r, d)
Overtaken(d) == host.state = "held" /\ host.seq > mv[d].seq
Awaiting(d) == mv[d].pc \in {"awaitingAccept", "awaitingRelease"}

GoesTo(d, pc) == mv' = [mv EXCEPT ![d].pc = pc]

BeginsTake(d, pc) ==
    /\ CheckSettled(d)
    /\ GoesTo(d, pc)
    /\ io' = [io EXCEPT ![d]["take"] = Asking(d, 0)]

\* retireOwnRequests: however the move ends.
Retires(d) == requests' = {r \in requests : r.from # d}

Fails(d) == mv' = [mv EXCEPT ![d] = Still] /\ Retires(d)

StartsOver(d) ==
    mv' = [mv EXCEPT ![d] = [pc |-> "reading", seq |-> 0,
                             restarts |-> @.restarts + 1]]

\* moveAccountHere, for a spend or a switch on an account held elsewhere.
MoveStarts(d) ==
    /\ Awake(d) /\ mv[d].pc = "idle" /\ ~IsHeldHere(d) /\ rel[d] = "idle"
    /\ d \in Movers /\ moves[d] < MaxMoves
    /\ moves' = [moves EXCEPT ![d] = @ + 1]
    /\ GoesTo(d, "reading")
    /\ UNCHANGED <<recordVars, deviceVars, io, gapVars, mailVars, rel, spend,
                   historyVars>>

MoveReads(d) ==
    /\ Awake(d) /\ mv[d].pc = "reading"
    /\ \/ /\ Movable(host, d)
          /\ BeginsTake(d, "taking")
          /\ UNCHANGED requests
       \/ /\ ~Movable(host, d)
          /\ mv' = [mv EXCEPT ![d] = [pc |-> "requesting", seq |-> host.seq,
                                      restarts |-> @.restarts]]
          /\ UNCHANGED <<io, requests>>
       \/ /\ Suffers("offline", d)
          /\ Fails(d)
          /\ UNCHANGED io
    /\ UNCHANGED <<recordVars, deviceVars, gapVars, moves, accepts, rel, spend,
                   historyVars>>

\* dialing, requestingDirect, requestingBox: the request goes out, or nothing
\* is forced.
MoveRequests(d) ==
    /\ Awake(d) /\ mv[d].pc = "requesting"
    /\ \/ /\ requests' = requests \cup {Request(d)}
          /\ GoesTo(d, "awaitingAccept")
       \/ /\ Suffers("cut", d)
          /\ Fails(d)
    /\ UNCHANGED <<recordVars, deviceVars, io, gapVars, moves, accepts, rel,
                   spend, historyVars>>

MoveAccepted(d) ==
    /\ Awake(d) /\ mv[d].pc = "awaitingAccept"
    /\ [to |-> d, nonce |-> Nonce(d)] \in accepts
    /\ accepts' = accepts \ {[to |-> d, nonce |-> Nonce(d)]}
    /\ GoesTo(d, "awaitingRelease")
    /\ UNCHANGED <<recordVars, deviceVars, io, gapVars, moves, requests, rel,
                   spend, historyVars>>

\* watchRecord
MoveWatches(d) ==
    /\ Awake(d) /\ Awaiting(d)
    /\ \/ /\ Movable(host, d)
          /\ BeginsTake(d, "taking")
          /\ UNCHANGED requests
       \/ /\ Overtaken(d) /\ ~Movable(host, d) /\ mv[d].restarts < MaxRestarts
          /\ StartsOver(d)
          /\ UNCHANGED <<io, requests>>
       \/ /\ Overtaken(d) /\ ~Movable(host, d) /\ mv[d].restarts >= MaxRestarts
          /\ Fails(d)
          /\ UNCHANGED io
    /\ UNCHANGED <<recordVars, deviceVars, gapVars, moves, accepts, rel, spend,
                   historyVars>>

\* An install that is up and holds the account, or is about to learn it does,
\* reads the channel well inside the answer window.
Answers(h) ==
    /\ Awake(h) /\ ~Suffers("cut", h)
    /\ IsHeldHere(h) \/ io[h]["take"].out = "written"
    /\ ~(rel[h] # "idle" /\ Suffers("slow", h))

\* The record is polled every second: a window does not outlive its news.
NoNews(d) == ~Movable(host, d) /\ ~Overtaken(d)

AnswerLapses(d) ==
    /\ Awake(d) /\ mv[d].pc = "awaitingAccept" /\ NoNews(d)
    /\ ~\E h \in Devices \ {d} : Answers(h)
    /\ Suffers("cut", d) \/ [to |-> d, nonce |-> Nonce(d)] \notin accepts
    /\ BeginsTake(d, "forcing")
    /\ UNCHANGED <<recordVars, deviceVars, gapVars, moves, mailVars, rel, spend,
                   historyVars>>

\* Seeded fault: an accepted request waits for the release alone.
ReleaseNeverLapses(d) == FALSE /\ UNCHANGED vars

\* RELEASE_WINDOW_MS after the accept.
ReleaseLapses(d) ==
    /\ Awake(d) /\ mv[d].pc = "awaitingRelease" /\ NoNews(d)
    /\ ~\E h \in Devices \ {d} :
           rel[h] # "idle" /\ Awake(h) /\ ~Suffers("slow", h)
    /\ BeginsTake(d, "forcing")
    /\ UNCHANGED <<recordVars, deviceVars, gapVars, moves, mailVars, rel, spend,
                   historyVars>>

(***************************************************************************)
(* takeVaultAccount, with force once the chart is in forcing               *)
(***************************************************************************)

Forced(d) == mv[d].pc = "forcing"

Taken(d, seq) ==
    /\ local' = [local EXCEPT ![d] = Here(seq)]
    /\ io' = Ended(d, "take")
    /\ GoesTo(d, "arriving") /\ Retires(d)
    /\ UNCHANGED <<recordVars, takeover, gapVars, moves, accepts, rel, spend,
                   historyVars>>

TakeFindsOwn(d) ==
    /\ At(d, "take", "seen") /\ HeldBy(io[d]["take"].seen, d)
    /\ Taken(d, io[d]["take"].seen.seq)

TakeRefused(d) ==
    LET r == io[d]["take"].seen IN
    /\ At(d, "take", "seen") /\ ~Forced(d)
    /\ r = Absent \/ (r.state = "held" /\ r.device # d)
    /\ io' = Ended(d, "take")
    /\ \/ mv[d].restarts < MaxRestarts /\ StartsOver(d) /\ UNCHANGED requests
       \/ mv[d].restarts >= MaxRestarts /\ Fails(d)
    /\ UNCHANGED <<recordVars, deviceVars, gapVars, moves, accepts, rel, spend,
                   historyVars>>

TakeWrites(d) ==
    LET r == io[d]["take"].seen IN
    /\ At(d, "take", "seen") /\ ~HeldBy(r, d)
    /\ Forced(d) \/ r.state = "released"
    /\ Put(d, "take", Record("held", d, r.seq + 1))
    /\ UNCHANGED <<deviceVars, gapVars, moveVars, mailVars, rel, spend,
                   historyVars>>

TakeWritten(d) ==
    /\ Replied(d, "take", "written")
    /\ Taken(d, io[d]["take"].seen.seq)

TakeRetries(d) ==
    /\ Replied(d, "take", "conflict") /\ MayRetry(d, "take")
    /\ io' = Retrying(d, "take")
    /\ UNCHANGED <<recordVars, deviceVars, gapVars, moveVars, mailVars, rel,
                   spend, historyVars>>

TakeUnavailable(d) ==
    /\ \/ Replied(d, "take", "offline")
       \/ Replied(d, "take", "conflict") /\ ~MayRetry(d, "take")
    /\ io' = Ended(d, "take")
    /\ Fails(d)
    /\ UNCHANGED <<recordVars, deviceVars, gapVars, moves, accepts, rel, spend,
                   historyVars>>

\* mergeArrivedForSpend: the recompose excludes spends.  A merge that fails ends
\* the move with the account here.
Arrives(d) ==
    /\ Awake(d) /\ mv[d].pc = "arriving" /\ spend[d] = "idle"
    /\ \/ known' = [known EXCEPT ![d] = @ \cup backup]
       \/ Suffers("unmerged", d) /\ UNCHANGED known
    /\ mv' = [mv EXCEPT ![d] = Still]
    /\ UNCHANGED <<recordVars, deviceVars, io, gapVars, moves, mailVars, rel,
                   spend, backup, signed>>

(***************************************************************************)
(* The holder: serveHoldingChannel and releaseActiveVaultAccount           *)
(***************************************************************************)

\* One tick reads the whole channel; ticks run one at a time and wait for the
\* release they start.
Serves(d) ==
    LET mail == {r \in requests : r.from # d}
        same == {r \in mail : r.seq = local[d].seq}
        older == {r \in mail : r.seq < local[d].seq}
        newer == {r \in mail : r.seq > local[d].seq}
    IN /\ Awake(d) /\ IsHeldHere(d) /\ rel[d] = "idle"
       /\ mail # {}
       /\ requests' = requests \ (same \cup older)
       /\ \/ /\ same = {}
             /\ UNCHANGED <<accepts, rel>>
          \/ \E r \in same :
                /\ accepts' = accepts \cup {[to |-> r.from, nonce |-> r.nonce]}
                /\ rel' = [rel EXCEPT ![d] = "draining"]
       /\ IF newer # {} /\ CanCheck(d)
          THEN CheckBegins(d)
          ELSE UNCHANGED <<io, clean>>
       /\ UNCHANGED <<recordVars, deviceVars, fresh, asleep, naps, moveVars,
                      spend, historyVars>>

\* Seeded fault: the flush does not wait for the spend in progress.
ReleaseDrainsAtOnce(d) ==
    /\ Awake(d) /\ rel[d] = "draining"
    /\ rel' = [rel EXCEPT ![d] = "flushing"]
    /\ UNCHANGED <<recordVars, deviceVars, io, gapVars, moveVars, mailVars,
                   spend, historyVars>>

\* waitForForegroundSpendIdle
ReleaseDrains(d) ==
    /\ Awake(d) /\ rel[d] = "draining" /\ spend[d] = "idle"
    /\ rel' = [rel EXCEPT ![d] = "flushing"]
    /\ UNCHANGED <<recordVars, deviceVars, io, gapVars, moveVars, mailVars,
                   spend, historyVars>>

\* Seeded fault: the release is announced without its history.
ReleaseFlushesNothing(d) ==
    /\ Awake(d) /\ rel[d] = "flushing" /\ CheckSettled(d) /\ IsHeldHere(d)
    /\ io' = [io EXCEPT ![d]["release"] = Asking(d, 0)]
    /\ rel' = [rel EXCEPT ![d] = "writing"]
    /\ UNCHANGED <<recordVars, deviceVars, gapVars, moveVars, mailVars, spend,
                   historyVars>>

\* flushAccountHistory, then releaseVaultAccount while the account is still here.
ReleaseFlushes(d) ==
    /\ Awake(d) /\ rel[d] = "flushing" /\ CheckSettled(d)
    /\ backup' = backup \cup known[d]
    /\ \/ /\ IsHeldHere(d)
          /\ io' = [io EXCEPT ![d]["release"] = Asking(d, 0)]
          /\ rel' = [rel EXCEPT ![d] = "writing"]
       \/ /\ ~IsHeldHere(d)
          /\ rel' = [rel EXCEPT ![d] = "idle"]
          /\ UNCHANGED io
    /\ UNCHANGED <<recordVars, deviceVars, gapVars, moveVars, mailVars, spend,
                   known, signed>>

ReleaseFlushFails(d) ==
    /\ Awake(d) /\ rel[d] = "flushing" /\ Suffers("flush", d)
    /\ rel' = [rel EXCEPT ![d] = "idle"]
    /\ UNCHANGED <<recordVars, deviceVars, io, gapVars, moveVars, mailVars,
                   spend, historyVars>>

ReleaseEnds(d) ==
    /\ rel' = [rel EXCEPT ![d] = "idle"]
    /\ io' = Ended(d, "release")
    /\ UNCHANGED <<recordVars, takeover, gapVars, moveVars, mailVars, spend,
                   historyVars>>

ReleaseOvertaken(d) ==
    LET c == io[d]["release"] IN
    /\ At(d, "release", "seen")
    /\ c.seen # Absent /\ c.seen.seq >= c.mine.seq /\ ~HeldBy(c.seen, d)
    /\ local' = [local EXCEPT ![d] = HoldingFromRecord(c.seen, d)]
    /\ ReleaseEnds(d)

ReleaseWrites(d) ==
    LET c == io[d]["release"] IN
    /\ At(d, "release", "seen")
    /\ c.seen = Absent \/ c.seen.seq < c.mine.seq \/ HeldBy(c.seen, d)
    /\ Put(d, "release",
           Record("released", d, Larger(c.seen.seq, c.mine.seq) + 1))
    /\ UNCHANGED <<deviceVars, gapVars, moveVars, mailVars, rel, spend,
                   historyVars>>

ReleaseWritten(d) ==
    /\ Replied(d, "release", "written")
    /\ local' = [local EXCEPT ![d] = Elsewhere(io[d]["release"].seen.seq, None)]
    /\ ReleaseEnds(d)

ReleaseRetries(d) ==
    /\ Replied(d, "release", "conflict") /\ MayRetry(d, "release")
    /\ IsHeldHere(d)
    /\ io' = Retrying(d, "release")
    /\ UNCHANGED <<recordVars, deviceVars, gapVars, moveVars, mailVars, rel,
                   spend, historyVars>>

\* The account stays on this install.
ReleaseGivesUp(d) ==
    /\ \/ Replied(d, "release", "offline")
       \/ /\ Replied(d, "release", "conflict")
          /\ ~MayRetry(d, "release") \/ ~IsHeldHere(d)
    /\ ReleaseEnds(d)
    /\ UNCHANGED local

(***************************************************************************)
(* runExclusiveSpend                                                       *)
(***************************************************************************)

\* Seeded fault: no refusal while the account is being released.
RefusedElsewhere(d) == ~IsHeldHere(d)

\* activeAccountSpendRefusal
Refused(d) == ~IsHeldHere(d) \/ rel[d] # "idle"

SpendStarts(d) ==
    /\ Awake(d) /\ spend[d] = "idle" /\ ~Refused(d) /\ signed < MaxSpends
    /\ mv[d].pc # "arriving" \/ Suffers("eager", d)
    /\ spend' = [spend EXCEPT ![d] = "entered"]
    /\ UNCHANGED <<recordVars, deviceVars, io, gapVars, moveVars, mailVars, rel,
                   historyVars>>

\* The refusal is read again once holding is fresh.
Clears(d) ==
    spend' = [spend EXCEPT ![d] = IF Refused(d) THEN "idle" ELSE "cleared"]

SpendFresh(d) ==
    /\ Awake(d) /\ spend[d] = "entered" /\ fresh[d]
    /\ Clears(d)
    /\ UNCHANGED <<recordVars, deviceVars, io, gapVars, moveVars, mailVars, rel,
                   historyVars>>

\* ensureHoldingFresh: one check per gap.
SpendChecks(d) ==
    /\ spend[d] = "entered" /\ ~fresh[d] /\ CanCheck(d)
    /\ CheckBegins(d)
    /\ spend' = [spend EXCEPT ![d] = "checking"]
    /\ UNCHANGED <<recordVars, deviceVars, fresh, asleep, naps, moveVars,
                   mailVars, rel, historyVars>>

SpendChecked(d) ==
    /\ Awake(d) /\ spend[d] = "checking" /\ io[d]["check"].pc = "idle"
    /\ Clears(d)
    /\ UNCHANGED <<recordVars, deviceVars, io, gapVars, moveVars, mailVars, rel,
                   historyVars>>

Signs(d) ==
    /\ Awake(d) /\ spend[d] = "cleared"
    /\ signed' = signed + 1
    /\ known' = [known EXCEPT ![d] = @ \cup {signed + 1}]
    /\ spend' = [spend EXCEPT ![d] = "idle"]
    /\ UNCHANGED <<recordVars, deviceVars, io, gapVars, moveVars, mailVars, rel,
                   backup>>

(***************************************************************************)
(* Suspension and restart                                                  *)
(***************************************************************************)

Sleeps(d) ==
    /\ Awake(d) /\ naps < MaxNaps
    /\ Suffers("sleep", d) \/ Suffers("nap", d)
    /\ spend[d] = "idle" \/ Suffers("drowsy", d)
    /\ asleep' = asleep \cup {d}
    /\ naps' = naps + 1
    /\ UNCHANGED <<recordVars, deviceVars, io, fresh, clean, moveVars, mailVars,
                   rel, spend, historyVars>>

\* Seeded fault: a long pause goes unnoticed.
GapUnnoticed(d) == UNCHANGED <<fresh, clean>>

\* noteHoldingServed finds the pause; a check begun before it proves nothing.
Gap(d) ==
    /\ fresh' = [fresh EXCEPT ![d] = FALSE]
    /\ clean' = [clean EXCEPT ![d] = FALSE]

ForcedTakeInFlight(d) == \E m \in Devices \ {d} : Forced(m)

Wakes(d) ==
    /\ ~Awake(d)
    /\ Suffers("early", d) \/ ~ForcedTakeInFlight(d)
    /\ asleep' = asleep \ {d}
    /\ \/ Suffers("sleep", d) /\ Gap(d)
       \/ Suffers("nap", d) /\ UNCHANGED <<fresh, clean>>
    /\ UNCHANGED <<recordVars, deviceVars, io, naps, moveVars, mailVars, rel,
                   spend, historyVars>>

Restarts(d) ==
    /\ Awake(d) /\ Suffers("crash", d) /\ naps < MaxNaps
    /\ naps' = naps + 1
    /\ Gap(d)
    /\ io' = [io EXCEPT ![d] = [op \in Operations |-> Resting]]
    /\ mv' = [mv EXCEPT ![d] = Still]
    /\ rel' = [rel EXCEPT ![d] = "idle"]
    /\ spend' = [spend EXCEPT ![d] = "idle"]
    /\ UNCHANGED <<recordVars, deviceVars, asleep, moves, mailVars, historyVars>>

(***************************************************************************)
(* The specification                                                       *)
(***************************************************************************)

\* The vault before its first record: upgrading and replacing installs list the
\* account as theirs and unpublished, the others as unknown elsewhere.
Init ==
    /\ host = Absent /\ published = {}
    /\ local = [d \in Devices |-> IF d \in Upgrading \cup Replacing
                                  THEN Here(0) ELSE Elsewhere(0, None)]
    /\ takeover = [d \in Devices |-> d \in Replacing]
    /\ io = [d \in Devices |-> [op \in Operations |-> Resting]]
    /\ fresh = [d \in Devices |-> FALSE] /\ clean = [d \in Devices |-> FALSE]
    /\ asleep = {} /\ naps = 0
    /\ mv = [d \in Devices |-> Still] /\ moves = [d \in Devices |-> 0]
    /\ requests = {} /\ accepts = {}
    /\ rel = [d \in Devices |-> "idle"] /\ spend = [d \in Devices |-> "idle"]
    /\ known = [d \in Devices |-> {}] /\ backup = {} /\ signed = 0

CheckStep(d) ==
    CheckReconciles(d) \/ CheckPublishes(d) \/ CheckPublished(d)
        \/ CheckRetries(d) \/ CheckIncomplete(d)

MoveStep(d) ==
    MoveReads(d) \/ MoveRequests(d) \/ MoveAccepted(d) \/ MoveWatches(d)
        \/ AnswerLapses(d) \/ ReleaseLapses(d) \/ Arrives(d)

TakeStep(d) ==
    TakeFindsOwn(d) \/ TakeRefused(d) \/ TakeWrites(d) \/ TakeWritten(d)
        \/ TakeRetries(d) \/ TakeUnavailable(d)

ReleaseStep(d) ==
    ReleaseDrains(d) \/ ReleaseFlushes(d) \/ ReleaseFlushFails(d)
        \/ ReleaseOvertaken(d) \/ ReleaseWrites(d) \/ ReleaseWritten(d)
        \/ ReleaseRetries(d) \/ ReleaseGivesUp(d)

SpendStep(d) ==
    SpendFresh(d) \/ SpendChecks(d) \/ SpendChecked(d) \/ Signs(d)

DeviceStep(d) ==
    \/ \E op \in Operations : HostReads(d, op)
    \/ CheckStep(d) \/ MoveStep(d) \/ TakeStep(d) \/ ReleaseStep(d)
    \/ Serves(d) \/ SpendStep(d)

Next ==
    \E d \in Devices :
        \/ DeviceStep(d)
        \/ CheckStarts(d) \/ MoveStarts(d) \/ SpendStarts(d)
        \/ Sleeps(d) \/ Wakes(d) \/ Restarts(d)

Spec == Init /\ [][Next]_vars

\* Timers, replies and wake-ups come.  Nothing makes a user move or spend, and
\* nothing makes an install sleep or crash; the watch re-reads the record.
Fairness ==
    \A d \in Devices :
        /\ WF_vars(CheckStarts(d) \/ HostReads(d, "check") \/ CheckStep(d))
        /\ WF_vars(HostReads(d, "take") \/ TakeStep(d) \/ MoveStep(d))
        /\ WF_vars(HostReads(d, "release") \/ ReleaseStep(d) \/ Serves(d))
        /\ WF_vars(SpendStep(d))
        /\ WF_vars(Wakes(d))

FairSpec == Spec /\ Fairness

(***************************************************************************)
(* Properties                                                              *)
(***************************************************************************)

Records == [state : {"absent", "held", "released"},
            device : Devices \cup {None}, seq : Nat]
Holdings == [kind : {"here", "elsewhere"}, seq : Nat,
             device : Devices \cup {None}]
Requests == [pc : {"idle", "ask", "seen", "replied"}, mine : Holdings,
             seen : Records, tries : Nat,
             out : {"none", "written", "conflict", "offline"}]
MovePhases == {"idle", "reading", "requesting", "awaitingAccept",
               "awaitingRelease", "taking", "forcing", "arriving"}
Nonces == Nat \X Nat

\* The shape of every variable of the holding protocol.
TypeOK ==
    /\ host \in Records /\ published \subseteq Records
    /\ local \in [Devices -> Holdings] /\ takeover \in [Devices -> BOOLEAN]
    /\ io \in [Devices -> [Operations -> Requests]]
    /\ fresh \in [Devices -> BOOLEAN] /\ clean \in [Devices -> BOOLEAN]
    /\ asleep \subseteq Devices /\ naps \in Nat
    /\ mv \in [Devices -> [pc : MovePhases, seq : Nat, restarts : Nat]]
    /\ moves \in [Devices -> Nat]
    /\ requests \subseteq [from : Devices, seq : Nat, nonce : Nonces]
    /\ accepts \subseteq [to : Devices, nonce : Nonces]
    /\ rel \in [Devices -> {"idle", "draining", "flushing", "writing"}]
    /\ spend \in [Devices -> {"idle", "entered", "checking", "cleared"}]
    /\ known \in [Devices -> SUBSET Nat] /\ backup \in SUBSET Nat
    /\ signed \in Nat

\* No two installs hold the account under one published seq, whatever is lost,
\* delayed or re-read: the conditional write decides every contest
\* (vaultAccountHolding.ts, writeHolderRecord).
OneHolderPerSeq ==
    \A d, e \in Devices :
        /\ IsHeldHere(d) /\ IsHeldHere(e)
        /\ local[d].seq = local[e].seq /\ local[d].seq > 0
        => d = e

\* The host's record is replaced only by one with a higher seq: no check, take
\* or release undoes a later one (accountHolding.ts, writers of the record).
RecordOnlyGrows == [][host' # host => host'.seq > host.seq]_vars

\* A spend that passed the holding checks of runExclusiveSpend runs on the
\* install the record names, until it signs.
ClearedIsHolder ==
    \A d \in Devices : spend[d] = "cleared" => HeldBy(host, d)

\* Once the record reads released, the backup holds every spend the releasing
\* install signed or merged (releaseActiveVaultAccount: drain, flush, announce).
ReleasedIsFlushed ==
    host.state = "released" => known[host.device] \subseteq backup

\* An install never acts on a record older than the one it last acted on
\* (decideHoldingStep, takeVaultAccount, releaseVaultAccount).
SeqNeverFalls == [][\A d \in Devices : local'[d].seq >= local[d].seq]_vars

\* Whoever signs has merged every spend signed before, on any install
\* (mergeArrivedForSpend after every take).
NoBlindSpend ==
    [][\A d \in Devices :
           signed' # signed /\ known'[d] # known[d] => known[d] = 1..signed]_vars

\* An install displaced while it held the account stops holding it, or holds it
\* again (watchActiveAccountHolding).
DisplacedLearns ==
    \A d \in Devices :
        IsHeldHere(d) /\ host.state = "held" /\ host.device # d
            ~> ~IsHeldHere(d) \/ HeldBy(host, d)

\* Every move ends, moved or failed, whatever the holder does
\* (accountMoveMachine: every wait has a window, every restart a bound).
MoveSettles == \A d \in Devices : mv[d].pc # "idle" ~> mv[d].pc = "idle"
=============================================================================
