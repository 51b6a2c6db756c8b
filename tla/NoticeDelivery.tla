--------------------------- MODULE NoticeDelivery ---------------------------
(***************************************************************************)
(* The notice of a BRC-29 payment: the only way its payee finds the coins. *)
(* The installs of one account (src/src/wallet): the payment records, with *)
(* the notice on each payment output (paymentNotice.ts); the work list of  *)
(* notices to send (pendingBrc29Outbox.ts); the grow-only notice journal   *)
(* and its copy on the backup host (noticeJournal.ts, journalReplica.ts);  *)
(* the history backup; the handover of an install displaced from the       *)
(* account (accountHandover.ts) and the reconcile of an install that       *)
(* restored it (paymentReconcile.ts).                                      *)
(*                                                                         *)
(* One action per stretch of code between two awaits that another install, *)
(* another call or a crash can come between. The records, the work list    *)
(* and the journal are durable; jobs, syncs, timers and holds are not.     *)
(***************************************************************************)
EXTENDS Naturals, FiniteSets

CONSTANTS
    Payments,    \* payments to other people
    Devices,     \* installs of the account
    First,       \* the install the account starts on
    ObjectMade,  \* the host has a journal object of the account from the start
    MaxRestarts  \* how often a process stops and starts again

ASSUME NoticeAssumption ==
    /\ First \in Devices
    /\ ObjectMade \in BOOLEAN
    /\ MaxRestarts \in Nat

VARIABLES
    fate,     \* of each payment: unsigned, signed, landed or dead
    told,     \* the payments whose payee has the notice
    gone,     \* the payments only a lost device knew of
    holder,   \* the install that holds the account
    mode,     \* what each install is to the account
    step,     \* where its restore, recompose or handover stands
    rec,      \* its payment records: the notice on each payment output
    acked,    \* the payments its records have as sent to the network
    outbox,   \* the signed payments it still propagates
    queue,    \* its work list of notices
    job,      \* what it is doing about each notice
    held,     \* resumed payments whose notice waits for a verdict
    journal,  \* its notice journal
    armed,    \* its sync timer is set
    sync,     \* its journal sync
    known,    \* what the host held after its last exchange, if it knows
    host,     \* the journal object on the backup host
    made,     \* the host has that object
    bare,     \* the host had none when an install last looked: no etag
    history,  \* the history backup
    delta,    \* the handover document in the account's own box
    voided,   \* the payments a displaced install voided
    restarts

network == <<fate, told>>
account == <<gone, holder, mode, history, restarts>>
records == <<rec, acked, outbox>>
work == <<queue, job, held>>
store == <<host, made, bare>>
replica == <<journal, armed, sync, known, store>>
hand == <<delta, voided>>
vars == <<network, account, step, records, work, replica, hand>>

Journals == [owed : SUBSET Payments, done : SUBSET Payments]
NoEntries == [owed |-> {}, done |-> {}]
Notices == {"none", "pending", "delivered", "void"}
Records == [Payments -> Notices]
Reasons == {"grew", "recover", "handover"}
Syncs == [pc : {"idle"}]
         \cup [pc : {"pull"}, reason : Reasons]
         \cup [pc : {"push"}, reason : Reasons, seen : Journals, body : Journals]
Blank == [p \in Payments |-> "none"]
Idle == [p \in Payments |-> "idle"]

(* A done entry drops the owed body it answers and bars it for good. *)
Admit(j, k) ==
    [owed |-> (j.owed \cup k.owed) \ (j.done \cup k.done),
     done |-> j.done \cup k.done]
Owes(p) == [owed |-> {p}, done |-> {}]
Done(p) == [owed |-> {}, done |-> {p}]

-----------------------------------------------------------------------------
(* The account's standing on an install *)

IsOpen(d) == mode[d] \in {"restoring", "open"}
Runs(d) == mode[d] \notin {"fresh", "lost"}

(* Append to an install's journal; growth arms the sync timer of the open
   account. *)
Appends(d, k) ==
    LET grown == Admit(journal[d], k)
    IN  /\ journal' = [journal EXCEPT ![d] = grown]
        /\ armed' = [armed EXCEPT ![d] = @ \/ (grown # journal[d] /\ IsOpen(d))]

(* Transactions this install has not seen reach the network. *)
Unbroadcast(d) ==
    {p \in Payments : rec[d][p] \in {"pending", "delivered"} /\ p \notin acked[d]}

(* Notices the records say are owed: of a payment the network has or will
   have. *)
Pending(r, a) == {p \in a : r[p] = "pending"}
Owed(d) == Pending(rec[d], acked[d]) \cup journal[d].owed

Init ==
    /\ fate = [p \in Payments |-> "unsigned"]
    /\ told = {} /\ gone = {} /\ voided = {} /\ restarts = 0
    /\ holder = First
    /\ mode = [d \in Devices |-> IF d = First THEN "open" ELSE "fresh"]
    /\ step = [d \in Devices |-> "none"]
    /\ rec = [d \in Devices |-> Blank]
    /\ acked = [d \in Devices |-> {}]
    /\ outbox = [d \in Devices |-> {}]
    /\ queue = [d \in Devices |-> {}]
    /\ job = [d \in Devices |-> Idle]
    /\ held = [d \in Devices |-> {}]
    /\ journal = [d \in Devices |-> NoEntries]
    /\ armed = [d \in Devices |-> FALSE]
    /\ sync = [d \in Devices |-> [pc |-> "idle"]]
    /\ known = [d \in Devices |-> {}]
    /\ host = NoEntries /\ made = ObjectMade
    /\ bare = [d \in Devices |-> FALSE]
    /\ history = [rec |-> Blank, acked |-> {}]
    /\ delta = {}

-----------------------------------------------------------------------------
(* Sending a payment *)

(* createAction signs the payment; its output carries the pending notice. *)
Signs(d, p) ==
    /\ mode[d] = "open" /\ holder = d /\ step[d] = "none"
    /\ fate[p] = "unsigned"
    /\ fate' = [fate EXCEPT ![p] = "signed"]
    /\ rec' = [rec EXCEPT ![d][p] = "pending"]
    /\ job' = [job EXCEPT ![d][p] = "sealing"]
    /\ UNCHANGED <<told, account, step, acked, outbox, queue, held,
                   replica, hand>>

(* Inputs sealed and the body queued for miners: the owed entry is written,
   then the payment propagates and its payee is told, side by side. *)
Seals(d, p) ==
    /\ job[d][p] = "sealing" /\ Runs(d)
    /\ Appends(d, Owes(p))
    /\ outbox' = [outbox EXCEPT ![d] = @ \cup {p}]
    /\ job' = [job EXCEPT ![d][p] = "sending"]
    /\ UNCHANGED <<network, account, step, rec, acked, queue, held,
                   sync, known, store, hand>>

(* The miners have the payment, and say so: a verdict releases its notice. *)
Accepts(d, p) ==
    /\ p \in outbox[d] /\ Runs(d)
    /\ fate[p] \in {"signed", "landed"}
    /\ fate' = [fate EXCEPT ![p] = "landed"]
    /\ outbox' = [outbox EXCEPT ![d] = @ \ {p}]
    /\ acked' = [acked EXCEPT ![d] =
                    IF rec[d][p] = "none" THEN @ ELSE @ \cup {p}]
    /\ held' = [held EXCEPT ![d] = @ \ {p}]
    /\ UNCHANGED <<told, account, step, rec, queue, job, replica, hand>>

(* They have it and their answer is lost, or nobody answers: the cheque stays
   queued, which is no reject and releases the notice too. *)
Queues(d, p) ==
    /\ p \in outbox[d] /\ Runs(d)
    /\ fate[p] \in {"signed", "landed"}
    /\ fate' \in {fate, [fate EXCEPT ![p] = "landed"]}
    /\ held' = [held EXCEPT ![d] = @ \ {p}]
    /\ <<fate, held>>' # <<fate, held>>
    /\ UNCHANGED <<told, account, step, records, queue, job, replica,
                   hand>>

\* Seeded fault: the notice takes the transaction's own status, which names no
\* notice.
RejectsByStatus(d, p) ==
    /\ p \in outbox[d] /\ Runs(d)
    /\ fate[p] \in {"signed", "dead"}
    /\ fate' = [fate EXCEPT ![p] = "dead"]
    /\ outbox' = [outbox EXCEPT ![d] = @ \ {p}]
    /\ rec' = [rec EXCEPT ![d][p] = "failed"]
    /\ held' = [held EXCEPT ![d] = @ \ {p}]
    /\ UNCHANGED <<told, account, step, acked, queue, job, replica, hand>>

(* A proven reject fails the transaction and so voids its notice; for a
   resumed payment the notice is settled in the journal. *)
Rejects(d, p) ==
    /\ p \in outbox[d] /\ Runs(d)
    /\ fate[p] \in {"signed", "dead"}
    /\ fate' = [fate EXCEPT ![p] = "dead"]
    /\ outbox' = [outbox EXCEPT ![d] = @ \ {p}]
    /\ rec' = [rec EXCEPT ![d][p] = IF @ = "none" THEN @ ELSE "void"]
    /\ held' = [held EXCEPT ![d] = @ \ {p}]
    /\ IF p \in held[d] THEN Appends(d, Done(p)) ELSE UNCHANGED <<journal, armed>>
    /\ UNCHANGED <<told, account, step, acked, queue, job, sync, known,
                   store, hand>>

(* The notice carries the BEEF: a payee who has it can hand it to miners. *)
PayeePosts(p) ==
    /\ p \in told /\ fate[p] = "signed"
    /\ fate' = [fate EXCEPT ![p] = "landed"]
    /\ UNCHANGED <<told, account, step, records, work, replica, hand>>

-----------------------------------------------------------------------------
(* The work list *)

(* A flush takes up a due notice. The records come first, then the journal;
   only a notice neither has settled is sent. *)
Attempts(d, p) ==
    /\ IsOpen(d) /\ p \in queue[d] \ held[d] /\ job[d][p] = "idle"
    /\ \/ /\ rec[d][p] \in {"delivered", "void"}
          /\ Appends(d, Done(p))
          /\ queue' = [queue EXCEPT ![d] = @ \ {p}]
          /\ UNCHANGED job
       \/ /\ rec[d][p] \notin {"delivered", "void"} /\ p \in journal[d].done
          /\ IF rec[d][p] = "pending"
             THEN job' = [job EXCEPT ![d][p] = "marking"] /\ UNCHANGED queue
             ELSE queue' = [queue EXCEPT ![d] = @ \ {p}] /\ UNCHANGED job
          /\ UNCHANGED <<journal, armed>>
       \/ /\ rec[d][p] \notin {"delivered", "void"} /\ p \notin journal[d].done
          /\ job' = [job EXCEPT ![d][p] = "sending"]
          /\ UNCHANGED <<queue, journal, armed>>
    /\ UNCHANGED <<network, account, step, records, held, sync, known,
                   store, hand>>

(* The box, or a direct session, took the notice and the sender knows. *)
Tells(d, p) ==
    /\ job[d][p] = "sending" /\ Runs(d)
    /\ told' = told \cup {p}
    /\ Appends(d, Done(p))
    /\ job' = [job EXCEPT ![d][p] = "marking"]
    /\ UNCHANGED <<fate, account, step, records, queue, held, sync,
                   known, store, hand>>

\* Seeded fault: a queued notice is recorded as a delivered one.
MissesAsTold(d, p) ==
    /\ job[d][p] = "sending" /\ Runs(d)
    /\ told' \in {told, told \cup {p}}
    /\ Appends(d, Done(p))
    /\ job' = [job EXCEPT ![d][p] = "marking"]
    /\ UNCHANGED <<fate, account, step, records, queue, held, sync, known, store,
                   hand>>

(* It did not, or its answer was lost: the notice waits in the work list. *)
Misses(d, p) ==
    /\ job[d][p] = "sending" /\ Runs(d)
    /\ told' \in {told, told \cup {p}}
    /\ queue' = [queue EXCEPT ![d] = @ \cup {p}]
    /\ job' = [job EXCEPT ![d][p] = "idle"]
    /\ UNCHANGED <<fate, account, step, records, held, replica, hand>>

(* The payment output is marked, unless the record cannot be written; either
   way the row leaves the work list. *)
Marks(d, p) ==
    /\ job[d][p] = "marking" /\ Runs(d)
    /\ \/ rec' = [rec EXCEPT ![d][p] = IF @ = "pending" THEN "delivered" ELSE @]
       \/ UNCHANGED rec
    /\ queue' = [queue EXCEPT ![d] = @ \ {p}]
    /\ job' = [job EXCEPT ![d][p] = "idle"]
    /\ UNCHANGED <<network, account, step, acked, outbox, held, replica,
                   hand>>

(* A reopen, in a restore, a recompose, a handover merge or every few minutes
   from a flush, queues what is owed and not queued. *)
Reopens(d) ==
    /\ IsOpen(d) /\ ~ Owed(d) \subseteq queue[d]
    /\ queue' = [queue EXCEPT ![d] = @ \cup Owed(d)]
    /\ UNCHANGED <<network, account, step, records, job, held, replica, hand>>

-----------------------------------------------------------------------------
(* The journal and its copy on the backup host *)

Pulling(why) == [pc |-> "pull", reason |-> why]

(* Push when the two sets differ, or there is no object, unless the account
   was closed meanwhile. *)
Compare(d, mine, remote, absent, why) ==
    IF (mine = remote /\ ~ absent) \/ ~ (IsOpen(d) \/ why = "handover")
    THEN [pc |-> "idle"]
    ELSE [pc |-> "push", reason |-> why, seen |-> remote, body |-> mine]

(* What waits for a run goes on when it ends; a handover only if it worked. *)
AfterRun(d, worked) ==
    step' = [step EXCEPT ![d] =
                CASE @ = "syncing" -> "reopen"
                  [] @ = "pushing" -> IF worked THEN "export" ELSE "tombstone"
                  [] OTHER -> @]

(* The timer of a journal that grew: with the host's state known it pushes
   without reading it. A run in flight is joined. *)
Fires(d) ==
    /\ armed[d] /\ IsOpen(d)
    /\ armed' = [armed EXCEPT ![d] = FALSE]
    /\ sync' = [sync EXCEPT ![d] =
                   IF @.pc # "idle" THEN @
                   ELSE IF known[d] = {} THEN Pulling("grew")
                   ELSE Compare(d, journal[d], CHOOSE k \in known[d] : TRUE,
                                 bare[d], "grew")]
    /\ UNCHANGED <<network, account, step, records, work, journal, known, store,
                   hand>>

(* A recover or a handover sync starts a run, or joins the one in flight. *)
Asks(d, why) ==
    sync' = [sync EXCEPT ![d] = IF @.pc = "idle" THEN Pulling(why) ELSE @]

(* Pull and union. *)
Pulls(d) ==
    /\ sync[d].pc = "pull" /\ Runs(d)
    /\ Appends(d, host)
    /\ known' = [known EXCEPT ![d] = {host}]
    /\ bare' = [bare EXCEPT ![d] = ~ made]
    /\ sync' = [sync EXCEPT ![d] =
                   Compare(d, Admit(journal[d], host), host, ~ made, @.reason)]
    /\ IF sync'[d].pc = "idle" THEN AfterRun(d, TRUE) ELSE UNCHANGED step
    /\ UNCHANGED <<network, account, records, work, host, made, hand>>

\* Seeded fault: the write is unconditional.
PushesBlind(d) ==
    /\ sync[d].pc = "push" /\ Runs(d)
    /\ host' = sync[d].body /\ made' = TRUE
    /\ known' = [known EXCEPT ![d] = {host'}]
    /\ bare' = [bare EXCEPT ![d] = FALSE]
    /\ sync' = [sync EXCEPT ![d] = [pc |-> "idle"]]
    /\ AfterRun(d, TRUE)
    /\ UNCHANGED <<network, account, records, work, journal, armed, hand>>

(* The host takes a write while it holds what the writer saw: the write that
   creates the object carries no such condition. *)
Admitted(d) == host = sync[d].seen \/ bare[d]

Pushes(d) ==
    /\ sync[d].pc = "push" /\ Runs(d)
    /\ Admitted(d)
    /\ host' = sync[d].body /\ made' = TRUE
    /\ known' = [known EXCEPT ![d] = {host'}]
    /\ bare' = [bare EXCEPT ![d] = FALSE]
    /\ sync' = [sync EXCEPT ![d] = [pc |-> "idle"]]
    /\ AfterRun(d, TRUE)
    /\ UNCHANGED <<network, account, records, work, journal, armed, hand>>

(* Another install wrote first: read its set, union, try again. *)
Refused(d) ==
    /\ sync[d].pc = "push" /\ Runs(d)
    /\ ~ Admitted(d)
    /\ known' = [known EXCEPT ![d] = {}]
    /\ sync' = [sync EXCEPT ![d] = Pulling(@.reason)]
    /\ UNCHANGED <<network, account, step, records, work, journal, armed, store,
                   hand>>

(* The host cannot be reached, or its answer to a write is lost. *)
SyncFails(d) ==
    /\ sync[d].pc # "idle" /\ Runs(d)
    /\ \/ UNCHANGED <<host, made>>
       \/ /\ sync[d].pc = "push" /\ Admitted(d)
          /\ host' = sync[d].body /\ made' = TRUE
    /\ known' = [known EXCEPT ![d] = IF sync[d].pc = "push" THEN {} ELSE @]
    /\ armed' = [armed EXCEPT ![d] = @ \/ (sync[d].reason = "grew" /\ IsOpen(d))]
    /\ sync' = [sync EXCEPT ![d] = [pc |-> "idle"]]
    /\ AfterRun(d, FALSE)
    /\ UNCHANGED <<network, account, records, work, journal, bare, hand>>

-----------------------------------------------------------------------------
(* The account moves between installs *)

UploadsHistory(d) ==
    /\ mode[d] = "open" /\ holder = d
    /\ history' = [rec |-> rec[d], acked |-> acked[d]]
    /\ history' # history
    /\ UNCHANGED <<network, gone, holder, mode, step, restarts, records, work,
                   replica, hand>>

(* A new install takes the account, whatever became of its holder, and its
   records become those of the history backup. *)
Restores(d) ==
    /\ mode[d] = "fresh" /\ step[d] = "none"
    /\ mode' = [mode EXCEPT ![d] = "restoring"]
    /\ holder' = d
    /\ rec' = [rec EXCEPT ![d] = history.rec]
    /\ acked' = [acked EXCEPT ![d] = history.acked]
    /\ Asks(d, "recover")
    /\ step' = [step EXCEPT ![d] = "syncing"]
    /\ UNCHANGED <<network, gone, history, restarts, outbox, work, journal, armed,
                   known, store, hand>>

(* Every recompose, an unlock's among them, pulls the journal and reopens: left
   out where the two journals agree. *)
Recomposes(d) ==
    /\ mode[d] = "open" /\ step[d] = "none"
    /\ journal[d] # host \/ ~ made
    /\ Asks(d, "recover")
    /\ step' = [step EXCEPT ![d] = "syncing"]
    /\ UNCHANGED <<network, account, records, work, journal, armed, known, store,
                   hand>>

(* The reopen found nothing more. A restore goes on to resume each payment it
   queued whose records are lost: sealed again from the journaled BEEF and
   propagated, its notice held until miners answer. *)
Reopened(d) ==
    /\ step[d] = "reopen" /\ IsOpen(d)
    /\ Owed(d) \subseteq queue[d]
    /\ LET lost == {p \in queue[d] \cap journal[d].owed : rec[d][p] = "none"}
           resumed == IF mode[d] = "restoring" THEN lost ELSE {}
       IN  /\ held' = [held EXCEPT ![d] = @ \cup resumed]
           /\ outbox' = [outbox EXCEPT ![d] = @ \cup resumed]
    /\ mode' = [mode EXCEPT ![d] = "open"]
    /\ step' = [step EXCEPT ![d] = "none"]
    /\ UNCHANGED <<network, gone, holder, history, restarts, rec, acked, queue,
                   job, replica, hand>>

(* An install finds the account held elsewhere: it closes it and owes a
   handover. *)
FindsOut(d) ==
    /\ mode[d] = "open" /\ holder # d
    /\ mode' = [mode EXCEPT ![d] = "handover"]
    /\ step' = [step EXCEPT ![d] = "tombstone"]
    /\ armed' = [armed EXCEPT ![d] = FALSE]
    /\ UNCHANGED <<network, gone, holder, history, restarts, records, work,
                   journal, sync, known, store, hand>>

(* It tombstones the notices of what it never saw broadcast ... *)
Tombstones(d) ==
    /\ mode[d] = "handover" /\ step[d] = "tombstone"
    /\ LET owed == Unbroadcast(d) \cap journal[d].owed
           mine == owed \cup (Unbroadcast(d) \cap journal[d].done)
       IN  /\ Appends(d, [owed |-> {}, done |-> owed])
           /\ voided' = voided \cup owed
           /\ IF mine = {}
              THEN step' = [step EXCEPT ![d] = "export"] /\ UNCHANGED sync
              ELSE step' = [step EXCEPT ![d] = "pushing"] /\ Asks(d, "handover")
    /\ UNCHANGED <<network, account, records, work, known, store, delta>>

(* ... and, the journal pushed, voids those payments ... *)
Voids(d) ==
    /\ mode[d] = "handover" /\ step[d] = "export"
    /\ LET never == Unbroadcast(d)
       IN  /\ rec' = [rec EXCEPT ![d] =
                         [p \in Payments |-> IF p \in never THEN "void" ELSE @[p]]]
           /\ outbox' = [outbox EXCEPT ![d] = @ \ never]
           /\ voided' = voided \cup never
    /\ step' = [step EXCEPT ![d] = "post"]
    /\ UNCHANGED <<network, account, acked, work, replica, delta>>

(* ... and posts the rest of its records to the account's own box. *)
HandsOver(d) ==
    /\ mode[d] = "handover" /\ step[d] = "post"
    /\ delta' = IF acked[d] = {} THEN delta
                ELSE delta \cup {[rec |-> rec[d], acked |-> acked[d]]}
    /\ mode' = [mode EXCEPT ![d] = "displaced"]
    /\ step' = [step EXCEPT ![d] = "none"]
    /\ UNCHANGED <<network, gone, holder, history, restarts, records, work,
                   replica, voided>>

\* Seeded fault: the parts are acknowledged whether or not the merge worked.
ReceivesUnmerged(d) ==
    /\ mode[d] = "open" /\ holder = d /\ step[d] = "none"
    /\ delta # {} /\ delta' = {}
    /\ UNCHANGED <<network, account, step, records, work, replica, voided>>

(* The holder merges a handover, newer rows winning, and reopens. *)
Receives(d) ==
    /\ mode[d] = "open" /\ holder = d /\ step[d] = "none"
    /\ \E doc \in delta :
          /\ rec' = [rec EXCEPT ![d] =
                        [p \in Payments |->
                            IF p \in doc.acked /\ (@[p] = "none" \/ doc.rec[p] = "delivered")
                            THEN doc.rec[p] ELSE @[p]]]
          /\ acked' = [acked EXCEPT ![d] = @ \cup doc.acked]
          /\ delta' = delta \ {doc}
    /\ Asks(d, "recover")
    /\ step' = [step EXCEPT ![d] = "syncing"]
    /\ UNCHANGED <<network, account, outbox, work, journal, armed, known, store,
                   voided>>

-----------------------------------------------------------------------------
(* Crashes and losses *)

(* The process stops and starts again; its memory is gone, and a restore's
   reconcile is not taken up again. *)
Restarts(d) ==
    /\ Runs(d) /\ restarts < MaxRestarts
    /\ restarts' = restarts + 1
    /\ mode' = [mode EXCEPT ![d] = IF @ = "restoring" THEN "open" ELSE @]
    /\ step' = [step EXCEPT ![d] = IF mode[d] = "handover" THEN "tombstone" ELSE "none"]
    /\ job' = [job EXCEPT ![d] = Idle]
    /\ held' = [held EXCEPT ![d] = {}]
    /\ armed' = [armed EXCEPT ![d] = FALSE]
    /\ sync' = [sync EXCEPT ![d] = [pc |-> "idle"]]
    /\ known' = [known EXCEPT ![d] = {}]
    /\ UNCHANGED <<network, gone, holder, history, records, queue, journal, store,
                   hand>>

(* What install d, open or in its handover, will still say of a notice. *)
Keeps(d, p) ==
    \/ IsOpen(d) /\ p \in queue[d] \cup Owed(d)
    \/ mode[d] = "handover" /\ p \in Unbroadcast(d) \cup Pending(rec[d], acked[d])

(* What is said of it beyond any install. *)
KeptOutside(p) ==
    \/ p \in host.owed
    \/ \E doc \in delta : p \in Pending(doc.rec, doc.acked)
    \/ ~ Runs(holder) /\ p \in Pending(history.rec, history.acked)

(* An install is lost with all it stored; what nobody else keeps is gone. *)
Loses(d) ==
    /\ Runs(d)
    /\ \E e \in Devices \ {d} : mode[e] = "fresh" \/ (holder = e /\ IsOpen(e))
    /\ mode' = [mode EXCEPT ![d] = "lost"]
    /\ step' = [step EXCEPT ![d] = "none"]
    /\ rec' = [rec EXCEPT ![d] = Blank]
    /\ job' = [job EXCEPT ![d] = Idle]
    /\ acked' = [acked EXCEPT ![d] = {}] /\ outbox' = [outbox EXCEPT ![d] = {}]
    /\ queue' = [queue EXCEPT ![d] = {}]
    /\ held' = [held EXCEPT ![d] = {}] /\ known' = [known EXCEPT ![d] = {}]
    /\ journal' = [journal EXCEPT ![d] = NoEntries]
    /\ armed' = [armed EXCEPT ![d] = FALSE]
    /\ sync' = [sync EXCEPT ![d] = [pc |-> "idle"]]
    /\ UNCHANGED <<network, holder, history, restarts, store, hand>>
    /\ gone' = gone \cup {p \in Payments :
                   /\ Keeps(d, p) /\ p \notin told
                   /\ \A e \in Devices \ {d} : ~ Keeps(e, p)
                   /\ ~ KeptOutside(p)'}

-----------------------------------------------------------------------------
Next ==
    \/ \E p \in Payments : PayeePosts(p)
    \/ \E d \in Devices :
          \/ Reopens(d) \/ Fires(d) \/ Pulls(d) \/ Pushes(d) \/ Refused(d)
          \/ SyncFails(d) \/ UploadsHistory(d) \/ Restores(d) \/ Recomposes(d)
          \/ Reopened(d) \/ FindsOut(d) \/ Tombstones(d) \/ Voids(d)
          \/ HandsOver(d) \/ Receives(d) \/ Restarts(d) \/ Loses(d)
          \/ \E p \in Payments :
                \/ Signs(d, p) \/ Seals(d, p)
                \/ Accepts(d, p) \/ Queues(d, p) \/ Rejects(d, p)
                \/ Attempts(d, p) \/ Tells(d, p) \/ Misses(d, p) \/ Marks(d, p)

Spec == Init /\ [][Next]_vars

-----------------------------------------------------------------------------
(* Properties *)

TypeOK ==
    /\ fate \in [Payments -> {"unsigned", "signed", "landed", "dead"}]
    /\ told \subseteq Payments /\ gone \subseteq Payments /\ voided \subseteq Payments
    /\ holder \in Devices
    /\ mode \in [Devices -> {"fresh", "restoring", "open", "handover", "displaced", "lost"}]
    /\ step \in [Devices -> {"none", "syncing", "reopen", "tombstone", "pushing",
                             "export", "post"}]
    /\ rec \in [Devices -> Records]
    /\ {acked, outbox, queue, held} \subseteq [Devices -> SUBSET Payments]
    /\ job \in [Devices -> [Payments -> {"idle", "sealing", "sending", "marking"}]]
    /\ journal \in [Devices -> Journals] /\ host \in Journals
    /\ made \in BOOLEAN /\ bare \in [Devices -> BOOLEAN]
    /\ armed \in [Devices -> BOOLEAN]
    /\ known \in [Devices -> SUBSET Journals]
    /\ sync \in [Devices -> Syncs]
    /\ history \in [rec : Records, acked : SUBSET Payments]
    /\ delta \subseteq [rec : Records, acked : SUBSET Payments]
    /\ restarts \in 0 .. MaxRestarts

(* A notice counts as settled - by a tombstone in any journal, or delivered in
   any record - only once the payee has it, or the payment is dead or was
   voided: no crash, merge or restore settles one that is still owed. *)
DoneIsSettled ==
    LET settled == host.done
                   \cup (UNION {journal[d].done : d \in Devices})
                   \cup {p \in Payments : \E d \in Devices : rec[d][p] = "delivered"}
    IN  \A p \in settled : p \in told \/ fate[p] = "dead" \/ p \in voided

(* A payment that landed untold is kept somewhere a notice will come from:
   a live install, the host, a handover under way or the backup of a lost
   holder. *)
NeverForgotten ==
    \A p \in Payments :
       fate[p] = "landed" /\ p \notin told \cup gone \cup voided =>
          KeptOutside(p) \/ \E d \in Devices : Keeps(d, p)

(* No write to the host loses an entry another install put there: a tombstone
   stays, an owed entry leaves only for its tombstone. *)
HostKeepsAll ==
    [][/\ host.done \subseteq host'.done
       /\ host.owed \subseteq host'.owed \cup host'.done]_host

(* accountHandover.ts:12 - a displaced install tombstones the notices of what
   it voids and pushes them before it voids: the host no longer owes them. *)
VoidsAreSettled ==
    \A d \in Devices : mode[d] = "displaced" =>
       \A p \in Payments : rec[d][p] = "void" /\ p \in voided => p \notin host.owed
=============================================================================
