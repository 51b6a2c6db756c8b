----------------------- MODULE NoticeDeliveryProofs -----------------------
(***************************************************************************)
(* Proofs about NoticeDelivery, for every set of payments and installs and *)
(* any number of restarts: no write to the host loses what another install *)
(* put there, and no notice is settled that is still owed.                 *)
(***************************************************************************)
EXTENDS NoticeDelivery, TLAPS

USE DEF store

----------------------------------------------------------------------------
(* Journals *)

LEMMA NoEntriesType == NoEntries \in Journals
BY DEF NoEntries, Journals

LEMMA EntryType ==
    ASSUME NEW p \in Payments
    PROVE  Owes(p) \in Journals /\ Done(p) \in Journals
BY DEF Owes, Done, Journals

LEMMA AdmitType ==
    ASSUME NEW j \in Journals, NEW k \in Journals
    PROVE  Admit(j, k) \in Journals
BY DEF Admit, Journals

LEMMA PulledType ==
    ASSUME NEW s \in Syncs, s.pc = "pull"
    PROVE  s.reason \in Reasons
BY DEF Syncs

LEMMA PushedType ==
    ASSUME NEW s \in Syncs, s.pc = "push"
    PROVE  s.reason \in Reasons /\ s.seen \in Journals /\ s.body \in Journals
BY DEF Syncs

LEMMA SyncTypes ==
    ASSUME NEW why \in Reasons, NEW mine \in Journals, NEW remote \in Journals,
           NEW absent \in BOOLEAN, NEW d \in Devices
    PROVE  /\ [pc |-> "idle"] \in Syncs
           /\ Pulling(why) \in Syncs
           /\ Compare(d, mine, remote, absent, why) \in Syncs
BY DEF Syncs, Pulling, Compare

LEMMA AppendsType ==
    ASSUME TypeOK, NEW d \in Devices, NEW k \in Journals, Appends(d, k)
    PROVE  journal' \in [Devices -> Journals] /\ armed' \in [Devices -> BOOLEAN]
<1>1. Admit(journal[d], k) \in Journals
  BY AdmitType DEF TypeOK
<1>2. IsOpen(d) \in BOOLEAN
  BY DEF IsOpen
<1> QED BY <1>1, <1>2 DEF Appends, TypeOK

LEMMA AsksType ==
    ASSUME TypeOK, NEW d \in Devices, NEW why \in Reasons, Asks(d, why)
    PROVE  sync' \in [Devices -> Syncs]
<1>1. Pulling(why) \in Syncs
  BY DEF Syncs, Pulling
<1> QED BY <1>1 DEF Asks, TypeOK

LEMMA AfterRunType ==
    ASSUME TypeOK, NEW d \in Devices, NEW worked \in BOOLEAN, AfterRun(d, worked)
    PROVE  step' \in [Devices -> {"none", "syncing", "reopen", "tombstone",
                                  "pushing", "export", "post"}]
BY DEF AfterRun, TypeOK

----------------------------------------------------------------------------
(* Types *)

LEMMA SignsType ==
    ASSUME TypeOK, NEW d \in Devices, NEW p \in Payments, Signs(d, p)
    PROVE  TypeOK'
BY DEF Signs, Records, Notices, TypeOK, network, account, records, work, replica, hand

LEMMA SealsType ==
    ASSUME TypeOK, NEW d \in Devices, NEW p \in Payments, Seals(d, p)
    PROVE  TypeOK'
BY EntryType, AppendsType DEF Seals, TypeOK, network, account, records, work, replica, hand

LEMMA AcceptsType ==
    ASSUME TypeOK, NEW d \in Devices, NEW p \in Payments, Accepts(d, p)
    PROVE  TypeOK'
BY DEF Accepts, TypeOK, network, account, records, work, replica, hand

LEMMA QueuesType ==
    ASSUME TypeOK, NEW d \in Devices, NEW p \in Payments, Queues(d, p)
    PROVE  TypeOK'
<1>1. fate' \in [Payments -> {"unsigned", "signed", "landed", "dead"}]
  BY DEF Queues, TypeOK
<1>2. held' \in [Devices -> SUBSET Payments]
  BY DEF Queues, TypeOK
<1> QED BY <1>1, <1>2 DEF Queues, TypeOK, account, records, replica, hand

LEMMA RejectsType ==
    ASSUME TypeOK, NEW d \in Devices, NEW p \in Payments, Rejects(d, p)
    PROVE  TypeOK'
BY EntryType, AppendsType DEF Rejects, Records, Notices, TypeOK, network, account, records, work, replica, hand

LEMMA PayeePostsType ==
    ASSUME TypeOK, NEW p \in Payments, PayeePosts(p)
    PROVE  TypeOK'
BY DEF PayeePosts, TypeOK, network, account, records, work, replica, hand

LEMMA AttemptsType ==
    ASSUME TypeOK, NEW d \in Devices, NEW p \in Payments, Attempts(d, p)
    PROVE  TypeOK'
<1>0. Done(p) \in Journals
  BY EntryType
<1>1. job' \in [Devices -> [Payments -> {"idle", "sealing", "sending", "marking"}]]
  <2>1. \A s \in {"sending", "marking"} :
           [job EXCEPT ![d][p] = s] \in [Devices -> [Payments -> {"idle", "sealing", "sending", "marking"}]]
    BY DEF TypeOK
  <2> QED BY <2>1 DEF Attempts, TypeOK
<1>2. queue' \in [Devices -> SUBSET Payments]
  <2>1. [queue EXCEPT ![d] = @ \ {p}] \in [Devices -> SUBSET Payments]
    BY DEF TypeOK
  <2> QED BY <2>1 DEF Attempts, TypeOK
<1>3. journal' \in [Devices -> Journals] /\ armed' \in [Devices -> BOOLEAN]
  <2>1. CASE Appends(d, Done(p))
    BY <1>0, <2>1, AppendsType
  <2>2. CASE UNCHANGED <<journal, armed>>
    BY <2>2 DEF TypeOK
  <2> QED BY <2>1, <2>2 DEF Attempts
<1> QED BY <1>1, <1>2, <1>3 DEF Attempts, TypeOK, network, account, records, work, replica, hand

LEMMA TellsType ==
    ASSUME TypeOK, NEW d \in Devices, NEW p \in Payments, Tells(d, p)
    PROVE  TypeOK'
BY EntryType, AppendsType DEF Tells, TypeOK, network, account, records, work, replica, hand

LEMMA MissesType ==
    ASSUME TypeOK, NEW d \in Devices, NEW p \in Payments, Misses(d, p)
    PROVE  TypeOK'
BY DEF Misses, TypeOK, network, account, records, work, replica, hand

LEMMA MarksType ==
    ASSUME TypeOK, NEW d \in Devices, NEW p \in Payments, Marks(d, p)
    PROVE  TypeOK'
<1>1. rec' \in [Devices -> Records]
  <2>1. (IF rec[d][p] = "pending" THEN "delivered" ELSE rec[d][p]) \in Notices
    BY DEF TypeOK, Records, Notices
  <2>2. [rec EXCEPT ![d][p] = IF @ = "pending" THEN "delivered" ELSE @] \in [Devices -> Records]
    BY <2>1 DEF TypeOK, Records
  <2> QED BY <2>2 DEF Marks, TypeOK
<1>2. /\ queue' \in [Devices -> SUBSET Payments]
      /\ job' \in [Devices -> [Payments -> {"idle", "sealing", "sending", "marking"}]]
  BY DEF Marks, TypeOK
<1> QED BY <1>1, <1>2 DEF Marks, TypeOK, network, account, records, work, replica, hand

LEMMA ReopensType ==
    ASSUME TypeOK, NEW d \in Devices, Reopens(d)
    PROVE  TypeOK'
BY DEF Reopens, Owed, Pending, Journals, TypeOK, network, account, records, work, replica, hand

LEMMA FiresType ==
    ASSUME TypeOK, NEW d \in Devices, Fires(d)
    PROVE  TypeOK'
<1>1. sync' \in [Devices -> Syncs]
  <2> DEFINE s == IF sync[d].pc # "idle" THEN sync[d]
                  ELSE IF known[d] = {} THEN Pulling("grew")
                  ELSE Compare(d, journal[d], CHOOSE k \in known[d] : TRUE, bare[d], "grew")
  <2>1. journal[d] \in Journals /\ known[d] \subseteq Journals /\ sync[d] \in Syncs
    BY DEF TypeOK
  <2>2. known[d] # {} => (CHOOSE k \in known[d] : TRUE) \in Journals
    BY <2>1
  <2>3. "grew" \in Reasons /\ bare[d] \in BOOLEAN
    BY DEF Reasons, TypeOK
  <2>4. s \in Syncs
    BY <2>1, <2>2, <2>3, SyncTypes
  <2>5. sync' = [sync EXCEPT ![d] = s]
    BY DEF Fires
  <2> HIDE DEF s
  <2> QED BY <2>4, <2>5 DEF TypeOK
<1>2. armed' \in [Devices -> BOOLEAN]
  BY DEF Fires, TypeOK
<1> QED BY <1>1, <1>2 DEF Fires, TypeOK, network, account, records, work, replica, hand

LEMMA PullsType ==
    ASSUME TypeOK, NEW d \in Devices, Pulls(d)
    PROVE  TypeOK'
<1>1. host \in Journals /\ journal[d] \in Journals /\ sync[d] \in Syncs
  BY DEF TypeOK
<1>2. journal' \in [Devices -> Journals] /\ armed' \in [Devices -> BOOLEAN]
  BY <1>1, AppendsType DEF Pulls
<1>3. known' \in [Devices -> SUBSET Journals]
  BY <1>1 DEF Pulls, TypeOK
<1>4. sync' \in [Devices -> Syncs]
  <2>1. Compare(d, Admit(journal[d], host), host, ~ made, sync[d].reason) \in Syncs
    BY <1>1, PulledType, AdmitType, SyncTypes DEF Pulls
  <2> QED BY <2>1 DEF Pulls, TypeOK
<1>5. step' \in [Devices -> {"none", "syncing", "reopen", "tombstone", "pushing",
                             "export", "post"}]
  <2>1. CASE AfterRun(d, TRUE)
    BY <2>1, AfterRunType
  <2>2. CASE UNCHANGED step
    BY <2>2 DEF TypeOK
  <2> QED BY <2>1, <2>2 DEF Pulls
<1> QED BY <1>2, <1>3, <1>4, <1>5 DEF Pulls, TypeOK, network, account, records, work, hand

LEMMA PushesType ==
    ASSUME TypeOK, NEW d \in Devices, Pushes(d)
    PROVE  TypeOK'
<1>1. sync[d] \in Syncs
  BY DEF TypeOK
<1>2. sync[d].body \in Journals
  BY <1>1, PushedType DEF Pushes
<1>3. host' \in Journals /\ known' \in [Devices -> SUBSET Journals]
  BY <1>2 DEF Pushes, TypeOK
<1>4. sync' \in [Devices -> Syncs]
  BY DEF Pushes, TypeOK, Syncs
<1>5. step' \in [Devices -> {"none", "syncing", "reopen", "tombstone", "pushing",
                             "export", "post"}]
  BY AfterRunType DEF Pushes
<1> QED BY <1>3, <1>4, <1>5 DEF Pushes, TypeOK, network, account, records, work, hand

LEMMA RefusedType ==
    ASSUME TypeOK, NEW d \in Devices, Refused(d)
    PROVE  TypeOK'
<1>1. sync[d] \in Syncs
  BY DEF TypeOK
<1>2. Pulling(sync[d].reason) \in Syncs
  BY <1>1, PushedType DEF Refused, Pulling, Syncs
<1>3. sync' \in [Devices -> Syncs] /\ known' \in [Devices -> SUBSET Journals]
  BY <1>2 DEF Refused, TypeOK
<1> QED BY <1>3 DEF Refused, TypeOK, network, account, records, work, hand

LEMMA SyncFailsType ==
    ASSUME TypeOK, NEW d \in Devices, SyncFails(d)
    PROVE  TypeOK'
<1>1. sync[d] \in Syncs
  BY DEF TypeOK
<1>2. host' \in Journals
  BY <1>1, PushedType DEF SyncFails, TypeOK
<1>3. known' \in [Devices -> SUBSET Journals] /\ armed' \in [Devices -> BOOLEAN]
  <2>1. (IF sync[d].pc = "push" THEN {} ELSE known[d]) \subseteq Journals
    BY DEF TypeOK
  <2>2. (armed[d] \/ (sync[d].reason = "grew" /\ IsOpen(d))) \in BOOLEAN
    BY DEF IsOpen
  <2> QED BY <2>1, <2>2 DEF SyncFails, TypeOK
<1>4. sync' \in [Devices -> Syncs]
  BY DEF SyncFails, TypeOK, Syncs
<1>5. step' \in [Devices -> {"none", "syncing", "reopen", "tombstone", "pushing",
                             "export", "post"}]
  BY AfterRunType DEF SyncFails
<1> QED BY <1>2, <1>3, <1>4, <1>5 DEF SyncFails, TypeOK, network, account, records, work, hand

LEMMA UploadsHistoryType ==
    ASSUME TypeOK, NEW d \in Devices, UploadsHistory(d)
    PROVE  TypeOK'
BY DEF UploadsHistory, TypeOK, network, account, records, work, replica, hand

LEMMA RestoresType ==
    ASSUME TypeOK, NEW d \in Devices, Restores(d)
    PROVE  TypeOK'
BY AsksType DEF Restores, Reasons, TypeOK, network, account, records, work, replica, hand

LEMMA RecomposesType ==
    ASSUME TypeOK, NEW d \in Devices, Recomposes(d)
    PROVE  TypeOK'
BY AsksType DEF Recomposes, Reasons, TypeOK, network, account, records, work, replica, hand

LEMMA ReopenedType ==
    ASSUME TypeOK, NEW d \in Devices, Reopened(d)
    PROVE  TypeOK'
BY DEF Reopened, Journals, TypeOK, network, account, records, work, replica, hand

LEMMA FindsOutType ==
    ASSUME TypeOK, NEW d \in Devices, FindsOut(d)
    PROVE  TypeOK'
BY DEF FindsOut, TypeOK, network, account, records, work, replica, hand

LEMMA TombstonesType ==
    ASSUME TypeOK, NEW d \in Devices, Tombstones(d)
    PROVE  TypeOK'
<1> DEFINE owed == Unbroadcast(d) \cap journal[d].owed
<1>1. owed \subseteq Payments
  BY DEF Unbroadcast
<1>2. [owed |-> {}, done |-> owed] \in Journals
  BY <1>1 DEF Journals
<1>3. journal' \in [Devices -> Journals] /\ armed' \in [Devices -> BOOLEAN]
  BY <1>2, AppendsType DEF Tombstones
<1>4. voided' \subseteq Payments
  BY <1>1 DEF Tombstones, TypeOK
<1>5. step' \in [Devices -> {"none", "syncing", "reopen", "tombstone", "pushing",
                             "export", "post"}]
  <2>1. \A s \in {"export", "pushing"} :
           [step EXCEPT ![d] = s] \in [Devices -> {"none", "syncing", "reopen", "tombstone",
                                                 "pushing", "export", "post"}]
    BY DEF TypeOK
  <2> QED BY <2>1 DEF Tombstones
<1>6. sync' \in [Devices -> Syncs]
  <2>1. CASE UNCHANGED sync
    BY <2>1 DEF TypeOK
  <2>2. CASE Asks(d, "handover")
    BY <2>2, AsksType DEF Reasons
  <2> QED BY <2>1, <2>2 DEF Tombstones
<1> QED BY <1>3, <1>4, <1>5, <1>6 DEF Tombstones, TypeOK, network, account, records, work

LEMMA VoidsType ==
    ASSUME TypeOK, NEW d \in Devices, Voids(d)
    PROVE  TypeOK'
BY DEF Voids, Unbroadcast, Records, Notices, TypeOK, network, account, records, work, replica, hand

LEMMA HandsOverType ==
    ASSUME TypeOK, NEW d \in Devices, HandsOver(d)
    PROVE  TypeOK'
BY DEF HandsOver, TypeOK, network, account, records, work, replica, hand

LEMMA ReceivesType ==
    ASSUME TypeOK, NEW d \in Devices, Receives(d)
    PROVE  TypeOK'
BY AsksType DEF Receives, Reasons, Records, TypeOK, network, account, records, work, replica, hand

LEMMA RestartsType ==
    ASSUME TypeOK, NEW d \in Devices, Restarts(d)
    PROVE  TypeOK'
<1>1. /\ mode' \in [Devices -> {"fresh", "restoring", "open", "handover", "displaced", "lost"}]
      /\ step' \in [Devices -> {"none", "syncing", "reopen", "tombstone", "pushing",
                                "export", "post"}]
  BY DEF Restarts, TypeOK
<1>2. /\ job' \in [Devices -> [Payments -> {"idle", "sealing", "sending", "marking"}]]
      /\ held' \in [Devices -> SUBSET Payments]
  BY DEF Restarts, TypeOK, Idle
<1>3. armed' \in [Devices -> BOOLEAN] /\ known' \in [Devices -> SUBSET Journals]
  BY DEF Restarts, TypeOK
<1>4. sync' \in [Devices -> Syncs]
  BY DEF Restarts, TypeOK, Syncs
<1>5. restarts' \in 0 .. MaxRestarts
  BY NoticeAssumption DEF Restarts, TypeOK
<1> QED BY <1>1, <1>2, <1>3, <1>4, <1>5 DEF Restarts, TypeOK, network, records, hand

LEMMA LosesType ==
    ASSUME TypeOK, NEW d \in Devices, Loses(d)
    PROVE  TypeOK'
<1>1. /\ mode' \in [Devices -> {"fresh", "restoring", "open", "handover", "displaced", "lost"}]
      /\ step' \in [Devices -> {"none", "syncing", "reopen", "tombstone", "pushing",
                                "export", "post"}]
  BY DEF Loses, TypeOK
<1>2. rec' \in [Devices -> Records] /\ acked' \in [Devices -> SUBSET Payments]
      /\ outbox' \in [Devices -> SUBSET Payments]
  BY DEF Loses, TypeOK, Blank, Records, Notices
<1>3. /\ queue' \in [Devices -> SUBSET Payments]
      /\ held' \in [Devices -> SUBSET Payments]
      /\ job' \in [Devices -> [Payments -> {"idle", "sealing", "sending", "marking"}]]
  BY DEF Loses, TypeOK, Idle
<1>4. /\ armed' \in [Devices -> BOOLEAN] /\ known' \in [Devices -> SUBSET Journals]
      /\ journal' \in [Devices -> Journals]
  BY NoEntriesType DEF Loses, TypeOK
<1>5. sync' \in [Devices -> Syncs]
  BY DEF Loses, TypeOK, Syncs
<1>6. gone' \subseteq Payments
  BY DEF Loses, TypeOK
<1> QED BY <1>1, <1>2, <1>3, <1>4, <1>5, <1>6 DEF Loses, TypeOK, network, hand

LEMMA TypeInit == Init => TypeOK
BY NoticeAssumption
DEF Init, TypeOK, Records, Notices, Blank, Idle, NoEntries, Journals, Syncs

LEMMA TypeStep == TypeOK /\ [Next]_vars => TypeOK'
<1> SUFFICES ASSUME TypeOK, [Next]_vars PROVE TypeOK'
  OBVIOUS
<1>0. CASE UNCHANGED vars
  BY <1>0 DEF vars, TypeOK, network, account, records, work, replica, hand
<1>1. CASE \E d \in Devices : \E p \in Payments : Signs(d, p)
  BY <1>1, SignsType
<1>2. CASE \E d \in Devices : \E p \in Payments : Seals(d, p)
  BY <1>2, SealsType
<1>3. CASE \E d \in Devices : \E p \in Payments : Accepts(d, p)
  BY <1>3, AcceptsType
<1>4. CASE \E d \in Devices : \E p \in Payments : Queues(d, p)
  BY <1>4, QueuesType
<1>5. CASE \E d \in Devices : \E p \in Payments : Rejects(d, p)
  BY <1>5, RejectsType
<1>6. CASE \E p \in Payments : PayeePosts(p)
  BY <1>6, PayeePostsType
<1>7. CASE \E d \in Devices : \E p \in Payments : Attempts(d, p)
  BY <1>7, AttemptsType
<1>8. CASE \E d \in Devices : \E p \in Payments : Tells(d, p)
  BY <1>8, TellsType
<1>9. CASE \E d \in Devices : \E p \in Payments : Misses(d, p)
  BY <1>9, MissesType
<1>10. CASE \E d \in Devices : \E p \in Payments : Marks(d, p)
  BY <1>10, MarksType
<1>11. CASE \E d \in Devices : Reopens(d)
  BY <1>11, ReopensType
<1>12. CASE \E d \in Devices : Fires(d)
  BY <1>12, FiresType
<1>13. CASE \E d \in Devices : Pulls(d)
  BY <1>13, PullsType
<1>14. CASE \E d \in Devices : Pushes(d)
  BY <1>14, PushesType
<1>15. CASE \E d \in Devices : Refused(d)
  BY <1>15, RefusedType
<1>16. CASE \E d \in Devices : SyncFails(d)
  BY <1>16, SyncFailsType
<1>17. CASE \E d \in Devices : UploadsHistory(d)
  BY <1>17, UploadsHistoryType
<1>18. CASE \E d \in Devices : Restores(d)
  BY <1>18, RestoresType
<1>19. CASE \E d \in Devices : Recomposes(d)
  BY <1>19, RecomposesType
<1>20. CASE \E d \in Devices : Reopened(d)
  BY <1>20, ReopenedType
<1>21. CASE \E d \in Devices : FindsOut(d)
  BY <1>21, FindsOutType
<1>22. CASE \E d \in Devices : Tombstones(d)
  BY <1>22, TombstonesType
<1>23. CASE \E d \in Devices : Voids(d)
  BY <1>23, VoidsType
<1>24. CASE \E d \in Devices : HandsOver(d)
  BY <1>24, HandsOverType
<1>25. CASE \E d \in Devices : Receives(d)
  BY <1>25, ReceivesType
<1>26. CASE \E d \in Devices : Restarts(d)
  BY <1>26, RestartsType
<1>27. CASE \E d \in Devices : Loses(d)
  BY <1>27, LosesType
<1> QED BY <1>0, <1>1, <1>2, <1>3, <1>4, <1>5, <1>6, <1>7, <1>8, <1>9, <1>10, <1>11, <1>12, <1>13, <1>14, <1>15, <1>16, <1>17, <1>18, <1>19, <1>20, <1>21, <1>22, <1>23, <1>24, <1>25, <1>26, <1>27 DEF Next

\* Every variable keeps its type, whatever is lost and whenever it restarts
\* (paymentNotice.ts: what a notice's status may be).
THEOREM NoticeTypes == Spec => []TypeOK
BY TypeInit, TypeStep, PTL DEF Spec

----------------------------------------------------------------------------
(* What a journal has, every later one has: as owed, or done. *)

Below(j, k) == j.done \subseteq k.done /\ j.owed \subseteq k.owed \cup k.done

\* What an install knows the host to hold is in its own journal, and so is the
\* body of a push, which has all that the push replaces.
KnownKept == \A d \in Devices : \A k \in known[d] : Below(k, journal[d])
PushKept ==
    \A d \in Devices : sync[d].pc = "push" =>
        Below(sync[d].seen, sync[d].body) /\ Below(sync[d].body, journal[d])

LEMMA BelowSelf == ASSUME NEW j \in Journals PROVE Below(j, j)
BY DEF Below

LEMMA BelowBelow ==
    ASSUME NEW i \in Journals, NEW j \in Journals, NEW k \in Journals,
           Below(i, j), Below(j, k)
    PROVE  Below(i, k)
BY DEF Below

LEMMA BelowAdmit ==
    ASSUME NEW j \in Journals, NEW k \in Journals
    PROVE  Below(j, Admit(j, k)) /\ Below(k, Admit(j, k))
BY DEF Below, Admit, Journals

LEMMA JournalsOnlyGrow ==
    ASSUME TypeOK, NEW d \in Devices, NEW k \in Journals, Appends(d, k)
    PROVE  \A e \in Devices : Below(journal[e], journal'[e])
<1>1. Below(journal[d], Admit(journal[d], k))
  BY BelowAdmit DEF TypeOK
<1>2. \A e \in Devices \ {d} : journal'[e] = journal[e] /\ Below(journal[e], journal[e])
  BY BelowSelf DEF Appends, TypeOK
<1>3. journal'[d] = Admit(journal[d], k)
  BY DEF Appends, TypeOK
<1> QED BY <1>1, <1>2, <1>3

\* What a step may do to one install's journal, knowledge and sync.
KnownOn(e) ==
    \/ Below(journal[e], journal'[e]) /\ known'[e] \subseteq known[e]
    \/ \A k \in known'[e] : Below(k, journal'[e])
PushOn(e) ==
    \/ Below(journal[e], journal'[e]) /\ sync'[e] = sync[e]
    \/ sync'[e].pc # "push"
    \/ Below(sync'[e].seen, sync'[e].body) /\ Below(sync'[e].body, journal'[e])

LEMMA Carried ==
    ASSUME TypeOK, TypeOK', KnownKept, PushKept,
           \A e \in Devices : KnownOn(e) /\ PushOn(e)
    PROVE  KnownKept' /\ PushKept'
<1>1. \A e \in Devices : journal[e] \in Journals /\ journal'[e] \in Journals
  BY DEF TypeOK
<1>2. KnownKept'
  <2> SUFFICES ASSUME NEW e \in Devices, NEW k \in known'[e]
               PROVE  Below(k, journal'[e])
    BY DEF KnownKept
  <2>1. CASE Below(journal[e], journal'[e]) /\ known'[e] \subseteq known[e]
    <3>1. k \in Journals
      BY DEF TypeOK
    <3>2. Below(k, journal[e])
      BY <2>1 DEF KnownKept
    <3> QED BY <1>1, <2>1, <3>1, <3>2, BelowBelow
  <2> QED BY <2>1 DEF KnownOn
<1>3. PushKept'
  <2> SUFFICES ASSUME NEW e \in Devices, sync'[e].pc = "push"
               PROVE  Below(sync'[e].seen, sync'[e].body) /\ Below(sync'[e].body, journal'[e])
    BY DEF PushKept
  <2>1. CASE Below(journal[e], journal'[e]) /\ sync'[e] = sync[e]
    <3>1. sync'[e].body \in Journals
      BY PushedType DEF TypeOK
    <3>2. Below(sync[e].seen, sync[e].body) /\ Below(sync[e].body, journal[e])
      BY <2>1 DEF PushKept
    <3> QED BY <1>1, <2>1, <3>1, <3>2, BelowBelow
  <2> QED BY <2>1 DEF PushOn
<1> QED BY <1>2, <1>3

LEMMA QuietJournal ==
    ASSUME TypeOK, UNCHANGED <<journal, sync, known>>
    PROVE  \A e \in Devices : KnownOn(e) /\ PushOn(e)
BY BelowSelf DEF TypeOK, KnownOn, PushOn

LEMMA GrowingJournal ==
    ASSUME TypeOK, NEW d \in Devices, NEW k \in Journals, Appends(d, k),
           UNCHANGED <<sync, known>>
    PROVE  \A e \in Devices : KnownOn(e) /\ PushOn(e)
BY JournalsOnlyGrow DEF KnownOn, PushOn

LEMMA AskedSync ==
    ASSUME TypeOK, NEW d \in Devices, NEW why, Asks(d, why)
    PROVE  \A e \in Devices : sync'[e] = sync[e] \/ sync'[e].pc # "push"
BY DEF Asks, TypeOK, Pulling

LEMMA KeptStep ==
    ASSUME TypeOK, TypeOK', KnownKept, PushKept, Next
    PROVE  KnownKept' /\ PushKept'
<1> SUFFICES \A e \in Devices : KnownOn(e) /\ PushOn(e)
  BY Carried
<1>0. \A e \in Devices : journal[e] \in Journals /\ journal'[e] \in Journals
                        /\ Below(journal[e], journal[e])
  BY BelowSelf DEF TypeOK
<1>1. CASE \E d \in Devices : \E p \in Payments : Signs(d, p)
  BY <1>1, QuietJournal DEF Signs, replica
<1>2. CASE \E d \in Devices : \E p \in Payments : Seals(d, p)
  BY <1>2, GrowingJournal, EntryType DEF Seals
<1>3. CASE \E d \in Devices : \E p \in Payments : Accepts(d, p)
  BY <1>3, QuietJournal DEF Accepts, replica
<1>4. CASE \E d \in Devices : \E p \in Payments : Queues(d, p)
  BY <1>4, QuietJournal DEF Queues, replica
<1>5. CASE \E d \in Devices : \E p \in Payments : Rejects(d, p)
  BY <1>5, GrowingJournal, QuietJournal, EntryType DEF Rejects
<1>6. CASE \E p \in Payments : PayeePosts(p)
  BY <1>6, QuietJournal DEF PayeePosts, replica
<1>7. CASE \E d \in Devices : \E p \in Payments : Attempts(d, p)
  BY <1>7, GrowingJournal, QuietJournal, EntryType DEF Attempts
<1>8. CASE \E d \in Devices : \E p \in Payments : Tells(d, p)
  BY <1>8, GrowingJournal, EntryType DEF Tells
<1>9. CASE \E d \in Devices : \E p \in Payments : Misses(d, p)
  BY <1>9, QuietJournal DEF Misses, replica
<1>10. CASE \E d \in Devices : \E p \in Payments : Marks(d, p)
  BY <1>10, QuietJournal DEF Marks, replica
<1>11. CASE \E d \in Devices : Reopens(d)
  BY <1>11, QuietJournal DEF Reopens, replica
<1>12. CASE \E d \in Devices : Fires(d)
  <2> PICK d \in Devices : Fires(d)
    BY <1>12
  <2>1. UNCHANGED <<journal, known>>
    BY DEF Fires
  <2>2. \A e \in Devices \ {d} : sync'[e] = sync[e]
    BY DEF Fires, TypeOK
  <2> DEFINE k == CHOOSE k \in known[d] : TRUE
  <2>3. ASSUME known[d] # {} PROVE Below(k, journal[d])
    BY <2>3 DEF KnownKept
  <2>4. \/ sync'[d] = sync[d]
        \/ sync'[d].pc # "push"
        \/ known[d] # {} /\ sync'[d].seen = k /\ sync'[d].body = journal[d]
    <3> HIDE DEF k
    <3>1. \/ Compare(d, journal[d], k, bare[d], "grew").pc # "push"
          \/ /\ Compare(d, journal[d], k, bare[d], "grew").seen = k
             /\ Compare(d, journal[d], k, bare[d], "grew").body = journal[d]
      BY DEF Compare
    <3>2. Pulling("grew").pc # "push"
      BY DEF Pulling
    <3>3. sync'[d] = IF sync[d].pc # "idle" THEN sync[d]
                     ELSE IF known[d] = {} THEN Pulling("grew")
                     ELSE Compare(d, journal[d], k, bare[d], "grew")
      BY DEF Fires, TypeOK, k
    <3> QED BY <3>1, <3>2, <3>3
  <2> HIDE DEF k
  <2> QED BY <1>0, <2>1, <2>2, <2>3, <2>4 DEF KnownOn, PushOn
<1>13. CASE \E d \in Devices : Pulls(d)
  <2> PICK d \in Devices : Pulls(d)
    BY <1>13
  <2> DEFINE all == Admit(journal[d], host)
  <2>1. host \in Journals
    BY DEF TypeOK
  <2>2. \A e \in Devices : Below(journal[e], journal'[e])
    BY <2>1, JournalsOnlyGrow DEF Pulls
  <2>3. \A e \in Devices \ {d} : known'[e] = known[e] /\ sync'[e] = sync[e]
    BY DEF Pulls, TypeOK
  <2>4. known'[d] = {host} /\ journal'[d] = all /\ Below(host, all) /\ Below(all, all)
    <3>1. known'[d] = {host} /\ journal'[d] = all
      BY DEF Pulls, Appends, TypeOK
    <3>2. Below(host, all) /\ Below(all, all)
      BY <1>0, <2>1, AdmitType, BelowAdmit, BelowSelf
    <3> QED BY <3>1, <3>2
  <2>5. \/ sync'[d].pc # "push"
        \/ sync'[d].seen = host /\ sync'[d].body = all
    <3>1. sync'[d] = Compare(d, all, host, ~ made, sync[d].reason)
      BY DEF Pulls, TypeOK
    <3> HIDE DEF all
    <3> QED BY <3>1 DEF Compare
  <2> HIDE DEF all
  <2> QED BY <2>2, <2>3, <2>4, <2>5 DEF KnownOn, PushOn
<1>14. CASE \E d \in Devices : Pushes(d)
  <2> PICK d \in Devices : Pushes(d)
    BY <1>14
  <2>1. known'[d] = {sync[d].body} /\ sync'[d].pc # "push" /\ UNCHANGED journal
    BY DEF Pushes, TypeOK
  <2>2. \A e \in Devices \ {d} : known'[e] = known[e] /\ sync'[e] = sync[e]
    BY DEF Pushes, TypeOK
  <2>3. Below(sync[d].body, journal[d])
    BY DEF PushKept, Pushes
  <2> QED BY <1>0, <2>1, <2>2, <2>3 DEF KnownOn, PushOn
<1>15. CASE \E d \in Devices : Refused(d)
  <2> PICK d \in Devices : Refused(d)
    BY <1>15
  <2>1. known'[d] = {} /\ sync'[d].pc # "push" /\ UNCHANGED journal
    BY DEF Refused, TypeOK, Pulling
  <2>2. \A e \in Devices \ {d} : known'[e] = known[e] /\ sync'[e] = sync[e]
    BY DEF Refused, TypeOK
  <2> QED BY <1>0, <2>1, <2>2 DEF KnownOn, PushOn
<1>16. CASE \E d \in Devices : SyncFails(d)
  <2> PICK d \in Devices : SyncFails(d)
    BY <1>16
  <2>1. known'[d] \subseteq known[d] /\ sync'[d].pc # "push" /\ UNCHANGED journal
    BY DEF SyncFails, TypeOK
  <2>2. \A e \in Devices \ {d} : known'[e] = known[e] /\ sync'[e] = sync[e]
    BY DEF SyncFails, TypeOK
  <2> QED BY <1>0, <2>1, <2>2 DEF KnownOn, PushOn
<1>17. CASE \E d \in Devices : UploadsHistory(d)
  BY <1>17, QuietJournal DEF UploadsHistory, replica
<1>18. CASE \E d \in Devices : Restores(d)
  BY <1>18, <1>0, AskedSync DEF Restores, KnownOn, PushOn
<1>19. CASE \E d \in Devices : Recomposes(d)
  BY <1>19, <1>0, AskedSync DEF Recomposes, KnownOn, PushOn
<1>20. CASE \E d \in Devices : Reopened(d)
  BY <1>20, QuietJournal DEF Reopened, replica
<1>21. CASE \E d \in Devices : FindsOut(d)
  BY <1>21, QuietJournal DEF FindsOut, replica
<1>22. CASE \E d \in Devices : Tombstones(d)
  <2> PICK d \in Devices : Tombstones(d)
    BY <1>22
  <2> DEFINE owed == Unbroadcast(d) \cap journal[d].owed
  <2>1. [owed |-> {}, done |-> owed] \in Journals
    BY DEF Journals, Unbroadcast
  <2>2. \A e \in Devices : Below(journal[e], journal'[e])
    BY <2>1, JournalsOnlyGrow DEF Tombstones
  <2>3. \A e \in Devices : sync'[e] = sync[e] \/ sync'[e].pc # "push"
    BY AskedSync DEF Tombstones
  <2>4. UNCHANGED known
    BY DEF Tombstones
  <2> QED BY <2>2, <2>3, <2>4 DEF KnownOn, PushOn
<1>23. CASE \E d \in Devices : Voids(d)
  BY <1>23, QuietJournal DEF Voids, replica
<1>24. CASE \E d \in Devices : HandsOver(d)
  BY <1>24, QuietJournal DEF HandsOver, replica
<1>25. CASE \E d \in Devices : Receives(d)
  BY <1>25, <1>0, AskedSync DEF Receives, KnownOn, PushOn
<1>26. CASE \E d \in Devices : Restarts(d)
  BY <1>26, <1>0 DEF Restarts, KnownOn, PushOn, TypeOK
<1>27. CASE \E d \in Devices : Loses(d)
  <2> PICK d \in Devices : Loses(d)
    BY <1>27
  <2>1. known'[d] = {} /\ sync'[d].pc # "push"
    BY DEF Loses, TypeOK
  <2>2. \A e \in Devices \ {d} : UNCHANGED <<journal[e], known[e], sync[e]>>
    BY DEF Loses, TypeOK
  <2> QED BY <1>0, <2>1, <2>2 DEF KnownOn, PushOn
<1> QED BY <1>1, <1>2, <1>3, <1>4, <1>5, <1>6, <1>7, <1>8, <1>9, <1>10, <1>11, <1>12, <1>13, <1>14, <1>15, <1>16, <1>17, <1>18, <1>19, <1>20, <1>21, <1>22, <1>23, <1>24, <1>25, <1>26, <1>27 DEF Next

LEMMA KeptInit == Init => KnownKept /\ PushKept
BY DEF Init, KnownKept, PushKept

KeptInv == TypeOK /\ KnownKept /\ PushKept

LEMMA KeptInvariance == Spec => []KeptInv
<1>1. Init => KeptInv
  BY TypeInit, KeptInit DEF KeptInv
<1>2. KeptInv /\ [Next]_vars => KeptInv'
  <2> SUFFICES ASSUME KeptInv, [Next]_vars PROVE KeptInv'
    OBVIOUS
  <2>0. TypeOK'
    BY TypeStep DEF KeptInv
  <2>1. CASE Next
    BY <2>0, <2>1, KeptStep DEF KeptInv
  <2>2. CASE UNCHANGED vars
    BY <2>0, <2>2 DEF vars, replica, KeptInv, KnownKept, PushKept
  <2> QED BY <2>1, <2>2
<1> QED BY <1>1, <1>2, PTL DEF Spec

\* The object is there, and nobody believes it is not: every write carries its
\* condition.
Conditional == made /\ \A d \in Devices : ~ bare[d]

LEMMA ConditionalStep ==
    ASSUME TypeOK, Conditional, Next
    PROVE  Conditional'
<1>1. \A d \in Devices : Pulls(d) => Conditional'
  BY DEF Pulls, Conditional, TypeOK
<1>2. \A d \in Devices : Pushes(d) => Conditional'
  BY DEF Pushes, Conditional, TypeOK
<1>3. \A d \in Devices : SyncFails(d) => Conditional'
  BY DEF SyncFails, Conditional
<1>4. \A d \in Devices :
        (\/ Reopens(d) \/ Fires(d) \/ Refused(d) \/ UploadsHistory(d) \/ Restores(d)
         \/ Recomposes(d) \/ Reopened(d) \/ FindsOut(d) \/ Tombstones(d) \/ Voids(d)
         \/ HandsOver(d) \/ Receives(d) \/ Restarts(d) \/ Loses(d))
          => UNCHANGED <<made, bare>>
  BY DEF replica, Reopens, Fires, Refused, UploadsHistory, Restores, Recomposes,
         Reopened, FindsOut, Tombstones, Voids, HandsOver, Receives, Restarts, Loses
<1>5. \A p \in Payments : PayeePosts(p) => UNCHANGED <<made, bare>>
  BY DEF PayeePosts, replica
<1>6. \A d \in Devices, p \in Payments :
        (\/ Signs(d, p) \/ Seals(d, p) \/ Accepts(d, p) \/ Queues(d, p) \/ Rejects(d, p)
         \/ Attempts(d, p) \/ Tells(d, p) \/ Misses(d, p) \/ Marks(d, p))
          => UNCHANGED <<made, bare>>
  BY DEF replica, Signs, Seals, Accepts, Queues, Rejects, Attempts, Tells, Misses, Marks
<1>7. UNCHANGED <<made, bare>> => Conditional'
  BY DEF Conditional
<1> QED BY <1>1, <1>2, <1>3, <1>4, <1>5, <1>6, <1>7 DEF Next

LEMMA ConditionalInvariance == ASSUME ObjectMade PROVE Spec => []Conditional
<1>1. Init => Conditional
  BY DEF Init, Conditional
<1>2. KeptInv /\ Conditional /\ [Next]_vars => Conditional'
  BY ConditionalStep DEF KeptInv, Conditional, vars, replica
<1> QED BY <1>1, <1>2, KeptInvariance, PTL DEF Spec

\* A step that writes to the host writes the body of a push over what that push
\* was told the host holds.
LEMMA HostStep ==
    ASSUME TypeOK, PushKept, Conditional, Next, host' # host
    PROVE  Below(host, host')
<1>1. ASSUME NEW d \in Devices, sync[d].pc = "push", host = sync[d].seen, host' = sync[d].body
      PROVE  Below(host, host')
  BY <1>1 DEF PushKept
<1>2. \A d \in Devices :
        Pushes(d) \/ SyncFails(d) => sync[d].pc = "push" /\ host = sync[d].seen /\ host' = sync[d].body
  BY DEF Pushes, SyncFails, Admitted, Conditional
<1>3. \A d \in Devices : ~ (Pushes(d) \/ SyncFails(d)) =>
        ~ (\/ Reopens(d) \/ Fires(d) \/ Pulls(d) \/ Refused(d) \/ UploadsHistory(d)
           \/ Restores(d) \/ Recomposes(d) \/ Reopened(d) \/ FindsOut(d) \/ Tombstones(d)
           \/ Voids(d) \/ HandsOver(d) \/ Receives(d) \/ Restarts(d) \/ Loses(d))
  <2> SUFFICES ASSUME NEW d \in Devices
               PROVE  ~ (\/ Reopens(d) \/ Fires(d) \/ Pulls(d) \/ Refused(d) \/ UploadsHistory(d)
                         \/ Restores(d) \/ Recomposes(d) \/ Reopened(d) \/ FindsOut(d)
                         \/ Tombstones(d) \/ Voids(d) \/ HandsOver(d) \/ Receives(d)
                         \/ Restarts(d) \/ Loses(d))
    OBVIOUS
  <2>1. ~ (Reopens(d) \/ Fires(d) \/ Pulls(d) \/ Refused(d) \/ UploadsHistory(d))
    BY DEF replica, Reopens, Fires, Pulls, Refused, UploadsHistory
  <2>2. ~ (Restores(d) \/ Recomposes(d) \/ Reopened(d) \/ FindsOut(d) \/ Tombstones(d))
    BY DEF replica, Restores, Recomposes, Reopened, FindsOut, Tombstones
  <2>3. ~ (Voids(d) \/ HandsOver(d) \/ Receives(d) \/ Restarts(d) \/ Loses(d))
    BY DEF replica, Voids, HandsOver, Receives, Restarts, Loses
  <2> QED BY <2>1, <2>2, <2>3
<1>4. \A p \in Payments : ~ PayeePosts(p)
  BY DEF PayeePosts, replica
<1>5. \A d \in Devices, p \in Payments :
        ~ (\/ Signs(d, p) \/ Seals(d, p) \/ Accepts(d, p) \/ Queues(d, p) \/ Rejects(d, p)
           \/ Attempts(d, p) \/ Tells(d, p) \/ Misses(d, p) \/ Marks(d, p))
  BY DEF replica, Signs, Seals, Accepts, Queues, Rejects, Attempts, Tells, Misses, Marks
<1> QED BY <1>1, <1>2, <1>3, <1>4, <1>5 DEF Next

\* The conditional write of journalReplica.ts loses nothing: a tombstone stays on
\* the host, an owed entry leaves it only for its tombstone.
THEOREM HostLosesNothing == ASSUME ObjectMade PROVE Spec => HostKeepsAll
<1>1. KeptInv /\ Conditional /\ [Next]_vars
        => [/\ host.done \subseteq host'.done
            /\ host.owed \subseteq host'.owed \cup host'.done]_host
  BY HostStep DEF KeptInv, Below, vars, replica
<1> QED BY <1>1, KeptInvariance, ConditionalInvariance, PTL DEF Spec, HostKeepsAll

----------------------------------------------------------------------------
(* What settles a notice *)

Settled(p) == p \in told \/ fate[p] = "dead" \/ p \in voided

(* Every trace of a settled notice - a tombstone, a settled record, a delivery
   that is being marked - stands for a payment whose notice is settled. *)
HostSettled == \A p \in host.done : Settled(p)
JournalsSettled == \A d \in Devices : \A p \in journal[d].done : Settled(p)
IsSettledRecord(r) == \A p \in Payments : r[p] \in {"delivered", "void"} => Settled(p)
RecordsSettled == \A d \in Devices : IsSettledRecord(rec[d])
CopiesSettled == IsSettledRecord(history.rec) /\ \A doc \in delta : IsSettledRecord(doc.rec)
JobsSettled == \A d \in Devices, p \in Payments : job[d][p] = "marking" => Settled(p)

Traces == HostSettled /\ JournalsSettled /\ RecordsSettled /\ CopiesSettled /\ JobsSettled

\* Settled is for good.
StaysSettled == \A p \in Payments : Settled(p) => Settled(p)'

LEMMA Monotone ==
    ASSUME TypeOK, Next
    PROVE  StaysSettled
<1>1. ASSUME told \subseteq told', voided \subseteq voided',
             \A p \in Payments : fate[p] = "dead" => fate'[p] = "dead"
      PROVE  StaysSettled
  BY <1>1 DEF StaysSettled, Settled
<1> SUFFICES /\ told \subseteq told' /\ voided \subseteq voided'
             /\ \A p \in Payments : fate[p] = "dead" => fate'[p] = "dead"
  BY <1>1
<1>2. CASE \E d \in Devices : \E p \in Payments : Signs(d, p)
  BY <1>2 DEF Signs, TypeOK, account, replica, hand
<1>3. CASE \E d \in Devices : \E p \in Payments : Seals(d, p)
  BY <1>3 DEF Seals, network, hand
<1>4. CASE \E d \in Devices : \E p \in Payments : Accepts(d, p)
  BY <1>4 DEF Accepts, TypeOK, account, replica, hand
<1>5. CASE \E d \in Devices : \E p \in Payments : Queues(d, p)
  BY <1>5 DEF Queues, TypeOK, account, records, replica, hand
<1>6. CASE \E d \in Devices : \E p \in Payments : Rejects(d, p)
  BY <1>6 DEF Rejects, TypeOK, account, hand
<1>7. CASE \E p \in Payments : PayeePosts(p)
  BY <1>7 DEF PayeePosts, TypeOK, account, records, work, replica, hand
<1>8. CASE \E d \in Devices : \E p \in Payments : Attempts(d, p)
  BY <1>8 DEF Attempts, network, hand
<1>9. CASE \E d \in Devices : \E p \in Payments : Tells(d, p)
  BY <1>9 DEF Tells, network, hand
<1>10. CASE \E d \in Devices : \E p \in Payments : Misses(d, p)
  BY <1>10 DEF Misses, network, hand
<1>11. CASE \E d \in Devices : \E p \in Payments : Marks(d, p)
  BY <1>11 DEF Marks, network, hand
<1>12. CASE \E d \in Devices : Reopens(d)
  BY <1>12 DEF Reopens, network, hand
<1>13. CASE \E d \in Devices : Fires(d)
  BY <1>13 DEF Fires, network, hand
<1>14. CASE \E d \in Devices : Pulls(d)
  BY <1>14 DEF Pulls, network, hand
<1>15. CASE \E d \in Devices : Pushes(d)
  BY <1>15 DEF Pushes, network, hand
<1>16. CASE \E d \in Devices : Refused(d)
  BY <1>16 DEF Refused, network, hand
<1>17. CASE \E d \in Devices : SyncFails(d)
  BY <1>17 DEF SyncFails, network, hand
<1>18. CASE \E d \in Devices : UploadsHistory(d)
  BY <1>18 DEF UploadsHistory, network, hand
<1>19. CASE \E d \in Devices : Restores(d)
  BY <1>19 DEF Restores, network, hand
<1>20. CASE \E d \in Devices : Recomposes(d)
  BY <1>20 DEF Recomposes, network, hand
<1>21. CASE \E d \in Devices : Reopened(d)
  BY <1>21 DEF Reopened, network, hand
<1>22. CASE \E d \in Devices : FindsOut(d)
  BY <1>22 DEF FindsOut, network, hand
<1>23. CASE \E d \in Devices : Tombstones(d)
  BY <1>23 DEF Tombstones, network, hand
<1>24. CASE \E d \in Devices : Voids(d)
  BY <1>24 DEF Voids, network, hand
<1>25. CASE \E d \in Devices : HandsOver(d)
  BY <1>25 DEF HandsOver, network, hand
<1>26. CASE \E d \in Devices : Receives(d)
  BY <1>26 DEF Receives, network, hand
<1>27. CASE \E d \in Devices : Restarts(d)
  BY <1>27 DEF Restarts, network, hand
<1>28. CASE \E d \in Devices : Loses(d)
  BY <1>28 DEF Loses, network, hand
<1> QED BY <1>2, <1>3, <1>4, <1>5, <1>6, <1>7, <1>8, <1>9, <1>10, <1>11, <1>12, <1>13, <1>14, <1>15, <1>16, <1>17, <1>18, <1>19, <1>20, <1>21, <1>22, <1>23, <1>24, <1>25, <1>26, <1>27, <1>28 DEF Next

LEMMA AppendsSettled ==
    ASSUME TypeOK, JournalsSettled, StaysSettled,
           NEW d \in Devices, NEW k \in Journals, Appends(d, k),
           \A p \in k.done : Settled(p)'
    PROVE  JournalsSettled'
<1>1. \A e \in Devices : journal[e].done \subseteq Payments
  BY DEF TypeOK, Journals
<1>2. \A e \in Devices \ {d} : journal'[e] = journal[e]
  BY DEF Appends, TypeOK
<1>3. journal'[d].done = journal[d].done \cup k.done
  BY DEF Appends, Admit, TypeOK
<1> QED BY <1>1, <1>2, <1>3 DEF JournalsSettled, StaysSettled

\* What is not touched stays settled.
LEMMA Untouched ==
    ASSUME TypeOK, StaysSettled, Traces
    PROVE  /\ host' = host => HostSettled'
           /\ journal' = journal => JournalsSettled'
           /\ rec' = rec => RecordsSettled'
           /\ UNCHANGED <<history, delta>> => CopiesSettled'
           /\ job' = job => JobsSettled'
<1>1. host' = host => HostSettled'
  BY DEF TypeOK, Journals, Traces, HostSettled, StaysSettled
<1>2. journal' = journal => JournalsSettled'
  BY DEF TypeOK, Journals, Traces, JournalsSettled, StaysSettled
<1>3. rec' = rec => RecordsSettled'
  BY DEF Traces, RecordsSettled, IsSettledRecord, StaysSettled
<1>4. UNCHANGED <<history, delta>> => CopiesSettled'
  BY DEF Traces, CopiesSettled, IsSettledRecord, StaysSettled
<1>5. job' = job => JobsSettled'
  BY DEF Traces, JobsSettled, StaysSettled
<1> QED BY <1>1, <1>2, <1>3, <1>4, <1>5

LEMMA SettledStep ==
    ASSUME TypeOK, TypeOK', PushKept, Traces, Next
    PROVE  Traces'
<1>0. StaysSettled
  BY Monotone
<1> USE <1>0
<1>1. CASE \E d \in Devices : \E p \in Payments : Signs(d, p)
  <2> PICK d \in Devices, p \in Payments : Signs(d, p)
    BY <1>1
  <2>1. HostSettled' /\ JournalsSettled' /\ CopiesSettled'
    BY Untouched DEF Signs, network, account, records, work, replica, hand
  <2>2. RecordsSettled'
    BY DEF Signs, Traces, RecordsSettled, IsSettledRecord, StaysSettled, TypeOK, Records
  <2>3. JobsSettled'
    BY DEF Signs, Traces, JobsSettled, StaysSettled, TypeOK
  <2> QED BY <2>1, <2>2, <2>3 DEF Traces
<1>2. CASE \E d \in Devices : \E p \in Payments : Seals(d, p)
  <2> PICK d \in Devices, p \in Payments : Seals(d, p)
    BY <1>2
  <2>1. HostSettled' /\ RecordsSettled' /\ CopiesSettled'
    BY Untouched DEF Seals, network, account, records, work, replica, hand
  <2>2. JournalsSettled'
    BY EntryType, AppendsSettled DEF Seals, Owes, Traces
  <2>3. JobsSettled'
    BY DEF Seals, Traces, JobsSettled, StaysSettled, TypeOK
  <2> QED BY <2>1, <2>2, <2>3 DEF Traces
<1>3. CASE \E d \in Devices : \E p \in Payments : Accepts(d, p)
  <2> PICK d \in Devices, p \in Payments : Accepts(d, p)
    BY <1>3
  <2>1. HostSettled' /\ JournalsSettled' /\ RecordsSettled' /\ CopiesSettled' /\ JobsSettled'
    BY Untouched DEF Accepts, network, account, records, work, replica, hand
  <2> QED BY <2>1 DEF Traces
<1>4. CASE \E d \in Devices : \E p \in Payments : Queues(d, p)
  <2> PICK d \in Devices, p \in Payments : Queues(d, p)
    BY <1>4
  <2>1. HostSettled' /\ JournalsSettled' /\ RecordsSettled' /\ CopiesSettled' /\ JobsSettled'
    BY Untouched DEF Queues, network, account, records, work, replica, hand
  <2> QED BY <2>1 DEF Traces
<1>5. CASE \E d \in Devices : \E p \in Payments : Rejects(d, p)
  <2> PICK d \in Devices, p \in Payments : Rejects(d, p)
    BY <1>5
  <2>1. HostSettled' /\ CopiesSettled' /\ JobsSettled'
    BY Untouched DEF Rejects, network, account, records, work, replica, hand
  <2>2. JournalsSettled'
    <3>1. Settled(p)'
      BY DEF Rejects, Settled, TypeOK
    <3>2. CASE Appends(d, Done(p))
      BY <3>1, <3>2, EntryType, AppendsSettled DEF Done, Traces
    <3>3. CASE UNCHANGED <<journal, armed>>
      BY <3>3, Untouched
    <3> QED BY <3>2, <3>3 DEF Rejects
  <2>3. RecordsSettled'
    <3>1. Settled(p)'
      BY DEF Rejects, Settled, TypeOK
    <3>2. \A e \in Devices, q \in Payments : rec'[e][q] = rec[e][q] \/ q = p
      BY DEF Rejects, TypeOK, Records
    <3> QED BY <3>1, <3>2 DEF Traces, RecordsSettled, IsSettledRecord, StaysSettled
  <2> QED BY <2>1, <2>2, <2>3 DEF Traces
<1>6. CASE \E p \in Payments : PayeePosts(p)
  <2> PICK p \in Payments : PayeePosts(p)
    BY <1>6
  <2>1. HostSettled' /\ JournalsSettled' /\ RecordsSettled' /\ CopiesSettled' /\ JobsSettled'
    BY Untouched DEF PayeePosts, network, account, records, work, replica, hand
  <2> QED BY <2>1 DEF Traces
<1>7. CASE \E d \in Devices : \E p \in Payments : Attempts(d, p)
  <2> PICK d \in Devices, p \in Payments : Attempts(d, p)
    BY <1>7
  <2>1. HostSettled' /\ RecordsSettled' /\ CopiesSettled'
    BY Untouched DEF Attempts, network, account, records, work, replica, hand
  <2>2. JournalsSettled'
    <3>1. CASE rec[d][p] \in {"delivered", "void"} /\ Appends(d, Done(p))
      <4>1. Settled(p)'
        BY <3>1 DEF Traces, RecordsSettled, IsSettledRecord, StaysSettled
      <4> QED BY <3>1, <4>1, EntryType, AppendsSettled DEF Done, Traces
    <3>2. CASE UNCHANGED <<journal, armed>>
      BY <3>2, Untouched
    <3> QED BY <3>1, <3>2 DEF Attempts
  <2>3. JobsSettled'
    <3>1. p \in journal[d].done => Settled(p)'
      BY DEF Traces, JournalsSettled, StaysSettled
    <3>2. \A e \in Devices, q \in Payments :
            job'[e][q] = "marking" => job[e][q] = "marking" \/ (q = p /\ p \in journal[d].done)
      <4>1. CASE UNCHANGED job
        BY <4>1
      <4>2. CASE job' = [job EXCEPT ![d][p] = "sending"]
        BY <4>2 DEF TypeOK
      <4>3. CASE job' = [job EXCEPT ![d][p] = "marking"] /\ p \in journal[d].done
        BY <4>3 DEF TypeOK
      <4> QED BY <4>1, <4>2, <4>3 DEF Attempts
    <3> QED BY <3>1, <3>2 DEF Traces, JobsSettled, StaysSettled
  <2> QED BY <2>1, <2>2, <2>3 DEF Traces
<1>8. CASE \E d \in Devices : \E p \in Payments : Tells(d, p)
  <2> PICK d \in Devices, p \in Payments : Tells(d, p)
    BY <1>8
  <2>1. HostSettled' /\ RecordsSettled' /\ CopiesSettled'
    BY Untouched DEF Tells, network, account, records, work, replica, hand
  <2>2. JournalsSettled'
    <3>1. Settled(p)'
      BY DEF Tells, Settled
    <3> QED BY <3>1, EntryType, AppendsSettled DEF Tells, Done, Traces
  <2>3. JobsSettled'
    <3>1. Settled(p)'
      BY DEF Tells, Settled
    <3>2. \A e \in Devices, q \in Payments : job'[e][q] = job[e][q] \/ q = p
      BY DEF Tells, TypeOK
    <3> QED BY <3>1, <3>2 DEF Traces, JobsSettled, StaysSettled
  <2> QED BY <2>1, <2>2, <2>3 DEF Traces
<1>9. CASE \E d \in Devices : \E p \in Payments : Misses(d, p)
  <2> PICK d \in Devices, p \in Payments : Misses(d, p)
    BY <1>9
  <2>1. HostSettled' /\ JournalsSettled' /\ RecordsSettled' /\ CopiesSettled'
    BY Untouched DEF Misses, network, account, records, work, replica, hand
  <2>2. JobsSettled'
    BY DEF Misses, Traces, JobsSettled, StaysSettled, TypeOK
  <2> QED BY <2>1, <2>2 DEF Traces
<1>10. CASE \E d \in Devices : \E p \in Payments : Marks(d, p)
  <2> PICK d \in Devices, p \in Payments : Marks(d, p)
    BY <1>10
  <2>1. HostSettled' /\ JournalsSettled' /\ CopiesSettled'
    BY Untouched DEF Marks, network, account, records, work, replica, hand
  <2>2. RecordsSettled'
    <3>1. Settled(p)'
      BY DEF Marks, Traces, JobsSettled, StaysSettled
    <3>2. \A e \in Devices, q \in Payments : rec'[e][q] = rec[e][q] \/ q = p
      <4>1. \A s \in Notices, e \in Devices, q \in Payments :
              [rec EXCEPT ![d][p] = s][e][q] = IF e = d /\ q = p THEN s ELSE rec[e][q]
        BY DEF TypeOK, Records
      <4>2. \E s \in Notices : rec' = [rec EXCEPT ![d][p] = s]
        <5>1. rec[d][p] \in Notices /\ "delivered" \in Notices
          BY DEF TypeOK, Records, Notices
        <5>2. rec = [rec EXCEPT ![d][p] = rec[d][p]]
          BY DEF TypeOK, Records
        <5> QED BY <5>1, <5>2 DEF Marks
      <4> QED BY <4>1, <4>2
    <3> QED BY <3>1, <3>2 DEF Traces, RecordsSettled, IsSettledRecord, StaysSettled
  <2>3. JobsSettled'
    BY DEF Marks, Traces, JobsSettled, StaysSettled, TypeOK
  <2> QED BY <2>1, <2>2, <2>3 DEF Traces
<1>11. CASE \E d \in Devices : Reopens(d)
  <2> PICK d \in Devices : Reopens(d)
    BY <1>11
  <2>1. HostSettled' /\ JournalsSettled' /\ RecordsSettled' /\ CopiesSettled' /\ JobsSettled'
    BY Untouched DEF Reopens, network, account, records, work, replica, hand
  <2> QED BY <2>1 DEF Traces
<1>12. CASE \E d \in Devices : Fires(d)
  <2> PICK d \in Devices : Fires(d)
    BY <1>12
  <2>1. HostSettled' /\ JournalsSettled' /\ RecordsSettled' /\ CopiesSettled' /\ JobsSettled'
    BY Untouched DEF Fires, network, account, records, work, replica, hand
  <2> QED BY <2>1 DEF Traces
<1>13. CASE \E d \in Devices : Pulls(d)
  <2> PICK d \in Devices : Pulls(d)
    BY <1>13
  <2>1. HostSettled' /\ RecordsSettled' /\ CopiesSettled' /\ JobsSettled'
    BY Untouched DEF Pulls, network, account, records, work, replica, hand
  <2>2. JournalsSettled'
    <3>1. host \in Journals /\ \A p \in host.done : p \in Payments /\ Settled(p)
      BY DEF TypeOK, Journals, Traces, HostSettled
    <3> QED BY <3>1, AppendsSettled DEF Pulls, Traces, StaysSettled
  <2> QED BY <2>1, <2>2 DEF Traces
<1>14. CASE \E d \in Devices : Pushes(d)
  <2> PICK d \in Devices : Pushes(d)
    BY <1>14
  <2>1. JournalsSettled' /\ RecordsSettled' /\ CopiesSettled' /\ JobsSettled'
    BY Untouched DEF Pushes, network, account, records, work, replica, hand
  <2>2. HostSettled'
    <3>1. CASE UNCHANGED host
      BY <3>1, Untouched
    <3>2. CASE sync[d].pc = "push" /\ host' = sync[d].body
      <4>1. sync[d].body.done \subseteq journal[d].done /\ journal[d].done \subseteq Payments
        BY <3>2 DEF PushKept, Below, TypeOK, Journals
      <4> QED BY <3>2, <4>1 DEF Traces, HostSettled, JournalsSettled, StaysSettled
    <3> QED BY <3>1, <3>2 DEF Pushes
  <2> QED BY <2>1, <2>2 DEF Traces
<1>15. CASE \E d \in Devices : Refused(d)
  <2> PICK d \in Devices : Refused(d)
    BY <1>15
  <2>1. HostSettled' /\ JournalsSettled' /\ RecordsSettled' /\ CopiesSettled' /\ JobsSettled'
    BY Untouched DEF Refused, network, account, records, work, replica, hand
  <2> QED BY <2>1 DEF Traces
<1>16. CASE \E d \in Devices : SyncFails(d)
  <2> PICK d \in Devices : SyncFails(d)
    BY <1>16
  <2>1. JournalsSettled' /\ RecordsSettled' /\ CopiesSettled' /\ JobsSettled'
    BY Untouched DEF SyncFails, network, account, records, work, replica, hand
  <2>2. HostSettled'
    <3>1. CASE UNCHANGED host
      BY <3>1, Untouched
    <3>2. CASE sync[d].pc = "push" /\ host' = sync[d].body
      <4>1. sync[d].body.done \subseteq journal[d].done /\ journal[d].done \subseteq Payments
        BY <3>2 DEF PushKept, Below, TypeOK, Journals
      <4> QED BY <3>2, <4>1 DEF Traces, HostSettled, JournalsSettled, StaysSettled
    <3> QED BY <3>1, <3>2 DEF SyncFails
  <2> QED BY <2>1, <2>2 DEF Traces
<1>17. CASE \E d \in Devices : UploadsHistory(d)
  <2> PICK d \in Devices : UploadsHistory(d)
    BY <1>17
  <2>1. HostSettled' /\ JournalsSettled' /\ RecordsSettled' /\ JobsSettled'
    BY Untouched DEF UploadsHistory, network, account, records, work, replica, hand
  <2>2. CopiesSettled'
    BY DEF UploadsHistory, hand, Traces, RecordsSettled, CopiesSettled, IsSettledRecord, StaysSettled
  <2> QED BY <2>1, <2>2 DEF Traces
<1>18. CASE \E d \in Devices : Restores(d)
  <2> PICK d \in Devices : Restores(d)
    BY <1>18
  <2>1. HostSettled' /\ JournalsSettled' /\ CopiesSettled' /\ JobsSettled'
    BY Untouched DEF Restores, network, account, records, work, replica, hand
  <2>2. RecordsSettled'
    <3>1. \A e \in Devices : rec'[e] \in {rec[e], history.rec}
      BY DEF Restores, TypeOK
    <3> QED BY <3>1 DEF Traces, RecordsSettled, CopiesSettled, IsSettledRecord, StaysSettled
  <2> QED BY <2>1, <2>2 DEF Traces
<1>19. CASE \E d \in Devices : Recomposes(d)
  <2> PICK d \in Devices : Recomposes(d)
    BY <1>19
  <2>1. HostSettled' /\ JournalsSettled' /\ RecordsSettled' /\ CopiesSettled' /\ JobsSettled'
    BY Untouched DEF Recomposes, network, account, records, work, replica, hand
  <2> QED BY <2>1 DEF Traces
<1>20. CASE \E d \in Devices : Reopened(d)
  <2> PICK d \in Devices : Reopened(d)
    BY <1>20
  <2>1. HostSettled' /\ JournalsSettled' /\ RecordsSettled' /\ CopiesSettled' /\ JobsSettled'
    BY Untouched DEF Reopened, network, account, records, work, replica, hand
  <2> QED BY <2>1 DEF Traces
<1>21. CASE \E d \in Devices : FindsOut(d)
  <2> PICK d \in Devices : FindsOut(d)
    BY <1>21
  <2>1. HostSettled' /\ JournalsSettled' /\ RecordsSettled' /\ CopiesSettled' /\ JobsSettled'
    BY Untouched DEF FindsOut, network, account, records, work, replica, hand
  <2> QED BY <2>1 DEF Traces
<1>22. CASE \E d \in Devices : Tombstones(d)
  <2> PICK d \in Devices : Tombstones(d)
    BY <1>22
  <2>1. HostSettled' /\ RecordsSettled' /\ CopiesSettled' /\ JobsSettled'
    BY Untouched DEF Tombstones, network, account, records, work, replica, hand
  <2>2. JournalsSettled'
    <3> DEFINE owed == Unbroadcast(d) \cap journal[d].owed
    <3>1. [owed |-> {}, done |-> owed] \in Journals
      BY DEF Journals, Unbroadcast
    <3>2. \A p \in owed : Settled(p)'
      BY DEF Tombstones, Settled
    <3> QED BY <3>1, <3>2, AppendsSettled DEF Tombstones, Traces
  <2> QED BY <2>1, <2>2 DEF Traces
<1>23. CASE \E d \in Devices : Voids(d)
  <2> PICK d \in Devices : Voids(d)
    BY <1>23
  <2>1. HostSettled' /\ JournalsSettled' /\ CopiesSettled' /\ JobsSettled'
    BY Untouched DEF Voids, network, account, records, work, replica, hand
  <2>2. RecordsSettled'
    <3>1. \A p \in Unbroadcast(d) : Settled(p)'
      BY DEF Voids, Settled
    <3>2. \A e \in Devices, q \in Payments : rec'[e][q] = rec[e][q] \/ q \in Unbroadcast(d)
      BY DEF Voids, TypeOK, Records
    <3> QED BY <3>1, <3>2 DEF Traces, RecordsSettled, IsSettledRecord, StaysSettled
  <2> QED BY <2>1, <2>2 DEF Traces
<1>24. CASE \E d \in Devices : HandsOver(d)
  <2> PICK d \in Devices : HandsOver(d)
    BY <1>24
  <2>1. HostSettled' /\ JournalsSettled' /\ RecordsSettled' /\ JobsSettled'
    BY Untouched DEF HandsOver, network, account, records, work, replica, hand
  <2>2. CopiesSettled'
    <3>1. \A doc \in delta' : doc \in delta \/ doc.rec = rec[d]
      BY DEF HandsOver
    <3>2. UNCHANGED history
      BY DEF HandsOver
    <3> QED BY <3>1, <3>2 DEF Traces, RecordsSettled, CopiesSettled, IsSettledRecord, StaysSettled
  <2> QED BY <2>1, <2>2 DEF Traces
<1>25. CASE \E d \in Devices : Receives(d)
  <2> PICK d \in Devices : Receives(d)
    BY <1>25
  <2>1. HostSettled' /\ JournalsSettled' /\ JobsSettled'
    BY Untouched DEF Receives, network, account, records, work, replica, hand
  <2>2. RecordsSettled'
    <3> PICK doc \in delta :
          rec' = [rec EXCEPT ![d] =
                    [p \in Payments |->
                        IF p \in doc.acked /\ (@[p] = "none" \/ doc.rec[p] = "delivered")
                        THEN doc.rec[p] ELSE @[p]]]
      BY DEF Receives
    <3>1. \A e \in Devices, q \in Payments : rec'[e][q] \in {rec[e][q], doc.rec[q]}
      BY DEF TypeOK
    <3> QED BY <3>1 DEF Traces, RecordsSettled, CopiesSettled, IsSettledRecord, StaysSettled
  <2>3. CopiesSettled'
    <3>1. delta' \subseteq delta /\ UNCHANGED history
      BY DEF Receives, account
    <3> QED BY <3>1 DEF Traces, CopiesSettled, IsSettledRecord, StaysSettled
  <2> QED BY <2>1, <2>2, <2>3 DEF Traces
<1>26. CASE \E d \in Devices : Restarts(d)
  <2> PICK d \in Devices : Restarts(d)
    BY <1>26
  <2>1. HostSettled' /\ JournalsSettled' /\ RecordsSettled' /\ CopiesSettled'
    BY Untouched DEF Restarts, network, account, records, work, replica, hand
  <2>2. JobsSettled'
    BY DEF Restarts, Idle, Traces, JobsSettled, StaysSettled, TypeOK
  <2> QED BY <2>1, <2>2 DEF Traces
<1>27. CASE \E d \in Devices : Loses(d)
  <2> PICK d \in Devices : Loses(d)
    BY <1>27
  <2>1. HostSettled' /\ CopiesSettled'
    BY Untouched DEF Loses, network, account, records, work, replica, hand
  <2>2. JournalsSettled'
    <3>1. \A e \in Devices : journal'[e].done \subseteq journal[e].done /\ journal[e].done \subseteq Payments
      BY DEF Loses, NoEntries, TypeOK, Journals
    <3> QED BY <3>1 DEF Traces, JournalsSettled, StaysSettled
  <2>3. RecordsSettled'
    BY DEF Loses, Blank, Traces, RecordsSettled, IsSettledRecord, StaysSettled, TypeOK, Records
  <2>4. JobsSettled'
    BY DEF Loses, Idle, Traces, JobsSettled, StaysSettled, TypeOK
  <2> QED BY <2>1, <2>2, <2>3, <2>4 DEF Traces
<1> QED BY <1>1, <1>2, <1>3, <1>4, <1>5, <1>6, <1>7, <1>8, <1>9, <1>10, <1>11, <1>12, <1>13, <1>14, <1>15, <1>16, <1>17, <1>18, <1>19, <1>20, <1>21, <1>22, <1>23, <1>24, <1>25, <1>26, <1>27 DEF Next

LEMMA SettledInit == Init => Traces
BY DEF Init, NoEntries, Blank, Idle, Traces, HostSettled, JournalsSettled, RecordsSettled,
       CopiesSettled, IsSettledRecord, JobsSettled

LEMMA TracesInvariance == Spec => []Traces
<1>1. Init => Traces
  BY SettledInit
<1>2. KeptInv /\ KeptInv' /\ Traces /\ [Next]_vars => Traces'
  <2> SUFFICES ASSUME KeptInv, KeptInv', Traces, [Next]_vars PROVE Traces'
    OBVIOUS
  <2>1. CASE Next
    BY <2>1, SettledStep DEF KeptInv
  <2>2. CASE UNCHANGED vars
    <3>1. StaysSettled
      BY <2>2 DEF vars, network, hand, StaysSettled, Settled
    <3> QED BY <2>2, <3>1, Untouched DEF KeptInv, Traces, vars, network, account, records,
                                         work, replica, hand
  <2> QED BY <2>1, <2>2
<1> QED BY <1>1, <1>2, KeptInvariance, PTL DEF Spec

\* No crash, merge, restore or handover settles a notice that is still owed
\* (pendingBrc29Outbox.ts and noticeJournal.ts mark one done only after its
\* delivery, its payment's death, or its voiding).
THEOREM OnlySettledIsDone == Spec => []DoneIsSettled
<1>1. KeptInv /\ Traces => DoneIsSettled
  <2> SUFFICES ASSUME KeptInv, Traces,
                      NEW p \in host.done
                          \cup (UNION {journal[d].done : d \in Devices})
                          \cup {p \in Payments : \E d \in Devices : rec[d][p] = "delivered"}
               PROVE  Settled(p)
    BY DEF DoneIsSettled, Settled
  <2>1. CASE p \in host.done
    BY <2>1 DEF Traces, HostSettled
  <2>2. CASE \E d \in Devices : p \in journal[d].done
    BY <2>2 DEF Traces, JournalsSettled
  <2>3. CASE p \in Payments /\ \E d \in Devices : rec[d][p] = "delivered"
    BY <2>3 DEF Traces, RecordsSettled, IsSettledRecord
  <2>4. p \in UNION {journal[d].done : d \in Devices} => \E d \in Devices : p \in journal[d].done
    OBVIOUS
  <2> QED BY <2>1, <2>2, <2>3, <2>4
<1> QED BY <1>1, KeptInvariance, TracesInvariance, PTL

----------------------------------------------------------------------------
(* What is owed is kept *)

Kept(p) == KeptOutside(p) \/ \E d \in Devices : Keeps(d, p)

Safe(p) == p \in told \cup gone \cup voided \/ fate[p] = "dead" \/ Kept(p)

\* The network has the payment, or an install is going to send it.
Exposed(p) == fate[p] = "landed" \/ \E d \in Devices : p \in outbox[d]

Lingers(d, p) == p \in queue[d] \/ p \in journal[d].owed \/ job[d][p] # "idle"

(* An install that has no record of a payment knows of its notice from the
   host; one about to close its books has voided what it never saw sent; a
   payment still being sealed is on its open install. *)
Hosted ==
    \A d \in Devices, p \in Payments :
        rec[d][p] = "none" /\ Lingers(d, p) => p \in host.owed \cup host.done
PostedAreVoided ==
    \A d \in Devices : mode[d] = "handover" /\ step[d] = "post" => Unbroadcast(d) \subseteq voided
SealingIsOpen ==
    \A d \in Devices, p \in Payments :
        job[d][p] = "sealing" => Safe(p) \/ (IsOpen(d) /\ rec[d][p] # "none")
FreshIsEmpty ==
    \A d \in Devices : mode[d] = "fresh" => \A p \in Payments : ~ Lingers(d, p)
ExposedIsSafe == \A p \in Payments : Exposed(p) => Safe(p)

StaysSafe == \A p \in Payments : Safe(p) => Safe(p)'

\* What most steps leave an install with of what it had.
Carries(d) ==
    /\ IsOpen(d) => IsOpen(d)'
    /\ mode[d] = "handover" => mode'[d] = "handover"
    /\ acked[d] \subseteq acked'[d]
    /\ Below(journal[d], journal'[d])
    /\ \A p \in Payments : rec[d][p] # "none" => rec'[d][p] # "none"
    /\ \A p \in queue[d] : p \in queue'[d] \/ Settled(p)'

LEMMA SettledIsSafe == \A p \in Payments : Settled(p) => Safe(p)
BY DEF Settled, Safe

LEMMA SettledIsSafeNext == \A p \in Payments : Settled(p)' => Safe(p)'
BY DEF Settled, Safe

LEMMA KeepsCarried ==
    ASSUME TypeOK, TypeOK', StaysSettled, Traces, Traces',
           NEW d \in Devices, NEW p \in Payments, Carries(d), Keeps(d, p)
    PROVE  Safe(p)'
<1>1. Settled(p)' => Safe(p)'
  BY SettledIsSafeNext
<1>2. \A n : rec[d][p] = n /\ n \in {"delivered", "void"} => Settled(p)'
  BY DEF Traces, RecordsSettled, IsSettledRecord, StaysSettled
<1>3. rec'[d][p] \in {"delivered", "void"} => Settled(p)'
  BY DEF Traces, RecordsSettled, IsSettledRecord
<1>4. p \in journal'[d].done => Settled(p)'
  BY DEF Traces, JournalsSettled
<1>5. rec[d][p] \in Notices /\ rec'[d][p] \in Notices
  BY DEF TypeOK, Records
<1>6. rec[d][p] = "pending" => rec'[d][p] = "pending" \/ Settled(p)'
  BY <1>3, <1>5 DEF Carries, Notices
<1> SUFFICES ASSUME ~ Settled(p)' PROVE Keeps(d, p)'
  BY <1>1 DEF Safe, Kept
<1>7. CASE IsOpen(d) /\ p \in queue[d] \cup journal[d].owed
  BY <1>4, <1>7 DEF Carries, Below, Keeps, Owed
<1>8. CASE IsOpen(d) /\ p \in Pending(rec[d], acked[d])
  BY <1>6, <1>8 DEF Carries, Keeps, Owed, Pending
<1>9. CASE mode[d] = "handover" /\ p \in Unbroadcast(d) \cup Pending(rec[d], acked[d])
  <2>1. rec[d][p] = "pending"
    BY <1>2, <1>9 DEF Unbroadcast, Pending
  <2>2. rec'[d][p] = "pending" /\ mode'[d] = "handover"
    BY <1>6, <1>9, <2>1 DEF Carries
  <2> QED BY <2>2 DEF Keeps, Unbroadcast, Pending
<1> QED BY <1>7, <1>8, <1>9 DEF Keeps, Owed

\* What is kept beyond the installs stays, unless it is taken over.
LEMMA OutsideCarried ==
    ASSUME TypeOK, TypeOK', Traces', Below(host, host'), holder' = holder,
           ~ Runs(holder) => ~ Runs(holder)', delta \subseteq delta',
           history' = history \/ Runs(holder),
           NEW p \in Payments, KeptOutside(p)
    PROVE  Safe(p)'
<1>1. p \in host'.done => Safe(p)'
  BY SettledIsSafeNext DEF Traces, HostSettled
<1>2. CASE p \in host.owed
  BY <1>1, <1>2 DEF Below, Safe, Kept, KeptOutside
<1>3. CASE \E doc \in delta : p \in Pending(doc.rec, doc.acked)
  BY <1>3 DEF Safe, Kept, KeptOutside
<1>4. CASE ~ Runs(holder) /\ p \in Pending(history.rec, history.acked)
  BY <1>4 DEF Safe, Kept, KeptOutside
<1> QED BY <1>2, <1>3, <1>4 DEF KeptOutside

Outside ==
    /\ Below(host, host') /\ holder' = holder /\ (~ Runs(holder) => ~ Runs(holder)')
    /\ delta \subseteq delta' /\ (history' = history \/ Runs(holder))

LEMMA SafeCarried ==
    ASSUME TypeOK, TypeOK', StaysSettled, Traces, Traces', gone \subseteq gone', Outside,
           \A d \in Devices : Carries(d)
    PROVE  StaysSafe
<1> SUFFICES ASSUME NEW p \in Payments, Safe(p) PROVE Safe(p)'
  BY DEF StaysSafe
<1>1. CASE Settled(p) \/ p \in gone
  BY <1>1, SettledIsSafeNext DEF StaysSettled, Safe
<1>2. CASE KeptOutside(p)
  BY <1>2, OutsideCarried DEF Outside
<1>3. CASE \E d \in Devices : Keeps(d, p)
  BY <1>3, KeepsCarried
<1> QED BY <1>1, <1>2, <1>3 DEF Safe, Settled, Kept

LEMMA OrdinaryStep ==
    ASSUME TypeOK, TypeOK', StaysSettled, Traces, Traces', Next,
           \A d \in Devices : ~ (FindsOut(d) \/ HandsOver(d) \/ Receives(d) \/ Restores(d) \/ Loses(d))
    PROVE  gone \subseteq gone' /\ UNCHANGED <<holder, delta>> /\ (history' = history \/ Runs(holder))
           /\ (~ Runs(holder) => ~ Runs(holder)') /\ \A e \in Devices : Carries(e)
<1>0. \A e \in Devices : Below(journal[e], journal[e])
  BY BelowSelf DEF TypeOK
<1>1. CASE \E d \in Devices : \E p \in Payments : Signs(d, p)
  <2> PICK d \in Devices, p \in Payments : Signs(d, p)
    BY <1>1
  <2>0. UNCHANGED journal => \A e \in Devices : Below(journal[e], journal'[e])
    BY <1>0
  <2>1. \A e \in Devices : Below(journal[e], journal'[e])
    BY <2>0 DEF Signs, replica
  <2>2. \A e \in Devices : IsOpen(e) => IsOpen(e)'
    BY DEF Signs, account, IsOpen, TypeOK
  <2>3. \A e \in Devices : (mode[e] = "handover" => mode'[e] = "handover") /\ (~ Runs(e) => ~ Runs(e)')
    BY DEF Signs, account, Runs, IsOpen, TypeOK
  <2>4. \A e \in Devices : acked[e] \subseteq acked'[e]
    BY DEF Signs, records, TypeOK
  <2>5. \A e \in Devices, q \in Payments : rec[e][q] # "none" => rec'[e][q] # "none"
    BY DEF Signs, records, TypeOK, Records, Notices
  <2>6. \A e \in Devices : \A q \in queue[e] : q \in queue'[e] \/ Settled(q)'
    BY DEF Signs, work, TypeOK
  <2>7. UNCHANGED <<gone, holder, delta>> /\ (history' = history \/ Runs(holder))
    BY DEF Signs, account, hand, Runs, TypeOK
  <2> QED BY <2>1, <2>2, <2>3, <2>4, <2>5, <2>6, <2>7 DEF Carries, TypeOK
<1>2. CASE \E d \in Devices : \E p \in Payments : Seals(d, p)
  <2> PICK d \in Devices, p \in Payments : Seals(d, p)
    BY <1>2
  <2>0. UNCHANGED journal => \A e \in Devices : Below(journal[e], journal'[e])
    BY <1>0
  <2>1. \A e \in Devices : Below(journal[e], journal'[e])
    BY JournalsOnlyGrow, EntryType DEF Seals
  <2>2. \A e \in Devices : IsOpen(e) => IsOpen(e)'
    BY DEF Seals, account, IsOpen, TypeOK
  <2>3. \A e \in Devices : (mode[e] = "handover" => mode'[e] = "handover") /\ (~ Runs(e) => ~ Runs(e)')
    BY DEF Seals, account, Runs, IsOpen, TypeOK
  <2>4. \A e \in Devices : acked[e] \subseteq acked'[e]
    BY DEF Seals, records, TypeOK
  <2>5. \A e \in Devices, q \in Payments : rec[e][q] # "none" => rec'[e][q] # "none"
    BY DEF Seals, records, TypeOK, Records, Notices
  <2>6. \A e \in Devices : \A q \in queue[e] : q \in queue'[e] \/ Settled(q)'
    BY DEF Seals, work, TypeOK
  <2>7. UNCHANGED <<gone, holder, delta>> /\ (history' = history \/ Runs(holder))
    BY DEF Seals, account, hand, Runs, TypeOK
  <2> QED BY <2>1, <2>2, <2>3, <2>4, <2>5, <2>6, <2>7 DEF Carries, TypeOK
<1>3. CASE \E d \in Devices : \E p \in Payments : Accepts(d, p)
  <2> PICK d \in Devices, p \in Payments : Accepts(d, p)
    BY <1>3
  <2>0. UNCHANGED journal => \A e \in Devices : Below(journal[e], journal'[e])
    BY <1>0
  <2>1. \A e \in Devices : Below(journal[e], journal'[e])
    BY <2>0 DEF Accepts, replica
  <2>2. \A e \in Devices : IsOpen(e) => IsOpen(e)'
    BY DEF Accepts, account, IsOpen, TypeOK
  <2>3. \A e \in Devices : (mode[e] = "handover" => mode'[e] = "handover") /\ (~ Runs(e) => ~ Runs(e)')
    BY DEF Accepts, account, Runs, IsOpen, TypeOK
  <2>4. \A e \in Devices : acked[e] \subseteq acked'[e]
    BY DEF Accepts, records, TypeOK
  <2>5. \A e \in Devices, q \in Payments : rec[e][q] # "none" => rec'[e][q] # "none"
    BY DEF Accepts, records, TypeOK, Records, Notices
  <2>6. \A e \in Devices : \A q \in queue[e] : q \in queue'[e] \/ Settled(q)'
    BY DEF Accepts, work, TypeOK
  <2>7. UNCHANGED <<gone, holder, delta>> /\ (history' = history \/ Runs(holder))
    BY DEF Accepts, account, hand, Runs, TypeOK
  <2> QED BY <2>1, <2>2, <2>3, <2>4, <2>5, <2>6, <2>7 DEF Carries, TypeOK
<1>4. CASE \E d \in Devices : \E p \in Payments : Queues(d, p)
  <2> PICK d \in Devices, p \in Payments : Queues(d, p)
    BY <1>4
  <2>0. UNCHANGED journal => \A e \in Devices : Below(journal[e], journal'[e])
    BY <1>0
  <2>1. \A e \in Devices : Below(journal[e], journal'[e])
    BY <2>0 DEF Queues, replica
  <2>2. \A e \in Devices : IsOpen(e) => IsOpen(e)'
    BY DEF Queues, account, IsOpen, TypeOK
  <2>3. \A e \in Devices : (mode[e] = "handover" => mode'[e] = "handover") /\ (~ Runs(e) => ~ Runs(e)')
    BY DEF Queues, account, Runs, IsOpen, TypeOK
  <2>4. \A e \in Devices : acked[e] \subseteq acked'[e]
    BY DEF Queues, records, TypeOK
  <2>5. \A e \in Devices, q \in Payments : rec[e][q] # "none" => rec'[e][q] # "none"
    BY DEF Queues, records, TypeOK, Records, Notices
  <2>6. \A e \in Devices : \A q \in queue[e] : q \in queue'[e] \/ Settled(q)'
    BY DEF Queues, work, TypeOK
  <2>7. UNCHANGED <<gone, holder, delta>> /\ (history' = history \/ Runs(holder))
    BY DEF Queues, account, hand, Runs, TypeOK
  <2> QED BY <2>1, <2>2, <2>3, <2>4, <2>5, <2>6, <2>7 DEF Carries, TypeOK
<1>5. CASE \E d \in Devices : \E p \in Payments : Rejects(d, p)
  <2> PICK d \in Devices, p \in Payments : Rejects(d, p)
    BY <1>5
  <2>0. UNCHANGED journal => \A e \in Devices : Below(journal[e], journal'[e])
    BY <1>0
  <2>1. \A e \in Devices : Below(journal[e], journal'[e])
    BY JournalsOnlyGrow, EntryType, <2>0 DEF Rejects
  <2>2. \A e \in Devices : IsOpen(e) => IsOpen(e)'
    BY DEF Rejects, account, IsOpen, TypeOK
  <2>3. \A e \in Devices : (mode[e] = "handover" => mode'[e] = "handover") /\ (~ Runs(e) => ~ Runs(e)')
    BY DEF Rejects, account, Runs, IsOpen, TypeOK
  <2>4. \A e \in Devices : acked[e] \subseteq acked'[e]
    BY DEF Rejects, records, TypeOK
  <2>5. \A e \in Devices, q \in Payments : rec[e][q] # "none" => rec'[e][q] # "none"
    BY DEF Rejects, records, TypeOK, Records, Notices
  <2>6. \A e \in Devices : \A q \in queue[e] : q \in queue'[e] \/ Settled(q)'
    BY DEF Rejects, work, TypeOK
  <2>7. UNCHANGED <<gone, holder, delta>> /\ (history' = history \/ Runs(holder))
    BY DEF Rejects, account, hand, Runs, TypeOK
  <2> QED BY <2>1, <2>2, <2>3, <2>4, <2>5, <2>6, <2>7 DEF Carries, TypeOK
<1>6. CASE \E p \in Payments : PayeePosts(p)
  <2> PICK p \in Payments : PayeePosts(p)
    BY <1>6
  <2>0. UNCHANGED journal => \A e \in Devices : Below(journal[e], journal'[e])
    BY <1>0
  <2>1. \A e \in Devices : Below(journal[e], journal'[e])
    BY <2>0 DEF PayeePosts, replica
  <2>2. \A e \in Devices : IsOpen(e) => IsOpen(e)'
    BY DEF PayeePosts, account, IsOpen, TypeOK
  <2>3. \A e \in Devices : (mode[e] = "handover" => mode'[e] = "handover") /\ (~ Runs(e) => ~ Runs(e)')
    BY DEF PayeePosts, account, Runs, IsOpen, TypeOK
  <2>4. \A e \in Devices : acked[e] \subseteq acked'[e]
    BY DEF PayeePosts, records, TypeOK
  <2>5. \A e \in Devices, q \in Payments : rec[e][q] # "none" => rec'[e][q] # "none"
    BY DEF PayeePosts, records, TypeOK, Records, Notices
  <2>6. \A e \in Devices : \A q \in queue[e] : q \in queue'[e] \/ Settled(q)'
    BY DEF PayeePosts, work, TypeOK
  <2>7. UNCHANGED <<gone, holder, delta>> /\ (history' = history \/ Runs(holder))
    BY DEF PayeePosts, account, hand, Runs, TypeOK
  <2> QED BY <2>1, <2>2, <2>3, <2>4, <2>5, <2>6, <2>7 DEF Carries, TypeOK
<1>7. CASE \E d \in Devices : \E p \in Payments : Attempts(d, p)
  <2> PICK d \in Devices, p \in Payments : Attempts(d, p)
    BY <1>7
  <2>0. UNCHANGED journal => \A e \in Devices : Below(journal[e], journal'[e])
    BY <1>0
  <2>1. \A e \in Devices : Below(journal[e], journal'[e])
    BY JournalsOnlyGrow, EntryType, <2>0 DEF Attempts
  <2>2. \A e \in Devices : IsOpen(e) => IsOpen(e)'
    BY DEF Attempts, account, IsOpen, TypeOK
  <2>3. \A e \in Devices : (mode[e] = "handover" => mode'[e] = "handover") /\ (~ Runs(e) => ~ Runs(e)')
    BY DEF Attempts, account, Runs, IsOpen, TypeOK
  <2>4. \A e \in Devices : acked[e] \subseteq acked'[e]
    BY DEF Attempts, records, TypeOK
  <2>5. \A e \in Devices, q \in Payments : rec[e][q] # "none" => rec'[e][q] # "none"
    BY DEF Attempts, records, TypeOK, Records, Notices
  <2>6. \A e \in Devices : \A q \in queue[e] : q \in queue'[e] \/ Settled(q)'
    <3>1. queue' = queue \/ Settled(p)'
      BY DEF Attempts, Traces, RecordsSettled, IsSettledRecord, JournalsSettled, StaysSettled
    <3>2. queue' = queue \/ queue' = [queue EXCEPT ![d] = @ \ {p}]
      BY DEF Attempts
    <3>3. CASE queue' = [queue EXCEPT ![d] = @ \ {p}] /\ Settled(p)'
      BY <3>3 DEF TypeOK
    <3> QED BY <3>1, <3>2, <3>3
  <2>7. UNCHANGED <<gone, holder, delta>> /\ (history' = history \/ Runs(holder))
    BY DEF Attempts, account, hand, Runs, TypeOK
  <2> QED BY <2>1, <2>2, <2>3, <2>4, <2>5, <2>6, <2>7 DEF Carries, TypeOK
<1>8. CASE \E d \in Devices : \E p \in Payments : Tells(d, p)
  <2> PICK d \in Devices, p \in Payments : Tells(d, p)
    BY <1>8
  <2>0. UNCHANGED journal => \A e \in Devices : Below(journal[e], journal'[e])
    BY <1>0
  <2>1. \A e \in Devices : Below(journal[e], journal'[e])
    BY JournalsOnlyGrow, EntryType DEF Tells
  <2>2. \A e \in Devices : IsOpen(e) => IsOpen(e)'
    BY DEF Tells, account, IsOpen, TypeOK
  <2>3. \A e \in Devices : (mode[e] = "handover" => mode'[e] = "handover") /\ (~ Runs(e) => ~ Runs(e)')
    BY DEF Tells, account, Runs, IsOpen, TypeOK
  <2>4. \A e \in Devices : acked[e] \subseteq acked'[e]
    BY DEF Tells, records, TypeOK
  <2>5. \A e \in Devices, q \in Payments : rec[e][q] # "none" => rec'[e][q] # "none"
    BY DEF Tells, records, TypeOK, Records, Notices
  <2>6. \A e \in Devices : \A q \in queue[e] : q \in queue'[e] \/ Settled(q)'
    BY DEF Tells, work, TypeOK
  <2>7. UNCHANGED <<gone, holder, delta>> /\ (history' = history \/ Runs(holder))
    BY DEF Tells, account, hand, Runs, TypeOK
  <2> QED BY <2>1, <2>2, <2>3, <2>4, <2>5, <2>6, <2>7 DEF Carries, TypeOK
<1>9. CASE \E d \in Devices : \E p \in Payments : Misses(d, p)
  <2> PICK d \in Devices, p \in Payments : Misses(d, p)
    BY <1>9
  <2>0. UNCHANGED journal => \A e \in Devices : Below(journal[e], journal'[e])
    BY <1>0
  <2>1. \A e \in Devices : Below(journal[e], journal'[e])
    BY <2>0 DEF Misses, replica
  <2>2. \A e \in Devices : IsOpen(e) => IsOpen(e)'
    BY DEF Misses, account, IsOpen, TypeOK
  <2>3. \A e \in Devices : (mode[e] = "handover" => mode'[e] = "handover") /\ (~ Runs(e) => ~ Runs(e)')
    BY DEF Misses, account, Runs, IsOpen, TypeOK
  <2>4. \A e \in Devices : acked[e] \subseteq acked'[e]
    BY DEF Misses, records, TypeOK
  <2>5. \A e \in Devices, q \in Payments : rec[e][q] # "none" => rec'[e][q] # "none"
    BY DEF Misses, records, TypeOK, Records, Notices
  <2>6. \A e \in Devices : \A q \in queue[e] : q \in queue'[e] \/ Settled(q)'
    BY DEF Misses, work, TypeOK
  <2>7. UNCHANGED <<gone, holder, delta>> /\ (history' = history \/ Runs(holder))
    BY DEF Misses, account, hand, Runs, TypeOK
  <2> QED BY <2>1, <2>2, <2>3, <2>4, <2>5, <2>6, <2>7 DEF Carries, TypeOK
<1>10. CASE \E d \in Devices : \E p \in Payments : Marks(d, p)
  <2> PICK d \in Devices, p \in Payments : Marks(d, p)
    BY <1>10
  <2>0. UNCHANGED journal => \A e \in Devices : Below(journal[e], journal'[e])
    BY <1>0
  <2>1. \A e \in Devices : Below(journal[e], journal'[e])
    BY <2>0 DEF Marks, replica
  <2>2. \A e \in Devices : IsOpen(e) => IsOpen(e)'
    BY DEF Marks, account, IsOpen, TypeOK
  <2>3. \A e \in Devices : (mode[e] = "handover" => mode'[e] = "handover") /\ (~ Runs(e) => ~ Runs(e)')
    BY DEF Marks, account, Runs, IsOpen, TypeOK
  <2>4. \A e \in Devices : acked[e] \subseteq acked'[e]
    BY DEF Marks, records, TypeOK
  <2>5. \A e \in Devices, q \in Payments : rec[e][q] # "none" => rec'[e][q] # "none"
    <3>1. CASE UNCHANGED rec
      BY <3>1
    <3>2. CASE rec' = [rec EXCEPT ![d][p] = IF @ = "pending" THEN "delivered" ELSE @]
      <4> DEFINE s == IF rec[d][p] = "pending" THEN "delivered" ELSE rec[d][p]
      <4>1. s = "none" => rec[d][p] = "none"
        OBVIOUS
      <4>2. rec' = [rec EXCEPT ![d][p] = s]
        BY <3>2
      <4> HIDE DEF s
      <4>3. \A e \in Devices, q \in Payments : rec'[e][q] = IF e = d /\ q = p THEN s ELSE rec[e][q]
        BY <4>2 DEF TypeOK, Records
      <4> QED BY <4>1, <4>3
    <3> QED BY <3>1, <3>2 DEF Marks
  <2>6. \A e \in Devices : \A q \in queue[e] : q \in queue'[e] \/ Settled(q)'
    <3>1. Settled(p)'
      BY DEF Marks, Traces, JobsSettled, StaysSettled
    <3> QED BY <3>1 DEF Marks, TypeOK
  <2>7. UNCHANGED <<gone, holder, delta>> /\ (history' = history \/ Runs(holder))
    BY DEF Marks, account, hand, Runs, TypeOK
  <2> QED BY <2>1, <2>2, <2>3, <2>4, <2>5, <2>6, <2>7 DEF Carries, TypeOK
<1>11. CASE \E d \in Devices : Reopens(d)
  <2> PICK d \in Devices : Reopens(d)
    BY <1>11
  <2>0. UNCHANGED journal => \A e \in Devices : Below(journal[e], journal'[e])
    BY <1>0
  <2>1. \A e \in Devices : Below(journal[e], journal'[e])
    BY <2>0 DEF Reopens, replica
  <2>2. \A e \in Devices : IsOpen(e) => IsOpen(e)'
    BY DEF Reopens, account, IsOpen, TypeOK
  <2>3. \A e \in Devices : (mode[e] = "handover" => mode'[e] = "handover") /\ (~ Runs(e) => ~ Runs(e)')
    BY DEF Reopens, account, Runs, IsOpen, TypeOK
  <2>4. \A e \in Devices : acked[e] \subseteq acked'[e]
    BY DEF Reopens, records, TypeOK
  <2>5. \A e \in Devices, q \in Payments : rec[e][q] # "none" => rec'[e][q] # "none"
    BY DEF Reopens, records, TypeOK, Records, Notices
  <2>6. \A e \in Devices : \A q \in queue[e] : q \in queue'[e] \/ Settled(q)'
    BY DEF Reopens, work, TypeOK
  <2>7. UNCHANGED <<gone, holder, delta>> /\ (history' = history \/ Runs(holder))
    BY DEF Reopens, account, hand, Runs, TypeOK
  <2> QED BY <2>1, <2>2, <2>3, <2>4, <2>5, <2>6, <2>7 DEF Carries, TypeOK
<1>12. CASE \E d \in Devices : Fires(d)
  <2> PICK d \in Devices : Fires(d)
    BY <1>12
  <2>0. UNCHANGED journal => \A e \in Devices : Below(journal[e], journal'[e])
    BY <1>0
  <2>1. \A e \in Devices : Below(journal[e], journal'[e])
    BY <2>0 DEF Fires, replica
  <2>2. \A e \in Devices : IsOpen(e) => IsOpen(e)'
    BY DEF Fires, account, IsOpen, TypeOK
  <2>3. \A e \in Devices : (mode[e] = "handover" => mode'[e] = "handover") /\ (~ Runs(e) => ~ Runs(e)')
    BY DEF Fires, account, Runs, IsOpen, TypeOK
  <2>4. \A e \in Devices : acked[e] \subseteq acked'[e]
    BY DEF Fires, records, TypeOK
  <2>5. \A e \in Devices, q \in Payments : rec[e][q] # "none" => rec'[e][q] # "none"
    BY DEF Fires, records, TypeOK, Records, Notices
  <2>6. \A e \in Devices : \A q \in queue[e] : q \in queue'[e] \/ Settled(q)'
    BY DEF Fires, work, TypeOK
  <2>7. UNCHANGED <<gone, holder, delta>> /\ (history' = history \/ Runs(holder))
    BY DEF Fires, account, hand, Runs, TypeOK
  <2> QED BY <2>1, <2>2, <2>3, <2>4, <2>5, <2>6, <2>7 DEF Carries, TypeOK
<1>13. CASE \E d \in Devices : Pulls(d)
  <2> PICK d \in Devices : Pulls(d)
    BY <1>13
  <2>0. UNCHANGED journal => \A e \in Devices : Below(journal[e], journal'[e])
    BY <1>0
  <2>1. \A e \in Devices : Below(journal[e], journal'[e])
    BY JournalsOnlyGrow DEF Pulls, TypeOK
  <2>2. \A e \in Devices : IsOpen(e) => IsOpen(e)'
    BY DEF Pulls, account, IsOpen, TypeOK
  <2>3. \A e \in Devices : (mode[e] = "handover" => mode'[e] = "handover") /\ (~ Runs(e) => ~ Runs(e)')
    BY DEF Pulls, account, Runs, IsOpen, TypeOK
  <2>4. \A e \in Devices : acked[e] \subseteq acked'[e]
    BY DEF Pulls, records, TypeOK
  <2>5. \A e \in Devices, q \in Payments : rec[e][q] # "none" => rec'[e][q] # "none"
    BY DEF Pulls, records, TypeOK, Records, Notices
  <2>6. \A e \in Devices : \A q \in queue[e] : q \in queue'[e] \/ Settled(q)'
    BY DEF Pulls, work, TypeOK
  <2>7. UNCHANGED <<gone, holder, delta>> /\ (history' = history \/ Runs(holder))
    BY DEF Pulls, account, hand, Runs, TypeOK
  <2> QED BY <2>1, <2>2, <2>3, <2>4, <2>5, <2>6, <2>7 DEF Carries, TypeOK
<1>14. CASE \E d \in Devices : Pushes(d)
  <2> PICK d \in Devices : Pushes(d)
    BY <1>14
  <2>0. UNCHANGED journal => \A e \in Devices : Below(journal[e], journal'[e])
    BY <1>0
  <2>1. \A e \in Devices : Below(journal[e], journal'[e])
    BY <2>0 DEF Pushes, replica
  <2>2. \A e \in Devices : IsOpen(e) => IsOpen(e)'
    BY DEF Pushes, account, IsOpen, TypeOK
  <2>3. \A e \in Devices : (mode[e] = "handover" => mode'[e] = "handover") /\ (~ Runs(e) => ~ Runs(e)')
    BY DEF Pushes, account, Runs, IsOpen, TypeOK
  <2>4. \A e \in Devices : acked[e] \subseteq acked'[e]
    BY DEF Pushes, records, TypeOK
  <2>5. \A e \in Devices, q \in Payments : rec[e][q] # "none" => rec'[e][q] # "none"
    BY DEF Pushes, records, TypeOK, Records, Notices
  <2>6. \A e \in Devices : \A q \in queue[e] : q \in queue'[e] \/ Settled(q)'
    BY DEF Pushes, work, TypeOK
  <2>7. UNCHANGED <<gone, holder, delta>> /\ (history' = history \/ Runs(holder))
    BY DEF Pushes, account, hand, Runs, TypeOK
  <2> QED BY <2>1, <2>2, <2>3, <2>4, <2>5, <2>6, <2>7 DEF Carries, TypeOK
<1>15. CASE \E d \in Devices : Refused(d)
  <2> PICK d \in Devices : Refused(d)
    BY <1>15
  <2>0. UNCHANGED journal => \A e \in Devices : Below(journal[e], journal'[e])
    BY <1>0
  <2>1. \A e \in Devices : Below(journal[e], journal'[e])
    BY <2>0 DEF Refused, replica
  <2>2. \A e \in Devices : IsOpen(e) => IsOpen(e)'
    BY DEF Refused, account, IsOpen, TypeOK
  <2>3. \A e \in Devices : (mode[e] = "handover" => mode'[e] = "handover") /\ (~ Runs(e) => ~ Runs(e)')
    BY DEF Refused, account, Runs, IsOpen, TypeOK
  <2>4. \A e \in Devices : acked[e] \subseteq acked'[e]
    BY DEF Refused, records, TypeOK
  <2>5. \A e \in Devices, q \in Payments : rec[e][q] # "none" => rec'[e][q] # "none"
    BY DEF Refused, records, TypeOK, Records, Notices
  <2>6. \A e \in Devices : \A q \in queue[e] : q \in queue'[e] \/ Settled(q)'
    BY DEF Refused, work, TypeOK
  <2>7. UNCHANGED <<gone, holder, delta>> /\ (history' = history \/ Runs(holder))
    BY DEF Refused, account, hand, Runs, TypeOK
  <2> QED BY <2>1, <2>2, <2>3, <2>4, <2>5, <2>6, <2>7 DEF Carries, TypeOK
<1>16. CASE \E d \in Devices : SyncFails(d)
  <2> PICK d \in Devices : SyncFails(d)
    BY <1>16
  <2>0. UNCHANGED journal => \A e \in Devices : Below(journal[e], journal'[e])
    BY <1>0
  <2>1. \A e \in Devices : Below(journal[e], journal'[e])
    BY <2>0 DEF SyncFails, replica
  <2>2. \A e \in Devices : IsOpen(e) => IsOpen(e)'
    BY DEF SyncFails, account, IsOpen, TypeOK
  <2>3. \A e \in Devices : (mode[e] = "handover" => mode'[e] = "handover") /\ (~ Runs(e) => ~ Runs(e)')
    BY DEF SyncFails, account, Runs, IsOpen, TypeOK
  <2>4. \A e \in Devices : acked[e] \subseteq acked'[e]
    BY DEF SyncFails, records, TypeOK
  <2>5. \A e \in Devices, q \in Payments : rec[e][q] # "none" => rec'[e][q] # "none"
    BY DEF SyncFails, records, TypeOK, Records, Notices
  <2>6. \A e \in Devices : \A q \in queue[e] : q \in queue'[e] \/ Settled(q)'
    BY DEF SyncFails, work, TypeOK
  <2>7. UNCHANGED <<gone, holder, delta>> /\ (history' = history \/ Runs(holder))
    BY DEF SyncFails, account, hand, Runs, TypeOK
  <2> QED BY <2>1, <2>2, <2>3, <2>4, <2>5, <2>6, <2>7 DEF Carries, TypeOK
<1>17. CASE \E d \in Devices : UploadsHistory(d)
  <2> PICK d \in Devices : UploadsHistory(d)
    BY <1>17
  <2>0. UNCHANGED journal => \A e \in Devices : Below(journal[e], journal'[e])
    BY <1>0
  <2>1. \A e \in Devices : Below(journal[e], journal'[e])
    BY <2>0 DEF UploadsHistory, replica
  <2>2. \A e \in Devices : IsOpen(e) => IsOpen(e)'
    BY DEF UploadsHistory, account, IsOpen, TypeOK
  <2>3. \A e \in Devices : (mode[e] = "handover" => mode'[e] = "handover") /\ (~ Runs(e) => ~ Runs(e)')
    BY DEF UploadsHistory, account, Runs, IsOpen, TypeOK
  <2>4. \A e \in Devices : acked[e] \subseteq acked'[e]
    BY DEF UploadsHistory, records, TypeOK
  <2>5. \A e \in Devices, q \in Payments : rec[e][q] # "none" => rec'[e][q] # "none"
    BY DEF UploadsHistory, records, TypeOK, Records, Notices
  <2>6. \A e \in Devices : \A q \in queue[e] : q \in queue'[e] \/ Settled(q)'
    BY DEF UploadsHistory, work, TypeOK
  <2>7. UNCHANGED <<gone, holder, delta>> /\ (history' = history \/ Runs(holder))
    BY DEF UploadsHistory, account, hand, Runs, TypeOK
  <2> QED BY <2>1, <2>2, <2>3, <2>4, <2>5, <2>6, <2>7 DEF Carries, TypeOK
<1>18. CASE \E d \in Devices : Recomposes(d)
  <2> PICK d \in Devices : Recomposes(d)
    BY <1>18
  <2>0. UNCHANGED journal => \A e \in Devices : Below(journal[e], journal'[e])
    BY <1>0
  <2>1. \A e \in Devices : Below(journal[e], journal'[e])
    BY <2>0 DEF Recomposes, replica
  <2>2. \A e \in Devices : IsOpen(e) => IsOpen(e)'
    BY DEF Recomposes, account, IsOpen, TypeOK
  <2>3. \A e \in Devices : (mode[e] = "handover" => mode'[e] = "handover") /\ (~ Runs(e) => ~ Runs(e)')
    BY DEF Recomposes, account, Runs, IsOpen, TypeOK
  <2>4. \A e \in Devices : acked[e] \subseteq acked'[e]
    BY DEF Recomposes, records, TypeOK
  <2>5. \A e \in Devices, q \in Payments : rec[e][q] # "none" => rec'[e][q] # "none"
    BY DEF Recomposes, records, TypeOK, Records, Notices
  <2>6. \A e \in Devices : \A q \in queue[e] : q \in queue'[e] \/ Settled(q)'
    BY DEF Recomposes, work, TypeOK
  <2>7. UNCHANGED <<gone, holder, delta>> /\ (history' = history \/ Runs(holder))
    BY DEF Recomposes, account, hand, Runs, TypeOK
  <2> QED BY <2>1, <2>2, <2>3, <2>4, <2>5, <2>6, <2>7 DEF Carries, TypeOK
<1>19. CASE \E d \in Devices : Reopened(d)
  <2> PICK d \in Devices : Reopened(d)
    BY <1>19
  <2>0. UNCHANGED journal => \A e \in Devices : Below(journal[e], journal'[e])
    BY <1>0
  <2>1. \A e \in Devices : Below(journal[e], journal'[e])
    BY <2>0 DEF Reopened, replica
  <2>2. \A e \in Devices : IsOpen(e) => IsOpen(e)'
    BY DEF Reopened, account, IsOpen, TypeOK
  <2>3. \A e \in Devices : (mode[e] = "handover" => mode'[e] = "handover") /\ (~ Runs(e) => ~ Runs(e)')
    BY DEF Reopened, account, Runs, IsOpen, TypeOK
  <2>4. \A e \in Devices : acked[e] \subseteq acked'[e]
    BY DEF Reopened, records, TypeOK
  <2>5. \A e \in Devices, q \in Payments : rec[e][q] # "none" => rec'[e][q] # "none"
    BY DEF Reopened, records, TypeOK, Records, Notices
  <2>6. \A e \in Devices : \A q \in queue[e] : q \in queue'[e] \/ Settled(q)'
    BY DEF Reopened, work, TypeOK
  <2>7. UNCHANGED <<gone, holder, delta>> /\ (history' = history \/ Runs(holder))
    BY DEF Reopened, account, hand, Runs, TypeOK
  <2> QED BY <2>1, <2>2, <2>3, <2>4, <2>5, <2>6, <2>7 DEF Carries, TypeOK
<1>20. CASE \E d \in Devices : Tombstones(d)
  <2> PICK d \in Devices : Tombstones(d)
    BY <1>20
  <2>0. UNCHANGED journal => \A e \in Devices : Below(journal[e], journal'[e])
    BY <1>0
  <2> DEFINE owed == Unbroadcast(d) \cap journal[d].owed
  <2>a. [owed |-> {}, done |-> owed] \in Journals
    BY DEF Journals, Unbroadcast
  <2>1. \A e \in Devices : Below(journal[e], journal'[e])
    BY <2>a, JournalsOnlyGrow DEF Tombstones
  <2>2. \A e \in Devices : IsOpen(e) => IsOpen(e)'
    BY DEF Tombstones, account, IsOpen, TypeOK
  <2>3. \A e \in Devices : (mode[e] = "handover" => mode'[e] = "handover") /\ (~ Runs(e) => ~ Runs(e)')
    BY DEF Tombstones, account, Runs, IsOpen, TypeOK
  <2>4. \A e \in Devices : acked[e] \subseteq acked'[e]
    BY DEF Tombstones, records, TypeOK
  <2>5. \A e \in Devices, q \in Payments : rec[e][q] # "none" => rec'[e][q] # "none"
    BY DEF Tombstones, records, TypeOK, Records, Notices
  <2>6. \A e \in Devices : \A q \in queue[e] : q \in queue'[e] \/ Settled(q)'
    BY DEF Tombstones, work, TypeOK
  <2>7. UNCHANGED <<gone, holder, delta>> /\ (history' = history \/ Runs(holder))
    BY DEF Tombstones, account, hand, Runs, TypeOK
  <2> QED BY <2>1, <2>2, <2>3, <2>4, <2>5, <2>6, <2>7 DEF Carries, TypeOK
<1>21. CASE \E d \in Devices : Voids(d)
  <2> PICK d \in Devices : Voids(d)
    BY <1>21
  <2>0. UNCHANGED journal => \A e \in Devices : Below(journal[e], journal'[e])
    BY <1>0
  <2>1. \A e \in Devices : Below(journal[e], journal'[e])
    BY <2>0 DEF Voids, replica
  <2>2. \A e \in Devices : IsOpen(e) => IsOpen(e)'
    BY DEF Voids, account, IsOpen, TypeOK
  <2>3. \A e \in Devices : (mode[e] = "handover" => mode'[e] = "handover") /\ (~ Runs(e) => ~ Runs(e)')
    BY DEF Voids, account, Runs, IsOpen, TypeOK
  <2>4. \A e \in Devices : acked[e] \subseteq acked'[e]
    BY DEF Voids, records, TypeOK
  <2>5. \A e \in Devices, q \in Payments : rec[e][q] # "none" => rec'[e][q] # "none"
    BY DEF Voids, records, TypeOK, Records, Notices
  <2>6. \A e \in Devices : \A q \in queue[e] : q \in queue'[e] \/ Settled(q)'
    BY DEF Voids, work, TypeOK
  <2>7. UNCHANGED <<gone, holder, delta>> /\ (history' = history \/ Runs(holder))
    BY DEF Voids, account, hand, Runs, TypeOK
  <2> QED BY <2>1, <2>2, <2>3, <2>4, <2>5, <2>6, <2>7 DEF Carries, TypeOK
<1>22. CASE \E d \in Devices : Restarts(d)
  <2> PICK d \in Devices : Restarts(d)
    BY <1>22
  <2>0. UNCHANGED journal => \A e \in Devices : Below(journal[e], journal'[e])
    BY <1>0
  <2>1. \A e \in Devices : Below(journal[e], journal'[e])
    BY <2>0 DEF Restarts, replica
  <2>2. \A e \in Devices : IsOpen(e) => IsOpen(e)'
    BY DEF Restarts, account, IsOpen, TypeOK
  <2>3. \A e \in Devices : (mode[e] = "handover" => mode'[e] = "handover") /\ (~ Runs(e) => ~ Runs(e)')
    BY DEF Restarts, account, Runs, IsOpen, TypeOK
  <2>4. \A e \in Devices : acked[e] \subseteq acked'[e]
    BY DEF Restarts, records, TypeOK
  <2>5. \A e \in Devices, q \in Payments : rec[e][q] # "none" => rec'[e][q] # "none"
    BY DEF Restarts, records, TypeOK, Records, Notices
  <2>6. \A e \in Devices : \A q \in queue[e] : q \in queue'[e] \/ Settled(q)'
    BY DEF Restarts, work, TypeOK
  <2>7. UNCHANGED <<gone, holder, delta>> /\ (history' = history \/ Runs(holder))
    BY DEF Restarts, account, hand, Runs, TypeOK
  <2> QED BY <2>1, <2>2, <2>3, <2>4, <2>5, <2>6, <2>7 DEF Carries, TypeOK
<1> QED BY <1>1, <1>2, <1>3, <1>4, <1>5, <1>6, <1>7, <1>8, <1>9, <1>10, <1>11, <1>12, <1>13, <1>14, <1>15, <1>16, <1>17, <1>18, <1>19, <1>20, <1>21, <1>22 DEF Next

\* The steps by which an account changes hands, or an install is lost.
LEMMA FindsOutSafe ==
    ASSUME TypeOK, TypeOK', StaysSettled, Traces, Traces', Hosted,
           NEW d \in Devices, FindsOut(d)
    PROVE  StaysSafe /\ \A p \in Payments : rec[d][p] # "none" => Safe(p)'
<1>1. /\ UNCHANGED <<fate, told, gone, voided, holder, history, rec, acked, queue, journal, host, delta>>
      /\ \A e \in Devices \ {d} : mode'[e] = mode[e]
      /\ mode[d] = "open" /\ mode'[d] = "handover"
  BY DEF FindsOut, network, records, work, hand, TypeOK
<1>2. \A e \in Devices \ {d} : Carries(e)
  BY <1>1, BelowSelf DEF Carries, IsOpen, TypeOK
<1>3. Below(host, host') /\ (~ Runs(holder) => ~ Runs(holder)')
  BY <1>1, BelowSelf DEF Runs, TypeOK
<1>4. ASSUME NEW p \in Payments, rec[d][p] # "none" PROVE Safe(p)'
  <2>1. CASE rec[d][p] = "pending"
    BY <1>1, <2>1 DEF Safe, Kept, Keeps, Unbroadcast, Pending
  <2>2. CASE rec[d][p] \in {"delivered", "void"}
    BY <2>2, SettledIsSafeNext DEF Traces, RecordsSettled, IsSettledRecord, StaysSettled
  <2> QED BY <1>4, <2>1, <2>2 DEF TypeOK, Records, Notices
<1>5. ASSUME NEW p \in Payments, Safe(p) PROVE Safe(p)'
  <2>1. CASE Settled(p) \/ p \in gone
    BY <1>1, <2>1, SettledIsSafeNext DEF StaysSettled, Safe
  <2>2. CASE KeptOutside(p)
    BY <1>1, <1>3, <2>2, OutsideCarried
  <2>3. CASE \E e \in Devices \ {d} : Keeps(e, p)
    BY <1>2, <2>3, KeepsCarried
  <2>4. CASE Keeps(d, p) /\ rec[d][p] = "none"
    <3>1. p \in queue[d] \/ p \in journal[d].owed
      BY <1>1, <2>4 DEF Keeps, IsOpen, Owed, Pending
    <3>2. p \in host.owed \cup host.done
      BY <2>4, <3>1 DEF Hosted, Lingers
    <3>3. p \in host.done => Settled(p)'
      BY DEF Traces, HostSettled, StaysSettled, TypeOK, Journals
    <3> QED BY <1>1, <3>2, <3>3, SettledIsSafeNext DEF Safe, Kept, KeptOutside
  <2> QED BY <1>4, <1>5, <2>1, <2>2, <2>3, <2>4 DEF Safe, Settled, Kept
<1> QED BY <1>4, <1>5 DEF StaysSafe

LEMMA HandsOverSafe ==
    ASSUME TypeOK, TypeOK', StaysSettled, Traces, Traces', PostedAreVoided,
           NEW d \in Devices, HandsOver(d)
    PROVE  StaysSafe
<1>1. /\ UNCHANGED <<fate, told, gone, voided, holder, history, rec, acked, queue, journal, host>>
      /\ \A e \in Devices \ {d} : mode'[e] = mode[e]
      /\ mode[d] = "handover" /\ step[d] = "post" /\ mode'[d] = "displaced"
      /\ delta \subseteq delta'
      /\ acked[d] # {} => [rec |-> rec[d], acked |-> acked[d]] \in delta'
  BY DEF HandsOver, network, records, work, replica, TypeOK
<1>2. \A e \in Devices \ {d} : Carries(e)
  BY <1>1, BelowSelf DEF Carries, IsOpen, TypeOK
<1>3. Below(host, host') /\ (~ Runs(holder) => ~ Runs(holder)')
  BY <1>1, BelowSelf DEF Runs, TypeOK
<1> SUFFICES ASSUME NEW p \in Payments, Safe(p) PROVE Safe(p)'
  BY DEF StaysSafe
<1>4. CASE Settled(p) \/ p \in gone
  BY <1>1, <1>4, SettledIsSafeNext DEF StaysSettled, Safe
<1>5. CASE KeptOutside(p)
  BY <1>1, <1>3, <1>5, OutsideCarried
<1>6. CASE \E e \in Devices \ {d} : Keeps(e, p)
  BY <1>2, <1>6, KeepsCarried
<1>7. CASE Keeps(d, p)
  <2>1. p \in Unbroadcast(d) \cup Pending(rec[d], acked[d])
    BY <1>1, <1>7 DEF Keeps, IsOpen
  <2>2. CASE p \in Unbroadcast(d)
    BY <1>1, <2>2 DEF PostedAreVoided, Safe
  <2>3. CASE p \in Pending(rec[d], acked[d])
    <3> DEFINE doc == [rec |-> rec[d], acked |-> acked[d]]
    <3>1. doc \in delta' /\ p \in Pending(doc.rec, doc.acked)
      BY <1>1, <2>3 DEF Pending
    <3> QED BY <3>1 DEF Safe, Kept, KeptOutside
  <2> QED BY <2>1, <2>2, <2>3
<1> QED BY <1>4, <1>5, <1>6, <1>7 DEF Safe, Settled, Kept

LEMMA ReceivesCarries ==
    ASSUME TypeOK, NEW d \in Devices, Receives(d)
    PROVE  \A e \in Devices : Carries(e)
<1>1. UNCHANGED <<mode, queue, journal>>
  BY DEF Receives, account, work
<1>2. \A e \in Devices : Below(journal[e], journal[e])
  BY BelowSelf DEF TypeOK
<1> PICK doc \in delta :
      /\ rec' = [rec EXCEPT ![d] =
                  [p \in Payments |->
                      IF p \in doc.acked /\ (@[p] = "none" \/ doc.rec[p] = "delivered")
                      THEN doc.rec[p] ELSE @[p]]]
      /\ acked' = [acked EXCEPT ![d] = @ \cup doc.acked]
  BY DEF Receives
<1>3. \A e \in Devices, p \in Payments : rec[e][p] # "none" => rec'[e][p] # "none"
  BY DEF TypeOK
<1>4. \A e \in Devices : acked[e] \subseteq acked'[e]
  BY DEF TypeOK
<1> QED BY <1>1, <1>2, <1>3, <1>4 DEF Carries, IsOpen

LEMMA ReceivesSafe ==
    ASSUME TypeOK, TypeOK', StaysSettled, Traces, Traces', NEW d \in Devices, Receives(d)
    PROVE  StaysSafe
<1>1. UNCHANGED <<fate, told, gone, voided, holder, history, mode, queue, journal, host>>
  BY DEF Receives, network, account, work
<1> PICK doc \in delta :
      /\ rec' = [rec EXCEPT ![d] =
                  [p \in Payments |->
                      IF p \in doc.acked /\ (@[p] = "none" \/ doc.rec[p] = "delivered")
                      THEN doc.rec[p] ELSE @[p]]]
      /\ acked' = [acked EXCEPT ![d] = @ \cup doc.acked]
      /\ delta' = delta \ {doc}
  BY DEF Receives
<1>2. mode'[d] = "open"
  BY <1>1 DEF Receives
<1> SUFFICES ASSUME NEW p \in Payments, Safe(p) PROVE Safe(p)'
  BY DEF StaysSafe
<1>3. CASE Settled(p) \/ p \in gone
  BY <1>1, <1>3, SettledIsSafeNext DEF StaysSettled, Safe
<1>4. CASE \E e \in Devices : Keeps(e, p)
  BY <1>4, ReceivesCarries, KeepsCarried
<1>5. CASE p \in Pending(doc.rec, doc.acked)
  <2>1. p \in acked'[d]
    BY <1>5 DEF Pending, TypeOK
  <2>2. rec'[d][p] = IF rec[d][p] = "none" THEN "pending" ELSE rec[d][p]
    BY <1>5 DEF Pending, TypeOK
  <2>3. CASE rec[d][p] \in {"none", "pending"}
    BY <1>2, <2>1, <2>2, <2>3 DEF Safe, Kept, Keeps, IsOpen, Owed, Pending
  <2>4. CASE rec[d][p] \in {"delivered", "void"}
    BY <2>4, SettledIsSafeNext DEF Traces, RecordsSettled, IsSettledRecord, StaysSettled
  <2> QED BY <2>3, <2>4 DEF TypeOK, Records, Notices
<1>6. CASE KeptOutside(p) /\ p \notin Pending(doc.rec, doc.acked)
  BY <1>1, <1>6 DEF Safe, Kept, KeptOutside, Runs
<1> QED BY <1>3, <1>4, <1>5, <1>6 DEF Safe, Settled, Kept

LEMMA RestoresSafe ==
    ASSUME TypeOK, TypeOK', StaysSettled, Traces, Traces', NEW d \in Devices, Restores(d)
    PROVE  StaysSafe
<1>1. /\ UNCHANGED <<fate, told, gone, voided, history, queue, journal, host, delta>>
      /\ \A e \in Devices \ {d} : UNCHANGED <<mode[e], rec[e], acked[e]>>
      /\ mode[d] = "fresh" /\ mode'[d] = "restoring"
      /\ rec'[d] = history.rec /\ acked'[d] = history.acked
  BY DEF Restores, network, work, hand, TypeOK
<1>2. \A e \in Devices \ {d} : Carries(e)
  BY <1>1, BelowSelf DEF Carries, IsOpen, TypeOK
<1> SUFFICES ASSUME NEW p \in Payments, Safe(p) PROVE Safe(p)'
  BY DEF StaysSafe
<1>3. CASE Settled(p) \/ p \in gone
  BY <1>1, <1>3, SettledIsSafeNext DEF StaysSettled, Safe
<1>4. CASE \E e \in Devices : Keeps(e, p)
  <2>1. ~ Keeps(d, p)
    BY <1>1 DEF Keeps, IsOpen
  <2> QED BY <1>2, <1>4, <2>1, KeepsCarried
<1>5. CASE p \in host.owed \/ \E doc \in delta : p \in Pending(doc.rec, doc.acked)
  BY <1>1, <1>5 DEF Safe, Kept, KeptOutside
<1>6. CASE p \in Pending(history.rec, history.acked)
  BY <1>1, <1>6 DEF Safe, Kept, Keeps, IsOpen, Owed
<1> QED BY <1>3, <1>4, <1>5, <1>6 DEF Safe, Settled, Kept, KeptOutside

LEMMA LosesSafe ==
    ASSUME TypeOK, TypeOK', StaysSettled, Traces, Traces', NEW d \in Devices, Loses(d)
    PROVE  StaysSafe
<1>1. /\ UNCHANGED <<fate, told, voided, holder, history, host, delta>>
      /\ \A e \in Devices \ {d} : UNCHANGED <<mode[e], rec[e], acked[e], queue[e], journal[e]>>
      /\ mode'[d] = "lost" /\ gone \subseteq gone'
  BY DEF Loses, network, hand, TypeOK
<1>2. \A e \in Devices \ {d} : Carries(e)
  BY <1>1, BelowSelf DEF Carries, IsOpen, TypeOK
<1>3. Below(host, host') /\ (~ Runs(holder) => ~ Runs(holder)')
  BY <1>1, BelowSelf DEF Runs, TypeOK
<1> SUFFICES ASSUME NEW p \in Payments, Safe(p) PROVE Safe(p)'
  BY DEF StaysSafe
<1>4. CASE Settled(p) \/ p \in gone
  BY <1>1, <1>4, SettledIsSafeNext DEF StaysSettled, Safe
<1>5. CASE KeptOutside(p)
  BY <1>1, <1>3, <1>5, OutsideCarried
<1>6. CASE \E e \in Devices \ {d} : Keeps(e, p)
  BY <1>2, <1>6, KeepsCarried
<1>7. CASE Keeps(d, p) /\ \A e \in Devices \ {d} : ~ Keeps(e, p)
  <2>1. p \in gone' \/ p \in told \/ KeptOutside(p)'
    BY <1>7 DEF Loses
  <2> QED BY <1>1, <2>1 DEF Safe, Kept
<1> QED BY <1>4, <1>5, <1>6, <1>7 DEF Safe, Settled, Kept

LEMMA SafeStays ==
    ASSUME TypeOK, TypeOK', PushKept, Conditional, StaysSettled, Traces, Traces', Hosted,
           PostedAreVoided, Next
    PROVE  StaysSafe
<1>1. CASE \E d \in Devices : FindsOut(d) \/ HandsOver(d) \/ Receives(d) \/ Restores(d) \/ Loses(d)
  BY <1>1, FindsOutSafe, HandsOverSafe, ReceivesSafe, RestoresSafe, LosesSafe
<1>2. CASE \A d \in Devices : ~ (FindsOut(d) \/ HandsOver(d) \/ Receives(d) \/ Restores(d) \/ Loses(d))
  <2>1. Below(host, host')
    BY HostStep, BelowSelf DEF TypeOK
  <2> QED BY <1>2, <2>1, OrdinaryStep, SafeCarried DEF Outside
<1> QED BY <1>1, <1>2

LEMMA LingersStep ==
    ASSUME TypeOK, Next, NEW e \in Devices, NEW q \in Payments, Lingers(e, q)'
    PROVE  Lingers(e, q) \/ rec'[e][q] # "none" \/ q \in host.owed
<1>1. CASE \E d \in Devices : \E p \in Payments : Signs(d, p)
  BY <1>1 DEF Signs, Lingers, replica, TypeOK, Records
<1>2. CASE \E d \in Devices : \E p \in Payments : Seals(d, p)
  BY <1>2 DEF Seals, Lingers, Appends, Admit, Owes, TypeOK
<1>3. CASE \E d \in Devices : \E p \in Payments : Accepts(d, p)
  BY <1>3 DEF Accepts, Lingers, work, replica
<1>4. CASE \E d \in Devices : \E p \in Payments : Queues(d, p)
  BY <1>4 DEF Queues, Lingers, work, replica
<1>5. CASE \E d \in Devices : \E p \in Payments : Rejects(d, p)
  <2> PICK d \in Devices, p \in Payments : Rejects(d, p)
    BY <1>5
  <2>1. journal'[e].owed \subseteq journal[e].owed
    <3>1. CASE Appends(d, Done(p))
      BY <3>1 DEF Appends, Admit, Done, TypeOK
    <3>2. CASE UNCHANGED journal
      BY <3>2
    <3> QED BY <3>1, <3>2 DEF Rejects
  <2> QED BY <2>1 DEF Rejects, Lingers
<1>6. CASE \E p \in Payments : PayeePosts(p)
  BY <1>6 DEF PayeePosts, Lingers, work, replica
<1>7. CASE \E d \in Devices : \E p \in Payments : Attempts(d, p)
  <2> PICK d \in Devices, p \in Payments : Attempts(d, p)
    BY <1>7
  <2>1. journal'[e].owed \subseteq journal[e].owed
    <3>1. CASE Appends(d, Done(p))
      BY <3>1 DEF Appends, Admit, Done, TypeOK
    <3>2. CASE UNCHANGED journal
      BY <3>2
    <3> QED BY <3>1, <3>2 DEF Attempts
  <2>2. queue'[e] \subseteq queue[e]
    <3>1. CASE UNCHANGED queue
      BY <3>1
    <3>2. CASE queue' = [queue EXCEPT ![d] = @ \ {p}]
      BY <3>2 DEF TypeOK
    <3> QED BY <3>1, <3>2 DEF Attempts
  <2>3. job'[e][q] = job[e][q] \/ (e = d /\ q = p)
    <3>1. CASE UNCHANGED job
      BY <3>1
    <3>2. CASE job' = [job EXCEPT ![d][p] = "sending"]
      BY <3>2 DEF TypeOK
    <3>3. CASE job' = [job EXCEPT ![d][p] = "marking"]
      BY <3>3 DEF TypeOK
    <3> QED BY <3>1, <3>2, <3>3 DEF Attempts
  <2>4. p \in queue[d]
    BY DEF Attempts
  <2> QED BY <2>1, <2>2, <2>3, <2>4 DEF Lingers
<1>8. CASE \E d \in Devices : \E p \in Payments : Tells(d, p)
  BY <1>8 DEF Tells, Lingers, Appends, Admit, Done, TypeOK
<1>9. CASE \E d \in Devices : \E p \in Payments : Misses(d, p)
  BY <1>9 DEF Misses, Lingers, replica, TypeOK
<1>10. CASE \E d \in Devices : \E p \in Payments : Marks(d, p)
  BY <1>10 DEF Marks, Lingers, replica, TypeOK
<1>11. CASE \E d \in Devices : Reopens(d)
  BY <1>11 DEF Reopens, Lingers, Owed, Pending, records, replica, TypeOK
<1>12. CASE \E d \in Devices : Fires(d)
  BY <1>12 DEF Fires, Lingers, work, replica
<1>13. CASE \E d \in Devices : Pulls(d)
  BY <1>13 DEF Pulls, Lingers, Appends, Admit, work, TypeOK
<1>14. CASE \E d \in Devices : Pushes(d)
  BY <1>14 DEF Pushes, Lingers, work, replica
<1>15. CASE \E d \in Devices : Refused(d)
  BY <1>15 DEF Refused, Lingers, work, replica
<1>16. CASE \E d \in Devices : SyncFails(d)
  BY <1>16 DEF SyncFails, Lingers, work, replica
<1>17. CASE \E d \in Devices : UploadsHistory(d)
  BY <1>17 DEF UploadsHistory, Lingers, work, replica
<1>18. CASE \E d \in Devices : Restores(d)
  BY <1>18 DEF Restores, Lingers, work, replica
<1>19. CASE \E d \in Devices : Recomposes(d)
  BY <1>19 DEF Recomposes, Lingers, work, replica
<1>20. CASE \E d \in Devices : Reopened(d)
  BY <1>20 DEF Reopened, Lingers, replica
<1>21. CASE \E d \in Devices : FindsOut(d)
  BY <1>21 DEF FindsOut, Lingers, work, replica
<1>22. CASE \E d \in Devices : Tombstones(d)
  BY <1>22 DEF Tombstones, Lingers, Appends, Admit, work, TypeOK
<1>23. CASE \E d \in Devices : Voids(d)
  BY <1>23 DEF Voids, Lingers, work, replica
<1>24. CASE \E d \in Devices : HandsOver(d)
  BY <1>24 DEF HandsOver, Lingers, work, replica
<1>25. CASE \E d \in Devices : Receives(d)
  BY <1>25 DEF Receives, Lingers, work, replica
<1>26. CASE \E d \in Devices : Restarts(d)
  BY <1>26 DEF Restarts, Lingers, Idle, TypeOK
<1>27. CASE \E d \in Devices : Loses(d)
  BY <1>27 DEF Loses, Lingers, Idle, NoEntries, TypeOK
<1> QED BY <1>1, <1>2, <1>3, <1>4, <1>5, <1>6, <1>7, <1>8, <1>9, <1>10, <1>11, <1>12, <1>13, <1>14, <1>15, <1>16, <1>17, <1>18, <1>19, <1>20, <1>21, <1>22, <1>23, <1>24, <1>25, <1>26, <1>27 DEF Next

LEMMA FreshStep ==
    ASSUME TypeOK, Next, NEW e \in Devices, mode'[e] = "fresh"
    PROVE  /\ mode[e] = "fresh" /\ queue'[e] \subseteq queue[e] /\ job'[e] = job[e]
           /\ journal'[e].owed \subseteq journal[e].owed
<1>1. CASE \E d \in Devices : \E p \in Payments : Signs(d, p)
  BY <1>1 DEF Signs, account, replica, TypeOK
<1>2. CASE \E d \in Devices : \E p \in Payments : Seals(d, p)
  BY <1>2 DEF Seals, Runs, Appends, account, TypeOK
<1>3. CASE \E d \in Devices : \E p \in Payments : Accepts(d, p)
  BY <1>3 DEF Accepts, account, replica, TypeOK
<1>4. CASE \E d \in Devices : \E p \in Payments : Queues(d, p)
  BY <1>4 DEF Queues, account, replica, TypeOK
<1>5. CASE \E d \in Devices : \E p \in Payments : Rejects(d, p)
  <2> PICK d \in Devices, p \in Payments : Rejects(d, p)
    BY <1>5
  <2>1. mode' = mode /\ e # d
    BY DEF Rejects, account, IsOpen, Runs
  <2>2. journal'[e] = journal[e]
    BY <2>1 DEF Rejects, Appends, TypeOK
  <2>3. queue'[e] = queue[e] /\ job'[e] = job[e]
    BY <2>1 DEF Rejects, TypeOK
  <2> QED BY <2>1, <2>2, <2>3
<1>6. CASE \E p \in Payments : PayeePosts(p)
  BY <1>6 DEF PayeePosts, account, work, replica, TypeOK
<1>7. CASE \E d \in Devices : \E p \in Payments : Attempts(d, p)
  <2> PICK d \in Devices, p \in Payments : Attempts(d, p)
    BY <1>7
  <2>1. mode' = mode /\ e # d
    BY DEF Attempts, account, IsOpen, Runs
  <2>2. journal'[e] = journal[e]
    BY <2>1 DEF Attempts, Appends, TypeOK
  <2>3. queue'[e] = queue[e] /\ job'[e] = job[e]
    BY <2>1 DEF Attempts, TypeOK
  <2> QED BY <2>1, <2>2, <2>3
<1>8. CASE \E d \in Devices : \E p \in Payments : Tells(d, p)
  BY <1>8 DEF Tells, Runs, Appends, account, TypeOK
<1>9. CASE \E d \in Devices : \E p \in Payments : Misses(d, p)
  BY <1>9 DEF Misses, Runs, account, replica, TypeOK
<1>10. CASE \E d \in Devices : \E p \in Payments : Marks(d, p)
  BY <1>10 DEF Marks, Runs, account, replica, TypeOK
<1>11. CASE \E d \in Devices : Reopens(d)
  BY <1>11 DEF Reopens, IsOpen, account, replica, TypeOK
<1>12. CASE \E d \in Devices : Fires(d)
  BY <1>12 DEF Fires, account, work, TypeOK
<1>13. CASE \E d \in Devices : Pulls(d)
  BY <1>13 DEF Pulls, Runs, Appends, account, work, TypeOK
<1>14. CASE \E d \in Devices : Pushes(d)
  BY <1>14 DEF Pushes, account, work, TypeOK
<1>15. CASE \E d \in Devices : Refused(d)
  BY <1>15 DEF Refused, account, work, TypeOK
<1>16. CASE \E d \in Devices : SyncFails(d)
  BY <1>16 DEF SyncFails, account, work, TypeOK
<1>17. CASE \E d \in Devices : UploadsHistory(d)
  BY <1>17 DEF UploadsHistory, work, replica, TypeOK
<1>18. CASE \E d \in Devices : Restores(d)
  BY <1>18 DEF Restores, work, TypeOK
<1>19. CASE \E d \in Devices : Recomposes(d)
  BY <1>19 DEF Recomposes, account, work, TypeOK
<1>20. CASE \E d \in Devices : Reopened(d)
  BY <1>20 DEF Reopened, replica, TypeOK
<1>21. CASE \E d \in Devices : FindsOut(d)
  BY <1>21 DEF FindsOut, work, TypeOK
<1>22. CASE \E d \in Devices : Tombstones(d)
  BY <1>22 DEF Tombstones, account, Appends, work, TypeOK
<1>23. CASE \E d \in Devices : Voids(d)
  BY <1>23 DEF Voids, account, work, replica, TypeOK
<1>24. CASE \E d \in Devices : HandsOver(d)
  BY <1>24 DEF HandsOver, work, replica, TypeOK
<1>25. CASE \E d \in Devices : Receives(d)
  BY <1>25 DEF Receives, account, work, TypeOK
<1>26. CASE \E d \in Devices : Restarts(d)
  BY <1>26 DEF Restarts, Runs, TypeOK
<1>27. CASE \E d \in Devices : Loses(d)
  BY <1>27 DEF Loses, Runs, TypeOK
<1> QED BY <1>1, <1>2, <1>3, <1>4, <1>5, <1>6, <1>7, <1>8, <1>9, <1>10, <1>11, <1>12, <1>13, <1>14, <1>15, <1>16, <1>17, <1>18, <1>19, <1>20, <1>21, <1>22, <1>23, <1>24, <1>25, <1>26, <1>27 DEF Next

LEMMA PostedStep ==
    ASSUME TypeOK, PostedAreVoided, Next
    PROVE  PostedAreVoided'
<1> SUFFICES ASSUME NEW e \in Devices, mode'[e] = "handover", step'[e] = "post",
                    NEW q \in Payments, rec'[e][q] \in {"pending", "delivered"}, q \notin acked'[e]
             PROVE  q \in voided'
  BY DEF PostedAreVoided, Unbroadcast
<1>0. mode[e] = "handover" /\ step[e] = "post" /\ rec[e][q] \in {"pending", "delivered"} /\ q \notin acked[e]
      => q \in voided
  BY DEF PostedAreVoided, Unbroadcast
<1>1. CASE \E d \in Devices : \E p \in Payments : Signs(d, p)
  BY <1>0, <1>1 DEF Signs, account, hand, Records, TypeOK
<1>2. CASE \E d \in Devices : \E p \in Payments : Seals(d, p)
  BY <1>0, <1>2 DEF Seals, account, hand, TypeOK
<1>3. CASE \E d \in Devices : \E p \in Payments : Accepts(d, p)
  BY <1>0, <1>3 DEF Accepts, account, hand, TypeOK
<1>4. CASE \E d \in Devices : \E p \in Payments : Queues(d, p)
  BY <1>0, <1>4 DEF Queues, account, records, hand, TypeOK
<1>5. CASE \E d \in Devices : \E p \in Payments : Rejects(d, p)
  <2> PICK d \in Devices, p \in Payments : Rejects(d, p)
    BY <1>5
  <2>1. rec'[e][q] \in {"pending", "delivered"} => rec[e][q] \in {"pending", "delivered"}
    <3>1. \A s \in Notices : [rec EXCEPT ![d][p] = s][e][q] = IF e = d /\ q = p THEN s ELSE rec[e][q]
      BY DEF TypeOK, Records
    <3>2. rec[d][p] \in Notices /\ "delivered" \in Notices /\ "void" \in Notices
      BY DEF TypeOK, Records, Notices
    <3> QED BY <3>1, <3>2 DEF Rejects
  <2> QED BY <1>0, <2>1 DEF Rejects, account, hand
<1>6. CASE \E p \in Payments : PayeePosts(p)
  BY <1>0, <1>6 DEF PayeePosts, account, records, hand, TypeOK
<1>7. CASE \E d \in Devices : \E p \in Payments : Attempts(d, p)
  BY <1>0, <1>7 DEF Attempts, account, records, hand, TypeOK
<1>8. CASE \E d \in Devices : \E p \in Payments : Tells(d, p)
  BY <1>0, <1>8 DEF Tells, account, records, hand, TypeOK
<1>9. CASE \E d \in Devices : \E p \in Payments : Misses(d, p)
  BY <1>0, <1>9 DEF Misses, account, records, hand, TypeOK
<1>10. CASE \E d \in Devices : \E p \in Payments : Marks(d, p)
  <2> PICK d \in Devices, p \in Payments : Marks(d, p)
    BY <1>10
  <2>1. rec'[e][q] \in {"pending", "delivered"} => rec[e][q] \in {"pending", "delivered"}
    <3>1. \A s \in Notices : [rec EXCEPT ![d][p] = s][e][q] = IF e = d /\ q = p THEN s ELSE rec[e][q]
      BY DEF TypeOK, Records
    <3>2. rec[d][p] \in Notices /\ "delivered" \in Notices /\ "void" \in Notices
      BY DEF TypeOK, Records, Notices
    <3> QED BY <3>1, <3>2 DEF Marks
  <2> QED BY <1>0, <2>1 DEF Marks, account, hand
<1>11. CASE \E d \in Devices : Reopens(d)
  BY <1>0, <1>11 DEF Reopens, account, records, hand, TypeOK
<1>12. CASE \E d \in Devices : Fires(d)
  BY <1>0, <1>12 DEF Fires, account, records, hand, TypeOK
<1>13. CASE \E d \in Devices : Pulls(d)
  <2> PICK d \in Devices : Pulls(d)
    BY <1>13
  <2>1. step'[e] = "post" => step[e] = "post"
    BY DEF Pulls, AfterRun, TypeOK
  <2> QED BY <1>0, <2>1 DEF Pulls, account, records, hand
<1>14. CASE \E d \in Devices : Pushes(d)
  <2> PICK d \in Devices : Pushes(d)
    BY <1>14
  <2>1. step'[e] = "post" => step[e] = "post"
    BY DEF Pushes, AfterRun, TypeOK
  <2> QED BY <1>0, <2>1 DEF Pushes, account, records, hand
<1>15. CASE \E d \in Devices : Refused(d)
  BY <1>0, <1>15 DEF Refused, account, records, hand, TypeOK
<1>16. CASE \E d \in Devices : SyncFails(d)
  <2> PICK d \in Devices : SyncFails(d)
    BY <1>16
  <2>1. step'[e] = "post" => step[e] = "post"
    BY DEF SyncFails, AfterRun, TypeOK
  <2> QED BY <1>0, <2>1 DEF SyncFails, account, records, hand
<1>17. CASE \E d \in Devices : UploadsHistory(d)
  BY <1>0, <1>17 DEF UploadsHistory, records, hand, TypeOK
<1>18. CASE \E d \in Devices : Restores(d)
  BY <1>0, <1>18 DEF Restores, hand, TypeOK
<1>19. CASE \E d \in Devices : Recomposes(d)
  BY <1>0, <1>19 DEF Recomposes, account, records, hand, TypeOK
<1>20. CASE \E d \in Devices : Reopened(d)
  BY <1>0, <1>20 DEF Reopened, hand, TypeOK
<1>21. CASE \E d \in Devices : FindsOut(d)
  BY <1>0, <1>21 DEF FindsOut, records, hand, TypeOK
<1>22. CASE \E d \in Devices : Tombstones(d)
  BY <1>0, <1>22 DEF Tombstones, account, records, TypeOK
<1>23. CASE \E d \in Devices : Voids(d)
  <2> PICK d \in Devices : Voids(d)
    BY <1>23
  <2>1. mode' = mode /\ acked' = acked /\ voided' = voided \cup Unbroadcast(d)
    BY DEF Voids, account
  <2>2. CASE e = d
    <3>1. rec'[d][q] = IF q \in Unbroadcast(d) THEN "void" ELSE rec[d][q]
      BY DEF Voids, TypeOK
    <3> QED BY <2>1, <2>2, <3>1 DEF Unbroadcast
  <2>3. CASE e # d
    BY <1>0, <2>1, <2>3 DEF Voids, TypeOK
  <2> QED BY <2>2, <2>3
<1>24. CASE \E d \in Devices : HandsOver(d)
  BY <1>0, <1>24 DEF HandsOver, records, TypeOK
<1>25. CASE \E d \in Devices : Receives(d)
  BY <1>0, <1>25 DEF Receives, account, TypeOK
<1>26. CASE \E d \in Devices : Restarts(d)
  BY <1>0, <1>26 DEF Restarts, records, hand, TypeOK
<1>27. CASE \E d \in Devices : Loses(d)
  BY <1>0, <1>27 DEF Loses, hand, TypeOK
<1> QED BY <1>1, <1>2, <1>3, <1>4, <1>5, <1>6, <1>7, <1>8, <1>9, <1>10, <1>11, <1>12, <1>13, <1>14, <1>15, <1>16, <1>17, <1>18, <1>19, <1>20, <1>21, <1>22, <1>23, <1>24, <1>25, <1>26, <1>27 DEF Next

LEMMA SealingStep ==
    ASSUME TypeOK, Next, NEW e \in Devices, NEW q \in Payments, job'[e][q] = "sealing"
    PROVE  \/ job[e][q] = "sealing"
           \/ IsOpen(e)' /\ rec'[e][q] # "none"
<1>1. CASE \E d \in Devices : \E p \in Payments : Signs(d, p)
  BY <1>1 DEF Signs, account, IsOpen, Records, TypeOK
<1>2. CASE \E d \in Devices : \E p \in Payments : Seals(d, p)
  BY <1>2 DEF Seals, Runs, account, IsOpen, TypeOK
<1>3. CASE \E d \in Devices : \E p \in Payments : Accepts(d, p)
  BY <1>3 DEF Accepts, TypeOK
<1>4. CASE \E d \in Devices : \E p \in Payments : Queues(d, p)
  BY <1>4 DEF Queues, TypeOK
<1>5. CASE \E d \in Devices : \E p \in Payments : Rejects(d, p)
  BY <1>5 DEF Rejects, TypeOK
<1>6. CASE \E p \in Payments : PayeePosts(p)
  BY <1>6 DEF PayeePosts, work, TypeOK
<1>7. CASE \E d \in Devices : \E p \in Payments : Attempts(d, p)
  <2> PICK d \in Devices, p \in Payments : Attempts(d, p)
    BY <1>7
  <2>1. CASE UNCHANGED job
    BY <2>1 DEF Attempts
  <2>2. CASE job' = [job EXCEPT ![d][p] = "sending"]
    BY <2>2 DEF Attempts, TypeOK
  <2>3. CASE job' = [job EXCEPT ![d][p] = "marking"]
    BY <2>3 DEF Attempts, TypeOK
  <2> QED BY <2>1, <2>2, <2>3 DEF Attempts
<1>8. CASE \E d \in Devices : \E p \in Payments : Tells(d, p)
  BY <1>8 DEF Tells, Runs, account, IsOpen, TypeOK
<1>9. CASE \E d \in Devices : \E p \in Payments : Misses(d, p)
  BY <1>9 DEF Misses, Runs, account, IsOpen, TypeOK
<1>10. CASE \E d \in Devices : \E p \in Payments : Marks(d, p)
  BY <1>10 DEF Marks, Runs, account, IsOpen, TypeOK
<1>11. CASE \E d \in Devices : Reopens(d)
  BY <1>11 DEF Reopens, TypeOK
<1>12. CASE \E d \in Devices : Fires(d)
  BY <1>12 DEF Fires, work, TypeOK
<1>13. CASE \E d \in Devices : Pulls(d)
  BY <1>13 DEF Pulls, work, TypeOK
<1>14. CASE \E d \in Devices : Pushes(d)
  BY <1>14 DEF Pushes, work, TypeOK
<1>15. CASE \E d \in Devices : Refused(d)
  BY <1>15 DEF Refused, work, TypeOK
<1>16. CASE \E d \in Devices : SyncFails(d)
  BY <1>16 DEF SyncFails, work, TypeOK
<1>17. CASE \E d \in Devices : UploadsHistory(d)
  BY <1>17 DEF UploadsHistory, work, TypeOK
<1>18. CASE \E d \in Devices : Restores(d)
  BY <1>18 DEF Restores, work, TypeOK
<1>19. CASE \E d \in Devices : Recomposes(d)
  BY <1>19 DEF Recomposes, work, TypeOK
<1>20. CASE \E d \in Devices : Reopened(d)
  BY <1>20 DEF Reopened, TypeOK
<1>21. CASE \E d \in Devices : FindsOut(d)
  BY <1>21 DEF FindsOut, work, TypeOK
<1>22. CASE \E d \in Devices : Tombstones(d)
  BY <1>22 DEF Tombstones, work, TypeOK
<1>23. CASE \E d \in Devices : Voids(d)
  BY <1>23 DEF Voids, work, TypeOK
<1>24. CASE \E d \in Devices : HandsOver(d)
  BY <1>24 DEF HandsOver, work, TypeOK
<1>25. CASE \E d \in Devices : Receives(d)
  BY <1>25 DEF Receives, work, TypeOK
<1>26. CASE \E d \in Devices : Restarts(d)
  BY <1>26 DEF Restarts, Idle, TypeOK
<1>27. CASE \E d \in Devices : Loses(d)
  BY <1>27 DEF Loses, Idle, TypeOK
<1> QED BY <1>1, <1>2, <1>3, <1>4, <1>5, <1>6, <1>7, <1>8, <1>9, <1>10, <1>11, <1>12, <1>13, <1>14, <1>15, <1>16, <1>17, <1>18, <1>19, <1>20, <1>21, <1>22, <1>23, <1>24, <1>25, <1>26, <1>27 DEF Next

LEMMA ExposedStep ==
    ASSUME TypeOK, TypeOK', StaysSafe, Traces', ExposedIsSafe, SealingIsOpen, Next
    PROVE  ExposedIsSafe'
<1> SUFFICES ASSUME NEW q \in Payments, Exposed(q)', ~ Exposed(q) PROVE Safe(q)'
  BY DEF ExposedIsSafe, StaysSafe
<1>0. Settled(q)' => Safe(q)'
  BY SettledIsSafeNext
<1>1. CASE \E d \in Devices : \E p \in Payments : Signs(d, p)
  BY <1>1 DEF Signs, Exposed, records, TypeOK
<1>2. CASE \E d \in Devices : \E p \in Payments : Seals(d, p)
  <2> PICK d \in Devices, p \in Payments : Seals(d, p)
    BY <1>2
  <2>1. q = p
    BY DEF Seals, Exposed, network, TypeOK
  <2>2. CASE Safe(p)
    BY <2>1, <2>2 DEF StaysSafe
  <2>3. CASE IsOpen(d)
    <3>1. p \in journal'[d].owed \cup journal'[d].done
      BY DEF Seals, Appends, Admit, Owes, TypeOK
    <3>2. p \in journal'[d].done => Settled(p)'
      BY DEF Traces, JournalsSettled
    <3>3. IsOpen(d)'
      BY <2>3 DEF Seals, account, IsOpen
    <3>4. p \in journal'[d].owed => Keeps(d, p)'
      BY <3>3 DEF Keeps, Owed
    <3> QED BY <1>0, <2>1, <3>1, <3>2, <3>4 DEF Safe, Kept
  <2> QED BY <2>2, <2>3 DEF Seals, SealingIsOpen
<1>3. CASE \E d \in Devices : \E p \in Payments : Accepts(d, p)
  BY <1>3 DEF Accepts, Exposed, TypeOK
<1>4. CASE \E d \in Devices : \E p \in Payments : Queues(d, p)
  BY <1>4 DEF Queues, Exposed, records, TypeOK
<1>5. CASE \E d \in Devices : \E p \in Payments : Rejects(d, p)
  BY <1>5 DEF Rejects, Exposed, TypeOK
<1>6. CASE \E p \in Payments : PayeePosts(p)
  <2> PICK p \in Payments : PayeePosts(p)
    BY <1>6
  <2>1. q = p /\ p \in told'
    BY DEF PayeePosts, Exposed, records, TypeOK
  <2> QED BY <1>0, <2>1 DEF Settled
<1>7. CASE \E d \in Devices : \E p \in Payments : Attempts(d, p)
  BY <1>7 DEF Attempts, Exposed, network, records, TypeOK
<1>8. CASE \E d \in Devices : \E p \in Payments : Tells(d, p)
  BY <1>8 DEF Tells, Exposed, network, records, TypeOK
<1>9. CASE \E d \in Devices : \E p \in Payments : Misses(d, p)
  BY <1>9 DEF Misses, Exposed, network, records, TypeOK
<1>10. CASE \E d \in Devices : \E p \in Payments : Marks(d, p)
  BY <1>10 DEF Marks, Exposed, network, records, TypeOK
<1>11. CASE \E d \in Devices : Reopens(d)
  BY <1>11 DEF Reopens, Exposed, network, records, TypeOK
<1>12. CASE \E d \in Devices : Fires(d)
  BY <1>12 DEF Fires, Exposed, network, records, TypeOK
<1>13. CASE \E d \in Devices : Pulls(d)
  BY <1>13 DEF Pulls, Exposed, network, records, TypeOK
<1>14. CASE \E d \in Devices : Pushes(d)
  BY <1>14 DEF Pushes, Exposed, network, records, TypeOK
<1>15. CASE \E d \in Devices : Refused(d)
  BY <1>15 DEF Refused, Exposed, network, records, TypeOK
<1>16. CASE \E d \in Devices : SyncFails(d)
  BY <1>16 DEF SyncFails, Exposed, network, records, TypeOK
<1>17. CASE \E d \in Devices : UploadsHistory(d)
  BY <1>17 DEF UploadsHistory, Exposed, network, records, TypeOK
<1>18. CASE \E d \in Devices : Restores(d)
  BY <1>18 DEF Restores, Exposed, network, records, TypeOK
<1>19. CASE \E d \in Devices : Recomposes(d)
  BY <1>19 DEF Recomposes, Exposed, network, records, TypeOK
<1>20. CASE \E d \in Devices : Reopened(d)
  <2> PICK d \in Devices : Reopened(d)
    BY <1>20
  <2>1. q \in journal[d].owed
    BY DEF Reopened, Exposed, network, TypeOK
  <2>2. Safe(q)
    BY <2>1 DEF Reopened, Safe, Kept, Keeps, Owed
  <2> QED BY <2>2 DEF StaysSafe
<1>21. CASE \E d \in Devices : FindsOut(d)
  BY <1>21 DEF FindsOut, Exposed, network, records, TypeOK
<1>22. CASE \E d \in Devices : Tombstones(d)
  BY <1>22 DEF Tombstones, Exposed, network, records, TypeOK
<1>23. CASE \E d \in Devices : Voids(d)
  BY <1>23 DEF Voids, Exposed, network, records, TypeOK
<1>24. CASE \E d \in Devices : HandsOver(d)
  BY <1>24 DEF HandsOver, Exposed, network, records, TypeOK
<1>25. CASE \E d \in Devices : Receives(d)
  BY <1>25 DEF Receives, Exposed, network, records, TypeOK
<1>26. CASE \E d \in Devices : Restarts(d)
  BY <1>26 DEF Restarts, Exposed, network, records, TypeOK
<1>27. CASE \E d \in Devices : Loses(d)
  BY <1>27 DEF Loses, Exposed, network, records, TypeOK
<1> QED BY <1>1, <1>2, <1>3, <1>4, <1>5, <1>6, <1>7, <1>8, <1>9, <1>10, <1>11, <1>12, <1>13, <1>14, <1>15, <1>16, <1>17, <1>18, <1>19, <1>20, <1>21, <1>22, <1>23, <1>24, <1>25, <1>26, <1>27 DEF Next

ForgetsNothing == Hosted /\ PostedAreVoided /\ SealingIsOpen /\ FreshIsEmpty /\ ExposedIsSafe

\* A payment an install has a record of stays on its record, but in an install
\* that is lost or was never one of the account's.
LEMMA RecordedStays ==
    ASSUME TypeOK, TypeOK', StaysSettled, Traces, Traces', Next,
           NEW e \in Devices, NEW q \in Payments, rec[e][q] # "none"
    PROVE  rec'[e][q] # "none" \/ Loses(e) \/ Restores(e)
<1>1. CASE \E d \in Devices : FindsOut(d) \/ HandsOver(d)
  BY <1>1 DEF FindsOut, HandsOver, records
<1>2. CASE \E d \in Devices : Receives(d)
  BY <1>2, ReceivesCarries DEF Carries
<1>3. CASE \E d \in Devices : Loses(d)
  <2> PICK d \in Devices : Loses(d)
    BY <1>3
  <2>1. e # d => rec'[e] = rec[e]
    BY DEF Loses, TypeOK
  <2> QED BY <2>1
<1>4. CASE \E d \in Devices : Restores(d)
  <2> PICK d \in Devices : Restores(d)
    BY <1>4
  <2>1. e # d => rec'[e] = rec[e]
    BY DEF Restores, TypeOK
  <2> QED BY <2>1
<1>5. CASE \A d \in Devices : ~ (FindsOut(d) \/ HandsOver(d) \/ Receives(d) \/ Restores(d) \/ Loses(d))
  BY <1>5, OrdinaryStep DEF Carries
<1> QED BY <1>1, <1>2, <1>3, <1>4, <1>5

\* An open install stays open, but by losing the account or itself.
LEMMA OpenStays ==
    ASSUME TypeOK, TypeOK', StaysSettled, Traces, Traces', Next,
           NEW e \in Devices, IsOpen(e)
    PROVE  IsOpen(e)' \/ Loses(e) \/ FindsOut(e)
<1>1. CASE \E d \in Devices : FindsOut(d)
  <2> PICK d \in Devices : FindsOut(d)
    BY <1>1
  <2>1. e # d => mode'[e] = mode[e]
    BY DEF FindsOut, TypeOK
  <2> QED BY <2>1 DEF IsOpen
<1>2. CASE \E d \in Devices : HandsOver(d)
  BY <1>2 DEF HandsOver, IsOpen, TypeOK
<1>3. CASE \E d \in Devices : Receives(d)
  BY <1>3, ReceivesCarries DEF Carries
<1>4. CASE \E d \in Devices : Loses(d)
  <2> PICK d \in Devices : Loses(d)
    BY <1>4
  <2>1. e # d => mode'[e] = mode[e]
    BY DEF Loses, TypeOK
  <2> QED BY <2>1 DEF IsOpen
<1>5. CASE \E d \in Devices : Restores(d)
  BY <1>5 DEF Restores, IsOpen, TypeOK
<1>6. CASE \A d \in Devices : ~ (FindsOut(d) \/ HandsOver(d) \/ Receives(d) \/ Restores(d) \/ Loses(d))
  BY <1>6, OrdinaryStep DEF Carries
<1> QED BY <1>1, <1>2, <1>3, <1>4, <1>5, <1>6

LEMMA ForgetsNothingStep ==
    ASSUME KeptInv, KeptInv', Conditional, Traces, Traces', ForgetsNothing, Next
    PROVE  ForgetsNothing'
<1>0. TypeOK /\ TypeOK' /\ PushKept /\ StaysSettled
  BY Monotone DEF KeptInv
<1>1. StaysSafe
  BY <1>0, SafeStays DEF ForgetsNothing
<1>2. Below(host, host')
  BY <1>0, HostStep, BelowSelf DEF TypeOK
<1>3. Hosted'
  <2> SUFFICES ASSUME NEW e \in Devices, NEW q \in Payments, rec'[e][q] = "none", Lingers(e, q)'
               PROVE  q \in host'.owed \cup host'.done
    BY DEF Hosted
  <2>1. q \in host.owed \cup host.done => q \in host'.owed \cup host'.done
    BY <1>2 DEF Below
  <2>2. Lingers(e, q) \/ q \in host.owed
    BY <1>0, LingersStep
  <2>3. CASE Restores(e)
    <3>1. mode[e] = "fresh" /\ (Lingers(e, q)' <=> Lingers(e, q))
      BY <2>3 DEF Restores, Lingers, work
    <3> QED BY <3>1 DEF ForgetsNothing, FreshIsEmpty
  <2>4. CASE Loses(e)
    <3>1. ~ Lingers(e, q)'
      BY <1>0, <2>4 DEF Loses, Lingers, Idle, NoEntries, TypeOK
    <3> QED BY <3>1
  <2>5. CASE ~ Restores(e) /\ ~ Loses(e)
    <3>1. rec[e][q] = "none"
      BY <1>0, <2>5, RecordedStays
    <3> QED BY <2>1, <2>2, <3>1 DEF ForgetsNothing, Hosted
  <2> QED BY <2>3, <2>4, <2>5
<1>4. PostedAreVoided'
  BY <1>0, PostedStep DEF ForgetsNothing
<1>5. SealingIsOpen'
  <2> SUFFICES ASSUME NEW e \in Devices, NEW q \in Payments, job'[e][q] = "sealing"
               PROVE  Safe(q)' \/ (IsOpen(e)' /\ rec'[e][q] # "none")
    BY DEF SealingIsOpen
  <2>1. job[e][q] = "sealing" \/ (IsOpen(e)' /\ rec'[e][q] # "none")
    BY <1>0, SealingStep
  <2>2. CASE Safe(q)
    BY <1>1, <2>2 DEF StaysSafe
  <2>3. CASE IsOpen(e) /\ rec[e][q] # "none"
    <3>1. ~ Loses(e)
      BY <1>0 DEF Loses, Idle, TypeOK
    <3>2. ~ Restores(e)
      BY <2>3 DEF Restores, IsOpen
    <3>3. rec'[e][q] # "none"
      BY <1>0, <2>3, <3>1, <3>2, RecordedStays
    <3>4. IsOpen(e)' \/ FindsOut(e)
      BY <1>0, <2>3, <3>1, OpenStays
    <3>5. FindsOut(e) => Safe(q)'
      BY <1>0, <2>3, FindsOutSafe DEF ForgetsNothing
    <3> QED BY <3>3, <3>4, <3>5
  <2> QED BY <2>1, <2>2, <2>3 DEF ForgetsNothing, SealingIsOpen
<1>6. FreshIsEmpty'
  <2> SUFFICES ASSUME NEW e \in Devices, mode'[e] = "fresh", NEW q \in Payments, Lingers(e, q)'
               PROVE  FALSE
    BY DEF FreshIsEmpty
  <2>1. mode[e] = "fresh" /\ Lingers(e, q)
    BY <1>0, FreshStep DEF Lingers
  <2> QED BY <2>1 DEF ForgetsNothing, FreshIsEmpty
<1>7. ExposedIsSafe'
  BY <1>0, <1>1, ExposedStep DEF ForgetsNothing
<1> QED BY <1>3, <1>4, <1>5, <1>6, <1>7 DEF ForgetsNothing

LEMMA ForgetsNothingInit == Init => ForgetsNothing
BY DEF Init, ForgetsNothing, Hosted, PostedAreVoided, SealingIsOpen, FreshIsEmpty, ExposedIsSafe,
       Exposed, Lingers, NoEntries, Blank, Idle

\* A payment that landed, its payee not told, is always kept by an open install,
\* a handover, the host or a lost holder's backup (pendingBrc29Outbox.ts and
\* accountHandover.ts: one of them still tells its payee), for any number of
\* payments, installs, moves, losses and restarts.
THEOREM NothingForgotten == ASSUME ObjectMade PROVE Spec => []NeverForgotten
<1>1. Init => ForgetsNothing
  BY ForgetsNothingInit
<1>2. KeptInv /\ KeptInv' /\ Conditional /\ Traces /\ Traces' /\ ForgetsNothing /\ [Next]_vars
        => ForgetsNothing'
  <2> SUFFICES ASSUME KeptInv, KeptInv', Conditional, Traces, Traces', ForgetsNothing,
                      [Next]_vars
               PROVE  ForgetsNothing'
    OBVIOUS
  <2>1. CASE Next
    BY <2>1, ForgetsNothingStep
  <2>2. CASE UNCHANGED vars
    BY <2>2 DEF ForgetsNothing, Hosted, PostedAreVoided, SealingIsOpen, FreshIsEmpty, ExposedIsSafe,
       Exposed, Lingers, Safe, Kept, KeptOutside, Keeps, Owed, Pending, Unbroadcast, IsOpen, Runs,
       vars, network, account, records, work, replica, hand
  <2> QED BY <2>1, <2>2
<1>3. ForgetsNothing => NeverForgotten
  BY DEF ForgetsNothing, ExposedIsSafe, Exposed, Safe, Kept, NeverForgotten
<1> QED BY <1>1, <1>2, <1>3, KeptInvariance, ConditionalInvariance, TracesInvariance, PTL DEF Spec
=============================================================================
