------------------------- MODULE MinerOutboxProofs -------------------------
(***************************************************************************)
(* Proofs about MinerOutbox, for every set of cheques and any number of    *)
(* overlapping flushes.                                                    *)
(*                                                                         *)
(* What a flush has dropped of the rows it loaded was answered, so its     *)
(* save costs an unanswered row only when the row came after the load      *)
(* (DropsAnswered).                                                        *)
(***************************************************************************)
EXTENDS MinerOutbox, TLAPS

\* A row a flush loaded is still to come, waits for its round, is kept, or
\* was answered; an idle flush holds none.
DropsAnswered ==
    \A f \in Flushes :
        /\ flush[f].loaded \subseteq flush[f].rest \cup {flush[f].on} \cup flush[f].keep \cup answered
        /\ flush[f].at = "idle" => flush[f] = IdleFlush

\* A cheque whose inputs are about to be released has its verdict.
DeadAreAnswered == \A c \in Cheques : round[c] = "dead" => c \in answered

IInv == TypeOK /\ DropsAnswered /\ DeadAreAnswered

FlushRecords == [at : {"idle", "rows"}, loaded : SUBSET Cheques,
                 rest : SUBSET Cheques, keep : SUBSET Cheques,
                 on : Cheques \cup {NoCheque}, current : BOOLEAN]

----------------------------------------------------------------------------

LEMMA InitEstablishes == Init => IInv
  BY OutboxAssumption DEF Init, IInv, TypeOK, DropsAnswered, DeadAreAnswered, IdleFlush

\* The end of a round leaves every flush well formed; a flush that waited for
\* it keeps the row, or drops one that is answered.
LEMMA RoundEndsKeeps ==
    ASSUME IInv, NEW c \in Cheques, NEW kept \in BOOLEAN, RoundEnds(c, kept),
           answered \subseteq answered', kept \/ c \in answered', answered' \subseteq Cheques
    PROVE  /\ round' \in [Cheques -> {"none", "own", "detached", "dead"}]
           /\ flush' \in [Flushes -> FlushRecords]
           /\ DropsAnswered'
           /\ DeadAreAnswered'
<1>1. flush \in [Flushes -> FlushRecords]
  BY DEF IInv, TypeOK, FlushRecords
<1>2. round' \in [Cheques -> {"none", "own", "detached", "dead"}] /\ DeadAreAnswered'
  BY DEF RoundEnds, IInv, TypeOK, DeadAreAnswered
<1>3. ASSUME NEW f \in Flushes
      PROVE  /\ flush'[f] \in FlushRecords
             /\ flush'[f].loaded \subseteq flush'[f].rest \cup {flush'[f].on}
                                             \cup flush'[f].keep \cup answered'
             /\ flush'[f].at = "idle" => flush'[f] = IdleFlush
  <2>1. flush[f] \in FlushRecords
    BY <1>1
  <2>2. /\ flush[f].loaded \subseteq flush[f].rest \cup {flush[f].on} \cup flush[f].keep \cup answered
        /\ flush[f].at = "idle" => flush[f] = IdleFlush
    BY DEF IInv, DropsAnswered
  <2>3. CASE flush[f].on # c
    <3>1. flush'[f] = flush[f]
      BY <2>3 DEF RoundEnds
    <3> QED  BY <2>1, <2>2, <3>1
  <2>4. CASE flush[f].on = c
    <3>1. flush'[f] = [flush[f] EXCEPT !.on = NoCheque,
                          !.keep = IF kept THEN @ \cup {c} ELSE @]
      BY <2>4 DEF RoundEnds
    <3>2. flush[f].at # "idle"
      BY <2>2, <2>4, OutboxAssumption DEF IdleFlush
    <3>3. CASE kept
      <4>1. flush'[f] = [flush[f] EXCEPT !.on = NoCheque, !.keep = flush[f].keep \cup {c}]
        BY <3>1, <3>3
      <4>1a. flush[f].keep \cup {c} \in SUBSET Cheques
        BY <2>1 DEF FlushRecords
      <4>2. flush'[f] \in FlushRecords /\ flush'[f].at = flush[f].at
        BY <2>1, <4>1, <4>1a DEF FlushRecords
      <4>3. /\ flush'[f].loaded = flush[f].loaded /\ flush'[f].rest = flush[f].rest
            /\ flush'[f].keep = flush[f].keep \cup {c}
        BY <2>1, <4>1 DEF FlushRecords
      <4> QED  BY <2>2, <2>4, <3>2, <4>2, <4>3
    <3>4. CASE ~kept
      <4>1. flush'[f] = [flush[f] EXCEPT !.on = NoCheque]
        BY <2>1, <3>1, <3>4 DEF FlushRecords
      <4>2. flush'[f] \in FlushRecords /\ flush'[f].at = flush[f].at
        BY <2>1, <4>1 DEF FlushRecords
      <4>3. /\ flush'[f].loaded = flush[f].loaded /\ flush'[f].rest = flush[f].rest
            /\ flush'[f].keep = flush[f].keep /\ c \in answered'
        BY <2>1, <3>4, <4>1 DEF FlushRecords
      <4> QED  BY <2>2, <2>4, <3>2, <4>2, <4>3
    <3> QED  BY <3>3, <3>4
  <2> QED  BY <2>3, <2>4
<1>4. flush' \in [Flushes -> FlushRecords]
  <2>1. DOMAIN flush' = Flushes /\ flush' = [f \in Flushes |-> flush'[f]]
    BY DEF RoundEnds
  <2> QED  BY <1>3, <2>1
<1> QED  BY <1>2, <1>3, <1>4 DEF DropsAnswered

\* A flush that takes one step of its own stays well formed.
LEMMA FlushKeeps ==
    ASSUME IInv, NEW f \in Flushes, NEW r \in FlushRecords,
           flush' = [flush EXCEPT ![f] = r], UNCHANGED answered,
           r.loaded \subseteq r.rest \cup {r.on} \cup r.keep \cup answered,
           r.at = "idle" => r = IdleFlush
    PROVE  flush' \in [Flushes -> FlushRecords] /\ DropsAnswered'
<1>1. flush \in [Flushes -> FlushRecords]
  BY DEF IInv, TypeOK, FlushRecords
<1> QED  BY <1>1 DEF IInv, DropsAnswered

LEMMA StepPreserves == IInv /\ [Next]_vars => IInv'
<1> SUFFICES ASSUME IInv, [Next]_vars PROVE IInv'
  OBVIOUS
<1> USE OutboxAssumption
<1>0. TypeOK /\ flush \in [Flushes -> FlushRecords] /\ DropsAnswered /\ DeadAreAnswered
  BY DEF IInv, TypeOK, FlushRecords
<1>1. ASSUME NEW c \in Cheques, Sign(c) \/ Register(c) PROVE IInv'
  BY <1>0, <1>1 DEF Sign, Register, Save, durable, bounds, IInv, TypeOK, DropsAnswered, DeadAreAnswered
<1>2. ASSUME NEW c \in Cheques, Propagate(c) PROVE IInv'
  BY <1>0, <1>2 DEF Propagate, Save, bounds, IInv, TypeOK, DropsAnswered, DeadAreAnswered
<1>3. ASSUME NEW c \in Cheques, Undecided(c) PROVE IInv'
  <2>1. /\ round' \in [Cheques -> {"none", "own", "detached", "dead"}]
        /\ flush' \in [Flushes -> FlushRecords] /\ DropsAnswered' /\ DeadAreAnswered'
    BY <1>0, <1>3, RoundEndsKeeps DEF Undecided, durable, TypeOK
  <2> QED  BY <1>0, <1>3, <2>1 DEF Undecided, durable, bounds, IInv, TypeOK, FlushRecords
<1>4. ASSUME NEW c \in Cheques, Accepts(c) PROVE IInv'
  <2>1. /\ round' \in [Cheques -> {"none", "own", "detached", "dead"}]
        /\ flush' \in [Flushes -> FlushRecords] /\ DropsAnswered' /\ DeadAreAnswered'
    BY <1>0, <1>4, RoundEndsKeeps DEF Accepts, TypeOK
  <2> QED  BY <1>0, <1>4, <2>1 DEF Accepts, Revive, bounds, IInv, TypeOK, FlushRecords
<1>5. ASSUME NEW c \in Cheques, Acknowledges(c) PROVE IInv'
  <2>1. /\ round' \in [Cheques -> {"none", "own", "detached", "dead"}]
        /\ flush' \in [Flushes -> FlushRecords] /\ DropsAnswered' /\ DeadAreAnswered'
    BY <1>0, <1>5, RoundEndsKeeps DEF Acknowledges, TypeOK
  <2> QED  BY <1>0, <1>5, <2>1 DEF Acknowledges, Revive, Save, bounds, IInv, TypeOK, FlushRecords
<1>6. ASSUME NEW c \in Cheques, Rejects(c) PROVE IInv'
  <2>1. CASE RoundEnds(c, FALSE)
    <3>1. /\ round' \in [Cheques -> {"none", "own", "detached", "dead"}]
          /\ flush' \in [Flushes -> FlushRecords] /\ DropsAnswered' /\ DeadAreAnswered'
      BY <1>0, <1>6, <2>1, RoundEndsKeeps DEF Rejects, TypeOK
    <3> QED  BY <1>0, <1>6, <3>1 DEF Rejects, Save, bounds, IInv, TypeOK, FlushRecords
  <2>2. CASE round' = [round EXCEPT ![c] = "dead"] /\ UNCHANGED flush
    <3>1. DropsAnswered' /\ DeadAreAnswered'
      BY <1>0, <1>6, <2>2 DEF Rejects, TypeOK, DropsAnswered, DeadAreAnswered
    <3> QED  BY <1>0, <1>6, <2>2, <3>1 DEF Rejects, Save, bounds, IInv, TypeOK
  <2> QED  BY <1>6, <2>1, <2>2 DEF Rejects
<1>7. ASSUME NEW c \in Cheques, Releases(c) PROVE IInv'
  <2>1. c \in answered
    BY <1>0, <1>7 DEF Releases, DeadAreAnswered
  <2>2. /\ round' \in [Cheques -> {"none", "own", "detached", "dead"}]
        /\ flush' \in [Flushes -> FlushRecords] /\ DropsAnswered' /\ DeadAreAnswered'
    BY <1>0, <1>7, <2>1, RoundEndsKeeps DEF Releases, TypeOK
  <2> QED  BY <1>0, <1>7, <2>2 DEF Releases, Save, bounds, IInv, TypeOK, FlushRecords
<1>8. ASSUME NEW c \in Cheques, Retires(c) \/ Heals(c) PROVE IInv'
  BY <1>0, <1>8 DEF Retires, Heals, Save, bounds, IInv, TypeOK, DropsAnswered, DeadAreAnswered
<1>9. ASSUME NEW f \in Flushes, FlushLoads(f) PROVE IInv'
  <2> DEFINE r == [IdleFlush EXCEPT
           !.at = "rows", !.loaded = queued, !.rest = queued, !.current = TRUE]
  <2>1. r \in FlushRecords /\ r.loaded \subseteq r.rest /\ r.at # "idle"
    BY <1>0 DEF IdleFlush, FlushRecords, TypeOK
  <2>2. flush' \in [Flushes -> FlushRecords] /\ DropsAnswered'
    BY <1>0, <1>9, <2>1, FlushKeeps DEF FlushLoads, durable
  <2> QED  BY <1>0, <1>9, <2>2 DEF FlushLoads, durable, bounds, IInv, TypeOK, FlushRecords, DeadAreAnswered
<1>10. ASSUME NEW f \in Flushes, NEW c \in Cheques, FlushSkips(f, c) PROVE IInv'
  <2> DEFINE r == [flush[f] EXCEPT !.rest = @ \ {c}, !.keep = @ \cup {c}]
  <2>1. flush[f] \in FlushRecords /\ flush[f].at = "rows"
    BY <1>0, <1>10 DEF FlushSkips, AtRow
  <2>2. /\ r \in FlushRecords /\ r.at # "idle"
        /\ r.loaded \subseteq r.rest \cup {r.on} \cup r.keep \cup answered
    BY <1>0, <2>1 DEF FlushRecords, DropsAnswered
  <2>3. flush' = [flush EXCEPT ![f] = r]
    BY <1>0, <1>10 DEF FlushSkips
  <2>4. flush' \in [Flushes -> FlushRecords] /\ DropsAnswered'
    BY <1>0, <1>10, <2>2, <2>3, FlushKeeps DEF FlushSkips, durable
  <2> QED  BY <1>0, <1>10, <2>4 DEF FlushSkips, durable, bounds, IInv, TypeOK, FlushRecords, DeadAreAnswered
<1>11. ASSUME NEW f \in Flushes, NEW c \in Cheques, FlushPosts(f, c) PROVE IInv'
  <2> DEFINE r == [flush[f] EXCEPT !.rest = @ \ {c}, !.on = c]
  <2>1. flush[f] \in FlushRecords /\ flush[f].at = "rows" /\ flush[f].on = NoCheque
    BY <1>0, <1>11 DEF FlushPosts, AtRow
  <2>2. /\ r \in FlushRecords /\ r.at # "idle"
        /\ r.loaded \subseteq r.rest \cup {r.on} \cup r.keep \cup answered
    <3>1. flush[f].loaded \subseteq flush[f].rest \cup {NoCheque} \cup flush[f].keep \cup answered
      BY <1>0, <2>1 DEF DropsAnswered
    <3>2. NoCheque \notin flush[f].loaded
      BY <2>1 DEF FlushRecords
    <3> QED  BY <2>1, <3>1, <3>2 DEF FlushRecords
  <2>3. flush' = [flush EXCEPT ![f] = r]
    BY <1>0, <1>11 DEF FlushPosts
  <2>4. flush' \in [Flushes -> FlushRecords] /\ DropsAnswered'
    BY <1>0, <1>11, <2>2, <2>3, FlushKeeps DEF FlushPosts, durable
  <2> QED  BY <1>0, <1>11, <2>4 DEF FlushPosts, durable, bounds, IInv, TypeOK, FlushRecords, DeadAreAnswered
<1>12. ASSUME NEW f \in Flushes, FlushSaves(f) \/ FlushStops(f) PROVE IInv'
  <2>1. IdleFlush \in FlushRecords /\ IdleFlush.loaded = {}
    BY DEF IdleFlush, FlushRecords
  <2>2. flush' \in [Flushes -> FlushRecords] /\ DropsAnswered'
    BY <1>0, <1>12, <2>1, FlushKeeps DEF FlushSaves, FlushStops, durable
  <2>3. queued' \subseteq Cheques
    BY <1>0, <1>12 DEF FlushSaves, FlushStops, Save, durable, TypeOK
  <2> QED  BY <1>0, <1>12, <2>2, <2>3
           DEF FlushSaves, FlushStops, durable, bounds, IInv, TypeOK, FlushRecords, DeadAreAnswered
<1>13. CASE Leaves
  <2>1. ASSUME NEW f \in Flushes
        PROVE  /\ flush'[f] \in FlushRecords
               /\ flush'[f].loaded \subseteq flush'[f].rest \cup {flush'[f].on}
                                               \cup flush'[f].keep \cup answered'
               /\ flush'[f].at = "idle" => flush'[f] = IdleFlush
    <3>1. flush'[f] = [flush[f] EXCEPT !.current = FALSE] /\ answered' = answered
      BY <1>13 DEF Leaves, durable
    <3>2. flush[f] \in FlushRecords
      BY <1>0
    <3>3. flush'[f] \in FlushRecords
      BY <3>1, <3>2 DEF FlushRecords
    <3>4. /\ flush'[f].at = flush[f].at /\ flush'[f].loaded = flush[f].loaded
          /\ flush'[f].rest = flush[f].rest /\ flush'[f].keep = flush[f].keep
          /\ flush'[f].on = flush[f].on
      BY <3>1, <3>2 DEF FlushRecords
    <3>5. flush[f] = IdleFlush => flush'[f] = IdleFlush
      <4> SUFFICES ASSUME flush[f] = IdleFlush PROVE flush'[f] = IdleFlush
        OBVIOUS
      <4>1. flush'[f] = [IdleFlush EXCEPT !.current = FALSE]
        BY <3>1, Zenon
      <4> QED  BY <4>1 DEF IdleFlush
    <3> QED  BY <1>0, <3>1, <3>3, <3>4, <3>5 DEF DropsAnswered
  <2>2. flush' \in [Flushes -> FlushRecords]
    <3>1. flush' = [f \in Flushes |-> flush'[f]]
      BY <1>13 DEF Leaves
    <3> QED  BY <2>1, <3>1
  <2>3. switches' \in 0..MaxSwitches
    BY <1>0, <1>13 DEF Leaves, TypeOK
  <2> QED  BY <1>0, <1>13, <2>1, <2>2, <2>3
           DEF Leaves, durable, IInv, TypeOK, FlushRecords, DropsAnswered, DeadAreAnswered
<1>14. CASE Returns
  BY <1>0, <1>14 DEF Returns, durable, bounds, IInv, TypeOK, DropsAnswered, DeadAreAnswered
<1>15. CASE Restart
  <2>1. restarts' \in 0..MaxRestarts
    BY <1>0, <1>15 DEF Restart, TypeOK
  <2>2. IdleFlush \in FlushRecords /\ IdleFlush.loaded = {}
    BY DEF IdleFlush, FlushRecords
  <2>3. /\ flush' \in [Flushes -> FlushRecords] /\ DropsAnswered'
        /\ round' \in [Cheques -> {"none", "own", "detached", "dead"}] /\ DeadAreAnswered'
    BY <1>15, <2>2 DEF Restart, DropsAnswered, DeadAreAnswered
  <2>4. stage' \in [Cheques -> {"new", "signed", "left", "queued", "done"}]
    BY <1>0, <1>15 DEF Restart, TypeOK
  <2> QED  BY <1>0, <1>15, <2>1, <2>3, <2>4 DEF Restart, durable, IInv, TypeOK, FlushRecords
<1>16. CASE UNCHANGED vars
  BY <1>0, <1>16 DEF vars, durable, bounds, IInv, TypeOK, DropsAnswered, DeadAreAnswered
<1> QED  BY <1>1, <1>2, <1>3, <1>4, <1>5, <1>6, <1>7, <1>8, <1>9, <1>10, <1>11, <1>12,
            <1>13, <1>14, <1>15, <1>16 DEF Next

LEMMA Invariance == Spec => []IInv
  BY InitEstablishes, StepPreserves, PTL DEF Spec

\* Every variable keeps its type, for every set of cheques and of flushes.
THEOREM OutboxTypes == Spec => []TypeOK
<1>1. IInv => TypeOK
  BY DEF IInv
<1> QED  BY <1>1, Invariance, PTL

----------------------------------------------------------------------------

\* A row leaves the queue with an answer, or to the save of a flush that began
\* before the row was written (pendingMinerOutbox.ts:249-333), for every set of
\* cheques and any number of flushes at once.
THEOREM LostOnlyToFlushes == Spec => LostOnlyToAFlush
<1> DEFINE Lost(c) ==
        \/ c \in answered'
        \/ \E f \in Flushes : /\ flush[f].at = "rows" /\ c \notin flush[f].loaded
                              /\ flush'[f].at = "idle"
           Kept == \A c \in queued \ queued' : Lost(c)
<1>1. IInv /\ [Next]_vars => [Kept]_vars
  <2> SUFFICES ASSUME IInv, Next PROVE Kept
    OBVIOUS
  <2> USE OutboxAssumption
  <2>1. ASSUME NEW c \in Cheques, Sign(c) \/ Register(c) \/ Propagate(c) \/ Heals(c)
                                    \/ Undecided(c) \/ Accepts(c)
        PROVE  queued \subseteq queued'
    BY <2>1 DEF Sign, Register, Propagate, Heals, Undecided, Accepts, Save, durable
  <2>2. ASSUME NEW c \in Cheques, Acknowledges(c) \/ Rejects(c) \/ Retires(c)
        PROVE  Kept
    BY <2>2 DEF Acknowledges, Rejects, Retires, Save
  <2>3. ASSUME NEW c \in Cheques, Releases(c) PROVE Kept
    BY <2>3 DEF Releases, Save, IInv, DeadAreAnswered
  <2>4. ASSUME NEW f \in Flushes, FlushSaves(f) PROVE Kept
    <3> SUFFICES ASSUME NEW c \in queued \ queued' PROVE Lost(c)
      OBVIOUS
    <3>1. c \in Cheques /\ c \notin flush[f].keep
      BY <2>4 DEF FlushSaves, Save, IInv, TypeOK
    <3>2. flush'[f].at = "idle"
      BY <2>4 DEF FlushSaves, IInv, TypeOK, IdleFlush
    <3>3. flush[f].at = "rows" /\ flush[f].rest = {} /\ flush[f].on = NoCheque /\ answered' = answered
      BY <2>4 DEF FlushSaves
    <3>4. c \notin flush[f].loaded \/ c \in answered
      BY <3>1, <3>3 DEF IInv, DropsAnswered
    <3> QED  BY <3>2, <3>3, <3>4
  <2>5. ASSUME NEW f \in Flushes, FlushLoads(f) \/ FlushStops(f)
                   \/ \E c \in Cheques : FlushSkips(f, c) \/ FlushPosts(f, c)
        PROVE  queued \subseteq queued'
    BY <2>5 DEF FlushLoads, FlushStops, FlushSkips, FlushPosts, durable
  <2>6. ASSUME Leaves \/ Returns \/ Restart PROVE queued \subseteq queued'
    BY <2>6 DEF Leaves, Returns, Restart, durable
  <2> QED  BY <2>1, <2>2, <2>3, <2>4, <2>5, <2>6 DEF Next
<1> QED  BY <1>1, Invariance, PTL DEF Spec, LostOnlyToAFlush
=============================================================================
