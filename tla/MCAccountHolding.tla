------------------------- MODULE MCAccountHolding -------------------------
(***************************************************************************)
(* Instances of AccountHolding: two or three installs, and the             *)
(* disturbances each run lets them meet.                                   *)
(***************************************************************************)
EXTENDS AccountHolding

CONSTANTS d1, d2, d3

Two == {d1, d2}
Three == {d1, d2, d3}
First == {d1}
Second == {d2}
Others == {d2, d3}
Nobody == {}

Calm == {}
Naps == {"sleep"} \X Two
\* Each kind at the install where it matters: of the mover, and of the holder.
OfMover == {"offline", "lost", "stale", "unmerged", "eager"}
OfHolder == {"sleep", "nap", "early", "drowsy", "crash", "cut", "lost",
             "flush", "slow"}
Divided == (OfMover \X First) \cup (OfHolder \X Second)

\* One disturbance each, of the holder.
Nap == {"nap"} \X First
EarlyWake == {"sleep", "early"} \X First
Drowsy == {"sleep", "drowsy"} \X First
Crash == {"crash"} \X First
Cut == {"cut"} \X First
Lost == {"lost"} \X First
FlushFails == {"flush"} \X First
SlowRelease == {"slow"} \X First
HolderSleeps == {"sleep"} \X First

\* Of the operations of both installs.
Race == {"race"} \X Two
Stale == {"stale"} \X Two
Eager == {"eager"} \X Two
Unmerged == {"unmerged"} \X Two
RacingRestarts == {"race", "sleep", "crash"} \X First
=============================================================================
