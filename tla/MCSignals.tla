----------------------------- MODULE MCSignals -----------------------------
(***************************************************************************)
(* Instances of SignalLifecycle for TLC: a signal the price confirms and   *)
(* one that it refutes.                                                    *)
(***************************************************************************)
EXTENDS SignalLifecycle

CONSTANTS s1, s2, daemon, manual

Directed == [s \in Signals |-> IF s = s1 THEN "bullish" ELSE "bearish"]
Rising   == [s \in Signals |-> "up"]

\* Two trackers, or one beside a consumer, or the archive; or one alone.
OneOrTwo == {{daemon, manual}, {daemon, "consumer"}, {"archive", "consumer"}}
Daemon   == {{daemon}}

\* Now and a tick ago in UTC, now as it is written two ticks west of it.
InTime  == [ahead |-> 0, offset |-> 0]
Late    == [ahead |-> -1, offset |-> 0]
FarWest == [ahead |-> 0, offset |-> -2]
UtcOnly == {InTime, Late}
WestToo == {InTime, FarWest}
=============================================================================
