-------------------------- MODULE SignalRegistry --------------------------
(***************************************************************************)
(* The canonical signal table (core/signals/registry.py) as one operator   *)
(* per statement, and the outcome table beside it                          *)
(* (core/outcomes/repository.py).                                          *)
(*                                                                         *)
(* Times are compared as text.  append stores 2025-05-01T10:00:00Z or,     *)
(* with the UTC offset the producer sent, 2025-05-01T20:00:00-05:00, and   *)
(* it is the time that stands there, the written one, which is compared.   *)
(* query_open binds str(cutoff) and cleanup_expired datetime('now', ...),  *)
(* both in UTC and with a blank in the place of the T.  Blank sorts before *)
(* T, so a row that shows the cutoff's own date counts as later than the   *)
(* cutoff at any hour.  The two methods that bind isoformat() compare the  *)
(* written time with the cutoff as times do.                               *)
(***************************************************************************)
EXTENDS Integers, FiniteSets

CONSTANTS
  Signals,      \* signals that may be appended
  DayLength     \* ticks of the clock in one date

ASSUME DayLengthAssumption == DayLength \in Nat \ {0}

\* A row never written, two groups of SignalLifecycle, a row deleted again.
\* query_open tells "emitted" from the rest, which "closed" stands for.
Lifecycles == {"new", "emitted", "closed", "gone"}
Stored     == {"emitted", "closed"}

Date(t) == t \div DayLength

\* A mutant: whole dates are compared, the cutoff's own included.
SortsBeforeDate(written, cutoff) == Date(written) <= Date(cutoff)

\* "created_at <= ?" and "created_at < ?" with a cutoff written with a blank.
SortsBeforeBlank(written, cutoff) == Date(written) < Date(cutoff)

\* "created_at < ?" with a cutoff written by isoformat().
SortsBeforeIso(written, cutoff) == written < cutoff

Present(lifecycle) == {s \in Signals : lifecycle[s] \in Stored}

Inserted(lifecycle, s)    == [lifecycle EXCEPT ![s] = "emitted"]
Updated(lifecycle, s, to) ==
  [lifecycle EXCEPT ![s] = IF @ \in Stored THEN to ELSE @]
Deleted(lifecycle, S)     ==
  [s \in Signals |-> IF s \in S THEN "gone" ELSE lifecycle[s]]

\* get_signals_before and the rows delete_signals_before deletes.
SignalsBefore(lifecycle, written, cutoff) ==
  {s \in Present(lifecycle) : SortsBeforeIso(written[s], cutoff)}

\* The rows cleanup_expired deletes.
ExpiredRows(lifecycle, written, cutoff) ==
  {s \in Present(lifecycle) : SortsBeforeBlank(written[s], cutoff)}

\* Rows that meet the WHERE clause of query_open.
OpenRows(lifecycle, written, cutoff) ==
  {s \in Signals : lifecycle[s] = "emitted"
                   /\ SortsBeforeBlank(written[s], cutoff)}

\* A mutant: ORDER BY created_at DESC LIMIT.
NewestOf(rows, written, limit) ==
  {B \in SUBSET rows :
     /\ Cardinality(B) <= limit
     /\ B # rows => Cardinality(B) = limit
     /\ \A s \in B, u \in rows \ B : written[s] >= written[u]}

\* ORDER BY created_at ASC LIMIT: the first by the written time, ties in any order.
OldestOf(rows, written, limit) ==
  {B \in SUBSET rows :
     /\ Cardinality(B) <= limit
     /\ B # rows => Cardinality(B) = limit
     /\ \A s \in B, u \in rows \ B : written[s] <= written[u]}

\* The outcomes cleanup_old deletes; both sides are written with a blank.
OldOutcomes(outcome, cutoff) ==
  {s \in Signals : outcome[s].label # "none" /\ outcome[s].at < cutoff}

-----------------------------------------------------------------------------

(***************************************************************************)
(* OutcomeEvaluator._classify: the move between two historic prices is up, *)
(* flat or down, as far as min_move_pct tells them apart.                  *)
(***************************************************************************)
Directions == {"bullish", "bearish", "neutral"}
Moves      == {"up", "flat", "down"}

Classify(direction, move) ==
  IF direction = "neutral" \/ move = "flat" THEN "neutral"
  ELSE IF (direction = "bullish") = (move = "up") THEN "win" ELSE "loss"

Priced == {"win", "loss", "neutral"}
Labels == Priced \cup {"expired", "unknown"}
=============================================================================
