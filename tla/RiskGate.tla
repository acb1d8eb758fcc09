------------------------------ MODULE RiskGate ------------------------------
(***************************************************************************)
(* The gate that legacy bot and ingest API ask before they store a signal  *)
(* (core/signals/risk_gate.py).  What it decides becomes can_alert and the *)
(* answer of the API, the signal is stored either way.                     *)
(***************************************************************************)
EXTENDS ConfidenceModulation

CONSTANTS StaleAfter   \* stale_threshold_seconds

ASSUME GateAssumption == StaleAfter \in Nat

SignalClasses == {"entry", "exit", "invalidation", "regime", "risk",
                  "system_health", "data_quality"}
Directions    == {"bullish", "bearish", "neutral"}
Qualities     == {"ok", "degraded", "stale", "unavailable"}

\* What of an envelope the gate and the bridge look at.
Envelope == [class : SignalClasses, direction : Directions, quality : Qualities,
             confidence : 0..Unit, risk : 0..Unit]

PassThrough == {"risk", "system_health", "data_quality"}

Approving == {"passed", "passed_meta_signal"}
Verdicts  == Approving \cup
  {"data_quality_degraded", "stale_signal", "risk_too_high", "low_confidence",
   "entry_no_direction"}

\* evaluate: the first rule that fails.  A timestamp in the future has a
\* negative age and is fresh.
Gate(e, age) ==
  CASE e.class \in PassThrough             -> "passed_meta_signal"
    [] e.quality # "ok"                    -> "data_quality_degraded"
    [] age > StaleAfter                    -> "stale_signal"
    [] e.risk >= Share(Unit, 80)           -> "risk_too_high"
    [] e.confidence < Share(Unit, 30)      -> "low_confidence"
    [] e.class = "entry" /\ e.direction = "neutral" -> "entry_no_direction"
    [] OTHER                               -> "passed"
=============================================================================
