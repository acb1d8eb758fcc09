------------------------ MODULE ConfidenceModulation ------------------------
(***************************************************************************)
(* The confidence modulator (core/signals/confidence_modulation.py), which *)
(* lowers the confidence of a signal before the Freqtrade bridge passes it *)
(* on.  A confidence is counted in steps of 1/Unit; the result is rounded  *)
(* to multiples of Grain, the six decimals of round(confidence, 6).        *)
(***************************************************************************)
EXTENDS Integers

CONSTANTS Unit, Grain

ASSUME ScaleAssumption ==
  Unit \in Nat \ {0} /\ Grain \in Nat \ {0} /\ Unit % 100 = 0

Lesser(a, b)  == IF a < b THEN a ELSE b
Greater(a, b) == IF a < b THEN b ELSE a

Share(c, percent) == (c * percent) \div 100

RiskLevels == {"low", "medium", "high", "extreme"}

\* _RISK_CAPS, where a level that is not known counts as high.
RiskCap(level) ==
  Share(Unit, CASE level = "extreme" -> 15
                [] level = "medium"  -> 65
                [] level = "low"     -> 100
                [] OTHER             -> 35)

\* Uncertainty penalty: below one half a tenth is taken off.
Doubtful(c) == IF 2 * c < Unit THEN c - Share(c, 10) ELSE c

\* Five percent for each warning, twenty at most.
Warned(c, warnings) == c - Share(c, Lesser(5 * warnings, 20))

\* Fifteen percent when less than seventy percent of the data are there.
Incomplete(c, completeness) ==
  IF completeness < 70 THEN c - Share(c, 15) ELSE c

\* Steps 1 to 8 of _modulate_inner for a confidence that is not missing.
\* A completeness that is unknown counts as 100.
Penalised(raw, level, warnings, completeness) ==
  LET start  == Lesser(Greater(raw, 0), Unit)
      capped == Lesser(start, RiskCap(level))
      less   == Incomplete(Warned(Doubtful(capped), warnings), completeness)
  IN  Lesser(Lesser(Greater(less, 0), RiskCap(level)), raw)

\* round(c, 6): the nearest multiple.  In the middle between two either may
\* come out, as the decimal number is not exact in binary.
Rounded(c) ==
  {m \in {Grain * (c \div Grain), Grain * (c \div Grain) + Grain} :
     2 * (m - c) <= Grain /\ 2 * (c - m) <= Grain}

\* ConfidenceBand.BLOCKED
Blocked(c) == 10 * c < Unit
=============================================================================
