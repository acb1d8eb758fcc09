---------------------------- MODULE SignalScores ----------------------------
(***************************************************************************)
(* How the collectors turn what they read into a signal, and how the       *)
(* RainbowScorer rates a batch.  Strengths and scores are thousandths.     *)
(*                                                                         *)
(* A signal is scored in the cycle that made it, so it is never older than *)
(* the hour after which weights decay: the decay is left out.              *)
(***************************************************************************)
EXTENDS Integers, FiniteSets, FiniteSetsExt

Types      == {"technical", "sentiment", "social", "news", "macro"}
Directions == {"bullish", "neutral", "bearish"}

\* n / d to the nearest integer, for d > 0 and n >= 0.
Rounded(n, d) == (2 * n + d) \div (2 * d)

Capped(x, low, high) == IF x < low THEN low ELSE IF x > high THEN high ELSE x

Signal(type, direction, strength) ==
  [type |-> type, direction |-> direction, strength |-> strength]

-----------------------------------------------------------------------------
\* ta_collector: the bands the indicators fall into.

RsiPoints ==
  [oversold |-> 30, weakBull |-> 15, between |-> 0, weakBear |-> -15,
   overbought |-> -70]

\* Twice: MACD above zero or not, its histogram above, below or at zero.
MacdPoints(positive, histogram) ==
  IF positive
  THEN IF histogram > 0 THEN 25 ELSE -10
  ELSE IF histogram < 0 THEN -25 ELSE 5

\* Price, EMA 50 and EMA 200 in order; the mild ones are for short histories.
TrendPoints ==
  [rising |-> 20, falling |-> -20, mixed |-> 0, above |-> 10, below |-> -10]

BandPoints == [lower |-> 15, upper |-> -15, inside |-> 0]

TechnicalStrength(ind) ==
  Capped(50 + RsiPoints[ind.rsi] + MacdPoints(ind.macd, ind.histogram)
            + TrendPoints[ind.trend] + BandPoints[ind.band], 0, 100)

TechnicalDirection(strength) ==
  IF strength > 65 THEN "bullish" ELSE IF strength < 35 THEN "bearish" ELSE "neutral"

Technical(ind) ==
  LET strength == TechnicalStrength(ind)
  IN  Signal("technical", TechnicalDirection(strength), 10 * strength)

-----------------------------------------------------------------------------
\* twitter, reddit and news: texts with bullish and with bearish words.

Sentiment(type, count) ==
  LET total == count.bulls + count.bears
      share(n) == Rounded(1000 * n, total)
  IN  IF total = 0 THEN Signal(type, "neutral", 300)
      ELSE IF count.bulls > count.bears THEN Signal(type, "bullish", share(count.bulls))
      ELSE IF count.bears > count.bulls THEN Signal(type, "bearish", share(count.bears))
      ELSE Signal(type, "neutral", 500)

-----------------------------------------------------------------------------
\* derivatives_collector: a funding rate, in millionths.

Extreme(rate) == rate > 500 \/ rate < -300

Funding(rate) ==
  LET size == IF rate < 0 THEN -rate ELSE rate
  IN  Signal("macro", IF rate > 0 THEN "bearish" ELSE "bullish",
             Capped(Rounded(size, 2), 0, 1000))

-----------------------------------------------------------------------------
\* RainbowScorer: batch maps the places of a batch to signals.

Weight(type) ==
  CASE type = "technical" -> 4
    [] type = "sentiment" -> 3
    [] type = "social"    -> 2
    [] OTHER              -> 1

\* Halves: 1.0, 0.5 and 0.0.
Multiplier == [bullish |-> 2, neutral |-> 1, bearish |-> 0]

\* The last signal of a type that is not neutral speaks for its type.
Speakers(batch) ==
  LET directed == {i \in DOMAIN batch : batch[i].direction # "neutral"}
  IN  {i \in directed : \A j \in directed : batch[j].type = batch[i].type => j <= i}

HasCrossConfirmation(batch) ==
  /\ Cardinality(Speakers(batch)) >= 2
  /\ \A i, j \in Speakers(batch) : batch[i].direction = batch[j].direction

RainbowScore(batch) ==
  LET sum == MapThenSumSet(
               LAMBDA i : batch[i].strength * Multiplier[batch[i].direction]
                            * Weight(batch[i].type), DOMAIN batch)
      weights == MapThenSumSet(LAMBDA i : Weight(batch[i].type), DOMAIN batch)
      boost == IF HasCrossConfirmation(batch) THEN 115 ELSE 100
  IN  Capped(Rounded(sum * boost, 200 * weights), 0, 1000)
=============================================================================
