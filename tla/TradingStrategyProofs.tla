------------------------ MODULE TradingStrategyProofs ------------------------
(***************************************************************************)
(* What the legacy strategy can decide, for all candles and every          *)
(* sentiment.                                                              *)
(***************************************************************************)
EXTENDS TradingStrategy, TLAPS

-----------------------------------------------------------------------------
\* The range of the parts.

LEMMA WithinBounds ==
  ASSUME NEW x \in Int, NEW low \in Int, NEW high \in Int, low <= high
  PROVE  /\ Within(x, low, high) \in low..high
         /\ x \in low..high => Within(x, low, high) = x
         /\ \A b \in Int : x <= b /\ low <= b => Within(x, low, high) <= b
         /\ \A b \in Int : b <= x /\ b <= high => b <= Within(x, low, high)
BY DEF Within, Min2, Max2

\* All points are multiples of five.
LEMMA PointsOfFive ==
  ASSUME NEW data \in Candles
  PROVE  \E k \in -20..20 :
           RsiPoints[data.rsi] + MacdPoints(data.macd, data.histogram)
             + TrendPoints[data.trend] + BandPoints[data.band] = 5 * k
<1>1. /\ data.rsi \in {"oversold", "weakBull", "between", "weakBear", "overbought"}
      /\ data.macd \in BOOLEAN /\ data.histogram \in {-1, 0, 1}
      /\ data.trend \in {"rising", "falling", "above", "below", "mixed"}
      /\ data.band \in {"lower", "inside", "upper"}
  BY DEF Candles
<1>2. \E a \in -6..6 : RsiPoints[data.rsi] = 5 * a
  <2>1. RsiPoints[data.rsi] \in {30, 15, 0, -15, -30}
    BY <1>1 DEF RsiPoints
  <2> QED BY <2>1
<1>3. \E b \in -5..5 : MacdPoints(data.macd, data.histogram) = 5 * b
  <2>1. MacdPoints(data.macd, data.histogram) \in {0, 25, -10, -25, 5}
    <3>1. CASE data.histogram = 0
      BY <3>1 DEF MacdPoints
    <3>2. CASE data.histogram # 0 /\ data.macd = TRUE
      BY <3>2 DEF MacdPoints
    <3>3. CASE data.histogram # 0 /\ data.macd = FALSE
      BY <3>3 DEF MacdPoints
    <3> QED BY <1>1, <3>1, <3>2, <3>3
  <2> QED BY <2>1
<1>4. \E c \in -4..4 : TrendPoints[data.trend] = 5 * c
  <2>1. TrendPoints[data.trend] \in {20, -20, 10, -10, 0}
    BY <1>1 DEF TrendPoints
  <2> QED BY <2>1
<1>5. \E d \in -3..3 : BandPoints[data.band] = 5 * d
  <2>1. BandPoints[data.band] \in {15, 0, -15}
    BY <1>1 DEF BandPoints
  <2> QED BY <2>1
<1>6. PICK a \in -6..6, b \in -5..5, c \in -4..4, d \in -3..3 :
        /\ RsiPoints[data.rsi] = 5 * a /\ MacdPoints(data.macd, data.histogram) = 5 * b
        /\ TrendPoints[data.trend] = 5 * c /\ BandPoints[data.band] = 5 * d
  BY <1>2, <1>3, <1>4, <1>5
<1>7. a + b + c + d \in -18..18
  OBVIOUS
<1>8. RsiPoints[data.rsi] + MacdPoints(data.macd, data.histogram)
        + TrendPoints[data.trend] + BandPoints[data.band] = 5 * (a + b + c + d)
  BY <1>6
<1> QED BY <1>7, <1>8

\* So is the strength.
LEMMA StrengthOfFive ==
  ASSUME NEW data \in Candles
  PROVE  \E k \in 0..20 : Strength(data) = 5 * k
<1> PICK k \in -20..20 :
      RsiPoints[data.rsi] + MacdPoints(data.macd, data.histogram)
        + TrendPoints[data.trend] + BandPoints[data.band] = 5 * k
  BY PointsOfFive
<1> DEFINE n == 10 + k
<1>1. 50 + RsiPoints[data.rsi] + MacdPoints(data.macd, data.histogram)
        + TrendPoints[data.trend] + BandPoints[data.band] = 5 * n
  <2>1. RsiPoints[data.rsi] \in Int /\ MacdPoints(data.macd, data.histogram) \in Int
        /\ TrendPoints[data.trend] \in Int /\ BandPoints[data.band] \in Int
    BY DEF Candles, RsiPoints, MacdPoints, TrendPoints, BandPoints
  <2> QED BY <2>1
<1>2. n \in -10..30
  OBVIOUS
<1> HIDE DEF n
<1>3. Strength(data) = Within(5 * n, 0, 100)
  BY <1>1 DEF Strength
<1>4. CASE n < 0
  <2>1. Strength(data) = 5 * 0
    BY <1>2, <1>3, <1>4 DEF Within, Min2, Max2
  <2> QED BY <2>1
<1>5. CASE n > 20
  <2>1. Strength(data) = 5 * 20
    BY <1>2, <1>3, <1>5 DEF Within, Min2, Max2
  <2> QED BY <2>1
<1>6. CASE n \in 0..20
  <2>1. Strength(data) = 5 * n
    BY <1>3, <1>6 DEF Within, Min2, Max2
  <2> QED BY <1>6, <2>1
<1> QED BY <1>2, <1>4, <1>5, <1>6

(***************************************************************************)
(* A dried-up market never lowers confidence, it is risk-off already: the  *)
(* term of _confidence_adjustment that would take fifteen points off has   *)
(* no effect.                                                              *)
(***************************************************************************)
THEOREM AdjustmentsThatHappen ==
  ASSUME NEW data \in Candles
  PROVE  Adjustment(data) \in {0, 6, -10, -4}
BY DEF Adjustment, RiskOff

\* Monotony of the product, which the solver wants stated.
LEMMA ProductGrows ==
  ASSUME NEW a \in Nat, NEW b \in Nat, NEW c \in Nat, NEW d \in Nat, a <= b, c <= d
  PROVE  a * c <= b * d /\ a * c \in Nat
<1>1. a * c <= b * c
  BY SMT
<1>2. b * c <= b * d
  BY SMT
<1> QED BY <1>1, <1>2, SMT

\* What strength and sentiment make of the confidence, at both ends.
LEMMA WeightedBounds ==
  ASSUME NEW strength \in 0..100, NEW leaning \in Scores, NEW adjustment \in {0, 6, -10, -4}
  PROVE  /\ Weighted(strength, leaning, adjustment) \in 0..100
         /\ strength <= 30 => Weighted(strength, leaning, adjustment) <= 45
         /\ strength >= 70 /\ leaning >= 0 => Weighted(strength, leaning, adjustment) >= 60
<1> DEFINE f   == 1000 + 3 * leaning
           raw == strength * f + 1000 * adjustment
<1>1. f \in 700..1300 /\ (leaning >= 0 => f >= 1000)
  BY SMT DEF Scores
<1>2. Weighted(strength, leaning, adjustment) = Within(raw \div 1000, 0, 100)
  BY SMT DEF Weighted
<1> HIDE DEF f
<1>3. strength * f \in Nat
  BY <1>1, ProductGrows, SMT
<1>4. strength <= 30 => strength * f <= 30 * 1300
  BY <1>1, ProductGrows, SMT
<1>5. strength >= 70 /\ leaning >= 0 => 70 * 1000 <= strength * f
  BY <1>1, ProductGrows, SMT
<1>6. /\ raw \in Int
      /\ strength <= 30 => raw <= 45000
      /\ strength >= 70 /\ leaning >= 0 => raw >= 60000
  BY <1>3, <1>4, <1>5, SMT
<1> HIDE DEF raw
<1>7. /\ raw \div 1000 \in Int
      /\ strength <= 30 => raw \div 1000 <= 45
      /\ strength >= 70 /\ leaning >= 0 => raw \div 1000 >= 60
  BY <1>6, SMT
<1> DEFINE q == raw \div 1000
<1>8. /\ q \in Int
      /\ strength <= 30 => q <= 45
      /\ strength >= 70 /\ leaning >= 0 => q >= 60
      /\ Weighted(strength, leaning, adjustment) = Within(q, 0, 100)
  BY <1>2, <1>7, SMT
<1> HIDE DEF q
<1> QED BY <1>8, SMT DEF Within, Min2, Max2

\* A decision to trade has the strength its action asks for.
LEMMA TradesHaveStrength ==
  ASSUME NEW data \in Candles, NEW score \in Scores
  PROVE  /\ Strength(data) \in 0..100
         /\ Decision(data, score).action = "SELL" => Strength(data) <= 30
         /\ Decision(data, score).action = "BUY" => Strength(data) >= 70
<1> PICK k \in 0..20 : Strength(data) = 5 * k
  BY StrengthOfFive
<1>1. Decision(data, score).action \in {"BUY", "SELL"}
        => Decision(data, score).action = TechnicalSignal(Strength(data))
  BY DEF Decision, NoTrade
<1> QED BY <1>1 DEF TechnicalSignal

\* The confidence of a decision to trade.
LEMMA TradesAreWeighted ==
  ASSUME NEW data \in Candles, NEW score \in Scores, NEW action \in {"BUY", "SELL"},
         Decision(data, score).action = action
  PROVE  Decision(data, score).confidence
           = Weighted(Strength(data), Leaning(action, score), Adjustment(data))
BY Zenon DEF Decision, NoTrade, Confidence

\* So the bounds apply.
LEMMA LeaningIsScore ==
  ASSUME NEW score \in Scores, NEW action
  PROVE  Leaning(action, score) \in Scores
BY DEF Leaning, Scores

(***************************************************************************)
(* Whatever the sources say, the confidence of a decision is a percentage  *)
(* (Strategy.decide clamps it; core/signal_model.py, confidence: 0-100).   *)
(***************************************************************************)
THEOREM ConfidenceIsPercentage ==
  ASSUME NEW data \in Candles, NEW score \in Scores
  PROVE  Decision(data, score).confidence \in 0..100
<1>1. Confidence(data, TechnicalSignal(Strength(data)), score) \in 0..100
  BY TradesHaveStrength, LeaningIsScore, AdjustmentsThatHappen, WeightedBounds
     DEF Confidence
<1> QED BY <1>1 DEF Decision, NoTrade

(***************************************************************************)
(* The legacy bot never publishes a SELL.  A SELL has a strength below 35, *)
(* of which the sentiment adds three tenths and a spike six points, so its *)
(* confidence is 45 at most; CONFIDENCE_THRESHOLD is 60 by default, and    *)
(* BUY and SELL are compared with it alike (main.py:227).                  *)
(***************************************************************************)
THEOREM SellsAreNeverRouted ==
  ASSUME NEW data \in Candles, NEW score \in Scores, NEW threshold \in Nat, threshold > 45,
         Decision(data, score).action = "SELL"
  PROVE  ~Routed(Decision(data, score), threshold)
<1> DEFINE leaning == Leaning("SELL", score)
<1>1. Decision(data, score).confidence
        = Weighted(Strength(data), leaning, Adjustment(data))
  BY TradesAreWeighted
<1>2. /\ Strength(data) \in 0..100 /\ Strength(data) <= 30
      /\ leaning \in Scores /\ Adjustment(data) \in {0, 6, -10, -4}
  BY TradesHaveStrength, LeaningIsScore, AdjustmentsThatHappen
<1> HIDE DEF leaning
<1>3. Weighted(Strength(data), leaning, Adjustment(data)) <= 45
  BY <1>2, WeightedBounds, SMT
<1> QED BY <1>1, <1>3, ConfidenceIsPercentage, SMT DEF Routed

(***************************************************************************)
(* Every BUY that the sentiment does not speak against is published with   *)
(* the default threshold: strength goes by fives, so it is 70 at least,    *)
(* and volatility takes off ten.                                           *)
(***************************************************************************)
THEOREM BuysAreRouted ==
  ASSUME NEW data \in Candles, NEW score \in Scores, score >= 0,
         Decision(data, score).action = "BUY"
  PROVE  Routed(Decision(data, score), 60)
<1>1. Decision(data, score).confidence = Weighted(Strength(data), score, Adjustment(data))
  BY TradesAreWeighted DEF Leaning
<1>2. /\ Strength(data) \in 0..100 /\ Strength(data) >= 70
      /\ Adjustment(data) \in {0, 6, -10, -4}
  BY TradesHaveStrength, AdjustmentsThatHappen
<1>3. Weighted(Strength(data), score, Adjustment(data)) >= 60
  BY <1>2, WeightedBounds, SMT
<1> QED BY <1>1, <1>3, ConfidenceIsPercentage, SMT DEF Routed

-----------------------------------------------------------------------------
\* Of three attempts the first answer is one of the answers.
LEMMA FirstAnswerIsOne ==
  ASSUME NEW answers \in [1..3 -> Candles \cup {None}]
  PROVE  FirstAnswer(answers) \in Candles \cup {None}
<1>1. CASE \A i \in DOMAIN answers : answers[i] = None
  BY <1>1 DEF FirstAnswer
<1>2. CASE ~\A i \in DOMAIN answers : answers[i] = None
  <2> DEFINE P(j) == /\ answers[j] # None
                     /\ \A k \in DOMAIN answers : k < j => answers[k] = None
  <2>1. FirstAnswer(answers) = answers[CHOOSE j \in DOMAIN answers : P(j)]
    BY <1>2 DEF FirstAnswer
  <2>2. \E j \in DOMAIN answers : P(j)
    <3>1. answers[1] # None \/ answers[2] # None \/ answers[3] # None
      BY <1>2
    <3>2. P(1) \/ P(2) \/ P(3)
      BY <3>1
    <3> QED BY <3>2
  <2> HIDE DEF P
  <2>3. (CHOOSE j \in DOMAIN answers : P(j)) \in DOMAIN answers
    BY <2>2
  <2> QED BY <2>1, <2>3
<1> QED BY <1>1, <1>2

(***************************************************************************)
(* Candles of the fallback never lead to a trade: their volumes are all    *)
(* zero, so the feed counts as unhealthy.  docs/incident-response.md:226   *)
(* says so of an exchange that is down: the bot runs on without signals.   *)
(***************************************************************************)
THEOREM FallbackNeverTrades ==
  ASSUME NEW exchange \in [1..3 -> Candles \cup {None}],
         NEW coingecko \in [1..3 -> Candles \cup {None}],
         FirstAnswer(exchange) = None,
         Ohlcv(exchange, coingecko) # None,
         NEW score \in Scores
  PROVE  Decision(Ohlcv(exchange, coingecko), score) = NoTrade
<1> DEFINE given == FirstAnswer(coingecko)
           data  == Ohlcv(exchange, coingecko)
<1>1. given \in Candles /\ data = WithoutVolume(given)
  BY FirstAnswerIsOne DEF Ohlcv, FromCoinGecko
<1>2. data.silent = 100
  BY <1>1 DEF WithoutVolume, Candles
<1>3. ~Healthy(data)
  BY <1>2 DEF Healthy
<1> QED BY <1>3 DEF Decision
=============================================================================
