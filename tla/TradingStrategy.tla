--------------------------- MODULE TradingStrategy ---------------------------
(***************************************************************************)
(* What the legacy bot decides about an asset (main.py:162-228): candles   *)
(* from the exchange or, if it fails, from CoinGecko, their technical and  *)
(* market analysis, the sentiment of the news, and the strategy.           *)
(*                                                                         *)
(* Of a table of candles the model has what the analysis tells apart: the  *)
(* bands the indicators lie in, the last volume and the short volatility   *)
(* in percent of their averages, the percentage of candles without volume, *)
(* the age of the last candle in seconds, None if it has no timestamp.     *)
(* Sentiment scores are hundredths, confidence is in percent.              *)
(***************************************************************************)
EXTENDS Integers, Sequences

CONSTANT None

Min2(a, b) == IF a < b THEN a ELSE b
Max2(a, b) == IF a < b THEN b ELSE a
Within(x, low, high) == Max2(low, Min2(high, x))

-----------------------------------------------------------------------------
\* Where the candles come from.

Candles ==
  [candles : Nat, rsi : {"oversold", "weakBull", "between", "weakBear", "overbought"},
   macd : BOOLEAN, histogram : {-1, 0, 1},
   trend : {"rising", "falling", "above", "below", "mixed"},
   band : {"lower", "inside", "upper"},
   volume : Nat, volatility : Nat, silent : 0..100, age : Nat \cup {None}]

ASSUME NoneAssumption == None \notin Candles

\* _retry: the first attempt that succeeds counts, None stands for an error.
FirstAnswer(answers) ==
  IF \A i \in DOMAIN answers : answers[i] = None THEN None
  ELSE LET i == CHOOSE j \in DOMAIN answers :
                  /\ answers[j] # None
                  /\ \A k \in DOMAIN answers : k < j => answers[k] = None
       IN  answers[i]

\* CoinGecko has no volumes, every candle gets zero: their average is zero, and
\* the ratio to it counts as one.
WithoutVolume(data) == [data EXCEPT !.volume = 100, !.silent = 100]

FromCoinGecko(answers) ==
  LET data == FirstAnswer(answers)
  IN  IF data = None THEN None ELSE WithoutVolume(data)

\* get_ohlcv: None when the fallback raises as well.
Ohlcv(exchange, coingecko) ==
  LET data == FirstAnswer(exchange)
  IN  IF data # None THEN data ELSE FromCoinGecko(coingecko)

-----------------------------------------------------------------------------
\* TechnicalAnalyzer: positive points for buying, negative for selling.

RsiPoints ==
  [oversold |-> 30, weakBull |-> 15, between |-> 0, weakBear |-> -15,
   overbought |-> -30]

\* macd says whether the MACD is above zero.
MacdPoints(macd, histogram) ==
  IF histogram = 0 THEN 0
  ELSE IF macd THEN (IF histogram > 0 THEN 25 ELSE -10)
  ELSE (IF histogram < 0 THEN -25 ELSE 5)

\* The first two compare price, EMA 50 and EMA 200, the next two price and EMA 50
\* when there are less than 200 candles.
TrendPoints ==
  [rising |-> 20, falling |-> -20, above |-> 10, below |-> -10, mixed |-> 0]

BandPoints == [lower |-> 15, inside |-> 0, upper |-> -15]

Strength(data) ==
  Within(50 + RsiPoints[data.rsi] + MacdPoints(data.macd, data.histogram)
            + TrendPoints[data.trend] + BandPoints[data.band], 0, 100)

TechnicalSignal(strength) ==
  IF strength > 65 THEN "BUY" ELSE IF strength < 35 THEN "SELL" ELSE "HOLD"

\* Both analyses raise for less than 50 candles.
Enough(data) == data.candles >= 50

-----------------------------------------------------------------------------
\* MarketSignalAnalyzer.

Spike(data)   == data.volume >= 150
DryUp(data)   == data.volume <= 30
High(data)    == data.volatility >= 125
Wild(data)    == data.volatility >= 175

\* Without a timestamp nothing is stale; three intervals of an hour otherwise.
Healthy(data) ==
  /\ data.silent < 80
  /\ data.age # None => data.age <= 3 * 3600

RiskOff(data) == ~Healthy(data) \/ DryUp(data) \/ Wild(data)

Adjustment(data) ==
  IF RiskOff(data) THEN 0
  ELSE (IF Spike(data) THEN 6 ELSE 0) - (IF DryUp(data) THEN 15 ELSE 0)
         - (IF High(data) THEN 10 ELSE 0)

-----------------------------------------------------------------------------
\* Sentiment: neutral without headlines or without a usable answer, None.

Scores == -100..100

Sentiment(headlines, answer) ==
  IF ~headlines \/ answer = None THEN 0 ELSE Within(answer, -100, 100)

-----------------------------------------------------------------------------
\* Strategy.decide; three tenths of the sentiment count.

NoTrade == [action |-> "HOLD", confidence |-> 0]

\* int() cuts off, which differs from \div for negative numbers alone, and these
\* become zero.
Weighted(strength, leaning, adjustment) ==
  Within((strength * (1000 + 3 * leaning) + 1000 * adjustment) \div 1000, 0, 100)

Leaning(action, score) == IF action = "BUY" THEN score ELSE -score

Confidence(data, action, score) ==
  Weighted(Strength(data), Leaning(action, score), Adjustment(data))

Decision(data, score) ==
  LET action == TechnicalSignal(Strength(data))
  IN  IF ~Healthy(data) \/ RiskOff(data) \/ action = "HOLD" THEN NoTrade
      ELSE [action |-> action, confidence |-> Confidence(data, action, score)]

\* run and SignalRouter.route: what reaches the publisher.
Routed(decision, threshold) ==
  decision.confidence >= threshold /\ decision.action # "HOLD"
=============================================================================
