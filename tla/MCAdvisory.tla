----------------------------- MODULE MCAdvisory -----------------------------
(***************************************************************************)
(* Instances of FreqtradeBridge for TLC.  A confidence of 0.6000006 is     *)
(* rounded up by the modulator, one of 0.9 is cut to 0.65.                 *)
(***************************************************************************)
EXTENDS FreqtradeBridge, TradingStrategy

Offer(direction, confidence) ==
  [class |-> "entry", direction |-> direction, quality |-> "ok",
   confidence |-> confidence, risk |-> 5000000]

Shapes == {Offer("bullish", 6000006), Offer("neutral", 9000000)}

\* The market as the bot sees it: calm or not, with rising prices, falling ones
\* and neither, and a feed that has no volumes.
Data(rsi, trend, volume, volatility) ==
  [candles |-> 200, rsi |-> rsi, macd |-> trend = "rising",
   histogram |-> CASE trend = "rising" -> 1 [] trend = "falling" -> -1 [] OTHER -> 0,
   trend |-> trend, band |-> "inside", volume |-> volume, volatility |-> volatility,
   silent |-> 0, age |-> 60]

Rising    == Data("weakBull", "rising", 100, 100)
Falling   == Data("between", "falling", 100, 100)
Excited   == Data("between", "falling", 160, 130)
Sideways  == Data("between", "mixed", 100, 100)

\* Decisions in a market that rises or stands still.
CalmSignals == {Decision(Rising, 0), Decision(WithoutVolume(Rising), 0)}

\* Decisions in one that falls, quietly and with much volume and volatility.
FallingSignals == {Decision(Falling, 0), Decision(Excited, 0), Decision(Sideways, 0)}

OnlyPast == {2}

\* What Later makes of lists of up to three entries is what a filter does.
ASSUME LaterIsFilter ==
  \A n \in 0..3 : \A stamps \in [1..n -> 0..3], cutoff \in -1..3 :
    Later(stamps, cutoff) = SelectSeq(stamps, LAMBDA stamp : stamp > cutoff)
=============================================================================
