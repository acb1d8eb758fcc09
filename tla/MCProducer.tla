---------------------------- MODULE MCProducer ----------------------------
(***************************************************************************)
(* Instances of SignalProducer for TLC: AI4Trade takes every signal in the *)
(* end, or answers the second one with an HTTP error for ever.             *)
(***************************************************************************)
EXTENDS SignalProducer

NoPoison == {}

SecondPoisoned == {2}

Rising ==
  [candles |-> 200, rsi |-> "weakBull", macd |-> TRUE, histogram |-> 1,
   trend |-> "rising", band |-> "inside", volume |-> 160, volatility |-> 130,
   silent |-> 0, age |-> 60]

Short == [Rising EXCEPT !.candles = 30, !.trend = "above"]

Market(exchange, coingecko, headlines, answer) ==
  [exchange |-> exchange, coingecko |-> coingecko, headlines |-> headlines,
   answer |-> answer]

\* A market that rises, seen through an exchange that answers late, through
\* CoinGecko, through neither, and with a history that is too short.
Views ==
  {Market(<<None, None, Rising>>, <<None, None>>, TRUE, 50),
   Market(<<None, None, None>>, <<None, Rising>>, TRUE, None),
   Market(<<None, None, None>>, <<None, None>>, FALSE, None),
   Market(<<Short, None, None>>, <<None, None>>, FALSE, None)}
=============================================================================
