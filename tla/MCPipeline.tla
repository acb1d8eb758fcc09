----------------------------- MODULE MCPipeline -----------------------------
(***************************************************************************)
(* Instances of SignalPipeline for TLC.                                    *)
(***************************************************************************)
EXTENDS SignalPipeline

CONSTANTS BTC, ETH

Strong == [rsi |-> "oversold", macd |-> TRUE, histogram |-> 1,
           trend |-> "mixed", band |-> "inside"]
Falling == [rsi |-> "weakBear", macd |-> FALSE, histogram |-> -1,
            trend |-> "falling", band |-> "inside"]

\* Technical analysis reads BTC in two timeframes, Twitter and the news two assets;
\* the loops that run together share keys of the cache.
PairLineups == {{"ta", "reddit"}, {"derivatives", "twitter"}, {"news"}}

PairWatch ==
  [ta |-> <<BTC, BTC>>, derivatives |-> <<BTC>>, twitter |-> <<BTC, ETH>>,
   reddit |-> <<BTC>>, news |-> <<BTC, ETH>>]

PairRaw ==
  [ta |-> {Strong, Falling}, derivatives |-> {-2000, 100},
   twitter |-> {[bulls |-> 3, bears |-> 1]}, reddit |-> {[bulls |-> 2, bears |-> 0]},
   news |-> {None, [bulls |-> 0, bears |-> 1], [bulls |-> 2, bears |-> 0]}]

AllKeys == {BTC, ETH} \X Directions

AllFine == [f \in Fields |-> "fine"]

Reply(object, state) == [object |-> object, state |-> state, confidence |-> 900]

\* An object with prose around it, prose alone, an object whose numbers are none.
FewReplies ==
  {Reply({"braces"}, AllFine), Reply({}, AllFine),
   Reply({"fence", "braces"}, [AllFine EXCEPT !.number = "null"])}
-----------------------------------------------------------------------------
\* Good news of one asset and bad news of another, collected in one cycle, share
\* a score that is neither's own; bad news alone never reaches the threshold.
GoodNews == Sentiment("news", [bulls |-> 2, bears |-> 0])
BadNews  == Sentiment("news", [bulls |-> 0, bears |-> 2])

ASSUME ScoresAreShared ==
  /\ RainbowScore(<<GoodNews, BadNews>>) = 500
  /\ RainbowScore(<<GoodNews>>) = 1000
  /\ RainbowScore(<<BadNews>>) = 0

\* Two types of one mind get the boost, a neutral one does not count.
ASSUME BoostNeedsTwoTypes ==
  /\ RainbowScore(<<GoodNews, Sentiment("social", [bulls |-> 1, bears |-> 1])>>) = 500
  /\ RainbowScore(<<Sentiment("news", [bulls |-> 2, bears |-> 1]),
                    Sentiment("social", [bulls |-> 3, bears |-> 2])>>) = 716

\* An empty object counts as an answer, one with a null for a list does not.
ASSUME RepliesAreRead ==
  /\ Build(Reply({"whole"}, [f \in Fields |-> "missing"])) = Verdict(0, "usable")
  /\ ~Usable(Reply({"whole"}, [AllFine EXCEPT !.list = "null"]))
  /\ Usable(Reply({}, [AllFine EXCEPT !.list = "null"]))
  /\ Usable(Reply({"whole"}, [AllFine EXCEPT !.size = "malformed"]))
  /\ ~Usable(Reply({"whole"}, [AllFine EXCEPT !.size = "excessive"]))
=============================================================================
