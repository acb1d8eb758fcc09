---------------------------- MODULE MCDelivery ----------------------------
(***************************************************************************)
(* Instances of DeliveryWorker for TLC: two tradable rows, one that is     *)
(* published later than the other, and rows that the policy turns away.    *)
(***************************************************************************)
EXTENDS DeliveryWorker

CONSTANTS i1, i2, i3

Row(id, at, direction, strength, value) ==
  [id |-> id, technical |-> TRUE, asset |-> "BTC", at |-> at,
   direction |-> direction, strength |-> strength, value |-> value]

BuyRow  == Row(i1, 0, "bullish", 80, 100)
SellRow == Row(i2, 1, "bearish", 30, 90)
HoldRow == Row(i3, 0, "bullish", 65, 100)

OneSignal   == {BuyRow}
TwoSignals  == {BuyRow, SellRow}
WithRefused == {BuyRow, SellRow, HoldRow}

Routes(quantity) == [a \in {"BTC"} |-> [symbol |-> "BTCUSDT", quantity |-> quantity]]

Start(mode, heartbeat) ==
  [mode |-> mode, heartbeat |-> heartbeat, routes |-> Routes(1)]

AllModes  == {Start("off", FALSE), Start("shadow", FALSE), Start("live", TRUE)}
LiveModes == {Start("live", TRUE), Start("live", FALSE)}
LiveOnly  == {Start("live", FALSE)}
=============================================================================
