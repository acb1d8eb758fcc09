-------------------------- MODULE DeliveryPolicy --------------------------
(***************************************************************************)
(* The pure eligibility policy of the delivery worker                      *)
(* (rainbow/delivery/policy.py): which Rainbow rows become AI4Trade        *)
(* payloads, and the fingerprint that identifies a payload.                *)
(*                                                                         *)
(* A row is a record                                                       *)
(*   [id, technical, asset, at, direction, strength, value]                *)
(* where strength is in hundredths and any field that is absent, null, of  *)
(* the wrong type or unparsable holds Missing.  Asset names are compared   *)
(* after upper(), so a name stands for all its spellings.  A route table   *)
(* is a function from the configured assets to [symbol, quantity]; an      *)
(* empty symbol is Missing.                                                *)
(***************************************************************************)
EXTENDS Integers

CONSTANTS
  Missing,       \* a JSON value the policy cannot use
  MaxSignalAge   \* config.max_signal_age_seconds, in ticks of the clock

ASSUME MaxSignalAgeAssumption == MaxSignalAge \in Int

Identified(row) == row.id # Missing /\ row.asset # Missing

Authorized(row, routes) ==
  /\ row.asset \in DOMAIN routes
  /\ routes[row.asset].quantity > 0
  /\ routes[row.asset].symbol # Missing

\* A timestamp in the future has a negative age and counts as fresh.
Fresh(row, time) == row.at # Missing /\ time - row.at <= MaxSignalAge

Buys(row)  == row.direction = "bullish" /\ row.strength # Missing /\ row.strength > 65
Sells(row) == row.direction = "bearish" /\ row.strength # Missing /\ row.strength < 35

Priced(row) == row.value # Missing /\ row.value > 0

Eligible(row, routes, time) ==
  /\ row.technical
  /\ Identified(row)
  /\ Authorized(row, routes)
  /\ Fresh(row, time)
  /\ Buys(row) \/ Sells(row)
  /\ Priced(row)

\* The digest is taken over these five fields and assumed free of collisions.
Fingerprint(row, routes) ==
  <<row.id, IF Buys(row) THEN "BUY" ELSE "SELL",
    routes[row.asset].symbol, row.value, routes[row.asset].quantity>>
=============================================================================
