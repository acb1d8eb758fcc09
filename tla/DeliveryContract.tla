------------------------- MODULE DeliveryContract -------------------------
(***************************************************************************)
(* What the delivery worker and its outbox promise about one payload       *)
(* fingerprint: it is recorded once, as evidence or for delivery; only     *)
(* what is queued is transmitted; a transmission ends in a trade, in doubt *)
(* or in nothing; a queued entry is settled once, as delivered only after  *)
(* a trade.  Transmitting at least once is all that is promised.           *)
(***************************************************************************)
EXTENDS Integers

CONSTANT Entries

VARIABLES
  stage,   \* what the outbox says of each entry
  trades,  \* trades AI4Trade made of it
  doubt    \* transmissions that may become a trade yet

contractVars == <<stage, trades, doubt>>

Init ==
  /\ stage = [e \in Entries |-> "none"]
  /\ trades = [e \in Entries |-> 0]
  /\ doubt = [e \in Entries |-> 0]

Record(e) ==
  /\ stage[e] = "none"
  /\ \E s \in {"evidence", "queued"} : stage' = [stage EXCEPT ![e] = s]
  /\ UNCHANGED <<trades, doubt>>

Transmit(e) ==
  /\ stage[e] = "queued"
  /\ \/ trades' = [trades EXCEPT ![e] = @ + 1] /\ UNCHANGED doubt
     \/ doubt' = [doubt EXCEPT ![e] = @ + 1] /\ UNCHANGED trades
  /\ UNCHANGED stage

ResolveDoubt(e) ==
  /\ doubt[e] > 0
  /\ doubt' = [doubt EXCEPT ![e] = @ - 1]
  /\ trades' = [trades EXCEPT ![e] = @ + 1]
  /\ UNCHANGED stage

Settle(e) ==
  /\ stage[e] = "queued"
  /\ \/ trades[e] > 0 /\ stage' = [stage EXCEPT ![e] = "delivered"]
     \/ stage' = [stage EXCEPT ![e] = "abandoned"]
  /\ UNCHANGED <<trades, doubt>>

Next == \E e \in Entries : Record(e) \/ Transmit(e) \/ ResolveDoubt(e) \/ Settle(e)

Spec == Init /\ [][Next]_contractVars
=============================================================================
