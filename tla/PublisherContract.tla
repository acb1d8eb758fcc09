------------------------ MODULE PublisherContract ------------------------
(***************************************************************************)
(* What the legacy bot promises about the signals it decides: they are     *)
(* decided in order; one that is held is posted, as often as it takes,     *)
(* until a trade settles it; the oldest one gives way when too many are    *)
(* held; the end of the process loses all that are held, and nothing else. *)
(* A signal that is not held any more is never traded again.               *)
(***************************************************************************)
EXTENDS Integers

CONSTANT Entries    \* signals, numbered in the order of their decision

VARIABLES
  stage,   \* of each signal
  trades   \* how often AI4Trade has turned it into a trade

contractVars == <<stage, trades>>

Stages == {"undecided", "held", "settled", "dropped", "lost"}

Held == {e \in Entries : stage[e] = "held"}

Init ==
  /\ stage = [e \in Entries |-> "undecided"]
  /\ trades = [e \in Entries |-> 0]

Decide(e) ==
  /\ stage[e] = "undecided"
  /\ \A f \in Entries : stage[f] = "undecided" <=> e <= f
  /\ stage' = [stage EXCEPT ![e] = "held"]
  /\ UNCHANGED trades

Trade(e) == stage[e] = "held" /\ trades' = [trades EXCEPT ![e] = @ + 1]

\* The oldest of the signals held gives way.
DropOldest ==
  \E e \in Held :
    /\ \A f \in Held : e <= f
    /\ stage' = [stage EXCEPT ![e] = "dropped"]

\* A post that nobody confirmed may have traded, and may cost the oldest its place.
Attempt ==
  /\ UNCHANGED trades \/ \E e \in Held : Trade(e)
  /\ UNCHANGED stage \/ DropOldest

Move(S, to) ==
  /\ stage' = [e \in Entries |-> IF e \in S THEN to ELSE stage[e]]
  /\ UNCHANGED trades

Settle == \E S \in SUBSET Held : (\A e \in S : trades[e] > 0) /\ Move(S, "settled")

Die == Move(Held, "lost")

Next == (\E e \in Entries : Decide(e)) \/ Attempt \/ Settle \/ Die

Spec == Init /\ [][Next]_contractVars
==========================================================================
