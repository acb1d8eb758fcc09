--------------------------- MODULE EngineContract ---------------------------
(***************************************************************************)
(* What the Rainbow engine promises about the signals it collects: they    *)
(* are numbered as they are taken; one that is taken may be kept for good, *)
(* then listed once in the canonical registry and announced once to the    *)
(* subscribers, or it is dropped.  A dropped one may still be kept, but is *)
(* neither listed nor announced any more, and what is kept stays.          *)
(***************************************************************************)
EXTENDS Integers

CONSTANT Signals

VARIABLES
  stage,   \* of each signal
  kept,    \* the signals that the store holds for good
  listed   \* the signals in the canonical registry

contractVars == <<stage, kept, listed>>

Stages == {"fresh", "taken", "announced", "dropped"}

At(st) == {s \in Signals : stage[s] = st}

Move(S, st) == stage' = [s \in Signals |-> IF s \in S THEN st ELSE stage[s]]

Init ==
  /\ stage = [s \in Signals |-> "fresh"]
  /\ kept = {} /\ listed = {}

Take ==
  /\ \E S \in SUBSET At("fresh") :
       /\ \A s \in S, f \in At("fresh") \ S : s < f
       /\ Move(S, "taken")
  /\ UNCHANGED <<kept, listed>>

Keep == \E S \in SUBSET (Signals \ At("fresh")) : kept' = kept \cup S

List(s) == s \in kept' /\ s \notin listed /\ listed' = listed \cup {s}

Save ==
  /\ Keep
  /\ UNCHANGED listed \/ \E s \in At("taken") : List(s)
  /\ UNCHANGED stage

Announce ==
  /\ \E s \in At("taken") \cap kept : Move({s}, "announced")
  /\ UNCHANGED <<kept, listed>>

\* A commit that was under way may still happen.
Drop ==
  /\ \E S \in SUBSET At("taken") : Move(S, "dropped")
  /\ Keep
  /\ UNCHANGED listed

Next == Take \/ Save \/ Announce \/ Drop

Spec == Init /\ [][Next]_contractVars
=============================================================================
