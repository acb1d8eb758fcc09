----------------------------- MODULE MCEngine -----------------------------
(***************************************************************************)
(* Instances of RainbowEngine for TLC.                                     *)
(***************************************************************************)
EXTENDS RainbowEngine

CONSTANTS c1, c2

Both == {c1, c2}

Load(s, k, t, f, filters) ==
  [signals |-> s, subs |-> k, seconds |-> t, faults |-> f, filters |-> filters]

\* Many signals of two loops that post to one subscription, and a fault; or many
\* subscriptions to one of the loops, made and given back within one second and
\* across two.
SignalsOrSubscriptions == {Load(3, 1, 0, 1, {Both}), Load(1, 3, 1, 0, {{c1}})}
=============================================================================
