----------------------------- MODULE Webhooks -----------------------------
(***************************************************************************)
(* The subscription table of the Rainbow engine                            *)
(* (rainbow/distribution/webhooks.py): a dict from ids to subscriptions,   *)
(* in memory.  An id is the number of entries and the second it was made.  *)
(* Subscriptions are numbered in the order of the calls of subscribe.      *)
(***************************************************************************)
EXTENDS Integers, FiniteSets

CONSTANT MaxFailures     \* WebhookManager.MAX_FAILURES

ASSUME MaxFailuresAssumption == MaxFailures \in Nat \ {0}

NoTable == [id \in {} |-> 0]

\* Mutant: the id is the number of entries alone.
SubIdWithoutTime(table, second) == <<Cardinality(DOMAIN table), 0>>

SubId(table, second) == <<Cardinality(DOMAIN table), second>>

\* An entry with the same id is replaced without a word.
Register(table, id, k) ==
  [i \in DOMAIN table \cup {id} |-> IF i = id THEN k ELSE table[i]]

Remove(table, id) == [i \in DOMAIN table \ {id} |-> table[i]]

Registered(table) == {table[id] : id \in DOMAIN table}

\* Mutant: subscriptions that have failed too often are asked again.
EnabledAlways(failures, k) == TRUE

Enabled(failures, k) == failures[k] < MaxFailures

\* What _deliver records; an exception that is not an httpx.HTTPError is
\* swallowed by gather and counts neither way.
Count(failures, k, answer) ==
  CASE answer = "ok"      -> [failures EXCEPT ![k] = 0]
    [] answer = "failed"  -> [failures EXCEPT ![k] = @ + 1]
    [] answer = "unknown" -> failures
=============================================================================
