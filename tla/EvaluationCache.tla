--------------------------- MODULE EvaluationCache ---------------------------
(***************************************************************************)
(* The cache of the LLM evaluator (rainbow/evaluation/cache.py): what was  *)
(* stored under a key of asset and direction, and the keys in the order of *)
(* their last use, oldest first.  Times are kept as ages.                  *)
(***************************************************************************)
EXTENDS Integers, Sequences, SequencesExt

CONSTANTS
  None,
  Keys,       \* pairs of an asset and a direction
  Ttl,        \* cache_ttl_seconds
  MaxSize     \* max_size

ASSUME CacheAssumption == Ttl \in Nat \ {0} /\ MaxSize \in Nat \ {0}

\* Whatever is older than Ttl has the age Ttl.
Older(age) == IF age < Ttl THEN age + 1 ELSE age

Stored(held, k) == held[k] # None

Fresh(held, k) == Stored(held, k) /\ held[k].age < Ttl

\* A key is in the order once at most.
Used(order, k) == Append(RemoveFirst(order, k), k)

\* get of a key that is too old.
Forget(held, k) == [held EXCEPT ![k] = None]

Unused(order, k) == RemoveFirst(order, k)

\* The keys that stay when k is set: popitem takes the one used least recently.
Kept(order, k) ==
  IF Len(Used(order, k)) > MaxSize THEN Tail(Used(order, k)) ELSE Used(order, k)

\* set.
Entry(evaluation) == [evaluation |-> evaluation, age |-> 0]

Put(held, order, k, evaluation) ==
  [j \in Keys |-> IF j = k THEN Entry(evaluation)
                  ELSE IF Contains(Kept(order, k), j) THEN held[j] ELSE None]
=============================================================================
