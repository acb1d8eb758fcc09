-------------------------- MODULE SignalPublisher --------------------------
(***************************************************************************)
(* The retry buffer of the legacy publisher (adapters/signal_publisher.py):*)
(* an in-memory list of at most MaxQueue signals.  Signals are numbered in *)
(* the order the strategy decides them.                                    *)
(***************************************************************************)
EXTENDS Integers, Sequences

CONSTANT MaxQueue    \* config.MAX_SIGNAL_QUEUE

ASSUME MaxQueueAssumption == MaxQueue \in Nat

Items(queue) == {queue[i] : i \in 1..Len(queue)}

\* Mutant: the length is compared before the append.
EnqueueTooLate(queue, s) ==
  IF Len(queue) > MaxQueue THEN Tail(Append(queue, s)) ELSE Append(queue, s)

\* append, then pop(0) when the list has become too long.
Enqueue(queue, s) ==
  IF Len(queue) + 1 > MaxQueue THEN Tail(Append(queue, s)) ELSE Append(queue, s)

\* What a flush could not deliver keeps its place among the others.
Keep(remaining, s) == Append(remaining, s)
=============================================================================
