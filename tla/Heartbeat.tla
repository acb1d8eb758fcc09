----------------------------- MODULE Heartbeat -----------------------------
(***************************************************************************)
(* The heartbeat thread of the legacy bot (adapters/heartbeat.py).  It     *)
(* polls AI4Trade, hands every batch of messages to the main loop through  *)
(* a queue.Queue and sleeps on the shutdown event between two polls.       *)
(* Batches are numbered in the order the thread receives them.             *)
(***************************************************************************)
EXTENDS Integers, Sequences

CONSTANTS
  MaxConsecutivePolls,   \* MAX_CONSECUTIVE_POLLS
  BreakerThreshold,      \* CIRCUIT_BREAKER_THRESHOLD
  MaxBatches             \* bound on the batches AI4Trade ever hands out

ASSUME HeartbeatAssumption ==
  MaxConsecutivePolls \in Nat \ {0} /\ BreakerThreshold \in Nat \ {0} /\ MaxBatches \in Nat

VARIABLES
  shutdown,       \* the threading.Event
  messageQueue,   \* batches put and not taken yet
  fetched,        \* number of batches received
  beat            \* the thread: its place, _error_count, consecutive_polls

thread == <<messageQueue, fetched, beat>>

BeatPlaces == {"poll", "wait", "pause", "ended"}

HeartbeatTypeOK ==
  /\ shutdown \in BOOLEAN
  /\ fetched \in 0..MaxBatches
  /\ messageQueue \in Seq(1..MaxBatches)
  /\ beat \in [pc : BeatPlaces, errors : 0..BreakerThreshold,
               polls : 0..(MaxConsecutivePolls - 1)]

FreshThread == [pc |-> "poll", errors |-> 0, polls |-> 0]

HeartbeatInit ==
  /\ shutdown = FALSE
  /\ messageQueue = <<>>
  /\ fetched = 0
  /\ beat = FreshThread

\* Mutant: a batch that comes with the hint that there is more is not put.
PollAnsweredDropping ==
  /\ beat.pc = "poll"
  /\ \E hasMore \in BOOLEAN :
       /\ \/ /\ fetched < MaxBatches
             /\ fetched' = fetched + 1
             /\ messageQueue' = IF hasMore THEN messageQueue
                                ELSE Append(messageQueue, fetched + 1)
          \/ UNCHANGED <<fetched, messageQueue>>
       /\ beat' = [pc |-> "wait", errors |-> 0,
                   polls |-> IF hasMore THEN (beat.polls + 1) % MaxConsecutivePolls ELSE 0]
  /\ UNCHANGED shutdown

\* The POST is answered, with or without messages, with or without the hint
\* that there are more; the thread sleeps for its interval in every case.
PollAnswered ==
  /\ beat.pc = "poll"
  /\ \/ /\ fetched < MaxBatches
        /\ fetched' = fetched + 1
        /\ messageQueue' = Append(messageQueue, fetched + 1)
     \/ UNCHANGED <<fetched, messageQueue>>
  /\ \E hasMore \in BOOLEAN :
       beat' = [pc |-> "wait", errors |-> 0,
                polls |-> IF hasMore THEN (beat.polls + 1) % MaxConsecutivePolls ELSE 0]
  /\ UNCHANGED shutdown

\* The POST or the answer fails: the third failure in a row opens the breaker.
PollFailed ==
  /\ beat.pc = "poll"
  /\ beat' = [beat EXCEPT !.errors = @ + 1,
                          !.pc = IF beat.errors + 1 >= BreakerThreshold
                                 THEN "pause" ELSE "wait"]
  /\ UNCHANGED <<shutdown, messageQueue, fetched>>

\* The wait ends, by its timeout or by the event, and the loop looks at the event.
Wake ==
  /\ beat.pc \in {"wait", "pause"}
  /\ beat' = [beat EXCEPT !.errors = IF beat.pc = "pause" THEN 0 ELSE @,
                          !.pc = IF shutdown THEN "ended" ELSE "poll"]
  /\ UNCHANGED <<shutdown, messageQueue, fetched>>

HeartbeatStep == PollAnswered \/ PollFailed \/ Wake
=============================================================================
