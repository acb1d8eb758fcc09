-------------------------- MODULE SignalProducer --------------------------
(***************************************************************************)
(* The legacy bot (main.py): a main loop that lets the strategy decide one *)
(* signal per asset, posts it through the router and the publisher, handles*)
(* the messages of the heartbeat thread and flushes the retry buffer.      *)
(*                                                                         *)
(* What exchange, CoinGecko and news say of an asset is a choice; the      *)
(* strategy then fails, proposes nothing worth routing or decides a signal.*)
(* A signal is its number.  The canonical side-write and the heartbeat file*)
(* are left out: no step of this loop reads them and neither can fail it.  *)
(***************************************************************************)
EXTENDS SignalPublisher, Heartbeat, TradingStrategy, FiniteSets

CONSTANTS
  Markets,       \* what the sources may say of an asset
  Threshold,     \* CONFIDENCE_THRESHOLD
  Assets,        \* number of assets handled in a cycle
  MaxSignals,    \* bound on the signals the strategy ever decides
  Poisoned,      \* signals AI4Trade always answers with an HTTP error
  MaxFaults,     \* bound on everything else that goes wrong
  MaxTally       \* bound on the trades made of one signal

Signals == 1..MaxSignals

ASSUME ProducerAssumption ==
  /\ Assets \in Nat /\ MaxSignals \in Nat /\ MaxFaults \in Nat /\ MaxTally \in Nat
  /\ Poisoned \subseteq Signals
  /\ None \notin Nat /\ Threshold \in Nat
  /\ \A m \in Markets :
       /\ m.exchange \in [1..3 -> Candles \cup {None}]
       /\ m.coingecko \in [1..2 -> Candles \cup {None}]
       /\ m.headlines \in BOOLEAN /\ m.answer \in Int \cup {None}

Places == {"idle", "assets", "send", "save", "tasks", "flush", "final", "close",
           "stopped", "failed", "killed"}

Ended == {"stopped", "failed", "killed"}

VARIABLES
  pc,            \* where the main thread stands
  left,          \* assets of this cycle not looked at yet
  hand,          \* the signal being published
  queue,         \* SignalPublisher.queue
  at, remaining, \* flush_queue: position in the queue, items kept so far
  handled,       \* number of the last batch the task handler took
  saved,         \* rows of the signals table, per signal
  trades,        \* AI4Trade: how often each signal was turned into a trade
  produced,      \* history: number of signals decided
  confirmed,     \* history: confirmations the publisher saw, per signal
  excused,       \* history: why a confirmed signal may be posted again
  dropped, lost, \* history: signals pushed out by others, gone with the process
  faults

process == <<pc, left, hand, at, remaining>>
outside == <<saved, trades>>
history == <<produced, confirmed, excused, dropped, lost, faults>>
vars    == <<shutdown, thread, process, queue, handled, outside, history>>

Tally == [Signals -> Nat]

Init ==
  /\ HeartbeatInit
  /\ pc = "idle" /\ left = 0 /\ hand = None
  /\ queue = <<>> /\ at = 1 /\ remaining = <<>>
  /\ handled = 0
  /\ saved = [s \in Signals |-> 0]
  /\ trades = [s \in Signals |-> 0]
  /\ produced = 0
  /\ confirmed = [s \in Signals |-> 0]
  /\ excused = [s \in Signals |-> 0]
  /\ dropped = {} /\ lost = {}
  /\ faults = 0

Bump(f, s) == [f EXCEPT ![s] = @ + 1]

Fault == faults < MaxFaults /\ faults' = faults + 1

Goto(place) == pc' = place /\ UNCHANGED <<left, at, remaining>>

(***************************************************************************)
(* One cycle                                                               *)
(***************************************************************************)

\* Bound: a signal that stands before a poisoned one is confirmed, and traded,
\* again in every cycle; no cycle starts once one has MaxTally trades.
WithinTally == \A s \in Signals : trades[s] < MaxTally

\* Mutant: the loop condition is not looked at.
StartCycleAnyway ==
  /\ pc = "idle" /\ WithinTally
  /\ pc' = "assets" /\ left' = Assets
  /\ UNCHANGED <<shutdown, thread, hand, at, remaining, queue, handled, outside, history>>

\* The wait of DATA_INTERVAL seconds ends and the event is not set.
StartCycle ==
  /\ pc = "idle" /\ ~shutdown /\ WithinTally
  /\ pc' = "assets" /\ left' = Assets
  /\ UNCHANGED <<shutdown, thread, hand, at, remaining, queue, handled, outside, history>>

Data(m) == Ohlcv(m.exchange, m.coingecko)

\* Some source has candles, and enough of them for the analysis.
Usable(m) == Data(m) # None /\ Enough(Data(m))

\* What the strategy may decide: the sentiment may be one that was cached when
\* another asset was looked at.
Decisions ==
  {Decision(Data(m), Sentiment(n.headlines, n.answer)) :
     m \in {k \in Markets : Usable(k)}, n \in Markets}

Worthless == {d \in Decisions : ~Routed(d, Threshold)}

Worthwhile == {d \in Decisions : Routed(d, Threshold)}

\* HOLD, or a confidence below the threshold.
NothingToRoute ==
  /\ pc = "assets" /\ left > 0
  /\ Worthless # {}
  /\ left' = left - 1
  /\ UNCHANGED <<shutdown, thread, pc, hand, at, remaining, queue, handled, outside, history>>

\* Market data or analysis raise: the rest of the cycle is skipped.
AnalysisFails ==
  /\ pc = "assets" /\ left > 0 /\ Fault
  /\ \E m \in Markets : ~Usable(m)
  /\ pc' = "idle" /\ left' = 0
  /\ UNCHANGED <<shutdown, thread, hand, at, remaining, queue, handled, outside,
                 produced, confirmed, excused, dropped, lost>>

Decide ==
  /\ pc = "assets" /\ left > 0
  /\ produced < MaxSignals
  /\ Worthwhile # {}
  /\ produced' = produced + 1
  /\ hand' = produced + 1
  /\ pc' = "send" /\ left' = left - 1
  /\ UNCHANGED <<shutdown, thread, at, remaining, queue, handled, outside,
                 confirmed, excused, dropped, lost, faults>>

(***************************************************************************)
(* What a POST did and what the sender learns.  An answer without a truthy *)
(* "success" (the client unwraps "data") and an exception both leave open  *)
(* whether AI4Trade accepted; a late acceptance is taken to happen at once.*)
(***************************************************************************)
Confirmed(s) ==
  /\ s \notin Poisoned
  /\ trades' = Bump(trades, s)
  /\ confirmed' = Bump(confirmed, s)
  /\ UNCHANGED faults

Unconfirmed(s) ==
  /\ s \notin Poisoned /\ Fault
  /\ trades' \in {trades, Bump(trades, s)}
  /\ UNCHANGED confirmed

Raised(s) ==
  \/ Unconfirmed(s)
  \/ s \in Poisoned /\ UNCHANGED <<trades, confirmed, faults>>

\* _enqueue of the signal in hand, with what falls out of the buffer.
BufferHand ==
  /\ queue' = Enqueue(queue, hand)
  /\ dropped' = dropped \cup ((Items(queue) \cup {hand}) \ Items(Enqueue(queue, hand)))
  /\ hand' = None

PublishConfirmed ==
  /\ pc = "send"
  /\ Confirmed(hand)
  /\ Goto("save")
  /\ UNCHANGED <<shutdown, thread, hand, queue, handled, saved,
                 produced, excused, dropped, lost>>

PublishFails ==
  /\ pc = "send"
  /\ Raised(hand)
  /\ BufferHand
  /\ Goto("assets")
  /\ UNCHANGED <<shutdown, thread, handled, saved, produced, excused, lost>>

SaveSignal ==
  /\ pc = "save"
  /\ saved' = Bump(saved, hand)
  /\ hand' = None
  /\ Goto("assets")
  /\ UNCHANGED <<shutdown, thread, queue, handled, trades, history>>

\* The same try block guards the save: a signal that was sent is buffered when
\* the database raises, whether or not the row gets committed after all.
SaveFails ==
  /\ pc = "save" /\ Fault
  /\ saved' \in {saved, Bump(saved, hand)}
  /\ excused' = Bump(excused, hand)
  /\ BufferHand
  /\ Goto("assets")
  /\ UNCHANGED <<shutdown, thread, handled, trades, produced, confirmed, lost>>

AssetsDone ==
  /\ pc = "assets" /\ left = 0
  /\ Goto("tasks")
  /\ UNCHANGED <<shutdown, thread, hand, queue, handled, outside, history>>

\* process_pending takes one batch after the other; they are only logged.
TakeTask ==
  /\ pc = "tasks" /\ messageQueue # <<>>
  /\ handled' = Head(messageQueue)
  /\ messageQueue' = Tail(messageQueue)
  /\ UNCHANGED <<shutdown, fetched, beat, process, queue, outside, history>>

StartFlush(place) ==
  /\ pc' = place /\ at' = 1 /\ remaining' = <<>>
  /\ UNCHANGED <<shutdown, thread, left, hand, queue, handled, outside, history>>

\* Mutant: only a full buffer is flushed.
TasksDoneFlushingWhenFull ==
  /\ pc = "tasks" /\ messageQueue = <<>>
  /\ StartFlush(IF Len(queue) < MaxQueue THEN "idle" ELSE "flush")

TasksDone ==
  /\ pc = "tasks" /\ messageQueue = <<>>
  /\ StartFlush("flush")

(***************************************************************************)
(* flush_queue, once per cycle ("flush") and once more at the end ("final")*)
(***************************************************************************)
Flushing == pc \in {"flush", "final"}

FlushConfirmed ==
  /\ Flushing /\ at <= Len(queue)
  /\ Confirmed(queue[at])
  /\ at' = at + 1
  /\ UNCHANGED <<shutdown, thread, pc, left, hand, remaining, queue, handled, saved,
                 produced, excused, dropped, lost>>

FlushUnconfirmed ==
  /\ Flushing /\ at <= Len(queue)
  /\ Unconfirmed(queue[at])
  /\ remaining' = Keep(remaining, queue[at])
  /\ at' = at + 1
  /\ UNCHANGED <<shutdown, thread, pc, left, hand, queue, handled, saved,
                 produced, excused, dropped, lost>>

\* What this flush has confirmed so far.
JustConfirmed == {queue[i] : i \in 1..(at - 1)} \ Items(remaining)

Excuse(set) == [s \in Signals |-> excused[s] + (IF s \in set THEN 1 ELSE 0)]

\* An exception leaves the queue as it was before the flush.  In a cycle the
\* loop logs it and goes on; at the end nothing catches it.
FlushRaises ==
  /\ Flushing /\ at <= Len(queue)
  /\ Raised(queue[at])
  /\ excused' = Excuse(JustConfirmed)
  /\ remaining' = <<>> /\ at' = 1
  /\ pc' = IF pc = "flush" THEN "idle" ELSE "failed"
  /\ beat' = IF pc = "flush" THEN beat ELSE [beat EXCEPT !.pc = "ended"]
  /\ UNCHANGED <<shutdown, messageQueue, fetched, left, hand, queue, handled, saved,
                 produced, dropped, lost>>

\* Mutant: the queue is cleared instead.
FlushDoneClearing ==
  /\ Flushing /\ at > Len(queue)
  /\ queue' = <<>>
  /\ remaining' = <<>> /\ at' = 1
  /\ pc' = IF pc = "flush" THEN "idle" ELSE "close"
  /\ UNCHANGED <<shutdown, thread, left, hand, handled, outside, history>>

\* Mutant: the queue is left as it was.
FlushDoneKeeping ==
  /\ Flushing /\ at > Len(queue)
  /\ remaining' = <<>> /\ at' = 1
  /\ pc' = IF pc = "flush" THEN "idle" ELSE "close"
  /\ UNCHANGED <<shutdown, thread, left, hand, queue, handled, outside, history>>

FlushDone ==
  /\ Flushing /\ at > Len(queue)
  /\ queue' = remaining
  /\ remaining' = <<>> /\ at' = 1
  /\ pc' = IF pc = "flush" THEN "idle" ELSE "close"
  /\ UNCHANGED <<shutdown, thread, left, hand, handled, outside, history>>

(***************************************************************************)
(* Shutdown, crash and restart                                             *)
(***************************************************************************)

\* SIGINT or SIGTERM: the handler only sets the event.
RequestShutdown ==
  /\ pc \notin Ended /\ ~shutdown
  /\ shutdown' = TRUE
  /\ UNCHANGED <<thread, process, queue, handled, outside, history>>

BeginShutdown ==
  /\ pc = "idle" /\ shutdown
  /\ StartFlush("final")

\* The audit row is written and the database closed; the daemon thread ends
\* with the process.
Close ==
  /\ pc = "close"
  /\ \/ pc' = "stopped" /\ UNCHANGED faults
     \/ pc' = "failed" /\ Fault
  /\ beat' = [beat EXCEPT !.pc = "ended"]
  /\ UNCHANGED <<shutdown, messageQueue, fetched, left, hand, at, remaining, queue,
                 handled, outside, produced, confirmed, excused, dropped, lost>>

Kill ==
  /\ pc \notin Ended /\ Fault
  /\ Goto("killed")
  /\ beat' = [beat EXCEPT !.pc = "ended"]
  /\ UNCHANGED <<shutdown, messageQueue, fetched, hand, queue, handled, outside,
                 produced, confirmed, excused, dropped, lost>>

\* The container is started again: only the database has survived.
Restart ==
  /\ pc \in Ended
  /\ shutdown' = FALSE
  /\ messageQueue' = <<>> /\ handled' = fetched /\ UNCHANGED fetched
  /\ beat' = FreshThread
  /\ pc' = "idle" /\ left' = 0 /\ hand' = None
  /\ queue' = <<>> /\ at' = 1 /\ remaining' = <<>>
  /\ lost' = lost \cup Items(queue) \cup ({hand} \ {None})
  /\ UNCHANGED <<outside, produced, confirmed, excused, dropped, faults>>

Step ==
  \/ StartCycle \/ NothingToRoute \/ AnalysisFails \/ Decide
  \/ PublishConfirmed \/ PublishFails \/ SaveSignal \/ SaveFails
  \/ AssetsDone \/ TakeTask \/ TasksDone
  \/ FlushConfirmed \/ FlushUnconfirmed \/ FlushRaises \/ FlushDone
  \/ BeginShutdown \/ Close

Poll == HeartbeatStep /\ UNCHANGED <<process, queue, handled, outside, history>>

Next == Step \/ Poll \/ RequestShutdown \/ Kill \/ Restart

Spec == Init /\ [][Next]_vars

\* The main thread alone: the heartbeat thread happens not to be scheduled.
MainSpec == Init /\ [][Step \/ RequestShutdown \/ Kill \/ Restart]_vars

\* Every wait and every request of either thread has a timeout (DATA_INTERVAL,
\* HEARTBEAT_INTERVAL, 15 s), so neither stands still for ever.
FairSpec == Spec /\ WF_vars(Step) /\ WF_vars(Poll)

(***************************************************************************)
(* Properties                                                              *)
(***************************************************************************)
TypeOK ==
  /\ HeartbeatTypeOK
  /\ pc \in Places /\ left \in 0..Assets /\ hand \in Signals \cup {None}
  /\ queue \in Seq(Signals) /\ Len(queue) <= MaxQueue
  /\ at \in 1..(Len(queue) + 1) /\ remaining \in Seq(Signals)
  /\ handled \in 0..MaxBatches
  /\ saved \in Tally /\ trades \in Tally
  /\ produced \in 0..MaxSignals
  /\ confirmed \in Tally /\ excused \in Tally
  /\ dropped \subseteq Signals /\ lost \subseteq Signals
  /\ faults \in Nat

Ordered(s) == \A i, j \in 1..Len(s) : i < j => s[i] < s[j]

\* No decided signal vanishes: it is being published, buffered, confirmed, was in
\* memory when the process ended, or gave way to newer ones in an overflow.  The
\* oldest gives way: whatever was kept, sent or broken off in between, the buffer
\* is in the order of decision, and what was dropped is older than everything in
\* it (pop(0); tests/test_signal_publisher.py, test_queue_overflow_drops_oldest).
NothingVanishes ==
  /\ \A s \in 1..produced :
       \/ s = hand \/ s \in Items(queue) \/ confirmed[s] > 0
       \/ s \in dropped \/ s \in lost
  /\ Ordered(queue)
  /\ \A d \in dropped, s \in Items(queue) : d < s

\* A signal is confirmed once; only a failed save and a flush that was broken
\* off by an exception give it another turn.
ConfirmedOnce == \A s \in Signals : confirmed[s] <= 1 + excused[s]

\* A stop that was asked for happens, whatever the loop is doing.
ShutdownCompletes == shutdown ~> pc \in Ended

\* Every batch the thread receives is handled, unless the process ends first (or
\* the bound on the trades of one signal lets no further cycle start).
MessagesAreHandled ==
  \A b \in 1..MaxBatches :
    fetched >= b ~> (handled >= b \/ shutdown \/ pc = "killed" \/ ~WithinTally)

\* A buffered signal is delivered or pushed out by newer ones, or the process
\* ends, when AI4Trade has recovered (only finitely many posts fail).  Only one
\* it refuses for ever can hold up the others: flush_queue gets no further.
BufferedIsDelivered ==
  \A s \in Signals \ Poisoned :
    s \in Items(queue) ~>
      \/ s \notin Items(queue) \/ Poisoned \cap Items(queue) # {}
      \/ shutdown \/ pc = "killed"

\* tests/test_signal_publisher.py, test_flush_does_not_duplicate_on_failure:
\* when a flush ends, however it ends, nothing it has delivered is buffered still.
FlushDoesNotDuplicate ==
  [][Flushing /\ pc' \in {"idle", "close", "failed"} =>
       JustConfirmed \cap Items(queue') = {}]_vars
=============================================================================
