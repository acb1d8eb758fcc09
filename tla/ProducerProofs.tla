--------------------------- MODULE ProducerProofs ---------------------------
(***************************************************************************)
(* Theorems about SignalProducer: what becomes of the signals of the       *)
(* legacy bot, for every market, number of assets and size of the buffer,  *)
(* and for any interleaving with the heartbeat thread, stop and crash.     *)
(***************************************************************************)
EXTENDS SignalProducer, TLAPS

\* The thread stands below its breaker while it polls.
HeartShape ==
  /\ HeartbeatTypeOK /\ handled \in 0..MaxBatches
  /\ beat.pc \in {"poll", "wait"} => beat.errors < BreakerThreshold

\* A signal is in hand while it is published, positions count while a flush runs;
\* a kill leaves both as they are.
MainShape ==
  /\ pc \in Places /\ left \in 0..Assets /\ hand \in Signals \cup {None}
  /\ queue \in Seq(Signals) /\ Len(queue) <= MaxQueue
  /\ at \in 1..(Len(queue) + 1) /\ remaining \in Seq(Signals) /\ Len(remaining) < at
  /\ pc \in {"send", "save"} => hand \in Signals
  /\ pc \notin {"send", "save", "killed"} => hand = None
  /\ pc \notin {"flush", "final", "killed"} => at = 1 /\ remaining = <<>>

TallyShape ==
  /\ saved \in Tally /\ trades \in Tally /\ confirmed \in Tally /\ excused \in Tally
  /\ produced \in 0..MaxSignals
  /\ dropped \subseteq Signals /\ lost \subseteq Signals /\ faults \in Nat

Shape == HeartShape /\ MainShape /\ TallyShape

LEMMA ShapeIsType == Shape => TypeOK
BY DEF Shape, HeartShape, MainShape, TallyShape, TypeOK

LEMMA Numbers ==
  /\ Assets \in Nat /\ MaxSignals \in Nat /\ MaxQueue \in Nat /\ MaxBatches \in Nat
  /\ MaxConsecutivePolls \in Nat \ {0} /\ BreakerThreshold \in Nat \ {0}
  /\ Signals \subseteq Nat /\ None \notin Signals
BY ProducerAssumption, MaxQueueAssumption, HeartbeatAssumption DEF Signals

-----------------------------------------------------------------------------
\* The buffer.

LEMMA AppendAdds ==
  ASSUME NEW q \in Seq(Signals), NEW s \in Signals
  PROVE  /\ Append(q, s) \in Seq(Signals) /\ Len(Append(q, s)) = Len(q) + 1
         /\ Items(Append(q, s)) = Items(q) \cup {s}
         /\ Ordered(q) /\ (\A x \in Items(q) : x < s) => Ordered(Append(q, s))
<1>1. /\ Append(q, s) \in Seq(Signals) /\ Len(Append(q, s)) = Len(q) + 1 /\ Len(q) \in Nat
      /\ Append(q, s)[Len(q) + 1] = s /\ \A i \in 1..Len(q) : Append(q, s)[i] = q[i]
  OBVIOUS
<1>2. \A i \in 1..(Len(q) + 1) : i \in 1..Len(q) \/ i = Len(q) + 1
  BY <1>1
<1>3. Items(Append(q, s)) = Items(q) \cup {s}
  <2>1. 1..Len(q) \subseteq 1..(Len(q) + 1) /\ Len(q) + 1 \in 1..(Len(q) + 1)
    BY <1>1
  <2> QED BY <1>1, <1>2, <2>1 DEF Items
<1>4. ASSUME Ordered(q), \A x \in Items(q) : x < s
      PROVE  Ordered(Append(q, s))
  <2> SUFFICES ASSUME NEW i \in 1..(Len(q) + 1), NEW j \in 1..(Len(q) + 1), i < j
               PROVE  Append(q, s)[i] < Append(q, s)[j]
    BY <1>1 DEF Ordered
  <2>1. i \in 1..Len(q) /\ Append(q, s)[i] = q[i]
    BY <1>1, <1>2
  <2>2. CASE j = Len(q) + 1
    BY <1>1, <1>4, <2>1, <2>2 DEF Items
  <2>3. CASE j \in 1..Len(q)
    BY <1>1, <1>4, <2>1, <2>3 DEF Ordered
  <2> QED BY <1>2, <2>2, <2>3
<1> QED BY <1>1, <1>3, <1>4

LEMMA TailDropsFirst ==
  ASSUME NEW q \in Seq(Signals), Len(q) # 0
  PROVE  /\ Tail(q) \in Seq(Signals) /\ Len(Tail(q)) = Len(q) - 1
         /\ Items(q) = Items(Tail(q)) \cup {q[1]}
         /\ Ordered(q) => Ordered(Tail(q)) /\ \A x \in Items(Tail(q)) : q[1] < x
<1>1. /\ Tail(q) \in Seq(Signals) /\ Len(Tail(q)) = Len(q) - 1 /\ Len(q) \in Nat \ {0}
      /\ \A i \in 1..(Len(q) - 1) : Tail(q)[i] = q[i + 1]
  OBVIOUS
<1>2. Items(q) = Items(Tail(q)) \cup {q[1]}
  <2>1. \A i \in 1..Len(q) : i = 1 \/ (i - 1 \in 1..(Len(q) - 1) /\ Tail(q)[i - 1] = q[i])
    BY <1>1
  <2>2. \A i \in 1..(Len(q) - 1) : i + 1 \in 1..Len(q)
    BY <1>1
  <2>3. 1 \in 1..Len(q)
    BY <1>1
  <2> QED BY <1>1, <2>1, <2>2, <2>3 DEF Items
<1>3. ASSUME Ordered(q) PROVE Ordered(Tail(q)) /\ \A x \in Items(Tail(q)) : q[1] < x
  <2>1. \A i, j \in 1..Len(Tail(q)) : i < j => Tail(q)[i] < Tail(q)[j]
    BY <1>1, <1>3 DEF Ordered
  <2>2. \A i \in 1..Len(Tail(q)) : q[1] < Tail(q)[i]
    BY <1>1, <1>3 DEF Ordered
  <2> QED BY <2>1, <2>2 DEF Ordered, Items
<1> QED BY <1>1, <1>2, <1>3

\* What does not fit any more pushes out the oldest.
LEMMA EnqueueKeepsNewest ==
  ASSUME NEW q \in Seq(Signals), Len(q) <= MaxQueue, NEW s \in Signals
  PROVE  /\ Enqueue(q, s) \in Seq(Signals) /\ Len(Enqueue(q, s)) <= MaxQueue
         /\ Items(Enqueue(q, s)) \subseteq Items(q) \cup {s}
         /\ Ordered(q) /\ (\A x \in Items(q) : x < s) =>
              /\ Ordered(Enqueue(q, s))
              /\ \A d \in (Items(q) \cup {s}) \ Items(Enqueue(q, s)), x \in Items(Enqueue(q, s)) :
                   d < x
<1> DEFINE a == Append(q, s)
<1>1. /\ a \in Seq(Signals) /\ Len(a) = Len(q) + 1 /\ Items(a) = Items(q) \cup {s}
      /\ Ordered(q) /\ (\A x \in Items(q) : x < s) => Ordered(a)
      /\ Len(q) \in Nat /\ MaxQueue \in Nat
  BY AppendAdds, Numbers
<1>2. Enqueue(q, s) = IF Len(q) + 1 > MaxQueue THEN Tail(a) ELSE a
  BY DEF Enqueue
<1> HIDE DEF a
<1>3. CASE Len(q) + 1 > MaxQueue
  <2>1. /\ Tail(a) \in Seq(Signals) /\ Len(Tail(a)) = Len(a) - 1
        /\ Items(a) = Items(Tail(a)) \cup {a[1]}
        /\ Ordered(a) => Ordered(Tail(a)) /\ \A x \in Items(Tail(a)) : a[1] < x
    BY <1>1, TailDropsFirst
  <2> QED BY <1>1, <1>2, <1>3, <2>1
<1>4. CASE ~(Len(q) + 1 > MaxQueue)
  BY <1>1, <1>2, <1>4
<1> QED BY <1>3, <1>4

-----------------------------------------------------------------------------
\* Shape is kept.

\* Enqueuing takes the signal in hand, and what is in hand afterwards is None.
LEMMA BufferHandKeepsQueue ==
  ASSUME MainShape, TallyShape, hand \in Signals, BufferHand
  PROVE  /\ queue' \in Seq(Signals) /\ Len(queue') <= MaxQueue
         /\ hand' = None /\ dropped' \subseteq Signals
<1>1. Items(queue) \subseteq Signals
  BY DEF MainShape, Items
<1> QED BY <1>1, EnqueueKeepsNewest DEF MainShape, TallyShape, BufferHand

LEMMA BumpIsTally ==
  ASSUME NEW f \in Tally, NEW s \in Signals
  PROVE  Bump(f, s) \in Tally /\ \A x \in Signals : Bump(f, s)[x] = f[x] + (IF x = s THEN 1 ELSE 0)
BY DEF Bump, Tally

LEMMA FreshIsThread ==
  /\ FreshThread \in [pc : BeatPlaces, errors : 0..BreakerThreshold,
                     polls : 0..(MaxConsecutivePolls - 1)]
  /\ FreshThread.errors < BreakerThreshold
<1>1. 0 \in 0..BreakerThreshold /\ 0 \in 0..(MaxConsecutivePolls - 1) /\ 0 < BreakerThreshold
  BY Numbers
<1> QED BY <1>1 DEF FreshThread, BeatPlaces

LEMMA InitShape == Init => Shape
<1> SUFFICES ASSUME Init PROVE Shape
  OBVIOUS
<1>1. HeartShape
  <2>1. /\ shutdown = FALSE /\ messageQueue = <<>> /\ handled = 0 /\ fetched = 0
        /\ beat = FreshThread
    BY DEF Init, HeartbeatInit
  <2>2. <<>> \in Seq(1..MaxBatches) /\ 0 \in 0..MaxBatches
    BY Numbers
  <2> QED BY <2>1, <2>2, FreshIsThread DEF HeartShape, HeartbeatTypeOK
<1>2. MainShape
  BY Numbers DEF Init, MainShape, Places
<1>3. TallyShape
  BY Numbers DEF Init, TallyShape, Tally
<1> QED BY <1>1, <1>2, <1>3 DEF Shape

LEMMA HeartStays ==
  ASSUME HeartShape, Next \/ UNCHANGED vars, MainShape
  PROVE  HeartShape'
<1>1. /\ shutdown \in BOOLEAN /\ fetched \in 0..MaxBatches /\ messageQueue \in Seq(1..MaxBatches)
      /\ beat.pc \in BeatPlaces /\ beat.errors \in 0..BreakerThreshold
      /\ beat.polls \in 0..(MaxConsecutivePolls - 1)
      /\ beat \in [pc : BeatPlaces, errors : 0..BreakerThreshold,
                   polls : 0..(MaxConsecutivePolls - 1)]
      /\ handled \in 0..MaxBatches
      /\ beat.pc \in {"poll", "wait"} => beat.errors < BreakerThreshold
      /\ MaxBatches \in Nat /\ MaxConsecutivePolls \in Nat \ {0} /\ BreakerThreshold \in Nat \ {0}
  BY Numbers DEF HeartShape, HeartbeatTypeOK
<1>2. CASE Poll
  <2>1. CASE PollAnswered
    <3>1. fetched' \in 0..MaxBatches /\ messageQueue' \in Seq(1..MaxBatches)
      <4>1. fetched < MaxBatches => fetched + 1 \in 1..MaxBatches /\ fetched + 1 \in 0..MaxBatches
        BY <1>1
      <4>2. fetched + 1 \in 1..MaxBatches =>
              Append(messageQueue, fetched + 1) \in Seq(1..MaxBatches)
        BY <1>1
      <4> QED BY <1>1, <2>1, <4>1, <4>2 DEF PollAnswered
    <3>2. PICK hasMore \in BOOLEAN :
            beat' = [pc |-> "wait", errors |-> 0,
                     polls |-> IF hasMore THEN (beat.polls + 1) % MaxConsecutivePolls ELSE 0]
      BY <2>1 DEF PollAnswered
    <3>3. (beat.polls + 1) % MaxConsecutivePolls \in 0..(MaxConsecutivePolls - 1)
      BY <1>1
    <3> QED BY <1>1, <1>2, <2>1, <3>1, <3>2, <3>3
            DEF Poll, PollAnswered, HeartShape, HeartbeatTypeOK, BeatPlaces
  <2>2. CASE PollFailed
    <3> DEFINE p == IF beat.errors + 1 >= BreakerThreshold THEN "pause" ELSE "wait"
    <3>0. beat.pc = "poll" /\ beat.errors + 1 \in 0..BreakerThreshold
      BY <1>1, <2>2 DEF PollFailed
    <3>1. /\ beat' = [pc |-> p, errors |-> beat.errors + 1, polls |-> beat.polls]
          /\ beat.errors + 1 \in 0..BreakerThreshold
          /\ p = "wait" => beat.errors + 1 < BreakerThreshold
      <4>1. p = "wait" => beat.errors + 1 < BreakerThreshold
        BY <3>0, <1>1
      <4>2. beat' = [pc |-> p, errors |-> beat.errors + 1, polls |-> beat.polls]
        <5>1. DOMAIN beat = {"pc", "errors", "polls"}
          BY <1>1
        <5>2. beat' = [[beat EXCEPT !.errors = beat.errors + 1] EXCEPT !.pc = p]
          BY <2>2 DEF PollFailed
        <5> QED BY <5>1, <5>2
      <4> QED BY <3>0, <4>1, <4>2
    <3>2. p \in BeatPlaces /\ p # "poll"
      BY DEF BeatPlaces
    <3>3. UNCHANGED <<shutdown, messageQueue, fetched, handled>>
      BY <1>2, <2>2 DEF Poll, PollFailed
    <3> HIDE DEF p
    <3> QED BY <1>1, <3>1, <3>2, <3>3 DEF HeartShape, HeartbeatTypeOK
  <2>3. CASE Wake
    <3> DEFINE p == IF shutdown THEN "ended" ELSE "poll"
               e == IF beat.pc = "pause" THEN 0 ELSE beat.errors
    <3>1. beat' = [pc |-> p, errors |-> e, polls |-> beat.polls] /\ beat.pc \in {"wait", "pause"}
      BY <1>1, <2>3 DEF Wake
    <3>2. e \in 0..BreakerThreshold /\ e < BreakerThreshold
      BY <1>1, <3>1
    <3>3. p \in BeatPlaces
      BY DEF BeatPlaces
    <3>4. UNCHANGED <<shutdown, messageQueue, fetched, handled>>
      BY <1>2, <2>3 DEF Poll, Wake
    <3> HIDE DEF p, e
    <3> QED BY <1>1, <3>1, <3>2, <3>3, <3>4 DEF HeartShape, HeartbeatTypeOK
  <2> QED BY <1>2, <2>1, <2>2, <2>3 DEF Poll, HeartbeatStep
<1>3. CASE TakeTask
  <2>1. Head(messageQueue) \in 1..MaxBatches /\ Tail(messageQueue) \in Seq(1..MaxBatches)
    BY <1>1, <1>3 DEF TakeTask
  <2> QED BY <1>1, <1>3, <2>1 DEF TakeTask, HeartShape, HeartbeatTypeOK
<1>4. CASE Restart
  <2>1. /\ shutdown' = FALSE /\ messageQueue' = <<>> /\ handled' = fetched /\ fetched' = fetched
        /\ beat' = FreshThread
    BY <1>4 DEF Restart
  <2>2. <<>> \in Seq(1..MaxBatches)
    OBVIOUS
  <2> QED BY <1>1, <2>1, <2>2, FreshIsThread DEF HeartShape, HeartbeatTypeOK
<1>5. CASE FlushRaises \/ Close \/ Kill
  BY <1>1, <1>5 DEF FlushRaises, Close, Kill, HeartShape, HeartbeatTypeOK, BeatPlaces
<1>6. CASE RequestShutdown
  BY <1>1, <1>6 DEF RequestShutdown, thread, HeartShape, HeartbeatTypeOK
<1>7. CASE \/ StartCycle \/ NothingToRoute \/ AnalysisFails \/ Decide
           \/ PublishConfirmed \/ PublishFails \/ SaveSignal \/ SaveFails
           \/ AssetsDone \/ TasksDone \/ FlushConfirmed \/ FlushUnconfirmed \/ FlushDone
           \/ BeginShutdown \/ UNCHANGED vars
  <2>1. UNCHANGED <<shutdown, messageQueue, fetched, beat, handled>>
    BY <1>7 DEF StartCycle, NothingToRoute, AnalysisFails, Decide, PublishConfirmed,
         PublishFails, SaveSignal, SaveFails, AssetsDone, TasksDone, StartFlush,
         FlushConfirmed, FlushUnconfirmed, FlushDone, BeginShutdown, thread, vars
  <2> QED BY <1>1, <2>1 DEF HeartShape, HeartbeatTypeOK
<1> QED BY <1>2, <1>3, <1>4, <1>5, <1>6, <1>7 DEF Next, Step

LEMMA MainStays ==
  ASSUME MainShape, TallyShape, Next \/ UNCHANGED vars
  PROVE  MainShape'
<1>1. /\ Assets \in Nat /\ queue \in Seq(Signals) /\ Len(queue) \in Nat
      /\ remaining \in Seq(Signals) /\ Len(remaining) \in Nat /\ at \in 1..(Len(queue) + 1)
      /\ left \in 0..Assets
  BY Numbers DEF MainShape
<1>2. CASE StartCycle \/ NothingToRoute \/ AnalysisFails \/ AssetsDone
  BY <1>1, <1>2 DEF StartCycle, NothingToRoute, AnalysisFails, AssetsDone, Goto, MainShape, Places
<1>3. CASE Decide
  <2>1. produced + 1 \in Signals
    BY <1>3, Numbers DEF Decide, TallyShape, Signals
  <2> QED BY <1>1, <1>3, <2>1 DEF Decide, MainShape, Places
<1>4. CASE PublishConfirmed \/ SaveSignal
  BY <1>1, <1>4 DEF PublishConfirmed, SaveSignal, Goto, MainShape, Places
<1>5. CASE PublishFails \/ SaveFails
  <2>1. hand \in Signals /\ BufferHand /\ Goto("assets") /\ pc \in {"send", "save"}
    BY <1>5 DEF PublishFails, SaveFails, MainShape
  <2>2. queue' \in Seq(Signals) /\ Len(queue') <= MaxQueue /\ hand' = None
    BY <2>1, BufferHandKeepsQueue
  <2>3. Len(queue') \in Nat
    BY <2>2
  <2> QED BY <1>1, <2>1, <2>2, <2>3 DEF Goto, MainShape, Places
<1>6. CASE TakeTask \/ Poll \/ RequestShutdown \/ UNCHANGED vars
  BY <1>6 DEF TakeTask, Poll, RequestShutdown, vars, process, MainShape
<1>7. CASE TasksDone \/ BeginShutdown
  BY <1>1, <1>7 DEF TasksDone, BeginShutdown, StartFlush, MainShape, Places
<1>8. CASE FlushConfirmed
  BY <1>1, <1>8 DEF FlushConfirmed, Flushing, MainShape, Places
<1>9. CASE FlushUnconfirmed
  <2>1. queue[at] \in Signals
    BY <1>1, <1>9 DEF FlushUnconfirmed
  <2>2. Keep(remaining, queue[at]) \in Seq(Signals)
        /\ Len(Keep(remaining, queue[at])) = Len(remaining) + 1
    BY <1>1, <2>1 DEF Keep
  <2> QED BY <1>1, <1>9, <2>2 DEF FlushUnconfirmed, Flushing, MainShape, Places
<1>10. CASE FlushRaises
  BY <1>1, <1>10 DEF FlushRaises, Flushing, MainShape, Places
<1>11. CASE FlushDone
  BY <1>1, <1>11, Numbers DEF FlushDone, Flushing, MainShape, Places
<1>12. CASE Close \/ Kill
  BY <1>1, <1>12 DEF Close, Kill, Goto, MainShape, Places
<1>13. CASE Restart
  BY <1>1, <1>13, Numbers DEF Restart, MainShape, Places
<1> QED BY <1>2, <1>3, <1>4, <1>5, <1>6, <1>7, <1>8, <1>9, <1>10, <1>11, <1>12, <1>13
        DEF Next, Step

LEMMA TallyStays ==
  ASSUME MainShape, TallyShape, Next \/ UNCHANGED vars
  PROVE  TallyShape'
<1>1. /\ Items(queue) \subseteq Signals /\ queue \in Seq(Signals) /\ at \in 1..(Len(queue) + 1)
      /\ Len(queue) \in Nat /\ hand \in Signals \cup {None}
      /\ faults \in Nat /\ produced \in 0..MaxSignals /\ MaxSignals \in Nat
  BY Numbers DEF MainShape, TallyShape, Items
<1>2. CASE \/ StartCycle \/ NothingToRoute \/ AssetsDone \/ TakeTask \/ TasksDone \/ FlushDone
           \/ BeginShutdown \/ Poll \/ RequestShutdown \/ UNCHANGED vars
  BY <1>2 DEF StartCycle, NothingToRoute, AssetsDone, TakeTask, TasksDone, StartFlush, FlushDone,
       BeginShutdown, Poll, RequestShutdown, vars, outside, history, TallyShape
<1>3. CASE AnalysisFails \/ Kill \/ Close
  BY <1>1, <1>3 DEF AnalysisFails, Kill, Close, Fault, outside, TallyShape
<1>4. CASE Decide
  BY <1>1, <1>4 DEF Decide, outside, TallyShape
<1>5. ASSUME NEW s \in Signals, Confirmed(s) \/ Raised(s)
      PROVE  trades' \in Tally /\ confirmed' \in Tally /\ faults' \in Nat
  BY <1>1, <1>5, BumpIsTally DEF Confirmed, Raised, Unconfirmed, Fault, TallyShape
<1>6. CASE PublishConfirmed
  <2>1. hand \in Signals
    BY <1>6 DEF PublishConfirmed, MainShape
  <2> QED BY <1>5, <1>6, <2>1 DEF PublishConfirmed, TallyShape
<1>7. CASE PublishFails
  <2>1. hand \in Signals
    BY <1>7 DEF PublishFails, MainShape
  <2> QED BY <1>5, <1>7, <2>1, BufferHandKeepsQueue DEF PublishFails, TallyShape
<1>8. CASE SaveSignal \/ SaveFails
  <2>1. hand \in Signals
    BY <1>8 DEF SaveSignal, SaveFails, MainShape
  <2>2. Bump(saved, hand) \in Tally /\ Bump(excused, hand) \in Tally
    BY <2>1, BumpIsTally DEF TallyShape
  <2>3. CASE SaveSignal
    BY <2>2, <2>3 DEF SaveSignal, history, TallyShape
  <2>4. CASE SaveFails
    BY <1>1, <2>1, <2>2, <2>4, BufferHandKeepsQueue DEF SaveFails, Fault, TallyShape
  <2> QED BY <1>8, <2>3, <2>4
<1>9. CASE FlushConfirmed \/ FlushUnconfirmed \/ FlushRaises
  <2>1. queue[at] \in Signals
    BY <1>1, <1>9 DEF FlushConfirmed, FlushUnconfirmed, FlushRaises
  <2>2. Confirmed(queue[at]) \/ Raised(queue[at])
    BY <1>9 DEF FlushConfirmed, FlushUnconfirmed, FlushRaises, Raised
  <2>3. Excuse(JustConfirmed) \in Tally
    BY DEF Excuse, TallyShape, Tally
  <2> QED BY <1>5, <1>9, <2>1, <2>2, <2>3
          DEF FlushConfirmed, FlushUnconfirmed, FlushRaises, TallyShape
<1>10. CASE Restart
  BY <1>1, <1>10 DEF Restart, outside, TallyShape
<1> QED BY <1>2, <1>3, <1>4, <1>6, <1>7, <1>8, <1>9, <1>10 DEF Next, Step

LEMMA StepShape == Shape /\ [Next]_vars => Shape'
BY HeartStays, MainStays, TallyStays DEF Shape

\* The variables have their types; the buffer never outgrows MAX_SIGNAL_QUEUE,
\* whatever posts, saves and flushes do (adapters/signal_publisher.py, _enqueue).
THEOREM TypeCorrect == Spec => []TypeOK
BY InitShape, StepShape, ShapeIsType, PTL DEF Spec

-----------------------------------------------------------------------------
\* The buffer in the order of decision, and the account of every signal.

\* What was pushed out is older than the buffer, the buffer older than the hand.
Line ==
  /\ Ordered(queue)
  /\ Items(queue) \subseteq 1..produced /\ dropped \subseteq 1..produced
  /\ \A d \in dropped, s \in Items(queue) : d < s
  /\ hand # None => hand = produced /\ \A s \in Items(queue) \cup dropped : s < hand

\* A flush keeps, in order, what it has passed and could not confirm.
Kept ==
  /\ Ordered(remaining)
  /\ \A s \in Items(remaining) : \E i \in 1..(at - 1) : s = queue[i]
  /\ \A i \in 1..(at - 1) : queue[i] \in Items(remaining) \/ confirmed[queue[i]] > 0

Account ==
  /\ pc = "save" => confirmed[hand] > 0
  /\ \A s \in 1..produced :
       s = hand \/ s \in Items(queue) \/ confirmed[s] > 0 \/ s \in dropped \/ s \in lost

Lineage == Line /\ Kept /\ Account

LEMMA EmptyBuffer ==
  Items(<<>>) = {} /\ Ordered(<<>>) /\ <<>> \in Seq(Signals) /\ Len(<<>>) = 0
BY DEF Items, Ordered

LEMMA InitLineage == Init => Lineage
<1> SUFFICES ASSUME Init PROVE Lineage
  OBVIOUS
<1>1. queue = <<>> /\ remaining = <<>> /\ at = 1 /\ produced = 0 /\ hand = None /\ dropped = {}
      /\ pc = "idle"
  BY DEF Init
<1>2. 1..0 = {} /\ 1..(1 - 1) = {}
  OBVIOUS
<1> QED BY <1>1, <1>2, EmptyBuffer DEF Lineage, Line, Kept, Account

LEMMA BufferHandKeepsLineage ==
  ASSUME Shape, Lineage, BufferHand, pc \in {"send", "save"}, Goto("assets"),
         UNCHANGED <<produced, confirmed, lost>>
  PROVE  Lineage'
<1> DEFINE out == (Items(queue) \cup {hand}) \ Items(queue')
<1>1. /\ hand \in Signals /\ hand # None /\ queue \in Seq(Signals) /\ Len(queue) <= MaxQueue
      /\ at = 1 /\ remaining = <<>> /\ Signals \subseteq Nat /\ produced \in Nat
      /\ Items(queue) \subseteq Signals /\ dropped \subseteq Signals
  BY Numbers DEF Shape, MainShape, TallyShape, Items
<1>2. /\ queue' = Enqueue(queue, hand) /\ hand' = None /\ dropped' = dropped \cup out
      /\ at' = 1 /\ remaining' = <<>> /\ pc' = "assets"
  BY <1>1 DEF BufferHand, Goto
<1>3. /\ hand = produced /\ \A s \in Items(queue) \cup dropped : s < hand
      /\ Ordered(queue) /\ \A d \in dropped, s \in Items(queue) : d < s
      /\ Items(queue) \subseteq 1..produced /\ dropped \subseteq 1..produced
  BY <1>1 DEF Lineage, Line
<1>4. /\ Items(queue') \subseteq Items(queue) \cup {hand} /\ Ordered(queue')
      /\ \A d \in out, s \in Items(queue') : d < s
  BY <1>1, <1>2, <1>3, EnqueueKeepsNewest
<1>5. hand \in 1..produced
  BY <1>1, <1>3 DEF Signals
<1>6. Line'
  <2>1. Items(queue') \subseteq 1..produced' /\ dropped' \subseteq 1..produced'
    BY <1>2, <1>3, <1>4, <1>5
  <2>2. \A d \in dropped, s \in Items(queue') : d < s
    BY <1>3, <1>4
  <2>3. \A d \in dropped', s \in Items(queue') : d < s
    BY <1>2, <1>4, <2>2
  <2> QED BY <1>2, <1>4, <2>1, <2>3 DEF Line
<1>7. Kept'
  BY <1>2, EmptyBuffer DEF Kept
<1>8. Account'
  <2>1. \A s \in Items(queue) \cup {hand} : s \in Items(queue') \/ s \in dropped'
    BY <1>2
  <2> QED BY <1>2, <2>1 DEF Lineage, Account
<1> QED BY <1>6, <1>7, <1>8 DEF Lineage

\* A confirmation adds to the account and takes nothing from it.
LEMMA ConfirmedGrows ==
  ASSUME TallyShape, NEW s \in Signals, Confirmed(s) \/ Raised(s)
  PROVE  /\ \A x \in Signals : confirmed[x] > 0 => confirmed'[x] > 0
         /\ Confirmed(s) =>
              confirmed'[s] > 0 /\ \A x \in Signals \ {s} : confirmed'[x] = confirmed[x]
         /\ Confirmed(s) => confirmed'[s] = confirmed[s] + 1
         /\ Raised(s) => confirmed' = confirmed
<1>1. \A x \in Signals : confirmed[x] \in Nat
  BY DEF TallyShape, Tally
<1>2. CASE Confirmed(s)
  <2>1. confirmed' = Bump(confirmed, s) /\ s \notin Poisoned
    BY <1>2 DEF Confirmed
  <2>2. \A x \in Signals : confirmed'[x] = confirmed[x] + (IF x = s THEN 1 ELSE 0)
    BY <2>1, BumpIsTally DEF TallyShape
  <2>3. Raised(s) => confirmed' = confirmed
    BY <2>1 DEF Raised, Unconfirmed
  <2> QED BY <1>1, <2>2, <2>3
<1>3. CASE Raised(s) /\ ~Confirmed(s)
  BY <1>3 DEF Raised, Unconfirmed
<1> QED BY <1>2, <1>3

\* The position of a flush: everything before it is older.
LEMMA FlushPosition ==
  ASSUME Shape, Lineage, Flushing, at <= Len(queue)
  PROVE  /\ at \in 1..Len(queue) /\ queue[at] \in Signals /\ queue[at] \in Items(queue)
         /\ hand = None
         /\ \A s \in Items(remaining) : s < queue[at]
         /\ \A i \in (at + 1)..Len(queue) : queue[at] < queue[i]
<1>1. /\ at \in 1..(Len(queue) + 1) /\ Len(queue) \in Nat /\ queue \in Seq(Signals)
      /\ Signals \subseteq Nat /\ hand = None
  BY Numbers DEF Shape, MainShape, Flushing
<1>2. at \in 1..Len(queue)
  BY <1>1
<1>3. \A i \in 1..(at - 1) : queue[i] < queue[at]
  BY <1>1, <1>2 DEF Lineage, Line, Ordered
<1>4. \A i \in (at + 1)..Len(queue) : queue[at] < queue[i]
  BY <1>1, <1>2 DEF Lineage, Line, Ordered
<1> QED BY <1>1, <1>2, <1>3, <1>4 DEF Lineage, Kept, Items

LEMMA StepLineage == Shape /\ Lineage /\ [Next]_vars => Lineage'
<1> SUFFICES ASSUME Shape, Lineage, [Next]_vars PROVE Lineage'
  OBVIOUS
<1>1. /\ hand \in Signals \cup {None} /\ None \notin Signals /\ Signals \subseteq Nat
      /\ queue \in Seq(Signals) /\ remaining \in Seq(Signals)
      /\ Len(queue) \in Nat /\ Len(remaining) \in Nat /\ at \in 1..(Len(queue) + 1)
      /\ produced \in 0..MaxSignals /\ MaxSignals \in Nat
      /\ dropped \subseteq Signals /\ Items(queue) \subseteq Signals
  BY Numbers DEF Shape, MainShape, TallyShape, Items
<1>2. CASE \/ StartCycle \/ NothingToRoute \/ AnalysisFails \/ AssetsDone \/ TakeTask
           \/ Poll \/ RequestShutdown \/ Kill \/ Close \/ UNCHANGED vars
  <2>1. UNCHANGED <<queue, at, remaining, hand, produced, confirmed, dropped, lost>>
        /\ (pc' # pc => pc' # "save")
    BY <1>2 DEF StartCycle, NothingToRoute, AnalysisFails, AssetsDone, Goto, TakeTask, Poll,
         RequestShutdown, Kill, Close, vars, process, history
  <2> QED BY <2>1 DEF Lineage, Line, Kept, Account
<1>3. CASE TasksDone \/ BeginShutdown
  <2>1. /\ UNCHANGED <<queue, hand, produced, confirmed, dropped, lost>>
        /\ at' = 1 /\ remaining' = <<>> /\ pc' # "save"
    BY <1>3 DEF TasksDone, BeginShutdown, StartFlush, history
  <2> QED BY <2>1, EmptyBuffer DEF Lineage, Line, Kept, Account
<1>4. CASE Decide
  <2>1. /\ hand = None /\ hand' = produced + 1 /\ produced' = produced + 1 /\ pc' = "send"
        /\ UNCHANGED <<queue, at, remaining, confirmed, dropped, lost>>
    BY <1>4 DEF Decide, Shape, MainShape
  <2>2. \A s \in 1..(produced + 1) : s \in 1..produced \/ s = produced + 1
    BY <1>1
  <2>3. \A s \in 1..produced : s < produced + 1 /\ s \in 1..(produced + 1)
    BY <1>1
  <2>4. Line'
    BY <2>1, <2>3 DEF Lineage, Line
  <2>5. Kept'
    BY <2>1 DEF Lineage, Kept
  <2>6. Account'
    BY <1>1, <2>1, <2>2 DEF Lineage, Account, Signals
  <2> QED BY <2>4, <2>5, <2>6 DEF Lineage
<1>5. CASE PublishConfirmed
  <2>1. /\ hand \in Signals /\ Confirmed(hand) /\ at = 1 /\ pc' = "save"
        /\ UNCHANGED <<hand, queue, at, remaining, produced, dropped, lost>>
    BY <1>5 DEF PublishConfirmed, Goto, Shape, MainShape
  <2>2. (\A x \in Signals : confirmed[x] > 0 => confirmed'[x] > 0) /\ confirmed'[hand] > 0
    BY <2>1, ConfirmedGrows DEF Shape
  <2>3. 1..produced \subseteq Signals /\ 1..(at - 1) = {}
    BY <1>1, <2>1 DEF Signals
  <2> QED BY <2>1, <2>2, <2>3 DEF Lineage, Line, Kept, Account
<1>6. CASE PublishFails
  <2>1. Raised(hand) /\ hand \in Signals
    BY <1>6 DEF PublishFails, Shape, MainShape
  <2>2. confirmed' = confirmed
    BY <2>1, ConfirmedGrows DEF Shape
  <2> QED BY <1>6, <2>2, BufferHandKeepsLineage DEF PublishFails
<1>7. CASE SaveSignal
  <2>1. /\ hand \in Signals /\ hand' = None /\ pc' = "assets" /\ confirmed[hand] > 0
        /\ UNCHANGED <<queue, at, remaining, produced, confirmed, dropped, lost>>
    BY <1>7 DEF SaveSignal, Goto, history, Shape, MainShape, Lineage, Account
  <2> QED BY <2>1 DEF Lineage, Line, Kept, Account
<1>8. CASE SaveFails
  BY <1>8, BufferHandKeepsLineage DEF SaveFails
<1>9. CASE FlushConfirmed
  <2>1. /\ queue[at] \in Signals /\ Confirmed(queue[at]) /\ at' = at + 1 /\ at \in 1..Len(queue)
        /\ UNCHANGED <<pc, hand, queue, remaining, produced, dropped, lost>> /\ pc # "save"
    BY <1>9, FlushPosition DEF FlushConfirmed, Flushing
  <2>2. (\A x \in Signals : confirmed[x] > 0 => confirmed'[x] > 0) /\ confirmed'[queue[at]] > 0
    BY <2>1, ConfirmedGrows DEF Shape
  <2>3. /\ 1..produced \subseteq Signals /\ \A i \in 1..(at - 1) : queue[i] \in Signals
        /\ \A i \in 1..(at' - 1) : i \in 1..(at - 1) \/ i = at
        /\ 1..(at - 1) \subseteq 1..(at' - 1)
    BY <1>1, <2>1 DEF Signals
  <2>4. Line' /\ Account'
    BY <2>1, <2>2, <2>3 DEF Lineage, Line, Account
  <2>5. Kept'
    BY <2>1, <2>2, <2>3 DEF Lineage, Kept
  <2> QED BY <2>4, <2>5 DEF Lineage
<1>10. CASE FlushUnconfirmed
  <2>1. /\ queue[at] \in Signals /\ Raised(queue[at]) /\ at' = at + 1 /\ at \in 1..Len(queue)
        /\ remaining' = Append(remaining, queue[at])
        /\ UNCHANGED <<pc, hand, queue, produced, dropped, lost>>
        /\ \A s \in Items(remaining) : s < queue[at]
    BY <1>10, FlushPosition DEF FlushUnconfirmed, Raised, Keep
  <2>2. confirmed' = confirmed
    BY <2>1, ConfirmedGrows DEF Shape
  <2>3. Items(remaining') = Items(remaining) \cup {queue[at]} /\ Ordered(remaining')
    BY <1>1, <2>1, AppendAdds DEF Lineage, Kept
  <2>4. /\ \A i \in 1..(at' - 1) : i \in 1..(at - 1) \/ i = at
        /\ 1..(at - 1) \subseteq 1..(at' - 1) /\ at \in 1..(at' - 1)
    BY <1>1, <2>1
  <2>5. Kept'
    BY <2>1, <2>2, <2>3, <2>4 DEF Lineage, Kept
  <2> QED BY <2>1, <2>2, <2>5 DEF Lineage, Line, Account
<1>11. CASE FlushRaises
  <2>1. /\ queue[at] \in Signals /\ Raised(queue[at])
        /\ at' = 1 /\ remaining' = <<>> /\ pc' # "save"
        /\ UNCHANGED <<hand, queue, produced, dropped, lost>>
    BY <1>11, FlushPosition DEF FlushRaises
  <2>2. confirmed' = confirmed
    BY <2>1, ConfirmedGrows DEF Shape
  <2> QED BY <2>1, <2>2, EmptyBuffer DEF Lineage, Line, Kept, Account
<1>12. CASE FlushDone
  <2>1. /\ at = Len(queue) + 1 /\ hand = None /\ hand' = None /\ queue' = remaining
        /\ at' = 1 /\ remaining' = <<>> /\ pc' # "save"
        /\ UNCHANGED <<produced, confirmed, dropped, lost>>
    BY <1>1, <1>12 DEF FlushDone, Flushing, history, Shape, MainShape
  <2>2. /\ Items(remaining) \subseteq Items(queue) /\ Ordered(remaining)
        /\ \A s \in Items(queue) : s \in Items(remaining) \/ confirmed[s] > 0
    <3>1. at - 1 = Len(queue)
      BY <1>1, <2>1
    <3> QED BY <3>1 DEF Lineage, Kept, Items
  <2>3. Line'
    BY <2>1, <2>2 DEF Lineage, Line
  <2>4. Kept'
    BY <2>1, EmptyBuffer DEF Kept
  <2>5. Account'
    BY <2>1, <2>2 DEF Lineage, Account
  <2> QED BY <2>3, <2>4, <2>5 DEF Lineage
<1>13. CASE Restart
  <2>1. /\ hand' = None /\ queue' = <<>> /\ at' = 1 /\ remaining' = <<>> /\ pc' = "idle"
        /\ lost' = lost \cup Items(queue) \cup ({hand} \ {None})
        /\ UNCHANGED <<produced, confirmed, dropped>>
    BY <1>13 DEF Restart
  <2>2. Line' /\ Kept'
    BY <2>1, EmptyBuffer DEF Lineage, Line, Kept
  <2>3. \A s \in 1..produced : s # None
    BY <1>1 DEF Signals
  <2>4. Account'
    BY <2>1, <2>3 DEF Lineage, Account
  <2> QED BY <2>2, <2>4 DEF Lineage
<1> QED BY <1>2, <1>3, <1>4, <1>5, <1>6, <1>7, <1>8, <1>9, <1>10, <1>11, <1>12, <1>13
        DEF Next, Step

\* No decided signal vanishes (adapters/signal_publisher.py, publish and flush_queue):
\* it is in hand, buffered, confirmed, pushed out by newer ones, or lost with the
\* process; the buffer stays in the order of decision through every flush.
THEOREM NoSignalVanishes == Spec => []NothingVanishes
<1>1. Lineage => NothingVanishes
  BY DEF Lineage, Line, Account, NothingVanishes
<1> QED BY InitShape, StepShape, InitLineage, StepLineage, <1>1, PTL DEF Spec

-----------------------------------------------------------------------------
\* One turn, one confirmation.

\* What may still be posted has an excuse for every confirmation it got.
Turns ==
  /\ \A s \in Signals : s > produced => confirmed[s] = 0
  /\ pc = "send" => confirmed[hand] = 0
  /\ \A i \in at..Len(queue) : confirmed[queue[i]] <= excused[queue[i]]
  /\ \A s \in Items(remaining) : confirmed[s] <= excused[s]

Once == ConfirmedOnce /\ Turns

LEMMA Counts ==
  ASSUME Shape
  PROVE  \A s \in Signals : confirmed[s] \in Nat /\ excused[s] \in Nat /\ s \in Nat
BY Numbers DEF Shape, TallyShape, Tally

LEMMA InitOnce == Init => Once
<1> SUFFICES ASSUME Init PROVE Once
  OBVIOUS
<1>1. /\ queue = <<>> /\ remaining = <<>> /\ at = 1 /\ pc = "idle"
      /\ \A s \in Signals : confirmed[s] = 0 /\ excused[s] = 0
  BY DEF Init
<1>2. 1..0 = {}
  OBVIOUS
<1> QED BY <1>1, <1>2, EmptyBuffer DEF Once, ConfirmedOnce, Turns

\* With what is in hand buffered and nothing else changed for the worse.
LEMMA BufferHandKeepsTurns ==
  ASSUME Shape, Turns, BufferHand, pc \in {"send", "save"}, Goto("assets"),
         UNCHANGED <<produced, confirmed>>,
         \A s \in Signals : excused'[s] >= excused[s],
         excused' \in Tally, confirmed[hand] <= excused'[hand]
  PROVE  Turns'
<1>1. /\ hand \in Signals /\ queue \in Seq(Signals) /\ Len(queue) <= MaxQueue
      /\ at = 1 /\ remaining = <<>> /\ Items(queue) \subseteq Signals
      /\ queue' = Enqueue(queue, hand) /\ at' = 1 /\ remaining' = <<>> /\ pc' = "assets"
  BY DEF Shape, MainShape, BufferHand, Goto, Items
<1>2. Items(queue') \subseteq Items(queue) \cup {hand}
  BY <1>1, EnqueueKeepsNewest
<1>3. \A s \in Signals : confirmed[s] \in Nat /\ excused[s] \in Nat /\ excused'[s] \in Nat
  BY Counts DEF Tally
<1>4. \A s \in Items(queue) : confirmed[s] <= excused'[s]
  BY <1>1, <1>3 DEF Turns, Items
<1>5. \A s \in Items(queue') : confirmed[s] <= excused'[s]
  BY <1>2, <1>4
<1> QED BY <1>1, <1>5, EmptyBuffer DEF Turns, Items

LEMMA StepOnce == Shape /\ Lineage /\ Once /\ [Next]_vars => Once'
<1> SUFFICES ASSUME Shape, Lineage, Once, [Next]_vars PROVE Once'
  OBVIOUS
<1>1. /\ hand \in Signals \cup {None} /\ None \notin Signals /\ Signals \subseteq Nat
      /\ queue \in Seq(Signals) /\ remaining \in Seq(Signals)
      /\ Len(queue) \in Nat /\ Len(remaining) \in Nat /\ at \in 1..(Len(queue) + 1)
      /\ produced \in 0..MaxSignals /\ MaxSignals \in Nat
      /\ Items(queue) \subseteq Signals /\ Items(remaining) \subseteq Signals
  BY Numbers DEF Shape, MainShape, TallyShape, Items
<1>2. \A s \in Signals : confirmed[s] \in Nat /\ excused[s] \in Nat
  BY Counts
<1>3. CASE \/ StartCycle \/ NothingToRoute \/ AnalysisFails \/ AssetsDone \/ TakeTask
           \/ Poll \/ RequestShutdown \/ Kill \/ Close \/ UNCHANGED vars
  <2>1. UNCHANGED <<queue, at, remaining, hand, produced, confirmed, excused>>
        /\ (pc' # pc => pc' # "send")
    BY <1>3 DEF StartCycle, NothingToRoute, AnalysisFails, AssetsDone, Goto, TakeTask, Poll,
         RequestShutdown, Kill, Close, vars, process, history
  <2> QED BY <2>1 DEF Once, ConfirmedOnce, Turns
<1>4. CASE TasksDone \/ BeginShutdown
  <2>1. /\ UNCHANGED <<queue, hand, produced, confirmed, excused>>
        /\ at = 1 /\ at' = 1 /\ remaining' = <<>> /\ pc' # "send"
    BY <1>4 DEF TasksDone, BeginShutdown, StartFlush, history, Shape, MainShape
  <2> QED BY <2>1, EmptyBuffer DEF Once, ConfirmedOnce, Turns
<1>5. CASE Decide
  <2>1. /\ hand' = produced + 1 /\ produced' = produced + 1
        /\ UNCHANGED <<queue, at, remaining, confirmed, excused>>
    BY <1>5 DEF Decide
  <2>2. produced + 1 \in Signals
    BY <1>1, <1>5 DEF Decide, Signals
  <2>3. confirmed[produced + 1] = 0 /\ \A s \in Signals : s > produced + 1 => s > produced
    BY <1>1, <2>2 DEF Once, Turns
  <2> QED BY <2>1, <2>3 DEF Once, ConfirmedOnce, Turns
<1>6. CASE PublishConfirmed
  <2>1. /\ hand \in Signals /\ hand # None /\ Confirmed(hand) /\ pc' = "save" /\ pc = "send"
        /\ at = 1 /\ remaining = <<>>
        /\ UNCHANGED <<hand, queue, at, remaining, produced, excused>>
    BY <1>1, <1>6 DEF PublishConfirmed, Goto, Shape, MainShape
  <2>2. /\ confirmed'[hand] = confirmed[hand] + 1 /\ confirmed[hand] = 0
        /\ \A x \in Signals \ {hand} : confirmed'[x] = confirmed[x]
    BY <2>1, ConfirmedGrows DEF Shape, Once, Turns
  <2>3. hand = produced /\ \A s \in Items(queue) : s # hand
    BY <1>1, <2>1 DEF Lineage, Line
  <2>4. \A i \in 1..Len(queue) : queue[i] \in Signals \ {hand}
    BY <1>1, <2>3 DEF Items
  <2>5. \A s \in Signals : s > produced => s # hand
    BY <1>1, <2>3
  <2>6. ConfirmedOnce'
    BY <1>2, <2>1, <2>2 DEF Once, ConfirmedOnce
  <2>7. Turns'
    BY <2>1, <2>2, <2>4, <2>5, EmptyBuffer DEF Once, Turns
  <2> QED BY <2>6, <2>7 DEF Once
<1>7. CASE PublishFails
  <2>1. Raised(hand) /\ hand \in Signals /\ pc = "send" /\ excused' = excused
        /\ produced' = produced /\ BufferHand /\ Goto("assets")
    BY <1>7 DEF PublishFails, Shape, MainShape
  <2>2. confirmed' = confirmed /\ confirmed[hand] = 0
    BY <2>1, ConfirmedGrows DEF Shape, Once, Turns
  <2>3. /\ \A s \in Signals : excused'[s] >= excused[s]
        /\ excused' \in Tally /\ confirmed[hand] <= excused'[hand]
    BY <1>2, <2>1, <2>2 DEF Shape, TallyShape
  <2>4. Turns'
    BY <2>1, <2>2, <2>3, BufferHandKeepsTurns DEF Once
  <2> QED BY <2>1, <2>2, <2>4 DEF Once, ConfirmedOnce
<1>8. CASE SaveSignal
  <2>1. pc' = "assets" /\ UNCHANGED <<queue, at, remaining, produced, confirmed, excused>>
    BY <1>8 DEF SaveSignal, Goto, history
  <2> QED BY <2>1 DEF Once, ConfirmedOnce, Turns
<1>9. CASE SaveFails
  <2>1. hand \in Signals /\ pc = "save" /\ excused' = Bump(excused, hand)
        /\ UNCHANGED <<produced, confirmed>> /\ BufferHand /\ Goto("assets")
    BY <1>9 DEF SaveFails, Shape, MainShape
  <2>2. excused' \in Tally
        /\ \A s \in Signals : excused'[s] = excused[s] + (IF s = hand THEN 1 ELSE 0)
    BY <2>1, BumpIsTally DEF Shape, TallyShape
  <2>3. /\ \A s \in Signals : excused'[s] >= excused[s]
        /\ confirmed[hand] <= excused'[hand]
    BY <1>2, <2>1, <2>2 DEF Once, ConfirmedOnce
  <2>4. Turns'
    BY <2>1, <2>2, <2>3, BufferHandKeepsTurns DEF Once
  <2>5. ConfirmedOnce'
    BY <1>2, <2>1, <2>2 DEF Once, ConfirmedOnce
  <2> QED BY <2>4, <2>5 DEF Once
<1>10. CASE FlushConfirmed
  <2>1. /\ queue[at] \in Signals /\ Confirmed(queue[at]) /\ at' = at + 1 /\ at \in 1..Len(queue)
        /\ UNCHANGED <<pc, queue, remaining, produced, excused>> /\ pc # "send"
        /\ queue[at] \in Items(queue)
        /\ \A s \in Items(remaining) : s < queue[at]
        /\ \A i \in (at + 1)..Len(queue) : queue[at] < queue[i]
    BY <1>10, FlushPosition DEF FlushConfirmed, Flushing
  <2>2. /\ \A x \in Signals \ {queue[at]} : confirmed'[x] = confirmed[x]
        /\ confirmed'[queue[at]] = confirmed[queue[at]] + 1
    BY <2>1, ConfirmedGrows DEF Shape
  <2>3. confirmed[queue[at]] <= excused[queue[at]]
    BY <1>1, <2>1 DEF Once, Turns
  <2>4. ConfirmedOnce'
    BY <1>2, <2>1, <2>2, <2>3 DEF Once, ConfirmedOnce
  <2>5. \A s \in Signals : s > produced => s # queue[at]
    BY <1>1, <2>1 DEF Lineage, Line
  <2>6. \A x, y \in Signals : x < y => x # y
    BY <1>1
  <2>7. \A i \in (at + 1)..Len(queue) : i \in at..Len(queue) /\ queue[i] \in Signals \ {queue[at]}
    <3> TAKE i \in (at + 1)..Len(queue)
    <3>1. i \in at..Len(queue) /\ i \in 1..Len(queue)
      BY <1>1
    <3>2. queue[i] \in Signals
      BY <1>1, <3>1
    <3> QED BY <2>6, <2>1, <3>1, <3>2
  <2>8. \A s \in Items(remaining) : s \in Signals \ {queue[at]}
    BY <1>1, <2>6, <2>1
  <2>9. Turns'
    BY <2>1, <2>2, <2>5, <2>7, <2>8 DEF Once, Turns
  <2> QED BY <2>4, <2>9 DEF Once
<1>11. CASE FlushUnconfirmed
  <2>1. /\ queue[at] \in Signals /\ Raised(queue[at]) /\ at' = at + 1 /\ at \in 1..Len(queue)
        /\ remaining' = Append(remaining, queue[at])
        /\ UNCHANGED <<pc, queue, produced, excused>> /\ pc # "send"
    BY <1>11, FlushPosition DEF FlushUnconfirmed, Raised, Keep, Flushing
  <2>2. confirmed' = confirmed
    BY <2>1, ConfirmedGrows DEF Shape
  <2>3. Items(remaining') = Items(remaining) \cup {queue[at]}
    BY <1>1, <2>1, AppendAdds
  <2>4. \A i \in (at + 1)..Len(queue) : i \in at..Len(queue)
    BY <1>1
  <2>5. confirmed[queue[at]] <= excused[queue[at]]
    BY <1>1, <2>1 DEF Once, Turns
  <2> QED BY <2>1, <2>2, <2>3, <2>4, <2>5 DEF Once, ConfirmedOnce, Turns
<1>12. CASE FlushRaises
  <2>1. /\ queue[at] \in Signals /\ Raised(queue[at]) /\ excused' = Excuse(JustConfirmed)
        /\ at' = 1 /\ remaining' = <<>> /\ pc' # "send"
        /\ UNCHANGED <<queue, produced>>
    BY <1>12, FlushPosition DEF FlushRaises
  <2>2. confirmed' = confirmed
    BY <2>1, ConfirmedGrows DEF Shape
  <2>3. \A s \in Signals : /\ excused'[s] >= excused[s]
                           /\ s \in JustConfirmed => excused'[s] = excused[s] + 1
                           /\ excused'[s] \in Nat
    BY <1>2, <2>1 DEF Excuse
  <2>4. ConfirmedOnce'
    BY <1>2, <2>2, <2>3 DEF Once, ConfirmedOnce
  <2>5. ASSUME NEW i \in 1..Len(queue)
        PROVE  confirmed[queue[i]] <= excused'[queue[i]]
    <3>1. queue[i] \in Signals
      BY <1>1
    <3>2. CASE i \in at..Len(queue)
      BY <1>2, <2>3, <3>1, <3>2 DEF Once, Turns
    <3>3. CASE i \in 1..(at - 1) /\ queue[i] \in Items(remaining)
      BY <1>2, <2>3, <3>1, <3>3 DEF Once, Turns
    <3>4. CASE i \in 1..(at - 1) /\ queue[i] \notin Items(remaining)
      <4>1. queue[i] \in JustConfirmed
        BY <3>4 DEF JustConfirmed
      <4> QED BY <1>2, <2>3, <3>1, <4>1 DEF Once, ConfirmedOnce
    <3> QED BY <1>1, <3>2, <3>3, <3>4
  <2>6. Turns'
    BY <2>1, <2>2, <2>5, EmptyBuffer DEF Once, Turns
  <2> QED BY <2>4, <2>6 DEF Once
<1>13. CASE FlushDone
  <2>1. /\ queue' = remaining /\ at' = 1 /\ remaining' = <<>> /\ pc' # "send"
        /\ UNCHANGED <<produced, confirmed, excused>>
    BY <1>13 DEF FlushDone, Flushing, history
  <2>2. \A i \in 1..Len(remaining) : remaining[i] \in Items(remaining)
    BY DEF Items
  <2> QED BY <2>1, <2>2, EmptyBuffer DEF Once, ConfirmedOnce, Turns
<1>14. CASE Restart
  <2>1. /\ queue' = <<>> /\ at' = 1 /\ remaining' = <<>> /\ pc' = "idle"
        /\ UNCHANGED <<produced, confirmed, excused>>
    BY <1>14 DEF Restart
  <2>2. 1..0 = {}
    OBVIOUS
  <2> QED BY <2>1, <2>2, EmptyBuffer DEF Once, ConfirmedOnce, Turns
<1> QED BY <1>3, <1>4, <1>5, <1>6, <1>7, <1>8, <1>9, <1>10, <1>11, <1>12, <1>13, <1>14
        DEF Next, Step

\* A signal is confirmed once (adapters/signal_publisher.py); only a save that failed
\* after the post and a flush that an exception broke off give it another turn: what
\* is still to be posted has an excuse for every confirmation it got.
THEOREM EachConfirmedOnce == Spec => []ConfirmedOnce
<1>1. Once => ConfirmedOnce
  BY DEF Once
<1> QED BY InitShape, StepShape, InitLineage, StepLineage, InitOnce, StepOnce, <1>1, PTL
        DEF Spec

-----------------------------------------------------------------------------
\* What became trades, and what never does any more.

\* Each trade but the confirmed ones was made by a post that went wrong.
Paid == \A s \in Signals : trades[s] <= confirmed[s] + faults

\* What was lost with a process is not among what this one holds.
LostIsLost ==
  /\ lost \subseteq 1..produced
  /\ lost \cap Items(queue) = {} /\ hand \notin lost

LEMMA PostTrades ==
  ASSUME TallyShape, NEW s \in Signals, Confirmed(s) \/ Raised(s)
  PROVE  /\ \A x \in Signals \ {s} : trades'[x] = trades[x]
         /\ Paid => Paid'
<1>1. \A x \in Signals : confirmed[x] \in Nat /\ trades[x] \in Nat /\ faults \in Nat
  BY DEF TallyShape, Tally
<1>2. \A x \in Signals :
        /\ Bump(trades, s)[x] = trades[x] + (IF x = s THEN 1 ELSE 0)
        /\ Bump(confirmed, s)[x] = confirmed[x] + (IF x = s THEN 1 ELSE 0)
  BY BumpIsTally DEF TallyShape
<1>3. CASE Confirmed(s)
  BY <1>1, <1>2, <1>3 DEF Confirmed, Paid
<1>4. CASE Unconfirmed(s)
  BY <1>1, <1>2, <1>4 DEF Unconfirmed, Fault, Paid
<1>5. CASE UNCHANGED <<trades, confirmed, faults>>
  BY <1>5 DEF Paid
<1> QED BY <1>3, <1>4, <1>5 DEF Raised

\* Only what is in hand or in the buffer is posted.
LEMMA StepPaid ==
  ASSUME Shape, Lineage, [Next]_vars
  PROVE  /\ Paid => Paid'
         /\ \A s \in Signals : trades'[s] # trades[s] => s = hand \/ s \in Items(queue)
<1>1. CASE PublishConfirmed \/ PublishFails
  <2>1. hand \in Signals /\ (Confirmed(hand) \/ Raised(hand))
    BY <1>1 DEF PublishConfirmed, PublishFails, Shape, MainShape
  <2> QED BY <2>1, PostTrades DEF Shape
<1>2. CASE FlushConfirmed \/ FlushUnconfirmed \/ FlushRaises
  <2>1. /\ queue[at] \in Signals /\ queue[at] \in Items(queue)
        /\ Confirmed(queue[at]) \/ Raised(queue[at])
    BY <1>2, FlushPosition DEF FlushConfirmed, FlushUnconfirmed, FlushRaises, Raised
  <2> QED BY <2>1, PostTrades DEF Shape
<1>3. ASSUME UNCHANGED <<trades, confirmed>>, faults' = faults \/ faults' = faults + 1
      PROVE  Paid => Paid'
  <2>1. \A s \in Signals : trades[s] \in Nat /\ confirmed[s] \in Nat /\ faults \in Nat
    BY DEF Shape, TallyShape, Tally
  <2> QED BY <1>3, <2>1 DEF Paid
<1>4. CASE ~(PublishConfirmed \/ PublishFails)
           /\ ~(FlushConfirmed \/ FlushUnconfirmed \/ FlushRaises)
  <2>1. UNCHANGED <<trades, confirmed>> /\ (faults' = faults \/ faults' = faults + 1)
    BY <1>4 DEF Next, Step, StartCycle, NothingToRoute, AnalysisFails, Decide, SaveSignal,
         SaveFails, AssetsDone, TakeTask, TasksDone, FlushDone, BeginShutdown, StartFlush,
         Close, Poll, RequestShutdown, Kill, Restart, Fault, vars, history, outside
  <2> QED BY <1>3, <2>1
<1> QED BY <1>1, <1>2, <1>4

\* Nothing comes into memory but what is decided, nothing is lost but by a restart.
LEMMA MemoryStays ==
  ASSUME Shape, Lineage, [Next]_vars, ~Restart
  PROVE  /\ lost' = lost
         /\ \A s \in Items(queue') : s = hand \/ s \in Items(queue)
         /\ \/ hand' \in {hand, None} /\ produced' = produced
            \/ hand' = produced + 1 /\ produced' = produced + 1
<1>1. CASE PublishFails \/ SaveFails
  <2>1. hand \in Signals /\ queue \in Seq(Signals) /\ Len(queue) <= MaxQueue
    BY <1>1 DEF PublishFails, SaveFails, Shape, MainShape
  <2>2. queue' = Enqueue(queue, hand) /\ hand' = None /\ UNCHANGED <<lost, produced>>
    BY <1>1 DEF PublishFails, SaveFails, BufferHand
  <2> QED BY <2>1, <2>2, EnqueueKeepsNewest
<1>2. CASE FlushDone
  <2>1. queue' = remaining /\ UNCHANGED <<hand, lost, produced>>
    BY <1>2 DEF FlushDone, history
  <2>2. at \in 1..(Len(queue) + 1) /\ Len(queue) \in Nat
    BY DEF Shape, MainShape
  <2>3. 1..(at - 1) \subseteq 1..Len(queue)
    BY <2>2
  <2>4. \A s \in Items(remaining) : s \in Items(queue)
    BY <2>3 DEF Lineage, Kept, Items
  <2> QED BY <2>1, <2>4
<1>3. CASE ~(PublishFails \/ SaveFails) /\ ~FlushDone
  BY <1>3 DEF Next, Step, StartCycle, NothingToRoute, AnalysisFails, Decide,
       PublishConfirmed, SaveSignal, AssetsDone, Goto, TakeTask, TasksDone, StartFlush,
       FlushConfirmed, FlushUnconfirmed, FlushRaises, BeginShutdown, Close, Poll,
       RequestShutdown, Kill, vars, history, process
<1> QED BY <1>1, <1>2, <1>3

LEMMA StepLost == Shape /\ Lineage /\ LostIsLost /\ [Next]_vars => LostIsLost'
<1> SUFFICES ASSUME Shape, Lineage, LostIsLost, [Next]_vars PROVE LostIsLost'
  OBVIOUS
<1>1. /\ None \notin Signals /\ produced \in 0..MaxSignals /\ MaxSignals \in Nat
      /\ hand \in Signals \cup {None} /\ Signals = 1..MaxSignals
  BY Numbers DEF Shape, MainShape, TallyShape, Signals
<1>2. 1..produced \subseteq Signals /\ None \notin 1..produced /\ None \notin lost
  <2>1. 1..produced \subseteq Signals
    BY <1>1
  <2> QED BY <1>1, <2>1 DEF LostIsLost
<1>3. CASE Restart
  <2>1. /\ lost' = lost \cup Items(queue) \cup ({hand} \ {None}) /\ produced' = produced
        /\ queue' = <<>> /\ hand' = None
    BY <1>3 DEF Restart
  <2>2. hand # None => hand \in 1..produced
    BY <1>1 DEF Lineage, Line
  <2>3. lost' \subseteq 1..produced
    BY <2>1, <2>2 DEF LostIsLost, Lineage, Line
  <2> QED BY <1>2, <2>1, <2>3, EmptyBuffer DEF LostIsLost
<1>4. CASE ~Restart
  <2>1. /\ lost' = lost
        /\ \A s \in Items(queue') : s = hand \/ s \in Items(queue)
        /\ \/ hand' \in {hand, None} /\ produced' = produced
           \/ hand' = produced + 1 /\ produced' = produced + 1
    BY <1>4, MemoryStays
  <2>2. 1..produced \subseteq 1..produced' /\ produced + 1 \notin 1..produced
    BY <1>1, <2>1
  <2> QED BY <1>2, <2>1, <2>2 DEF LostIsLost
<1> QED BY <1>3, <1>4

\* No signal is traded twice for nothing (ai4trade_client.py _send,
\* signal_publisher.py publish and flush_queue): every trade beyond the first is paid
\* for by a post that went wrong, a save that failed or a flush that was broken off.
THEOREM TradedOnceUnlessExcused ==
  Spec => [](\A s \in Signals : trades[s] <= 1 + excused[s] + faults)
<1>1. Init => Paid
  BY DEF Init, Paid
<1>2. Shape /\ Lineage /\ Paid /\ [Next]_vars => Paid'
  BY StepPaid
<1>3. Shape /\ Paid /\ ConfirmedOnce => \A s \in Signals : trades[s] <= 1 + excused[s] + faults
  <2> SUFFICES ASSUME Shape, Paid, ConfirmedOnce, NEW s \in Signals
               PROVE  trades[s] <= 1 + excused[s] + faults
    OBVIOUS
  <2>1. trades[s] \in Nat /\ confirmed[s] \in Nat /\ excused[s] \in Nat /\ faults \in Nat
    BY DEF Shape, TallyShape, Tally
  <2> QED BY <2>1 DEF Paid, ConfirmedOnce
<1> QED
  BY <1>1, <1>2, <1>3, InitShape, StepShape, InitLineage, StepLineage, EachConfirmedOnce, PTL
     DEF Spec

\* What newer signals pushed out, and what was in memory when a process ended, is
\* never traded afterwards, by this process or by the next: the account of
\* NothingVanishes is final (signal_publisher.py, _enqueue; main.py).
THEOREM GoneStaysGone == Spec => [][\A s \in dropped \cup lost : trades'[s] = trades[s]]_vars
<1>1. Init => LostIsLost
  BY EmptyBuffer, Numbers DEF Init, LostIsLost
<1>2. Shape /\ Lineage /\ LostIsLost /\ [Next]_vars =>
        [\A s \in dropped \cup lost : trades'[s] = trades[s]]_vars
  <2> SUFFICES ASSUME Shape, Lineage, LostIsLost, [Next]_vars, NEW s \in dropped \cup lost
               PROVE  trades'[s] = trades[s]
    OBVIOUS
  <2>1. s \in Signals /\ s \in Nat /\ Signals \subseteq Nat
    BY Numbers DEF Shape, TallyShape
  <2>2. s # hand /\ s \notin Items(queue)
    <3>1. CASE s \in lost
      BY <3>1 DEF LostIsLost
    <3>2. CASE s \in dropped
      <4>1. hand # None => s < hand
        BY <3>2 DEF Lineage, Line
      <4>2. \A x \in Items(queue) : s < x
        BY <3>2 DEF Lineage, Line
      <4> QED BY <2>1, <4>1, <4>2, Numbers
    <3> QED BY <3>1, <3>2
  <2> QED BY <2>1, <2>2, StepPaid
<1> QED
  BY <1>1, <1>2, InitShape, StepShape, InitLineage, StepLineage, StepLost, PTL DEF Spec

-----------------------------------------------------------------------------
\* The bot implements PublisherContract.

InMemory(s) == s = hand \/ s \in Items(queue)

\* What the contract calls the state of a signal.
Stage(s) ==
  IF InMemory(s) THEN "held"
  ELSE IF s > produced THEN "undecided"
  ELSE IF s \in lost THEN "lost"
  ELSE IF s \in dropped THEN "dropped" ELSE "settled"

Contract == INSTANCE PublisherContract WITH
  Entries <- Signals,
  stage <- [s \in Signals |-> Stage(s)]

\* A confirmation is one of a trade.
Backed == \A s \in Signals : confirmed[s] <= trades[s]

LEMMA StepBacked == Shape /\ Lineage /\ Backed /\ [Next]_vars => Backed'
<1> SUFFICES ASSUME Shape, Lineage, Backed, [Next]_vars PROVE Backed'
  OBVIOUS
<1>1. /\ TallyShape /\ trades \in Tally /\ confirmed \in Tally
      /\ \A s \in Signals : trades[s] \in Nat /\ confirmed[s] \in Nat
  BY DEF Shape, TallyShape, Tally
<1>2. ASSUME NEW s \in Signals, Confirmed(s) \/ Raised(s) PROVE Backed'
  <2>1. \A x \in Signals :
          /\ Bump(trades, s)[x] = trades[x] + (IF x = s THEN 1 ELSE 0)
          /\ Bump(confirmed, s)[x] = confirmed[x] + (IF x = s THEN 1 ELSE 0)
    BY <1>1, BumpIsTally
  <2>2. CASE Confirmed(s)
    BY <1>1, <2>1, <2>2 DEF Confirmed, Backed
  <2>3. CASE Unconfirmed(s)
    BY <1>1, <2>1, <2>3 DEF Unconfirmed, Backed
  <2>4. CASE UNCHANGED <<trades, confirmed, faults>>
    BY <2>4 DEF Backed
  <2> QED BY <1>2, <2>2, <2>3, <2>4 DEF Raised
<1>3. CASE PublishConfirmed \/ PublishFails
  BY <1>2, <1>3 DEF PublishConfirmed, PublishFails, Shape, MainShape
<1>4. CASE FlushConfirmed \/ FlushUnconfirmed \/ FlushRaises
  BY <1>2, <1>4, FlushPosition DEF FlushConfirmed, FlushUnconfirmed, FlushRaises, Raised
<1>5. CASE ~(PublishConfirmed \/ PublishFails)
           /\ ~(FlushConfirmed \/ FlushUnconfirmed \/ FlushRaises)
  <2>1. UNCHANGED <<trades, confirmed>>
    BY <1>5 DEF Next, Step, StartCycle, NothingToRoute, AnalysisFails, Decide, SaveSignal,
         SaveFails, AssetsDone, TakeTask, TasksDone, FlushDone, BeginShutdown, StartFlush,
         Close, Poll, RequestShutdown, Kill, Restart, vars, history, outside
  <2> QED BY <2>1 DEF Backed
<1> QED BY <1>3, <1>4, <1>5

\* The signals in memory are decided, and neither lost nor dropped.
LEMMA MemoryIsCurrent ==
  ASSUME Shape, Lineage, LostIsLost, NEW s \in Signals, InMemory(s)
  PROVE  s \in 1..produced /\ s <= produced /\ s \notin lost /\ s \notin dropped
<1>1. /\ None \notin Signals /\ Signals \subseteq Nat /\ produced \in Nat
      /\ Signals = 1..MaxSignals /\ MaxSignals \in Nat
  BY Numbers DEF Shape, TallyShape, Signals
<1>2. s \notin lost
  BY DEF InMemory, LostIsLost
<1>3. CASE s = hand
  BY <1>1, <1>2, <1>3 DEF Lineage, Line
<1>4. CASE s \in Items(queue)
  BY <1>1, <1>2, <1>4 DEF Lineage, Line
<1> QED BY <1>3, <1>4 DEF InMemory

\* Enqueuing keeps all, or drops the oldest.
LEMMA EnqueueDropsOldest ==
  ASSUME NEW q \in Seq(Signals), NEW s \in Signals, Ordered(q), \A x \in Items(q) : x < s
  PROVE  \/ Items(Enqueue(q, s)) = Items(q) \cup {s}
         \/ \E o \in Items(q) \cup {s} :
              /\ Items(Enqueue(q, s)) = (Items(q) \cup {s}) \ {o}
              /\ \A x \in Items(Enqueue(q, s)) : o < x
<1> DEFINE a == Append(q, s)
<1>1. /\ a \in Seq(Signals) /\ Len(a) # 0 /\ Items(a) = Items(q) \cup {s} /\ Ordered(a)
      /\ Signals \subseteq Nat
  BY AppendAdds, Numbers
<1>2. Enqueue(q, s) \in {a, Tail(a)}
  BY DEF Enqueue
<1> HIDE DEF a
<1>3. /\ Items(a) = Items(Tail(a)) \cup {a[1]} /\ \A x \in Items(Tail(a)) : a[1] < x
      /\ Tail(a) \in Seq(Signals)
  BY <1>1, TailDropsFirst
<1>4. Items(Tail(a)) \subseteq Nat
  <2>1. Items(Tail(a)) \subseteq Signals
    BY <1>3 DEF Items
  <2> QED BY <1>1, <2>1
<1>5. a[1] \notin Items(Tail(a))
  BY <1>3, <1>4
<1> QED BY <1>1, <1>2, <1>3, <1>5

\* The initial states map to initial states of the contract.
LEMMA InitContract == Init => Contract!Init
<1> SUFFICES ASSUME Init PROVE Contract!Init
  OBVIOUS
<1>1. \A s \in Signals : s # None /\ s > 0
  BY Numbers DEF Signals
<1>2. \A s \in Signals : Stage(s) = "undecided"
  BY <1>1, EmptyBuffer DEF Init, Stage, InMemory
<1> QED BY <1>2 DEF Init, Contract!Init

\* Every step of either thread maps to a step of the contract or to a stutter.
LEMMA StepContract ==
  ASSUME Shape, Lineage, LostIsLost, Backed, [Next]_vars
  PROVE  [Contract!Next]_(Contract!contractVars)
<1> DEFINE stages == [s \in Signals |-> Stage(s)]
           Memory == {s \in Signals : InMemory(s)}
<1>1. /\ None \notin Signals /\ Signals \subseteq Nat /\ produced \in Nat
      /\ queue \in Seq(Signals) /\ Items(queue) \subseteq Signals
      /\ hand \in Signals \cup {None}
  BY Numbers DEF Shape, MainShape, TallyShape, Items
<1>2. \A s \in Signals : s \in Memory <=> stages[s] = "held"
  BY DEF Stage
<1>3. Contract!Held = Memory
  BY <1>2 DEF Contract!Held
<1>4. \A s \in Memory : s <= produced /\ s \notin lost /\ s \notin dropped
  BY MemoryIsCurrent
\* A post trades what is in hand or what stands next in the buffer.
<1>5. ASSUME NEW s \in Signals, InMemory(s), Confirmed(s) \/ Raised(s)
      PROVE  UNCHANGED trades \/ \E e \in Contract!Held : Contract!Trade(e)
  <2>1. s \in Contract!Held /\ stages[s] = "held"
    BY <1>2, <1>3, <1>5
  <2>2. trades' = trades \/ trades' = [trades EXCEPT ![s] = @ + 1]
    BY <1>5 DEF Confirmed, Raised, Unconfirmed, Bump
  <2> QED BY <2>1, <2>2 DEF Contract!Trade
<1>6. ASSUME UNCHANGED <<hand, queue, produced, lost, dropped>>
      PROVE  stages' = stages
  BY <1>6 DEF Stage, InMemory
<1>7. CASE PublishConfirmed
  <2>1. hand \in Signals /\ Confirmed(hand) /\ stages' = stages
    BY <1>6, <1>7 DEF PublishConfirmed, Shape, MainShape
  <2> QED BY <1>5, <2>1 DEF InMemory, Contract!Attempt, Contract!Next
<1>8. CASE FlushConfirmed \/ FlushUnconfirmed \/ FlushRaises
  <2>1. /\ queue[at] \in Signals /\ InMemory(queue[at])
        /\ Confirmed(queue[at]) \/ Raised(queue[at])
    BY <1>8, FlushPosition
       DEF FlushConfirmed, FlushUnconfirmed, FlushRaises, Raised, InMemory
  <2>2. stages' = stages
    BY <1>6, <1>8 DEF FlushConfirmed, FlushUnconfirmed, FlushRaises
  <2> QED BY <1>5, <2>1, <2>2 DEF Contract!Attempt, Contract!Next
<1>9. CASE Decide
  <2>1. /\ hand = None /\ hand' = produced + 1 /\ produced' = produced + 1
        /\ UNCHANGED <<queue, trades, lost, dropped>>
    BY <1>9 DEF Decide, outside, Shape, MainShape
  <2> DEFINE e == produced + 1
  <2>2. e \in Signals
    BY <1>1, <1>9, Numbers DEF Decide, Signals, Shape, TallyShape
  <2>3. \A s \in Signals : stages[s] = "undecided" <=> s > produced
    <3>1. \A s \in Signals : InMemory(s) => ~(s > produced)
      BY <1>1, <1>4
    <3> QED BY <3>1 DEF Stage
  <2>4. \A s \in Signals : s > produced <=> e <= s
    BY <1>1
  <2>5. \A s \in Signals : s # e => (s > produced + 1 <=> s > produced)
    BY <1>1
  <2>6. \A s \in Signals : Stage(s)' = IF s = e THEN "held" ELSE Stage(s)
    BY <1>1, <2>1, <2>5 DEF Stage, InMemory
  <2> HIDE DEF e
  <2>7. stages' = [stages EXCEPT ![e] = "held"]
    BY <2>2, <2>6
  <2>8. stages[e] = "undecided"
    BY <1>1, <2>2, <2>3 DEF e
  <2>9. Contract!Decide(e)
    BY <2>1, <2>3, <2>4, <2>7, <2>8 DEF Contract!Decide
  <2> QED BY <2>2, <2>9 DEF Contract!Next
\* The signal in hand is buffered, and the oldest may give way.
<1>10. ASSUME pc \in {"send", "save"}, BufferHand, UNCHANGED <<produced, lost>>
       PROVE  UNCHANGED stages \/ Contract!DropOldest
  <2>1. /\ hand \in Signals /\ Ordered(queue) /\ \A x \in Items(queue) : x < hand
        /\ queue' = Enqueue(queue, hand) /\ hand' = None
        /\ dropped' = dropped \cup ((Items(queue) \cup {hand}) \ Items(queue'))
    BY <1>1, <1>10 DEF BufferHand, Shape, MainShape, Lineage, Line
  <2>2. Memory = Items(queue) \cup {hand}
    BY <1>1, <2>1 DEF InMemory
  <2>3. \A s \in Signals : InMemory(s)' <=> s \in Items(queue')
    BY <1>1, <2>1 DEF InMemory
  <2>4. CASE Items(queue') = Memory
    <3>1. dropped' = dropped
      BY <2>1, <2>2, <2>4
    <3>2. \A s \in Signals : InMemory(s)' <=> InMemory(s)
      BY <2>3, <2>4
    <3>3. \A s \in Signals : Stage(s)' = Stage(s)
      BY <1>10, <3>1, <3>2 DEF Stage
    <3> QED BY <3>3
  <2>5. ASSUME NEW o \in Memory, Items(queue') = Memory \ {o}, \A x \in Items(queue') : o < x
        PROVE  Contract!DropOldest
    <3>1. dropped' = dropped \cup {o}
      BY <2>1, <2>2, <2>5
    <3>2. \A s \in Signals : InMemory(s)' <=> InMemory(s) /\ s # o
      BY <2>3, <2>5
    <3>3. \A s \in Signals : Stage(s)' = IF s = o THEN "dropped" ELSE Stage(s)
      <4>1. o \in Nat /\ ~(o > produced) /\ o \notin lost
        BY <1>1, <1>4
      <4> QED BY <1>10, <3>1, <3>2, <4>1 DEF Stage
    <3>4. stages' = [stages EXCEPT ![o] = "dropped"]
      BY <2>5, <3>3
    <3>5. \A f \in Memory : o <= f
      BY <1>1, <2>5
    <3> QED BY <1>3, <3>4, <3>5 DEF Contract!DropOldest
  <2> QED BY <1>1, <2>1, <2>2, <2>4, <2>5, EnqueueDropsOldest
<1>11. CASE PublishFails
  <2>1. hand \in Signals /\ Raised(hand) /\ UNCHANGED <<produced, lost>>
    BY <1>11 DEF PublishFails, Shape, MainShape
  <2>2. UNCHANGED trades \/ \E e \in Contract!Held : Contract!Trade(e)
    BY <1>5, <2>1 DEF InMemory
  <2>3. UNCHANGED stages \/ Contract!DropOldest
    BY <1>10, <1>11, <2>1 DEF PublishFails
  <2> QED BY <2>2, <2>3 DEF Contract!Attempt, Contract!Next
<1>12. CASE SaveFails
  <2>1. UNCHANGED stages \/ Contract!DropOldest
    BY <1>10, <1>12 DEF SaveFails
  <2>2. UNCHANGED trades
    BY <1>12 DEF SaveFails
  <2> QED BY <2>1, <2>2 DEF Contract!Attempt, Contract!Next
\* What was confirmed leaves the memory.
<1>13. ASSUME NEW S \in SUBSET Memory, UNCHANGED <<produced, lost, dropped, trades>>,
              \A s \in Signals : InMemory(s)' <=> InMemory(s) /\ s \notin S,
              \A s \in S : confirmed[s] > 0
       PROVE  Contract!Settle
  <2>1. \A s \in Signals : Stage(s)' = IF s \in S THEN "settled" ELSE Stage(s)
    <3>1. \A s \in S : ~(s > produced) /\ s \notin lost /\ s \notin dropped
      BY <1>1, <1>4
    <3> QED BY <1>13, <3>1 DEF Stage
  <2>2. stages' = [s \in Signals |-> IF s \in S THEN "settled" ELSE stages[s]]
    BY <2>1
  <2>3. \A s \in S : trades[s] > 0
    <3>1. \A s \in Signals : trades[s] \in Nat /\ confirmed[s] \in Nat
      BY DEF Shape, TallyShape, Tally
    <3> QED BY <1>13, <3>1 DEF Backed
  <2>4. Contract!Move(S, "settled")
    BY <1>13, <2>2 DEF Contract!Move
  <2> QED BY <1>3, <2>3, <2>4 DEF Contract!Settle
<1>14. CASE SaveSignal
  <2>1. /\ hand \in Signals /\ hand' = None /\ confirmed[hand] > 0
        /\ UNCHANGED <<queue, produced, lost, dropped, trades>>
        /\ \A s \in Items(queue) : s < hand
    BY <1>1, <1>14 DEF SaveSignal, history, Shape, MainShape, Lineage, Line, Account
  <2>2. hand \in Memory /\ hand \notin Items(queue)
    BY <1>1, <2>1 DEF InMemory
  <2>3. \A s \in Signals : InMemory(s)' <=> InMemory(s) /\ s # hand
    BY <1>1, <2>1, <2>2 DEF InMemory
  <2> DEFINE S == {hand}
  <2>4. /\ S \in SUBSET Memory /\ \A s \in S : confirmed[s] > 0
        /\ \A s \in Signals : InMemory(s)' <=> InMemory(s) /\ s \notin S
    BY <2>1, <2>2, <2>3
  <2> HIDE DEF S
  <2>5. Contract!Settle
    BY <1>13, <2>1, <2>4
  <2> QED BY <2>5 DEF Contract!Next
<1>15. CASE FlushDone
  <2>1. /\ hand = None /\ hand' = None /\ queue' = remaining /\ at - 1 = Len(queue)
        /\ UNCHANGED <<produced, lost, dropped, trades>>
    BY <1>15 DEF FlushDone, Flushing, history, outside, Shape, MainShape
  <2> DEFINE S == Items(queue) \ Items(remaining)
  <2>2. Items(remaining) \subseteq Items(queue) /\ \A s \in S : confirmed[s] > 0
    BY <2>1 DEF Lineage, Kept, Items
  <2>3. \A s \in Signals :
          /\ InMemory(s) <=> s \in Items(queue)
          /\ InMemory(s)' <=> s \in Items(remaining)
    BY <1>1, <2>1 DEF InMemory
  <2>4. S \in SUBSET Memory /\ \A s \in Signals : InMemory(s)' <=> InMemory(s) /\ s \notin S
    BY <1>1, <2>2, <2>3
  <2> HIDE DEF S
  <2>5. Contract!Settle
    BY <1>13, <2>1, <2>2, <2>4
  <2> QED BY <2>5 DEF Contract!Next
<1>16. CASE Restart
  <2>1. /\ hand' = None /\ queue' = <<>> /\ UNCHANGED <<produced, dropped, trades>>
        /\ lost' = lost \cup Items(queue) \cup ({hand} \ {None})
    BY <1>16 DEF Restart, outside
  <2>2. \A s \in Signals : ~InMemory(s)' /\ (s \in lost' <=> s \in lost \/ InMemory(s))
    BY <1>1, <2>1, EmptyBuffer DEF InMemory
  <2>3. \A s \in Signals : Stage(s)' = IF s \in Memory THEN "lost" ELSE Stage(s)
    <3>1. \A s \in Memory : ~(s > produced)
      BY <1>1, <1>4
    <3> QED BY <2>1, <2>2, <3>1 DEF Stage
  <2>4. stages' = [s \in Signals |-> IF s \in Memory THEN "lost" ELSE stages[s]]
    BY <2>3
  <2>5. Contract!Die
    BY <1>3, <2>1, <2>4 DEF Contract!Die, Contract!Move
  <2> QED BY <2>5 DEF Contract!Next
<1>17. CASE \/ StartCycle \/ NothingToRoute \/ AnalysisFails \/ AssetsDone \/ TakeTask
            \/ TasksDone \/ BeginShutdown \/ Poll \/ RequestShutdown \/ Kill \/ Close
            \/ UNCHANGED vars
  <2>1. UNCHANGED <<hand, queue, produced, lost, dropped, trades>>
    BY <1>17 DEF StartCycle, NothingToRoute, AnalysisFails, AssetsDone, Goto, TakeTask,
         TasksDone, BeginShutdown, StartFlush, Poll, RequestShutdown, Kill, Close, vars,
         process, outside, history
  <2> QED BY <1>6, <2>1 DEF Contract!contractVars
<1> QED
  BY <1>7, <1>8, <1>9, <1>11, <1>12, <1>14, <1>15, <1>16, <1>17 DEF Next, Step

\* Whatever AI4Trade answers, wherever a flush breaks off and whenever the process
\* ends, the bot keeps PublisherContract: a signal leaves the memory for good, as
\* settled only after a trade, as the oldest of too many, or with the process.
THEOREM BotImplementsContract == Spec => Contract!Spec
<1>1. Init => Backed /\ LostIsLost
  BY EmptyBuffer, Numbers DEF Init, Backed, LostIsLost
<1>2. Shape /\ Lineage /\ LostIsLost /\ Backed /\ [Next]_vars =>
        [Contract!Next]_(Contract!contractVars)
  BY StepContract
<1> QED
  BY <1>1, <1>2, InitContract, InitShape, StepShape, InitLineage, StepLineage, StepLost,
     StepBacked, PTL DEF Spec, Contract!Spec
=============================================================================
