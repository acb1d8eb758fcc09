-------------------------- MODULE LifecycleProofs --------------------------
(***************************************************************************)
(* Theorems about the life of a canonical signal, for every set of signals *)
(* and trackers, every deployment of them beside archive and consumer,     *)
(* every timestamp, length of a date and retention.                        *)
(***************************************************************************)
EXTENDS SignalLifecycle, TLAPS

(***************************************************************************)
(* Dates                                                                   *)
(***************************************************************************)

\* The date does not go back when time goes on.
LEMMA DateMonotone ==
  ASSUME NEW a \in Int, NEW b \in Int, a <= b
  PROVE  Date(a) \in Int /\ Date(b) \in Int /\ Date(a) <= Date(b)
BY DayLengthAssumption DEF Date

\* The date of a tick of the clock is a natural number.
LEMMA DateNatural ==
  ASSUME NEW a \in Nat
  PROVE  Date(a) \in Nat
BY DayLengthAssumption DEF Date

\* What sorts before a cutoff written with a blank is before the cutoff.
LEMMA BlankIsEarlier ==
  ASSUME NEW a \in Int, NEW b \in Int, SortsBeforeBlank(a, b)
  PROVE  a < b
<1>1. SUFFICES ASSUME b <= a PROVE FALSE
  OBVIOUS
<1>2. Date(b) <= Date(a) /\ Date(a) \in Int /\ Date(b) \in Int
  BY <1>1, DateMonotone
<1> QED BY <1>2 DEF SortsBeforeBlank

\* The file of the day is one of the files.
LEMMA TodayHasAFile ==
  ASSUME TypeOK
  PROVE  Date(now) \in 0..Date(MaxTime)
<1>1. now \in Nat /\ MaxTime \in Nat /\ now <= MaxTime
  BY SpanAssumption DEF TypeOK, Times
<1> QED BY <1>1, DateMonotone, DateNatural

(***************************************************************************)
(* Type correctness                                                        *)
(***************************************************************************)

\* The label a tracker gives is one of OutcomeLabel.
LEMMA VerdictsTyped ==
  ASSUME NEW s
  PROVE  Verdicts(s) \subseteq Labels
BY DEF Verdicts, Classified, Classify, Labels, Priced

\* Empty tables and idle processes are well typed.
LEMMA InitTypeOK == Init => TypeOK
<1> SUFFICES ASSUME Init PROVE TypeOK
  OBVIOUS
<1>1. 0 \in Times /\ FirstTime \in Times /\ Date(MaxTime) \in Nat
  BY SpanAssumption, DateNatural DEF Times
<1>2. NoOutcome \in [label : Labels \cup {"none"}, at : Times]
  BY <1>1 DEF NoOutcome
<1>3. NoHand \in [signal : Signals \cup {Nobody},
                  label : Labels \cup {"none"}, at : Times]
  BY <1>1 DEF NoHand
<1>4. Resting \in [pc : {"off", "write", "delete"}, cutoff : Int,
                   old : SUBSET Signals, seen : SUBSET Signals]
  BY DEF Resting
<1> QED BY <1>1, <1>2, <1>3, <1>4, SpanAssumption DEF Init, TypeOK, Lifecycles

\* Done takes a signal from the snapshot of a tracker.
LEMMA DoneTyped ==
  ASSUME TypeOK, NEW t \in Trackers, NEW s, Done(t, s)
  PROVE  /\ pc' \in [Trackers -> {"off", "idle", "evaluate", "record"}]
         /\ batch' \in [Trackers -> SUBSET Signals]
BY DEF TypeOK, Done

\* Every step of every process keeps the types.
LEMMA StepTypeOK == TypeOK /\ [Next]_vars => TypeOK'
<1> SUFFICES ASSUME TypeOK, [Next]_vars PROVE TypeOK'
  OBVIOUS
<1> USE DEF Times
<1>0. deployed' = deployed
  BY DEF Next, vars
<1> USE <1>0
<1>1. ASSUME NEW s \in Signals, NEW stamp \in Stamps, Append(s, stamp) PROVE TypeOK'
  <2>1. stamp.ahead \in Int /\ stamp.offset \in Int
    BY StampAssumption
  <2>2. now \in Int
    BY SpanAssumption DEF TypeOK
  <2>3. created' \in [Signals -> Int] /\ written' \in [Signals -> Int]
    BY <1>1, <2>1, <2>2 DEF TypeOK, Append
  <2> QED BY <1>0, <1>1, <2>3
          DEF TypeOK, Append, Inserted, Lifecycles, outcomes, trackers, archive
<1>2. ASSUME NEW s \in Signals, NEW to \in Stored, Transition(s, to) PROVE TypeOK'
  BY <1>2 DEF TypeOK, Transition, Updated, Stored, Lifecycles, outcomes, trackers,
              archive
<1>3. ASSUME NEW t \in Trackers, Query(t) PROVE TypeOK'
  <2>1. PICK B \in SUBSET Signals : batch' = [batch EXCEPT ![t] = B]
    BY <1>3 DEF Query, OldestOf, OpenRows
  <2> QED BY <1>3, <2>1 DEF TypeOK, Query, tables, signals, outcomes, archive
<1>4. ASSUME NEW t \in Trackers, Skip(t) PROVE TypeOK'
  <2>1. PICK s : Done(t, s)
    BY <1>4 DEF Skip
  <2> QED BY <1>4, <2>1, DoneTyped DEF TypeOK, Skip, tables, signals, outcomes, archive
<1>5. ASSUME NEW t \in Trackers, Judge(t) PROVE TypeOK'
  <2>1. PICK s \in Signals, label \in Labels :
          hand' = [hand EXCEPT ![t] = [signal |-> s, label |-> label, at |-> now]]
    BY <1>5, VerdictsTyped DEF Judge, Oldest, TypeOK
  <2> QED BY <1>5, <2>1 DEF TypeOK, Judge, tables, signals, outcomes, archive
<1>6. ASSUME NEW t \in Trackers, Record(t) PROVE TypeOK'
  <2>1. Done(t, hand[t].signal)
    BY <1>6 DEF Record
  <2>2. outcome' \in [Signals -> [label : Labels \cup {"none"}, at : Times]]
    BY <1>6 DEF TypeOK, Record
  <2>3. hand' \in [Trackers -> [signal : Signals \cup {Nobody},
                                label : Labels \cup {"none"}, at : Times]]
    BY <1>6, SpanAssumption DEF TypeOK, Record, NoHand
  <2>4. authors' \in [Signals -> SUBSET Trackers]
    BY <1>6 DEF TypeOK, Record
  <2> QED BY <1>6, <2>1, <2>2, <2>3, <2>4, DoneTyped
          DEF TypeOK, Record, signals, archive
<1>7. ASSUME NEW t \in Trackers, EvaluationFails(t) PROVE TypeOK'
  <2>1. PICK s : Done(t, s)
    BY <1>7 DEF EvaluationFails
  <2>2. hand' \in [Trackers -> [signal : Signals \cup {Nobody},
                                label : Labels \cup {"none"}, at : Times]]
    BY <1>7, SpanAssumption DEF TypeOK, EvaluationFails, NoHand
  <2>3. faults' \in 0..MaxFaults
    BY <1>7, SpanAssumption DEF TypeOK, EvaluationFails, Fault
  <2> QED BY <1>7, <2>1, <2>2, <2>3, DoneTyped
          DEF TypeOK, EvaluationFails, tables, signals, outcomes, archive
<1>8. ASSUME NEW t \in Trackers, Dies(t) PROVE TypeOK'
  <2>1. hand' \in [Trackers -> [signal : Signals \cup {Nobody},
                                label : Labels \cup {"none"}, at : Times]]
    BY <1>8, SpanAssumption DEF TypeOK, Dies, NoHand
  <2>2. faults' \in 0..MaxFaults
    BY <1>8, SpanAssumption DEF TypeOK, Dies, Fault
  <2> QED BY <1>8, <2>1, <2>2 DEF TypeOK, Dies, tables, signals, outcomes, archive
<1>9. ASSUME NEW t \in Trackers, Start(t) PROVE TypeOK'
  BY <1>9 DEF TypeOK, Start, tables, signals, outcomes, archive
<1>10. CASE CleanupSignals
  BY <1>10 DEF TypeOK, CleanupSignals, Deleted, Lifecycles, outcomes, trackers,
               archive
<1>11. CASE CleanupOutcomes
  <2>1. NoOutcome \in [label : Labels \cup {"none"}, at : Times]
    BY SpanAssumption DEF NoOutcome
  <2>2. /\ outcome' \in [Signals -> [label : Labels \cup {"none"}, at : Times]]
        /\ authors' \in [Signals -> SUBSET Trackers]
    BY <1>11, <2>1 DEF TypeOK, CleanupOutcomes
  <2> QED BY <1>11, <2>2 DEF TypeOK, CleanupOutcomes, signals, trackers, archive
<1>12. CASE ReadOld
  BY <1>12, SpanAssumption
     DEF TypeOK, ReadOld, SignalsBefore, Present, tables, signals, outcomes, trackers
<1>13. ASSUME NEW content \in SUBSET Signals, OpenFile(content)
       PROVE  /\ files' \in [0..Date(MaxTime) -> SUBSET Signals]
              /\ rewritten' \subseteq 0..Date(MaxTime)
  BY <1>13, TodayHasAFile DEF TypeOK, OpenFile
<1>14. Resting \in [pc : {"off", "write", "delete"}, cutoff : Int,
                    old : SUBSET Signals, seen : SUBSET Signals]
  BY DEF Resting
<1>15. CASE WriteFile
  <2>1. /\ files' \in [0..Date(MaxTime) -> SUBSET Signals]
        /\ rewritten' \subseteq 0..Date(MaxTime)
    BY <1>15, <1>13 DEF WriteFile, TypeOK
  <2>2. archived' \in [Signals -> -1..Date(MaxTime)]
    <3>1. Date(now) \in -1..Date(MaxTime)
      BY TodayHasAFile, DateNatural, SpanAssumption
    <3>2. archived \in [Signals -> -1..Date(MaxTime)]
      BY DEF TypeOK
    <3>3. \/ archived' = [s \in Signals |->
                            IF s \in archiver.old THEN Date(now) ELSE archived[s]]
          \/ archived' = archived
      BY <1>15 DEF WriteFile
    <3> QED BY <3>1, <3>2, <3>3
  <2>3. archiver' \in [pc : {"off", "write", "delete"}, cutoff : Int,
                       old : SUBSET Signals, seen : SUBSET Signals]
    <3>1. ASSUME NEW a, NEW R, a \in [pc : R, cutoff : Int, old : SUBSET Signals,
                                      seen : SUBSET Signals], "delete" \in R
          PROVE  [a EXCEPT !.pc = "delete"] \in
                    [pc : R, cutoff : Int, old : SUBSET Signals,
                     seen : SUBSET Signals]
      BY <3>1
    <3>2. [archiver EXCEPT !.pc = "delete"] \in
             [pc : {"off", "write", "delete"}, cutoff : Int,
              old : SUBSET Signals, seen : SUBSET Signals]
      BY <3>1 DEF TypeOK
    <3> QED BY <1>15, <1>14, <3>2 DEF WriteFile
  <2> QED BY <1>15, <2>1, <2>2, <2>3 DEF TypeOK, WriteFile, tables, signals, outcomes, trackers
<1>16. CASE DeleteOld
  BY <1>16, <1>14 DEF TypeOK, DeleteOld, Deleted, Lifecycles, outcomes, trackers
<1>17. CASE ArchiveBreaksOff
  <2>1. /\ files' \in [0..Date(MaxTime) -> SUBSET Signals]
        /\ rewritten' \subseteq 0..Date(MaxTime)
    BY <1>17, <1>13 DEF ArchiveBreaksOff, TypeOK
  <2>2. faults' \in 0..MaxFaults
    BY <1>17, SpanAssumption DEF TypeOK, ArchiveBreaksOff, Fault
  <2> QED BY <1>17, <1>14, <2>1, <2>2
          DEF TypeOK, ArchiveBreaksOff, tables, signals, outcomes, trackers
<1>18. CASE Tick
  BY <1>18, SpanAssumption DEF TypeOK, Tick, tables, signals, outcomes, trackers, archive
<1>19. CASE UNCHANGED vars
  BY <1>19 DEF TypeOK, vars, tables, signals, outcomes, trackers, archive
<1> QED
  BY <1>1, <1>2, <1>3, <1>4, <1>5, <1>6, <1>7, <1>8, <1>9, <1>10, <1>11,
     <1>12, <1>15, <1>16, <1>17, <1>18, <1>19, SignalAssumption
     DEF Next, Tracking, Track, Producing, Consuming, Maintaining, Archiving

(***************************************************************************)
(* The tables and the processes always hold values of their types          *)
(* (canonical_signals, signal_outcomes, the runs of run and                *)
(* archive_old_signals).                                                   *)
(***************************************************************************)
THEOREM TypeCorrect == Spec => []TypeOK
BY InitTypeOK, StepTypeOK, PTL DEF Spec

(***************************************************************************)
(* The inductive invariant                                                 *)
(***************************************************************************)

\* A label given at some time agrees with the prices and with the clock.
Grounded(s, label, at) ==
  /\ at >= written[s] + Window
  /\ label \in Priced /\ at >= created[s] + Window =>
       label = Classify(Direction[s], Move[s])
  /\ label = "expired" => at >= created[s] + MaxAge
  /\ label = "unknown" => at < created[s] + MaxAge

\* What a run has taken was appended and has passed its window, by its text.
BatchesAreDue ==
  \A t \in Trackers : \A s \in batch[t] :
    lifecycle[s] # "new" /\ written[s] + Window <= now

\* The outcome about to be written is grounded, and whoever has written one for
\* the signal by now was another tracker.
HandsAreSound ==
  \A t \in Trackers : pc[t] = "record" =>
    /\ hand[t].signal \in batch[t]
    /\ hand[t].label \in Labels
    /\ Grounded(hand[t].signal, hand[t].label, hand[t].at)
    /\ t \notin authors[hand[t].signal]

\* Outcomes on record are grounded and belong to signals that were appended.
OutcomesAreGrounded ==
  \A s \in Signals : outcome[s].label # "none" =>
    lifecycle[s] # "new" /\ Grounded(s, outcome[s].label, outcome[s].at)

\* Without an outcome there is nobody who has written it.
AuthorsHaveWritten ==
  \A s \in Signals : outcome[s].label = "none" => authors[s] = {}

\* The archive has read every row of that time which its DELETE will hit.
ArchiveHasReadAll ==
  archiver.pc # "off" =>
    \A s \in archiver.seen :
      /\ lifecycle[s] # "new"
      /\ written[s] < archiver.cutoff => s \in archiver.old

TrackersAreSound ==
  /\ BatchesAreDue
  /\ HandsAreSound
  /\ OutcomesAreGrounded
  /\ AuthorsHaveWritten

LifecycleInv ==
  /\ TypeOK
  /\ TrackersAreSound
  /\ ArchiveHasReadAll
  /\ ArchivedIsReadable

\* At the start nothing is on record and nobody is at work.
LEMMA InitLifecycleInv == Init => LifecycleInv
<1> SUFFICES ASSUME Init PROVE LifecycleInv
  OBVIOUS
<1>1. TypeOK
  BY InitTypeOK
<1>2. TrackersAreSound
  BY DEF Init, TrackersAreSound, BatchesAreDue, HandsAreSound, OutcomesAreGrounded,
         AuthorsHaveWritten, NoOutcome
<1>3. ArchiveHasReadAll /\ ArchivedIsReadable
  BY DEF Init, ArchiveHasReadAll, ArchivedIsReadable, Resting
<1> QED BY <1>1, <1>2, <1>3 DEF LifecycleInv

\* Whatever evaluate_signal decides now about a due signal is grounded.
LEMMA VerdictsAreGrounded ==
  ASSUME TypeOK, NEW s \in Signals, written[s] + Window <= now,
         NEW label \in Verdicts(s)
  PROVE  label \in Labels /\ Grounded(s, label, now)
<1>1. /\ created[s] \in Int /\ written[s] \in Int /\ now \in Nat
      /\ MaxAge \in Nat /\ Window \in Nat
  BY SpanAssumption DEF TypeOK, Times
<1>2. CASE label \in Classified(s)
  <2>1. PICK move : label = Classify(Direction[s], move)
                    /\ (now >= created[s] + Window => move = Move[s])
    BY <1>2 DEF Classified
  <2>2. label \in Priced
    BY <2>1 DEF Classify, Priced
  <2> QED BY <1>1, <2>1, <2>2 DEF Grounded, Priced, Labels
<1>3. CASE label \notin Classified(s)
  <2>1. label = IF now >= created[s] + MaxAge THEN "expired" ELSE "unknown"
    BY <1>3 DEF Verdicts
  <2>2. label \notin Priced /\ label \in Labels
    BY <2>1 DEF Priced, Labels
  <2> QED BY <1>1, <2>1, <2>2 DEF Grounded
<1> QED BY <1>2, <1>3

\* Steps that leave the tables and the clock alone, shrink the snapshot of one
\* tracker and take it from its outcome keep what the trackers hold sound.
LEMMA LettingGo ==
  ASSUME LifecycleInv, NEW t \in Trackers,
         UNCHANGED <<now, tables>>,
         batch' \in [Trackers -> SUBSET Signals],
         \A u \in Trackers : batch'[u] \subseteq batch[u],
         \A u \in Trackers \ {t} : pc'[u] = pc[u] /\ hand'[u] = hand[u]
                                    /\ batch'[u] = batch[u],
         pc'[t] # "record"
  PROVE  TrackersAreSound'
<1>1. BatchesAreDue'
  BY DEF LifecycleInv, TrackersAreSound, BatchesAreDue, tables, signals, outcomes
<1>2. HandsAreSound'
  BY DEF LifecycleInv, TrackersAreSound, HandsAreSound, Grounded, tables, signals, outcomes
<1>3. OutcomesAreGrounded'
  BY DEF LifecycleInv, TrackersAreSound, OutcomesAreGrounded, Grounded, tables,
         signals, outcomes
<1>4. AuthorsHaveWritten'
  BY DEF LifecycleInv, TrackersAreSound, AuthorsHaveWritten, tables, outcomes
<1> QED BY <1>1, <1>2, <1>3, <1>4 DEF TrackersAreSound

\* The archive's part of the invariant only reads what the archive changes and
\* which rows were appended when.
LEMMA ArchiveUndisturbed ==
  ASSUME LifecycleInv, UNCHANGED <<written, archive>>,
         \A s \in Signals : lifecycle[s] # "new" => lifecycle'[s] # "new"
  PROVE  ArchiveHasReadAll' /\ ArchivedIsReadable'
<1>1. archiver.seen \subseteq Signals
  BY DEF LifecycleInv, TypeOK
<1>2. ArchiveHasReadAll'
  BY <1>1 DEF LifecycleInv, ArchiveHasReadAll, archive
<1>3. ArchivedIsReadable'
  BY DEF LifecycleInv, ArchivedIsReadable, archive
<1> QED BY <1>2, <1>3

\* The trackers' part of the invariant does not read the archive's state.
LEMMA TrackersUndisturbed ==
  ASSUME LifecycleInv, UNCHANGED <<created, written, outcomes, trackers>>,
         \A s \in Signals : lifecycle[s] # "new" => lifecycle'[s] # "new",
         now' \in Nat, now <= now'
  PROVE  TrackersAreSound'
<1>1. /\ batch \in [Trackers -> SUBSET Signals] /\ now \in Nat
      /\ written \in [Signals -> Int] /\ Window \in Nat
  BY SpanAssumption DEF LifecycleInv, TypeOK, Times
<1>2. BatchesAreDue'
  BY <1>1 DEF LifecycleInv, TrackersAreSound, BatchesAreDue, trackers
<1>3. HandsAreSound'
  BY DEF LifecycleInv, TrackersAreSound, HandsAreSound, Grounded, outcomes, trackers
<1>4. OutcomesAreGrounded' /\ AuthorsHaveWritten'
  BY DEF LifecycleInv, TrackersAreSound, OutcomesAreGrounded, AuthorsHaveWritten,
         Grounded, outcomes
<1> QED BY <1>2, <1>3, <1>4 DEF TrackersAreSound

\* Every step of every process keeps the invariant.
LEMMA StepLifecycleInv == LifecycleInv /\ [Next]_vars => LifecycleInv'
<1> SUFFICES ASSUME LifecycleInv, [Next]_vars PROVE LifecycleInv'
  OBVIOUS
<1>0. TypeOK /\ TypeOK'
  BY StepTypeOK DEF LifecycleInv
<1>a. /\ now \in Nat /\ written \in [Signals -> Int] /\ Window \in Nat
      /\ batch \in [Trackers -> SUBSET Signals]
  BY <1>0, SpanAssumption DEF TypeOK, Times
<1>1. ASSUME NEW s \in Signals, NEW stamp \in Stamps, Append(s, stamp)
      PROVE  LifecycleInv'
  <2>1. \A u \in Signals : lifecycle[u] # "new" =>
          /\ lifecycle'[u] = lifecycle[u]
          /\ created'[u] = created[u] /\ written'[u] = written[u]
    BY <1>0, <1>1 DEF TypeOK, Append, Inserted
  <2>2. BatchesAreDue'
    BY <1>1, <1>a, <2>1
       DEF LifecycleInv, TrackersAreSound, BatchesAreDue, Append, trackers
  <2>3. HandsAreSound'
    BY <1>1, <1>a, <2>1
       DEF LifecycleInv, TrackersAreSound, BatchesAreDue, HandsAreSound, Grounded,
           Append, outcomes, trackers
  <2>4. OutcomesAreGrounded' /\ AuthorsHaveWritten'
    BY <1>1, <2>1 DEF LifecycleInv, TrackersAreSound, OutcomesAreGrounded,
                      AuthorsHaveWritten, Grounded, Append, outcomes
  <2>5. archiver.seen \subseteq Signals
    BY <1>0 DEF TypeOK
  <2>6. ArchiveHasReadAll'
    BY <1>1, <2>1, <2>5 DEF LifecycleInv, ArchiveHasReadAll, Append, archive
  <2>7. ArchivedIsReadable'
    BY <1>1 DEF LifecycleInv, ArchivedIsReadable, Append, archive
  <2> QED BY <1>0, <2>2, <2>3, <2>4, <2>6, <2>7 DEF LifecycleInv, TrackersAreSound
<1>2. ASSUME NEW s \in Signals, NEW to \in Stored, Transition(s, to)
      PROVE  LifecycleInv'
  <2>1. \A u \in Signals : lifecycle[u] # "new" => lifecycle'[u] # "new"
    BY <1>0, <1>2 DEF TypeOK, Transition, Updated, Stored
  <2> QED BY <1>0, <1>2, <1>a, <2>1, TrackersUndisturbed, ArchiveUndisturbed
          DEF LifecycleInv, Transition
<1>3. ASSUME NEW t \in Trackers, Query(t) PROVE LifecycleInv'
  <2>1. PICK B \in SUBSET OpenRows(lifecycle, written, now - Window) :
          batch' = [batch EXCEPT ![t] = B]
    BY <1>3 DEF Query, OldestOf
  <2>2. \A s \in B : lifecycle[s] # "new" /\ written[s] + Window <= now
    <3> SUFFICES ASSUME NEW s \in B
                 PROVE  lifecycle[s] # "new" /\ written[s] + Window <= now
      OBVIOUS
    <3>1. s \in Signals /\ lifecycle[s] = "emitted"
          /\ SortsBeforeBlank(written[s], now - Window)
      BY DEF OpenRows
    <3>2. written[s] < now - Window
      BY <1>a, <3>1, BlankIsEarlier
    <3> QED BY <1>a, <3>1, <3>2
  <2>3. BatchesAreDue'
    BY <1>3, <1>a, <2>1, <2>2 DEF LifecycleInv, TrackersAreSound, BatchesAreDue, Query, tables, signals, outcomes
  <2>4. HandsAreSound'
    BY <1>0, <1>3, <1>a, <2>1
       DEF LifecycleInv, TrackersAreSound, TypeOK, HandsAreSound, Grounded, Query, tables, signals, outcomes
  <2>5. OutcomesAreGrounded' /\ AuthorsHaveWritten'
    BY <1>3 DEF LifecycleInv, TrackersAreSound, OutcomesAreGrounded,
                AuthorsHaveWritten, Grounded, Query, tables, signals, outcomes
  <2>6. ArchiveHasReadAll' /\ ArchivedIsReadable'
    BY <1>3, ArchiveUndisturbed DEF Query, tables, signals, outcomes
  <2> QED BY <1>0, <2>3, <2>4, <2>5, <2>6 DEF LifecycleInv, TrackersAreSound
<1>4. ASSUME NEW t \in Trackers, Skip(t) PROVE LifecycleInv'
  <2>1. PICK s : Done(t, s)
    BY <1>4 DEF Skip
  <2>2. TrackersAreSound'
    BY <1>0, <1>4, <2>1, LettingGo DEF Done, Skip, TypeOK
  <2>3. ArchiveHasReadAll' /\ ArchivedIsReadable'
    BY <1>4, ArchiveUndisturbed DEF Skip, tables, signals, outcomes
  <2> QED BY <1>0, <2>2, <2>3 DEF LifecycleInv
<1>5. ASSUME NEW t \in Trackers, Judge(t) PROVE LifecycleInv'
  <2>1. PICK s \in Oldest(t), label \in Labels :
          /\ label \in Verdicts(s)
          /\ outcome[s].label = "none"
          /\ hand' = [hand EXCEPT ![t] =
                        [signal |-> s, label |-> label, at |-> now]]
    BY <1>5, VerdictsTyped DEF Judge
  <2>2. s \in batch[t] /\ s \in Signals /\ written[s] + Window <= now
    BY <1>a, <2>1 DEF Oldest, LifecycleInv, TrackersAreSound, BatchesAreDue
  <2>3. label \in Labels /\ Grounded(s, label, now)
    BY <1>0, <2>1, <2>2, VerdictsAreGrounded
  <2>4. BatchesAreDue'
    BY <1>5 DEF LifecycleInv, TrackersAreSound, BatchesAreDue, Judge, tables, signals, outcomes
  <2>5. HandsAreSound'
    <3> SUFFICES ASSUME NEW u \in Trackers, pc'[u] = "record"
                 PROVE  /\ hand'[u].signal \in batch'[u]
                        /\ hand'[u].label \in Labels
                        /\ Grounded(hand[u].signal, hand[u].label, hand[u].at)'
                        /\ u \notin authors'[hand'[u].signal]
      BY DEF HandsAreSound
    <3>1. CASE u = t
      <4>1. hand'[t] = [signal |-> s, label |-> label, at |-> now]
        BY <1>0, <2>1 DEF TypeOK
      <4>2. batch' = batch /\ UNCHANGED <<authors, created, written>>
        BY <1>5 DEF Judge, tables, signals, outcomes
      <4>3. t \notin authors[s]
        BY <2>1, <2>2 DEF LifecycleInv, TrackersAreSound, AuthorsHaveWritten
      <4> QED BY <2>2, <2>3, <3>1, <4>1, <4>2, <4>3 DEF Grounded
    <3>2. CASE u # t
      BY <1>0, <1>5, <2>1, <3>2
         DEF LifecycleInv, TrackersAreSound, TypeOK, HandsAreSound, Grounded, Judge, tables, signals, outcomes
    <3> QED BY <3>1, <3>2
  <2>6. OutcomesAreGrounded' /\ AuthorsHaveWritten'
    BY <1>5 DEF LifecycleInv, TrackersAreSound, OutcomesAreGrounded,
                AuthorsHaveWritten, Grounded, Judge, tables, signals, outcomes
  <2>7. ArchiveHasReadAll' /\ ArchivedIsReadable'
    BY <1>5, ArchiveUndisturbed DEF Judge, tables, signals, outcomes
  <2> QED BY <1>0, <2>4, <2>5, <2>6, <2>7 DEF LifecycleInv, TrackersAreSound
<1>6. ASSUME NEW t \in Trackers, Record(t) PROVE LifecycleInv'
  <2>1. PICK h : h = hand[t]
    OBVIOUS
  <2>2. /\ h.signal \in batch[t] /\ h.label \in Labels
        /\ Grounded(h.signal, h.label, h.at)
    BY <1>6, <2>1 DEF LifecycleInv, TrackersAreSound, HandsAreSound, Record
  <2>3. h.signal \in Signals /\ lifecycle[h.signal] # "new"
    BY <1>a, <2>2 DEF LifecycleInv, TrackersAreSound, BatchesAreDue
  <2>4. /\ outcome' = [outcome EXCEPT ![h.signal] =
                         [label |-> h.label, at |-> h.at]]
        /\ authors' = [authors EXCEPT ![h.signal] = @ \cup {t}]
        /\ Done(t, h.signal)
        /\ UNCHANGED <<now, lifecycle, created, written, archive, faults>>
        /\ hand' = [hand EXCEPT ![t] = NoHand]
    BY <1>6, <2>1 DEF Record, signals
  <2>5. /\ \A u \in Trackers : batch'[u] \subseteq batch[u]
        /\ \A u \in Trackers : pc'[u] = "record" =>
             u # t /\ pc[u] = "record" /\ hand'[u] = hand[u] /\ batch'[u] = batch[u]
    BY <1>0, <1>a, <2>4 DEF Done, TypeOK
  <2>6. BatchesAreDue'
    BY <2>4, <2>5 DEF LifecycleInv, TrackersAreSound, BatchesAreDue
  <2>7. HandsAreSound'
    <3> SUFFICES ASSUME NEW u \in Trackers, pc'[u] = "record"
                 PROVE  /\ hand'[u].signal \in batch'[u]
                        /\ hand'[u].label \in Labels
                        /\ Grounded(hand[u].signal, hand[u].label, hand[u].at)'
                        /\ u \notin authors'[hand'[u].signal]
      BY DEF HandsAreSound
    <3>1. /\ u # t /\ hand'[u] = hand[u] /\ batch'[u] = batch[u]
          /\ hand[u].signal \in batch[u] /\ hand[u].label \in Labels
          /\ Grounded(hand[u].signal, hand[u].label, hand[u].at)
          /\ u \notin authors[hand[u].signal]
      BY <2>5 DEF LifecycleInv, TrackersAreSound, HandsAreSound
    <3>2. hand[u].signal \in Signals
      BY <1>a, <3>1
    <3>3. u \notin authors'[hand[u].signal]
      BY <1>0, <2>4, <3>1, <3>2 DEF TypeOK
    <3> QED BY <2>4, <3>1, <3>3 DEF Grounded
  <2>8. OutcomesAreGrounded'
    <3> SUFFICES ASSUME NEW s \in Signals, outcome'[s].label # "none"
                 PROVE  /\ lifecycle'[s] # "new"
                        /\ Grounded(s, outcome[s].label, outcome[s].at)'
      BY DEF OutcomesAreGrounded
    <3>1. CASE s = h.signal
      <4>1. outcome'[s].label = h.label /\ outcome'[s].at = h.at
        BY <1>0, <2>4, <3>1 DEF TypeOK
      <4> QED BY <2>2, <2>3, <2>4, <3>1, <4>1 DEF Grounded
    <3>2. CASE s # h.signal
      <4>1. outcome'[s] = outcome[s]
        BY <1>0, <2>4, <3>2 DEF TypeOK
      <4> QED BY <2>4, <4>1 DEF LifecycleInv, TrackersAreSound, OutcomesAreGrounded, Grounded
    <3> QED BY <3>1, <3>2
  <2>9. AuthorsHaveWritten'
    <3> SUFFICES ASSUME NEW s \in Signals, outcome'[s].label = "none"
                 PROVE  authors'[s] = {}
      BY DEF AuthorsHaveWritten
    <3>1. s # h.signal
      BY <1>0, <2>2, <2>4 DEF TypeOK, Labels, Priced
    <3> QED BY <1>0, <2>4, <3>1
            DEF LifecycleInv, TrackersAreSound, AuthorsHaveWritten, TypeOK
  <2>10. ArchiveHasReadAll' /\ ArchivedIsReadable'
    BY <2>4, ArchiveUndisturbed
  <2> QED BY <1>0, <2>6, <2>7, <2>8, <2>9, <2>10 DEF LifecycleInv, TrackersAreSound
<1>7. ASSUME NEW t \in Trackers, EvaluationFails(t) PROVE LifecycleInv'
  <2>1. PICK s : Done(t, s)
    BY <1>7 DEF EvaluationFails
  <2>2. hand' = [hand EXCEPT ![t] = NoHand] /\ UNCHANGED <<now, tables, archive>>
    BY <1>7 DEF EvaluationFails
  <2>3. TrackersAreSound'
    BY <1>0, <2>1, <2>2, LettingGo DEF Done, TypeOK
  <2>4. ArchiveHasReadAll' /\ ArchivedIsReadable'
    BY <2>2, ArchiveUndisturbed DEF tables, signals, outcomes
  <2> QED BY <1>0, <2>3, <2>4 DEF LifecycleInv
<1>8. ASSUME NEW t \in Trackers, Dies(t) PROVE LifecycleInv'
  <2>1. TrackersAreSound'
    BY <1>0, <1>8, LettingGo DEF Dies, TypeOK
  <2>2. ArchiveHasReadAll' /\ ArchivedIsReadable'
    BY <1>8, ArchiveUndisturbed DEF Dies, tables, signals, outcomes
  <2> QED BY <1>0, <2>1, <2>2 DEF LifecycleInv
<1>9. ASSUME NEW t \in Trackers, Start(t) PROVE LifecycleInv'
  <2>1. TrackersAreSound'
    BY <1>0, <1>9, LettingGo DEF Start, TypeOK
  <2>2. ArchiveHasReadAll' /\ ArchivedIsReadable'
    BY <1>9, ArchiveUndisturbed DEF Start, tables, signals, outcomes
  <2> QED BY <1>0, <2>1, <2>2 DEF LifecycleInv
<1>10. CASE CleanupSignals
  <2>1. \A u \in Signals : lifecycle[u] # "new" => lifecycle'[u] # "new"
    BY <1>10 DEF CleanupSignals, Deleted
  <2> QED BY <1>0, <1>10, <1>a, <2>1, TrackersUndisturbed, ArchiveUndisturbed
          DEF LifecycleInv, CleanupSignals
<1>11. CASE CleanupOutcomes
  <2>1. \A s \in Signals :
          \/ outcome'[s] = outcome[s] /\ authors'[s] = authors[s]
          \/ outcome'[s].label = "none" /\ authors'[s] = {}
    BY <1>11 DEF CleanupOutcomes, NoOutcome
  <2>2. BatchesAreDue'
    BY <1>11
       DEF LifecycleInv, TrackersAreSound, BatchesAreDue, CleanupOutcomes, signals,
           trackers
  <2>3. HandsAreSound'
    <3>1. \A t \in Trackers : hand[t].signal \in batch[t] => hand[t].signal \in Signals
      BY <1>a
    <3> QED BY <1>11, <2>1, <3>1
            DEF LifecycleInv, TrackersAreSound, HandsAreSound, Grounded,
                CleanupOutcomes, signals, trackers
  <2>4. OutcomesAreGrounded' /\ AuthorsHaveWritten'
    BY <1>11, <2>1
       DEF LifecycleInv, TrackersAreSound, OutcomesAreGrounded, AuthorsHaveWritten,
           Grounded, CleanupOutcomes, signals
  <2>5. ArchiveHasReadAll' /\ ArchivedIsReadable'
    BY <1>11, ArchiveUndisturbed DEF CleanupOutcomes, signals
  <2> QED BY <1>0, <2>2, <2>3, <2>4, <2>5 DEF LifecycleInv, TrackersAreSound
<1>12. CASE ReadOld
  <2>1. TrackersAreSound'
    BY <1>12, <1>a, TrackersUndisturbed DEF ReadOld, tables, signals, outcomes
  <2>2. ArchiveHasReadAll'
    BY <1>12 DEF ReadOld, ArchiveHasReadAll, SignalsBefore, SortsBeforeIso,
                 Present, Stored, tables, signals, outcomes
  <2>3. ArchivedIsReadable'
    BY <1>12 DEF LifecycleInv, ArchivedIsReadable, ReadOld
  <2> QED BY <1>0, <2>1, <2>2, <2>3 DEF LifecycleInv
<1>13. ASSUME NEW content \in SUBSET Signals, OpenFile(content)
       PROVE  \A d \in 0..Date(MaxTime) : \A s \in files[d] :
                s \in files'[d] \/ d \in rewritten'
  <2>1. files \in [0..Date(MaxTime) -> SUBSET Signals]
    BY <1>0 DEF TypeOK
  <2>2. \A d \in 0..Date(MaxTime) : d # Date(now) => files'[d] = files[d]
    BY <1>13, <2>1 DEF OpenFile
  <2>3. files[Date(now)] # {} => Date(now) \in rewritten'
    BY <1>13 DEF OpenFile
  <2> QED BY <2>2, <2>3
<1>14. CASE WriteFile
  <2>1. archiver.old \in SUBSET Signals /\ OpenFile(archiver.old)
    BY <1>0, <1>14 DEF TypeOK, WriteFile
  <2>2. TrackersAreSound'
    BY <1>14, <1>a, TrackersUndisturbed DEF WriteFile, tables, signals, outcomes
  <2>3. ArchiveHasReadAll'
    <3>1. CASE archiver'.pc = "off"
      BY <3>1 DEF ArchiveHasReadAll
    <3>2. CASE archiver' = [archiver EXCEPT !.pc = "delete"]
      <4>1. /\ archiver'.seen = archiver.seen /\ archiver'.old = archiver.old
            /\ archiver'.cutoff = archiver.cutoff
        BY <1>0, <3>2 DEF TypeOK
      <4>2. archiver.pc # "off" /\ lifecycle' = lifecycle /\ written' = written
        BY <1>14, <2>1 DEF WriteFile, OpenFile, tables, signals, outcomes
      <4> QED BY <4>1, <4>2 DEF LifecycleInv, ArchiveHasReadAll
    <3> QED BY <1>14, <3>1, <3>2 DEF WriteFile, Resting
  <2>4. ArchivedIsReadable'
    <3> SUFFICES ASSUME NEW s \in Signals, archived'[s] # -1
                 PROVE  s \in files'[archived'[s]] \/ archived'[s] \in rewritten'
      BY DEF ArchivedIsReadable
    <3>1. CASE archived'[s] = archived[s]
      <4>1. archived[s] \in 0..Date(MaxTime)
        <5>1. archived[s] \in -1..Date(MaxTime) /\ archived[s] # -1
          BY <1>0, <3>1 DEF TypeOK
        <5>2. Date(MaxTime) \in Nat
          BY SpanAssumption, DateNatural
        <5> QED BY <5>1, <5>2
      <4>2. s \in files[archived[s]] \/ archived[s] \in rewritten
        BY <3>1 DEF LifecycleInv, ArchivedIsReadable
      <4>3. rewritten \subseteq rewritten'
        BY <2>1 DEF OpenFile
      <4> QED BY <1>13, <2>1, <3>1, <4>1, <4>2, <4>3
    <3>2. CASE archived'[s] # archived[s]
      <4>1. s \in archiver.old /\ archived'[s] = Date(now)
        BY <1>0, <1>14, <3>2 DEF WriteFile, TypeOK
      <4>2. files'[Date(now)] = archiver.old
        BY <1>0, <2>1, TodayHasAFile DEF OpenFile, TypeOK
      <4> QED BY <4>1, <4>2
    <3> QED BY <3>1, <3>2
  <2> QED BY <1>0, <2>2, <2>3, <2>4 DEF LifecycleInv
<1>15. CASE DeleteOld
  <2>1. \A u \in Signals : lifecycle[u] # "new" => lifecycle'[u] # "new"
    BY <1>15 DEF DeleteOld, Deleted
  <2>2. TrackersAreSound'
    BY <1>15, <1>a, <2>1, TrackersUndisturbed DEF DeleteOld
  <2>3. ArchiveHasReadAll' /\ ArchivedIsReadable'
    BY <1>15 DEF LifecycleInv, DeleteOld, ArchiveHasReadAll, ArchivedIsReadable,
                 Resting
  <2> QED BY <1>0, <2>2, <2>3 DEF LifecycleInv
<1>16. CASE ArchiveBreaksOff
  <2>1. TrackersAreSound'
    BY <1>16, <1>a, TrackersUndisturbed DEF ArchiveBreaksOff, tables, signals, outcomes
  <2>2. ArchiveHasReadAll'
    BY <1>16 DEF ArchiveBreaksOff, ArchiveHasReadAll, Resting
  <2>3. CASE UNCHANGED <<files, rewritten>>
    <3>1. ArchivedIsReadable'
      BY <1>16, <2>3 DEF LifecycleInv, ArchivedIsReadable, ArchiveBreaksOff
    <3> QED BY <1>0, <2>1, <2>2, <3>1 DEF LifecycleInv
  <2>4. CASE OpenFile({})
    <3>1. ASSUME NEW s \in Signals, archived'[s] # -1
          PROVE  s \in files'[archived'[s]] \/ archived'[s] \in rewritten'
      <4>1. archived' = archived
        BY <1>16 DEF ArchiveBreaksOff
      <4>2. archived[s] \in 0..Date(MaxTime)
        <5>1. archived[s] \in -1..Date(MaxTime) /\ archived[s] # -1
          BY <1>0, <3>1, <4>1 DEF TypeOK
        <5>2. Date(MaxTime) \in Nat
          BY SpanAssumption, DateNatural
        <5> QED BY <5>1, <5>2
      <4>3. s \in files[archived[s]] \/ archived[s] \in rewritten
        BY <3>1, <4>1 DEF LifecycleInv, ArchivedIsReadable
      <4>4. rewritten \subseteq rewritten'
        BY <2>4 DEF OpenFile
      <4> QED BY <1>13, <2>4, <4>1, <4>2, <4>3, <4>4
    <3> QED BY <1>0, <2>1, <2>2, <3>1 DEF LifecycleInv, ArchivedIsReadable
  <2> QED BY <1>16, <2>3, <2>4 DEF ArchiveBreaksOff
<1>17. CASE Tick
  <2>1. TrackersAreSound'
    BY <1>17, <1>a, TrackersUndisturbed DEF Tick, tables, signals, outcomes
  <2>2. ArchiveHasReadAll' /\ ArchivedIsReadable'
    BY <1>17, ArchiveUndisturbed DEF Tick, tables, signals, outcomes
  <2> QED BY <1>0, <2>1, <2>2 DEF LifecycleInv
<1>18. CASE UNCHANGED vars
  <2>1. TrackersAreSound'
    BY <1>18, <1>a, TrackersUndisturbed DEF vars, tables, signals, outcomes
  <2>2. ArchiveHasReadAll' /\ ArchivedIsReadable'
    BY <1>18, ArchiveUndisturbed DEF vars, tables, signals, outcomes
  <2> QED BY <1>0, <2>1, <2>2 DEF LifecycleInv
<1> QED
  BY <1>1, <1>2, <1>3, <1>4, <1>5, <1>6, <1>7, <1>8, <1>9, <1>10, <1>11,
     <1>12, <1>14, <1>15, <1>16, <1>17, <1>18, SignalAssumption
     DEF Next, Tracking, Track, Producing, Consuming, Maintaining, Archiving

\* The inductive invariant holds in every behaviour.
THEOREM LifecycleInvariant == Spec => []LifecycleInv
BY InitLifecycleInv, StepLifecycleInv, PTL DEF Spec

\* The text of a timestamp and the instant it stands for differ by less than a day.
OffsetsBelowADay ==
  \A s \in Signals :
    created[s] - DayLength < written[s] /\ written[s] < created[s] + DayLength

\* Only Append writes the two, with the offset of the timestamp between them.
LEMMA TimestampsAreOffByLess == Spec => []OffsetsBelowADay
<1>1. Init => OffsetsBelowADay
  BY DayLengthAssumption DEF Init, OffsetsBelowADay
<1>2. ASSUME TypeOK, OffsetsBelowADay, [Next]_vars PROVE OffsetsBelowADay'
  <2>1. CASE UNCHANGED <<created, written>>
    BY <1>2, <2>1 DEF OffsetsBelowADay
  <2>2. ASSUME NEW s \in Signals, NEW stamp \in Stamps, Append(s, stamp)
        PROVE  OffsetsBelowADay'
    <3>1. /\ stamp.ahead \in Int /\ stamp.offset \in Int /\ now \in Int
          /\ -DayLength < stamp.offset /\ stamp.offset < DayLength
          /\ DayLength \in Nat
      BY <1>2, StampAssumption, DayLengthAssumption, SpanAssumption DEF TypeOK, Times
    <3>2. \A u \in Signals :
            IF u = s
            THEN created'[u] = now + stamp.ahead
                 /\ written'[u] = now + stamp.ahead + stamp.offset
            ELSE created'[u] = created[u] /\ written'[u] = written[u]
      BY <1>2, <2>2 DEF TypeOK, Append
    <3> QED BY <1>2, <3>1, <3>2 DEF OffsetsBelowADay
  <2> QED BY <1>2, <2>1, <2>2
          DEF Next, Tracking, Track, Producing, Consuming, Maintaining, Archiving,
              vars, tables, signals, Transition, Query, Skip, Judge, Record,
              EvaluationFails, Dies, Start, CleanupSignals, CleanupOutcomes,
              ReadOld, WriteFile, DeleteOld, ArchiveBreaksOff, Tick
<1> QED BY <1>1, <1>2, TypeCorrect, PTL DEF Spec

(***************************************************************************)
(* The promises                                                            *)
(***************************************************************************)

(***************************************************************************)
(* No tracker judges a signal before its window is over, but for what the  *)
(* offset of a timestamp west of UTC takes from it, whatever processes are *)
(* deployed beside each other (query_open, evaluate_signal).               *)
(***************************************************************************)
THEOREM JudgedOnlyAtHorizon == Spec => []JudgedAtHorizon
<1>1. LifecycleInv => JudgedAtHorizon
  <2> SUFFICES ASSUME LifecycleInv, NEW s \in Signals, outcome[s].label # "none"
               PROVE  outcome[s].at >= created[s] + Window - West(s)
    BY DEF JudgedAtHorizon
  <2>1. outcome[s].at >= written[s] + Window
    BY DEF LifecycleInv, TrackersAreSound, OutcomesAreGrounded, Grounded
  <2>2. /\ created[s] \in Int /\ written[s] \in Int /\ outcome[s].at \in Int
        /\ Window \in Nat
    BY SpanAssumption DEF LifecycleInv, TypeOK, Times
  <2> QED BY <2>1, <2>2 DEF West
<1> QED BY <1>1, LifecycleInvariant, PTL

(***************************************************************************)
(* Every label on record agrees with the age of the signal and, judged at  *)
(* its horizon, with the prices, however many trackers overwrite each      *)
(* other (evaluate_signal, upsert).                                        *)
(***************************************************************************)
THEOREM RecordedVerdictsAreTrue == Spec => []VerdictsAreTrue
<1>1. LifecycleInv => VerdictsAreTrue
  <2> SUFFICES ASSUME LifecycleInv, NEW s \in Signals
               PROVE  /\ outcome[s].label \in Priced /\ outcome[s].at >= created[s] + Window =>
                           outcome[s].label = Classify(Direction[s], Move[s])
                      /\ outcome[s].label = "expired" =>
                           outcome[s].at >= created[s] + MaxAge
                      /\ outcome[s].label = "unknown" =>
                           outcome[s].at < created[s] + MaxAge
    BY DEF VerdictsAreTrue
  <2>1. outcome[s].label # "none" => Grounded(s, outcome[s].label, outcome[s].at)
    BY DEF LifecycleInv, TrackersAreSound, OutcomesAreGrounded
  <2> QED BY <2>1 DEF Grounded, Priced
<1> QED BY <1>1, LifecycleInvariant, PTL

(***************************************************************************)
(* What was moved to the archive stays readable until the file of that     *)
(* date is opened again (archive_old_signals).                             *)
(***************************************************************************)
THEOREM ArchiveStaysReadable == Spec => []ArchivedIsReadable
<1>1. LifecycleInv => ArchivedIsReadable
  BY DEF LifecycleInv
<1> QED BY <1>1, LifecycleInvariant, PTL

\* Only Record writes an outcome, and a tracker never finds its own there.
LEMMA StepNoRepeat ==
  ASSUME LifecycleInv, [Next]_vars, NEW s \in Signals,
         outcome[s].label # "none", outcome'[s] \notin {outcome[s], NoOutcome}
  PROVE  authors'[s] # authors[s]
<1>1. ~ UNCHANGED outcome
  OBVIOUS
<1>2. ~ CleanupOutcomes
  BY DEF CleanupOutcomes
<1>3. PICK t \in Trackers : Record(t)
  BY <1>1, <1>2
     DEF Next, Tracking, Track, Producing, Consuming, Maintaining, Archiving,
         vars, tables, outcomes, Append, Transition, Query, Skip, Judge,
         EvaluationFails, Dies, Start, CleanupSignals, ReadOld, WriteFile,
         DeleteOld, ArchiveBreaksOff, Tick
<1>4. TypeOK
  BY DEF LifecycleInv
<1>5. outcome' = [outcome EXCEPT ![hand[t].signal] =
                    [label |-> hand[t].label, at |-> hand[t].at]]
  BY <1>3 DEF Record
<1>6. s = hand[t].signal
  BY <1>4, <1>5 DEF TypeOK
<1>7. t \notin authors[s]
  BY <1>3, <1>6 DEF LifecycleInv, TrackersAreSound, HandsAreSound, Record
<1>8. t \in authors'[s]
  BY <1>3, <1>4, <1>6 DEF Record, TypeOK
<1> QED BY <1>7, <1>8

(***************************************************************************)
(* No tracker overwrites an outcome that it has written before, whatever   *)
(* the others, the maintenance and the archive do: at most one overwriting *)
(* for each of the others (evaluator.py:67).                               *)
(***************************************************************************)
THEOREM TrackersDoNotRepeat == Spec => NoTrackerRepeatsItself
<1>1. LifecycleInv /\ [Next]_vars =>
        [\A s \in Signals :
           (outcome[s].label # "none" /\ outcome'[s] \notin {outcome[s], NoOutcome})
             => authors'[s] # authors[s]]_vars
  BY StepNoRepeat
<1> QED BY <1>1, LifecycleInvariant, PTL DEF Spec, NoTrackerRepeatsItself

\* A step that deletes a row and moves the archive script is its DELETE.
LEMMA StepArchiveDeletes ==
  ASSUME LifecycleInv, [Next]_vars, NEW s \in Signals,
         lifecycle[s] \in Stored, lifecycle'[s] = "gone", archiver' # archiver
  PROVE  s \in archiver.old \/ s \notin archiver.seen
<1>1. lifecycle' # lifecycle
  BY DEF Stored
<1>2. DeleteOld
  BY <1>1
     DEF Next, Tracking, Track, Producing, Consuming, Maintaining, Archiving,
         vars, tables, signals, outcomes, archive, Append, Transition, Query, Skip, Judge, Record,
         EvaluationFails, Dies, Start, CleanupSignals, CleanupOutcomes, ReadOld,
         WriteFile, ArchiveBreaksOff, Tick
<1>3. written[s] < archiver.cutoff
  BY <1>1, <1>2 DEF DeleteOld, Deleted, SignalsBefore, SortsBeforeIso, Stored
<1> QED BY <1>2, <1>3 DEF LifecycleInv, ArchiveHasReadAll, DeleteOld

(***************************************************************************)
(* The archive deletes what it has written, or what came too late to be    *)
(* read (archive_old_signals).                                             *)
(***************************************************************************)
THEOREM ArchiveDeletesOnlyWritten == Spec => ArchiveDeletesWhatItWrote
<1>1. LifecycleInv /\ [Next]_vars =>
        [\A s \in Signals :
           (lifecycle[s] \in Stored /\ lifecycle'[s] = "gone" /\ archiver' # archiver)
             => s \in archiver.old \/ s \notin archiver.seen]_vars
  BY StepArchiveDeletes
<1> QED BY <1>1, LifecycleInvariant, PTL DEF Spec, ArchiveDeletesWhatItWrote

(***************************************************************************)
(* What a run with room passes over                                        *)
(***************************************************************************)

\* Text comparison errs by less than a day: a date that is over sorts before.
LEMMA DayLaterIsAfterBlank ==
  ASSUME NEW a \in Int, NEW b \in Int, a + DayLength <= b
  PROVE  SortsBeforeBlank(a, b)
<1> DEFINE x == Date(a) y == Date(b)
<1>1. /\ DayLength \in Nat \ {0} /\ x \in Int /\ y \in Int
      /\ x * DayLength <= a /\ b < (y + 1) * DayLength
  BY DayLengthAssumption DEF Date
<1>2. SUFFICES ASSUME y <= x PROVE FALSE
  BY <1>1 DEF SortsBeforeBlank
<1> HIDE DEF x, y
<1>3. (y + 1) * DayLength <= (x + 1) * DayLength
  BY <1>1, <1>2
<1>4. (x + 1) * DayLength = x * DayLength + DayLength
  BY <1>1
<1>5. /\ (y + 1) * DayLength \in Int /\ (x + 1) * DayLength \in Int /\ x * DayLength \in Int
  BY <1>1
<1> QED BY <1>1, <1>3, <1>4, <1>5

\* A run that has room for more takes every row the query returns.
LEMMA RoomTakesAll ==
  ASSUME TypeOK, [Next]_vars, NEW t \in Trackers,
         pc[t] = "idle", pc'[t] = "evaluate", Cardinality(batch'[t]) < Limit
  PROVE  batch'[t] = OpenRows(lifecycle, written, now - Window)
<1>1. Query(t)
  <2>1. pc'[t] # pc[t]
    OBVIOUS
  <2>2. ASSUME NEW u \in Trackers, u # t, Track(u) \/ EvaluationFails(u) \/ Dies(u)
        PROVE  FALSE
    BY <2>1, <2>2 DEF Track, Query, Skip, Judge, Record, Start, Done, EvaluationFails,
                      Dies, TypeOK
  <2>3. Track(t) \/ EvaluationFails(t) \/ Dies(t)
    BY <2>1, <2>2 DEF Next, Tracking, Producing, Consuming, Maintaining, Archiving,
         Append, Transition, CleanupSignals, CleanupOutcomes, ReadOld, WriteFile,
         DeleteOld, ArchiveBreaksOff, Tick, vars, trackers
  <2> QED BY <2>3 DEF Track, Skip, Judge, Record, Start, EvaluationFails, Dies, Done, TypeOK
<1>2. batch'[t] \in OldestOf(OpenRows(lifecycle, written, now - Window), written, Limit)
  BY <1>1 DEF Query, TypeOK
<1> QED BY <1>2, SpanAssumption DEF OldestOf

(***************************************************************************)
(* A run with room passes no emitted signal over whose text is a day older *)
(* than min_age_seconds, hence none that has been ready for two days,      *)
(* whatever offset below a day its timestamp was written with              *)
(* (registry.py query_open).  A day is what the text comparison costs, the *)
(* finding about ReadyIsSelected, the other what an offset east of UTC may *)
(* add.                                                                    *)
(***************************************************************************)
THEOREM ReadyForTwoDaysIsSelected ==
  Spec =>
    [][\A t \in Trackers :
         (pc[t] = "idle" /\ pc'[t] = "evaluate" /\ Cardinality(batch'[t]) < Limit)
           => \A s \in Signals :
                /\ lifecycle[s] = "emitted"
                /\ \/ written[s] + DayLength <= now - Window
                   \/ created[s] + 2 * DayLength <= now - Window
                => s \in batch'[t]]_vars
<1>1. ASSUME LifecycleInv, OffsetsBelowADay, [Next]_vars, NEW t \in Trackers,
             pc[t] = "idle", pc'[t] = "evaluate", Cardinality(batch'[t]) < Limit,
             NEW s \in Signals, lifecycle[s] = "emitted",
             \/ written[s] + DayLength <= now - Window
             \/ created[s] + 2 * DayLength <= now - Window
      PROVE  s \in batch'[t]
  <2>1. /\ created[s] \in Int /\ written[s] \in Int /\ now - Window \in Int
        /\ DayLength \in Nat
    BY <1>1, SpanAssumption, DayLengthAssumption DEF LifecycleInv, TypeOK, Times
  <2>2. written[s] + DayLength <= now - Window
    BY <1>1, <2>1 DEF OffsetsBelowADay
  <2>3. TypeOK
    BY <1>1 DEF LifecycleInv
  <2> QED BY <1>1, <2>1, <2>2, <2>3, DayLaterIsAfterBlank, RoomTakesAll DEF OpenRows
<1>2. LifecycleInv /\ OffsetsBelowADay /\ [Next]_vars =>
        [\A t \in Trackers :
         (pc[t] = "idle" /\ pc'[t] = "evaluate" /\ Cardinality(batch'[t]) < Limit)
           => \A s \in Signals :
                /\ lifecycle[s] = "emitted"
                /\ \/ written[s] + DayLength <= now - Window
                   \/ created[s] + 2 * DayLength <= now - Window
                => s \in batch'[t]]_vars
  BY <1>1
<1> QED BY <1>2, LifecycleInvariant, TimestampsAreOffByLess, PTL DEF Spec
=============================================================================
