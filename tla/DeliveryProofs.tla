-------------------------- MODULE DeliveryProofs --------------------------
(***************************************************************************)
(* Theorems about the delivery worker, for every set of workers, signals   *)
(* and configurations and every value of the bounds.                       *)
(***************************************************************************)
EXTENDS DeliveryWorker, FiniteSetTheorems, TLAPS

(***************************************************************************)
(* The effect of the outbox statements on rows                             *)
(***************************************************************************)

\* Every statement of DeliveryOutbox maps a table of rows to a table of rows.
LEMMA OutboxTyped ==
  ASSUME NEW F, NEW t \in [F -> OutboxRow], NEW fp,
         NEW s \in Statuses
  PROVE  /\ Enqueue(t, fp, s) \in [F -> OutboxRow]
         /\ SetStatus(t, fp, s) \in [F -> OutboxRow]
         /\ MarkRetrying(t, fp) \in [F -> OutboxRow]
<1>1. [status |-> s, attempts |-> 0] \in OutboxRow
  BY DEF OutboxRow
<1>2. Enqueue(t, fp, s) \in [F -> OutboxRow]
  BY <1>1 DEF Enqueue
<1>3. SetStatus(t, fp, s) \in [F -> OutboxRow]
  BY DEF SetStatus, OutboxRow
<1>4. MarkRetrying(t, fp) \in [F -> OutboxRow]
  <2>1. CASE fp \in F
    BY <2>1 DEF MarkRetrying, OutboxRow, Statuses
  <2>2. CASE fp \notin F
    <3>1. MarkRetrying(t, fp) = t
      BY <2>2 DEF MarkRetrying
    <3> QED BY <3>1
  <2> QED BY <2>1, <2>2
<1> QED BY <1>2, <1>3, <1>4

\* A function bumped anywhere still has natural values.
LEMMA BumpTyped ==
  ASSUME NEW F, NEW f \in [F -> Nat], NEW x
  PROVE  Bump(f, x) \in [F -> Nat]
<1>1. CASE x \in F
  BY <1>1 DEF Bump
<1>2. CASE x \notin F
  <2>1. Bump(f, x) = f
    BY <1>2 DEF Bump
  <2> QED BY <2>1
<1> QED BY <1>1, <1>2

(***************************************************************************)
(* Type correctness                                                        *)
(***************************************************************************)

\* An empty outbox and idle workers are well typed.
LEMMA InitTypeOK == Init => TypeOK
BY BoundsAssumption
   DEF Init, TypeOK, OutboxRow, NoRow, Statuses, Places

\* A run that ends (the return or the exception of run_once) keeps the types.
LEMMA ExitTyped ==
  ASSUME TypeOK, NEW w \in Workers, Exit(w)
  PROVE  /\ pc' \in [Workers -> Places]
         /\ config' \in [Workers -> Configs \cup {Missing}]
         /\ inbox' \in [Workers -> SUBSET Signals]
         /\ batch' \in [Workers -> SUBSET Fingerprints]
         /\ entry' \in [Workers -> Fingerprints \cup {Missing}]
         /\ reply' \in [Workers -> Replies \cup {Missing}]
BY DEF TypeOK, Exit, Goto, Places

\* The next turn of the loop over the snapshot keeps the types.
LEMMA NextEntryTyped ==
  ASSUME TypeOK, NEW w \in Workers, NextEntry(w)
  PROVE  /\ pc' \in [Workers -> Places]
         /\ entry' \in [Workers -> Fingerprints \cup {Missing}]
         /\ reply' \in [Workers -> Replies \cup {Missing}]
         /\ UNCHANGED <<config, inbox, batch>>
BY DEF TypeOK, NextEntry, Goto, Places

\* Every step of run_once, and every abort, keeps the types.
LEMMA StepTypeOK == TypeOK /\ [Next]_vars => TypeOK'
<1> SUFFICES ASSUME TypeOK, [Next]_vars
             PROVE  TypeOK'
  OBVIOUS
<1> USE DEF TypeOK, server, locals, history
<1>1. ASSUME NEW w \in Workers, StartRun(w) PROVE TypeOK'
  BY <1>1 DEF StartRun, Goto, Places
<1>2. ASSUME NEW w \in Workers, FetchLatest(w) PROVE TypeOK'
  BY <1>2 DEF FetchLatest, Goto, Places
<1>3. ASSUME NEW w \in Workers, EvaluateSignal(w) PROVE TypeOK'
  <2>1. EntryStatus(config[w]) \in Statuses
    BY DEF EntryStatus, Statuses
  <2>2. table' \in [Fingerprints -> OutboxRow]
    BY <1>3, <2>1, OutboxTyped DEF EvaluateSignal
  <2> QED BY <1>3, <2>2 DEF EvaluateSignal
<1>4. ASSUME NEW w \in Workers, EvaluationDone(w) PROVE TypeOK'
  <2>1. CASE Exit(w)
    BY <1>4, <2>1, ExitTyped DEF EvaluationDone
  <2>2. CASE ~Exit(w)
    BY <1>4, <2>2 DEF EvaluationDone, Goto, Places
  <2> QED BY <2>1, <2>2
<1>5. ASSUME NEW w \in Workers, Beat(w) PROVE TypeOK'
  BY <1>5 DEF Beat, Goto, Places
<1>6. ASSUME NEW w \in Workers, SelectPending(w) PROVE TypeOK'
  BY <1>6 DEF SelectPending, Pending, Goto, Places
<1>7. ASSUME NEW w \in Workers, Publish(w) PROVE TypeOK'
  <2> PICK fp \in batch[w], answer \in Replies :
         /\ Served(fp, answer)
         /\ batch' = [batch EXCEPT ![w] = @ \ {fp}]
         /\ entry' = [entry EXCEPT ![w] = fp]
         /\ reply' = [reply EXCEPT ![w] = answer]
    BY <1>7 DEF Publish
  <2>1. fp \in Fingerprints
    OBVIOUS
  <2>2. /\ accepted' \in [Fingerprints -> Nat]
        /\ open' \in [Fingerprints -> Nat]
        /\ refused' \in SUBSET Fingerprints
    BY <2>1, BumpTyped DEF Served
  <2> QED BY <1>7, <2>1, <2>2 DEF Publish, Goto, Places
<1>8. ASSUME NEW w \in Workers,
             MarkDelivered(w) \/ MarkRefused(w) \/ Bury(w) PROVE TypeOK'
  BY <1>8, OutboxTyped, NextEntryTyped
     DEF MarkDelivered, MarkRefused, Bury, MarkSent, MarkDeadLetter, Statuses
<1>9. ASSUME NEW w \in Workers, MarkUnauthenticated(w) PROVE TypeOK'
  BY <1>9, OutboxTyped, ExitTyped
     DEF MarkUnauthenticated, MarkDeadLetter, Statuses
<1>10. ASSUME NEW w \in Workers, MarkForRetry(w) PROVE TypeOK'
  <2>1. table' \in [Fingerprints -> OutboxRow]
    BY <1>10, OutboxTyped DEF MarkForRetry, Statuses
  <2> QED BY <1>10, <2>1 DEF MarkForRetry, Goto, Places
<1>11. ASSUME NEW w \in Workers, CountAttempts(w) PROVE TypeOK'
  <2>1. CASE NextEntry(w)
    BY <1>11, <2>1, NextEntryTyped DEF CountAttempts
  <2>2. CASE ~NextEntry(w)
    BY <1>11, <2>2 DEF CountAttempts, Goto, Places
  <2> QED BY <2>1, <2>2
<1>12. ASSUME NEW w \in Workers, FinishRun(w) PROVE TypeOK'
  BY <1>12, ExitTyped DEF FinishRun
<1>13. ASSUME NEW w \in Workers, Abort(w) PROVE TypeOK'
  BY <1>13, ExitTyped, BumpTyped DEF Abort
<1>14. ASSUME NEW w \in Workers, PublishBreaksOff(w) PROVE TypeOK'
  BY <1>14, ExitTyped, BumpTyped DEF PublishBreaksOff
<1>15. ASSUME NEW fp \in Fingerprints, LateAccept(fp) PROVE TypeOK'
  BY <1>15, BumpTyped DEF LateAccept
<1>16. CASE Tick
  BY <1>16, BoundsAssumption DEF Tick
<1>17. CASE UNCHANGED vars
  BY <1>17 DEF vars
<1> QED
  BY <1>1, <1>2, <1>3, <1>4, <1>5, <1>6, <1>7, <1>8, <1>9, <1>10, <1>11,
     <1>12, <1>13, <1>14, <1>15, <1>16, <1>17 DEF Next, Step

\* Every variable keeps its type in every run of any number of workers.
THEOREM TypeCorrect == Spec => []TypeOK
<1>1. Init => TypeOK
  BY InitTypeOK
<1>2. TypeOK /\ [Next]_vars => TypeOK'
  BY StepTypeOK
<1> QED BY <1>1, <1>2, PTL DEF Spec

(***************************************************************************)
(* Safety for any number of overlapping workers                            *)
(***************************************************************************)

\* A run that ends holds nothing; the other workers keep what they hold.
LEMMA ExitHolds ==
  ASSUME TypeOK, NEW w \in Workers, Exit(w)
  PROVE  /\ batch'[w] = {} /\ entry'[w] = Missing
         /\ \A v \in Workers \ {w} :
              /\ batch'[v] = batch[v] /\ entry'[v] = entry[v]
              /\ reply'[v] = reply[v] /\ pc'[v] = pc[v]
BY DEF TypeOK, Exit, Goto

\* Between two entries a run holds the rest of its snapshot only.
LEMMA NextEntryHolds ==
  ASSUME TypeOK, NEW w \in Workers, NextEntry(w)
  PROVE  /\ batch' = batch /\ entry'[w] = Missing
         /\ \A v \in Workers \ {w} :
              entry'[v] = entry[v] /\ reply'[v] = reply[v] /\ pc'[v] = pc[v]
BY DEF TypeOK, NextEntry, Goto

\* Recording the outcome of a post leaves every other row alone, keeps what
\* was queued queued, and never lowers an attempts count.
LEMMA MarkEffect ==
  ASSUME TypeOK, NEW fp,
         \/ table' = MarkSent(table, fp)
         \/ table' = MarkDeadLetter(table, fp)
         \/ table' = MarkRetrying(table, fp)
  PROVE  /\ \A f \in Fingerprints \ {fp} : table'[f] = table[f]
         /\ \A f \in Fingerprints :
              /\ Recorded(f) => Recorded(f)'
              /\ table'[f].attempts >= table[f].attempts
         /\ fp \in Fingerprints => Recorded(fp)'
<1>1. table \in [Fingerprints -> OutboxRow]
  BY DEF TypeOK
<1>2. CASE table' = MarkRetrying(table, fp)
  BY <1>1, <1>2 DEF MarkRetrying, Recorded, OutboxRow
<1>3. ASSUME NEW s \in {"sent", "dead_letter"}, table' = SetStatus(table, fp, s)
      PROVE  /\ \A f \in Fingerprints \ {fp} : table'[f] = table[f]
             /\ fp \in Fingerprints =>
                  table'[fp].status = s /\ table'[fp].attempts = table[fp].attempts
  BY <1>1, <1>3 DEF SetStatus, OutboxRow
<1>4. CASE \E s \in {"sent", "dead_letter"} : table' = SetStatus(table, fp, s)
  <2>1. \A f \in Fingerprints : table[f].attempts \in Nat
    BY <1>1 DEF OutboxRow
  <2> QED BY <1>3, <1>4, <2>1 DEF Recorded
<1> QED BY <1>2, <1>4 DEF MarkSent, MarkDeadLetter

\* The empty outbox satisfies the invariant.
LEMMA InitSafetyInv == Init => SafetyInv
BY DEF Init, SafetyInv, UnqueuedUntraded, HeldIsRecorded, VerdictsGrounded,
       SentWasAccepted, DeadLetterJustified, Recorded, NoRow

\* Every statement and every abort of any worker keeps the invariant.
LEMMA StepSafetyInv == TypeOK /\ SafetyInv /\ [Next]_vars => SafetyInv'
<1> SUFFICES ASSUME TypeOK, SafetyInv, [Next]_vars
             PROVE  SafetyInv'
  OBVIOUS
<1> USE DEF server, locals, history
<1> USE DEF SafetyInv, UnqueuedUntraded, HeldIsRecorded, VerdictsGrounded,
            SentWasAccepted, DeadLetterJustified
\* Steps that change neither the outbox, the server nor what is held.
<1>1. ASSUME NEW w \in Workers,
             StartRun(w) \/ FetchLatest(w) \/ Beat(w)
      PROVE SafetyInv'
  BY <1>1 DEF StartRun, FetchLatest, Beat, Goto, TypeOK, Recorded
<1>2. ASSUME NEW w \in Workers, EvaluateSignal(w) PROVE SafetyInv'
  <2>1. /\ \A fp \in Fingerprints : Recorded(fp) => table'[fp] = table[fp]
        /\ \A fp \in Fingerprints :
             Recorded(fp)' => table'[fp].status \notin {"sent", "dead_letter"}
                              \/ table'[fp] = table[fp]
    BY <1>2 DEF EvaluateSignal, Enqueue, EntryStatus, Recorded, TypeOK, OutboxRow
  <2> QED BY <1>2, <2>1 DEF EvaluateSignal, Recorded, TypeOK
<1>3. ASSUME NEW w \in Workers, EvaluationDone(w) PROVE SafetyInv'
  <2>1. CASE Exit(w)
    BY <1>3, <2>1, ExitHolds DEF EvaluationDone, Recorded
  <2>2. CASE ~Exit(w)
    BY <1>3, <2>2 DEF EvaluationDone, Goto, TypeOK, Recorded
  <2> QED BY <2>1, <2>2
<1>4. ASSUME NEW w \in Workers, SelectPending(w) PROVE SafetyInv'
  BY <1>4 DEF SelectPending, Pending, Goto, TypeOK, Recorded
<1>5. ASSUME NEW w \in Workers, Publish(w) PROVE SafetyInv'
  <2> PICK fp \in batch[w], answer \in Replies :
         /\ Served(fp, answer)
         /\ batch' = [batch EXCEPT ![w] = @ \ {fp}]
         /\ entry' = [entry EXCEPT ![w] = fp]
         /\ reply' = [reply EXCEPT ![w] = answer]
    BY <1>5 DEF Publish
  <2>1. fp \in Fingerprints /\ Recorded(fp) /\ table' = table
    BY <1>5 DEF TypeOK, Publish
  <2>2. /\ \A f \in Fingerprints \ {fp} : accepted'[f] = accepted[f] /\ open'[f] = open[f]
        /\ \A f \in Fingerprints : accepted[f] > 0 => accepted'[f] > 0
        /\ refused \subseteq refused'
        /\ answer = "success" => accepted'[fp] > 0
        /\ answer \in {"auth", "permanent"} => fp \in refused'
    BY <2>1 DEF Served, Bump, TypeOK
  <2> QED BY <1>5, <2>1, <2>2 DEF Publish, Goto, TypeOK, Recorded
<1>6. ASSUME NEW w \in Workers, MarkDelivered(w) PROVE SafetyInv'
  <2>1. entry[w] \in Fingerprints => accepted[entry[w]] > 0
    BY <1>6, FingerprintsAssumption DEF MarkDelivered
  <2>2. \A fp \in Fingerprints :
          table'[fp] = table[fp] \/ (fp = entry[w] /\ table'[fp].status = "sent")
    BY <1>6 DEF MarkDelivered, MarkSent, SetStatus, TypeOK, OutboxRow
  <2>3. UnqueuedUntraded'
    BY <1>6, MarkEffect DEF MarkDelivered
  <2>4. HeldIsRecorded'
    BY <1>6, MarkEffect, NextEntryHolds DEF MarkDelivered, TypeOK
  <2>5. VerdictsGrounded'
    BY <1>6, <2>2, NextEntryHolds DEF MarkDelivered, MarkSent, SetStatus, TypeOK, OutboxRow
  <2>6. SentWasAccepted' /\ DeadLetterJustified'
    BY <1>6, <2>1, <2>2 DEF MarkDelivered
  <2> QED BY <2>3, <2>4, <2>5, <2>6
<1>7. ASSUME NEW w \in Workers, MarkRefused(w) \/ Bury(w) PROVE SafetyInv'
  <2>1. entry[w] \in Fingerprints =>
          entry[w] \in refused \/ table[entry[w]].attempts >= MaxAttempts
    BY <1>7, FingerprintsAssumption DEF MarkRefused, Bury
  <2>2. \A fp \in Fingerprints :
          table'[fp] = table[fp]
          \/ (fp = entry[w] /\ table'[fp].status = "dead_letter"
              /\ table'[fp].attempts = table[fp].attempts)
    BY <1>7 DEF MarkRefused, Bury, MarkDeadLetter, SetStatus, TypeOK, OutboxRow
  <2>3. UnqueuedUntraded' /\ HeldIsRecorded'
    BY <1>7, MarkEffect, NextEntryHolds DEF MarkRefused, Bury, TypeOK
  <2>4. VerdictsGrounded'
    BY <1>7, <2>2, NextEntryHolds DEF MarkRefused, Bury, TypeOK
  <2>5. SentWasAccepted' /\ DeadLetterJustified'
    BY <1>7, <2>1, <2>2 DEF MarkRefused, Bury
  <2> QED BY <2>3, <2>4, <2>5
<1>8. ASSUME NEW w \in Workers, MarkUnauthenticated(w) PROVE SafetyInv'
  <2>1. entry[w] \in Fingerprints => entry[w] \in refused
    BY <1>8, FingerprintsAssumption DEF MarkUnauthenticated
  <2>2. \A fp \in Fingerprints :
          table'[fp] = table[fp]
          \/ (fp = entry[w] /\ table'[fp].status = "dead_letter"
              /\ table'[fp].attempts = table[fp].attempts)
    BY <1>8 DEF MarkUnauthenticated, MarkDeadLetter, SetStatus, TypeOK, OutboxRow
  <2>3. UnqueuedUntraded' /\ HeldIsRecorded'
    BY <1>8, MarkEffect, ExitHolds DEF MarkUnauthenticated, TypeOK
  <2>4. VerdictsGrounded'
    BY <1>8, <2>2, ExitHolds DEF MarkUnauthenticated, TypeOK
  <2>5. SentWasAccepted' /\ DeadLetterJustified'
    BY <1>8, <2>1, <2>2 DEF MarkUnauthenticated
  <2> QED BY <2>3, <2>4, <2>5
<1>9. ASSUME NEW w \in Workers, MarkForRetry(w) PROVE SafetyInv'
  <2>1. \A fp \in Fingerprints :
          table'[fp] = table[fp] \/ (fp = entry[w] /\ table'[fp].status = "retrying")
    BY <1>9 DEF MarkForRetry, MarkRetrying, TypeOK, OutboxRow
  <2>2. UnqueuedUntraded'
    BY <1>9, MarkEffect DEF MarkForRetry
  <2>3. HeldIsRecorded'
    BY <1>9, MarkEffect DEF MarkForRetry, TypeOK
  <2>4. VerdictsGrounded'
    <3>1. \A v \in Workers : pc'[v] = "bury" => pc[v] = "bury"
      BY <1>9 DEF MarkForRetry, Goto, TypeOK
    <3>2. \A f \in Fingerprints :
            /\ table[f].attempts \in Nat /\ table'[f].attempts \in Nat
            /\ table'[f].attempts >= table[f].attempts
      <4>1. MarkRetrying(table, entry[w]) \in [Fingerprints -> OutboxRow]
        BY OutboxTyped DEF TypeOK, Statuses
      <4> QED BY <1>9, <4>1, MarkEffect DEF MarkForRetry, TypeOK, OutboxRow
    <3>3. \A v \in Workers : entry[v] # Missing => entry[v] \in Fingerprints
      BY DEF TypeOK
    <3> QED BY <1>9, <3>1, <3>2, <3>3, MaxAttemptsAssumption DEF MarkForRetry
  <2>5. SentWasAccepted' /\ DeadLetterJustified'
    BY <1>9, <2>1 DEF MarkForRetry
  <2> QED BY <2>2, <2>3, <2>4, <2>5
<1>10. ASSUME NEW w \in Workers, CountAttempts(w) PROVE SafetyInv'
  <2>1. CASE table[entry[w]].attempts >= MaxAttempts
    BY <1>10, <2>1 DEF CountAttempts, Goto, TypeOK, Recorded
  <2>2. CASE ~(table[entry[w]].attempts >= MaxAttempts)
    BY <1>10, <2>2, NextEntryHolds DEF CountAttempts, Recorded
  <2> QED BY <2>1, <2>2
<1>11. ASSUME NEW w \in Workers, FinishRun(w) \/ Abort(w) PROVE SafetyInv'
  BY <1>11, ExitHolds DEF FinishRun, Abort, Recorded
<1>12. ASSUME NEW w \in Workers, PublishBreaksOff(w) PROVE SafetyInv'
  <2> PICK fp \in batch[w] : open' = Bump(open, fp)
    BY <1>12 DEF PublishBreaksOff
  <2>1. Recorded(fp) /\ \A f \in Fingerprints \ {fp} : open'[f] = open[f]
    BY DEF Bump, TypeOK
  <2> QED BY <1>12, <2>1, ExitHolds DEF PublishBreaksOff, Recorded
<1>13. ASSUME NEW fp \in Fingerprints, LateAccept(fp) PROVE SafetyInv'
  <2>1. Recorded(fp)
    BY <1>13 DEF LateAccept, TypeOK
  <2>2. /\ \A f \in Fingerprints \ {fp} : accepted'[f] = accepted[f] /\ open'[f] = open[f]
        /\ accepted'[fp] > 0
    BY <1>13 DEF LateAccept, Bump, TypeOK
  <2>3. UnqueuedUntraded' /\ HeldIsRecorded'
    BY <1>13, <2>1, <2>2 DEF LateAccept, Recorded
  <2>4. VerdictsGrounded' /\ SentWasAccepted' /\ DeadLetterJustified'
    BY <1>13, <2>2, FingerprintsAssumption DEF LateAccept, TypeOK
  <2> QED BY <2>3, <2>4
<1>14. CASE Tick
  BY <1>14 DEF Tick, Recorded
<1>15. CASE UNCHANGED vars
  BY <1>15 DEF vars, Recorded
<1> QED
  BY <1>1, <1>2, <1>3, <1>4, <1>5, <1>6, <1>7, <1>8, <1>9, <1>10, <1>11,
     <1>12, <1>13, <1>14, <1>15 DEF Next, Step

\* What the outbox and the runs in progress record is backed by what AI4Trade did,
\* however many runs of run_once overlap.
THEOREM SafetyInvariant == Spec => []SafetyInv
<1>1. Init => SafetyInv
  BY InitSafetyInv
<1>2. TypeOK /\ SafetyInv /\ [Next]_vars => SafetyInv'
  BY StepSafetyInv
<1> QED BY <1>1, <1>2, TypeCorrect, PTL DEF Spec

\* However runs overlap, die and are repeated, an entry marked sent was traded.
THEOREM SentImpliesAccepted == Spec => []SentWasAccepted
BY SafetyInvariant, PTL DEF SafetyInv

\* Shadow evidence never reaches AI4Trade, whatever mode later runs are in.
THEOREM ShadowStaysHome == Spec => []ShadowNeverTraded
<1>1. SafetyInv => ShadowNeverTraded
  BY DEF SafetyInv, UnqueuedUntraded, Recorded, ShadowNeverTraded
<1> QED BY <1>1, SafetyInvariant, PTL

\* Nothing is given up without a refusal or all its attempts.
THEOREM DeadLettersJustified == Spec => []DeadLetterJustified
BY SafetyInvariant, PTL DEF SafetyInv

\* So the outbox never claims what did not happen.
THEOREM OutboxTellsTheTruth == Spec => []OutboxIsTruthful
BY SentImpliesAccepted, ShadowStaysHome, DeadLettersJustified, PTL DEF OutboxIsTruthful

(***************************************************************************)
(* What is traded passed the policy when it was queued                     *)
(***************************************************************************)

\* Some live run stands at a row of its inbox, finds it eligible for its own routes
\* now, and would queue this payload for it.
FoundEligible(fp) ==
  \E w \in Workers :
    /\ pc[w] = "evaluate" /\ config[w] \in Configs /\ config[w].mode = "live"
    /\ \E row \in inbox[w] :
         /\ Eligible(row, config[w].routes, now)
         /\ fp = Fingerprint(row, config[w].routes)

\* What is traded, or may be yet, stands in the queue or has stood there.
TradesWereQueued ==
  \A fp \in Fingerprints : accepted[fp] + open[fp] > 0 => Recorded(fp)

NothingQueued == \A fp \in Fingerprints : ~Recorded(fp)

\* A payload gets into the queue only at a moment when a live run finds it eligible,
\* and is never taken out of the record.
PolicyGuardsQueue ==
  \A fp \in Fingerprints :
    /\ Recorded(fp) => Recorded(fp)'
    /\ ~Recorded(fp) /\ Recorded(fp)' => FoundEligible(fp)

\* A run that is under way has its environment, and not one that turns it off.
RunsAreConfigured ==
  \A w \in Workers : pc[w] # "idle" => config[w] \in Configs /\ config[w].mode # "off"

\* A run is configured by StartRun, until Exit.
LEMMA StepConfigured ==
  TypeOK /\ RunsAreConfigured /\ [Next]_vars => RunsAreConfigured'
<1> SUFFICES ASSUME TypeOK, RunsAreConfigured, [Next]_vars PROVE RunsAreConfigured'
  OBVIOUS
<1> USE DEF RunsAreConfigured
<1>1. ASSUME NEW w \in Workers, Exit(w) PROVE RunsAreConfigured'
  BY <1>1 DEF Exit, Goto, TypeOK
<1>2. ASSUME NEW w \in Workers, StartRun(w) PROVE RunsAreConfigured'
  BY <1>2 DEF StartRun, Goto, TypeOK
<1>3. ASSUME NEW w \in Workers, Step(w), ~Exit(w) PROVE RunsAreConfigured'
  <2>1. pc[w] # "idle" /\ UNCHANGED config
    BY <1>3 DEF Step, FetchLatest, EvaluateSignal, EvaluationDone, Beat, SelectPending,
                Publish, MarkDelivered, MarkRefused, MarkUnauthenticated, MarkForRetry,
                CountAttempts, Bury, FinishRun, NextEntry
  <2>2. \A v \in Workers \ {w} : pc'[v] = pc[v]
    BY <1>3 DEF Step, FetchLatest, EvaluateSignal, EvaluationDone, Beat, SelectPending,
                Publish, MarkDelivered, MarkRefused, MarkUnauthenticated, MarkForRetry,
                CountAttempts, Bury, FinishRun, NextEntry, Goto, TypeOK
  <2> QED BY <2>1, <2>2
<1>4. ASSUME NEW w \in Workers, Abort(w) \/ PublishBreaksOff(w) PROVE Exit(w)
  BY <1>4 DEF Abort, PublishBreaksOff
<1>5. ASSUME UNCHANGED <<pc, config>> PROVE RunsAreConfigured'
  BY <1>5
<1> QED
  BY <1>1, <1>2, <1>3, <1>4, <1>5 DEF Next, LateAccept, Tick, vars, locals

\* The statements that record an outcome leave an entry in the record, and touch
\* none that was not there; only EvaluateSignal of a live run adds one.
LEMMA StepGuarded ==
  TypeOK /\ RunsAreConfigured /\ HeldIsRecorded /\ [Next]_vars => PolicyGuardsQueue
<1> SUFFICES ASSUME TypeOK, RunsAreConfigured, HeldIsRecorded, [Next]_vars,
                    NEW fp \in Fingerprints, table'[fp] # table[fp]
             PROVE  /\ Recorded(fp) => Recorded(fp)'
                    /\ ~Recorded(fp) /\ Recorded(fp)' => FoundEligible(fp)
  BY DEF PolicyGuardsQueue, Recorded
<1>1. ASSUME NEW w \in Workers,
             MarkDelivered(w) \/ MarkRefused(w) \/ MarkUnauthenticated(w) \/ MarkForRetry(w)
             \/ Bury(w)
      PROVE  Recorded(fp) /\ Recorded(fp)'
  <2>1. \/ table' = MarkSent(table, entry[w]) \/ table' = MarkDeadLetter(table, entry[w])
        \/ table' = MarkRetrying(table, entry[w])
    BY <1>1 DEF MarkDelivered, MarkRefused, MarkUnauthenticated, MarkForRetry, Bury
  <2>2. fp = entry[w]
    BY <2>1, MarkEffect
  <2>3. Recorded(fp)
    BY <2>2, FingerprintsAssumption DEF HeldIsRecorded
  <2>4. table'[fp].status \in {"sent", "dead_letter", "retrying"}
    BY <2>1, <2>2 DEF TypeOK, MarkSent, MarkDeadLetter, MarkRetrying, SetStatus, OutboxRow
  <2> QED BY <2>3, <2>4 DEF Recorded
<1>2. ASSUME NEW w \in Workers, EvaluateSignal(w)
      PROVE  ~Recorded(fp) /\ (Recorded(fp)' => FoundEligible(fp))
  <2>1. PICK row \in inbox[w] :
          /\ Eligible(row, config[w].routes, now)
          /\ table' = Enqueue(table, Fingerprint(row, config[w].routes), EntryStatus(config[w]))
    BY <1>2 DEF EvaluateSignal
  <2>2. /\ fp = Fingerprint(row, config[w].routes) /\ ~Recorded(fp)
        /\ table'[fp].status = EntryStatus(config[w])
    BY <2>1 DEF Enqueue, TypeOK, Recorded
  <2>3. ASSUME Recorded(fp)' PROVE config[w] \in Configs /\ config[w].mode = "live"
    <3>1. config[w] \in Configs /\ config[w].mode \notin {"off", "shadow"}
      BY <1>2, <2>2, <2>3 DEF EvaluateSignal, RunsAreConfigured, EntryStatus, Recorded
    <3> QED BY <3>1, ConfigsAssumption DEF Config
  <2>4. Recorded(fp)' => FoundEligible(fp)
    BY <1>2, <2>1, <2>2, <2>3 DEF EvaluateSignal, FoundEligible
  <2> QED BY <2>2, <2>4
<1>3. \E w \in Workers :
        \/ MarkDelivered(w) \/ MarkRefused(w) \/ MarkUnauthenticated(w) \/ MarkForRetry(w)
        \/ Bury(w) \/ EvaluateSignal(w)
  BY DEF Next, Step, vars, StartRun, FetchLatest, EvaluationDone, Beat, SelectPending,
         Publish, CountAttempts, FinishRun, Abort, PublishBreaksOff, LateAccept, Tick
<1> QED BY <1>1, <1>2, <1>3

\* Every trade, made or possible yet, is of a payload in the record of the outbox,
\* which begins empty and takes one in only at a moment when a live run has the
\* signal in hand and finds it eligible by its own routes and the clock of that
\* moment; no overlap, restart, mode or crash puts one there otherwise, and none is
\* taken out again (policy.py evaluate_signal, worker.py run_once).  What happens
\* to a payload between that moment and its post is not looked at: that is the
\* run delivery_freshness.
THEOREM OnlyEligibleIsTraded ==
  Spec => NothingQueued /\ []TradesWereQueued /\ [][PolicyGuardsQueue]_vars
<1>1. Init => NothingQueued /\ RunsAreConfigured
  BY DEF Init, NothingQueued, RunsAreConfigured, Recorded, NoRow
<1>2. TypeOK /\ SafetyInv => TradesWereQueued /\ HeldIsRecorded
  BY DEF TypeOK, SafetyInv, UnqueuedUntraded, TradesWereQueued
<1>3. TypeOK /\ SafetyInv /\ RunsAreConfigured /\ [Next]_vars => [PolicyGuardsQueue]_vars
  BY <1>2, StepGuarded
<1> QED
  BY <1>1, <1>2, <1>3, StepConfigured, TypeCorrect, SafetyInvariant, PTL DEF Spec

(***************************************************************************)
(* One worker at a time                                                    *)
(***************************************************************************)

\* A statement that records an outcome rewrites one row and types it.
LEMMA MarkRow ==
  ASSUME TypeOK, NEW fp \in Fingerprints, NEW s \in Statuses,
         \/ table' = SetStatus(table, fp, s) /\ s # "retrying"
         \/ table' = MarkRetrying(table, fp) /\ s = "retrying"
  PROVE  /\ \A f \in Fingerprints \ {fp} : table'[f] = table[f]
         /\ table'[fp].status = s
         /\ table'[fp].attempts =
              table[fp].attempts + (IF s = "retrying" THEN 1 ELSE 0)
BY DEF TypeOK, SetStatus, MarkRetrying, OutboxRow, Statuses

\* Recording a signal touches absent rows only.
LEMMA EnqueueRow ==
  ASSUME TypeOK, NEW w \in Workers, EvaluateSignal(w)
  PROVE  \A fp \in Fingerprints :
           \/ table'[fp] = table[fp]
           \/ /\ table[fp].status = "absent"
              /\ table'[fp].status \in {"shadow", "pending"}
              /\ table'[fp].attempts = 0
BY DEF EvaluateSignal, Enqueue, EntryStatus, TypeOK, OutboxRow

\* The empty outbox satisfies the invariant of a worker that is alone.
LEMMA InitSoloInv == Init => SoloInv
BY BoundsAssumption, MaxAttemptsAssumption
   DEF Init, SoloInv, SnapshotCurrent, AttemptsLeft, AttemptsBounded, Unsettled,
       Pending, NoRow

\* Every step of run_once keeps it when no other worker changes the outbox.
LEMMA StepSoloInv ==
  ASSUME NEW solo, Workers = {solo}, TypeOK, SoloInv, [Next]_vars
  PROVE  SoloInv'
<1> USE DEF server, locals, history
<1> USE DEF SoloInv, SnapshotCurrent, AttemptsLeft, AttemptsBounded, Unsettled,
            Pending, BeingCounted
<1> DEFINE w == solo
<1>0. /\ w \in Workers /\ \A v \in Workers : v = w
      /\ \A fp \in Fingerprints : table[fp].attempts \in Nat /\ interrupted[fp] \in Nat
      /\ entry[w] # Missing => entry[w] \in Fingerprints
      /\ batch[w] \subseteq Fingerprints
      /\ DOMAIN table = Fingerprints
  BY DEF TypeOK, OutboxRow
<1>1. CASE StartRun(w) \/ FetchLatest(w) \/ Beat(w)
  BY <1>0, <1>1 DEF StartRun, FetchLatest, Beat, Goto, TypeOK
<1>2. CASE EvaluateSignal(w)
  <2>1. /\ UNCHANGED <<pc, batch, entry, interrupted>> /\ DOMAIN table' = Fingerprints
    BY <1>2 DEF EvaluateSignal, Enqueue, TypeOK
  <2> QED BY <1>0, <1>2, <2>1, EnqueueRow, MaxAttemptsAssumption
<1>3. CASE EvaluationDone(w)
  BY <1>0, <1>3 DEF EvaluationDone, Exit, Goto, TypeOK
<1>4. CASE SelectPending(w)
  BY <1>0, <1>4, FingerprintsAssumption DEF SelectPending, Goto, TypeOK
<1>5. CASE Publish(w)
  <2> PICK fp \in batch[w] :
         /\ batch' = [batch EXCEPT ![w] = @ \ {fp}]
         /\ entry' = [entry EXCEPT ![w] = fp]
    BY <1>5 DEF Publish
  <2>1. /\ batch'[w] = batch[w] \ {fp} /\ entry'[w] = fp /\ pc'[w] = "mark"
        /\ UNCHANGED <<table, interrupted>>
    BY <1>0, <1>5 DEF Publish, Goto, TypeOK, Served
  <2>2. fp # Missing /\ pc[w] = "post"
    BY <1>0, <1>5, FingerprintsAssumption DEF Publish
  <2> QED BY <1>0, <2>1, <2>2
<1>6. ASSUME MarkDelivered(w) \/ MarkRefused(w) \/ MarkUnauthenticated(w) \/ Bury(w)
      PROVE  SoloInv'
  <2>1. PICK s \in {"sent", "dead_letter"} : table' = SetStatus(table, entry[w], s)
    BY <1>6 DEF MarkDelivered, MarkRefused, MarkUnauthenticated, Bury, MarkSent, MarkDeadLetter
  <2>2. entry[w] \in Fingerprints
    BY <1>0, <1>6 DEF MarkDelivered, MarkRefused, MarkUnauthenticated, Bury
  <2>3. /\ \A f \in Fingerprints \ {entry[w]} : table'[f] = table[f]
        /\ table'[entry[w]].status = s
        /\ table'[entry[w]].attempts = table[entry[w]].attempts
    BY <1>0, <2>1, <2>2, MarkRow DEF Statuses
  <2>4. /\ DOMAIN table' = Fingerprints /\ UNCHANGED interrupted
        /\ batch'[w] \in {batch[w], {}} /\ entry'[w] = Missing
        /\ pc'[w] \in {"post", "idle"}
    BY <1>0, <1>6, <2>1 DEF MarkDelivered, MarkRefused, MarkUnauthenticated, Bury,
       SetStatus, NextEntry, Exit, Goto, TypeOK
  <2> QED BY <1>0, <2>2, <2>3, <2>4, FingerprintsAssumption
<1>7. CASE MarkForRetry(w)
  <2>1. entry[w] \in Fingerprints /\ Unsettled(entry[w]) /\ pc[w] = "mark"
    BY <1>0, <1>7 DEF MarkForRetry
  <2>2. /\ \A f \in Fingerprints \ {entry[w]} : table'[f] = table[f]
        /\ table'[entry[w]].status = "retrying"
        /\ table'[entry[w]].attempts = table[entry[w]].attempts + 1
    BY <1>7, <2>1, MarkRow DEF MarkForRetry, Statuses
  <2>3. /\ DOMAIN table' = Fingerprints /\ pc'[w] = "count"
        /\ UNCHANGED <<batch, entry, interrupted>>
    BY <1>0, <1>7 DEF MarkForRetry, MarkRetrying, Goto, TypeOK
  <2>4. table[entry[w]].attempts < MaxAttempts + interrupted[entry[w]]
    BY <1>0, <2>1
  <2> QED BY <1>0, <2>1, <2>2, <2>3, <2>4, MaxAttemptsAssumption
<1>8. CASE CountAttempts(w)
  <2>1. UNCHANGED <<table, batch, interrupted>> /\ pc[w] = "count"
    BY <1>8 DEF CountAttempts, NextEntry
  <2>2. CASE table[entry[w]].attempts >= MaxAttempts
    BY <1>0, <1>8, <2>1, <2>2 DEF CountAttempts, Goto, TypeOK
  <2>3. CASE ~(table[entry[w]].attempts >= MaxAttempts)
    <3>1. entry'[w] = Missing /\ pc'[w] = "post"
      BY <1>0, <1>8, <2>3 DEF CountAttempts, NextEntry, Goto, TypeOK
    <3>2. entry[w] \in Fingerprints
          /\ table[entry[w]].attempts < MaxAttempts + interrupted[entry[w]]
      BY <1>0, <2>1, <2>3, MaxAttemptsAssumption
    <3> QED BY <1>0, <2>1, <3>1, <3>2, FingerprintsAssumption
  <2> QED BY <2>2, <2>3
<1>9. CASE FinishRun(w)
  BY <1>0, <1>9 DEF FinishRun, Exit, Goto, TypeOK
<1>10. CASE Abort(w) \/ PublishBreaksOff(w)
  <2>1. /\ batch'[w] = {} /\ entry'[w] = Missing /\ pc'[w] = "idle"
        /\ UNCHANGED table
    BY <1>0, <1>10 DEF Abort, PublishBreaksOff, Exit, Goto, TypeOK
  <2>2. \A fp \in Fingerprints :
          /\ interrupted'[fp] \in Nat /\ interrupted'[fp] >= interrupted[fp]
          /\ fp = entry[w] => interrupted'[fp] = interrupted[fp] + 1
    <3>1. CASE Abort(w)
      BY <1>0, <3>1, FingerprintsAssumption DEF Abort, Bump, TypeOK
    <3>2. CASE PublishBreaksOff(w)
      <4>1. entry[w] = Missing
        BY <1>0, <3>2 DEF PublishBreaksOff
      <4> QED BY <1>0, <3>2, <4>1, FingerprintsAssumption DEF PublishBreaksOff, Bump, TypeOK
    <3> QED BY <1>10, <3>1, <3>2
  <2> QED BY <1>0, <2>1, <2>2, MaxAttemptsAssumption
<1>11. ASSUME NEW fp \in Fingerprints, LateAccept(fp) PROVE SoloInv'
  BY <1>0, <1>11 DEF LateAccept
<1>12. CASE Tick \/ UNCHANGED vars
  BY <1>0, <1>12 DEF Tick, vars
<1> QED
  BY <1>0, <1>1, <1>2, <1>3, <1>4, <1>5, <1>6, <1>7, <1>8, <1>9, <1>10,
     <1>11, <1>12 DEF Next, Step

\* With one worker at a time the snapshot that run_once took of pending() never
\* goes stale, and an exhausted entry is in its hands or was dropped by an abort.
THEOREM SoloInvariant ==
  ASSUME NEW solo, Workers = {solo}
  PROVE  Spec => []SoloInv
<1>1. Init => SoloInv
  BY InitSoloInv
<1>2. TypeOK /\ SoloInv /\ [Next]_vars => SoloInv'
  BY StepSoloInv
<1> QED BY <1>1, <1>2, TypeCorrect, PTL DEF Spec

\* With one worker at a time only runs that die grant attempts beyond the limit.
THEOREM AttemptsAreBounded ==
  ASSUME NEW solo, Workers = {solo}
  PROVE  Spec => []AttemptsBounded
BY SoloInvariant, PTL DEF SoloInv

\* What a step does to one row: nothing, a first record, or an outcome written
\* for an entry that was unsettled.
LEMMA SoloRowSteps ==
  ASSUME NEW solo, Workers = {solo}, TypeOK, SoloInv, [Next]_vars,
         NEW fp \in Fingerprints
  PROVE  \/ table'[fp] = table[fp]
         \/ table[fp].status = "absent" /\ table'[fp].status \in {"shadow", "pending"}
         \/ Unsettled(fp)
<1> DEFINE w == solo
<1> USE DEF Unsettled, Pending
<1>0. w \in Workers /\ DOMAIN table = Fingerprints
  BY DEF TypeOK
<1>1. ASSUME \/ MarkDelivered(w) \/ MarkRefused(w) \/ MarkUnauthenticated(w)
             \/ Bury(w) \/ MarkForRetry(w)
      PROVE  table'[fp] = table[fp] \/ Unsettled(fp)
  <2>1. Unsettled(entry[w])
    BY <1>0, <1>1 DEF SoloInv, SnapshotCurrent, MarkDelivered, MarkRefused,
       MarkUnauthenticated, Bury, MarkForRetry
  <2>2. CASE fp # entry[w]
    BY <1>1, <2>2 DEF MarkDelivered, MarkRefused, MarkUnauthenticated, Bury,
       MarkForRetry, MarkSent, MarkDeadLetter, SetStatus, MarkRetrying, TypeOK
  <2> QED BY <2>1, <2>2
<1>2. CASE EvaluateSignal(w)
  BY <1>0, <1>2, EnqueueRow
<1>3. CASE ~\E v \in Workers : \/ EvaluateSignal(v) \/ MarkDelivered(v)
        \/ MarkRefused(v) \/ MarkUnauthenticated(v) \/ Bury(v) \/ MarkForRetry(v)
  <2>1. UNCHANGED table
    BY <1>3 DEF Next, Step, vars, StartRun, FetchLatest, EvaluationDone, Beat,
       SelectPending, Publish, CountAttempts, FinishRun, Abort, PublishBreaksOff,
       LateAccept, Tick
  <2> QED BY <2>1
<1> QED BY <1>1, <1>2, <1>3

\* With one worker at a time a settled entry is never touched again.
THEOREM SettledStaysSettled ==
  ASSUME NEW solo, Workers = {solo}
  PROVE  Spec => SettledIsFinal
<1>1. TypeOK /\ SoloInv /\ [Next]_vars =>
        [\A fp \in Fingerprints : Settled(fp) => table'[fp] = table[fp]]_vars
  BY SoloRowSteps DEF Settled, Unsettled, Pending
<1> QED BY <1>1, SoloInvariant, TypeCorrect, PTL DEF Spec, SettledIsFinal

(***************************************************************************)
(* The trades of one worker at a time are accounted for                    *)
(***************************************************************************)
SentMark(fp) == IF table[fp].status = "sent" THEN 1 ELSE 0

Hand(v, fp) ==
  IF pc[v] = "mark" /\ entry[v] = fp /\ reply[v] \in {"success", "retryable"}
  THEN 1 ELSE 0

AccountedWith(v) ==
  \A fp \in Fingerprints :
    /\ accepted[fp] + open[fp] <=
         table[fp].attempts + interrupted[fp] + SentMark(fp) + Hand(v, fp)
    /\ table[fp].status = "absent" => table[fp].attempts = 0

\* Nothing was posted yet, so nothing is to be accounted for.
LEMMA InitAccounted == ASSUME NEW v \in Workers PROVE Init => AccountedWith(v)
BY DEF Init, AccountedWith, SentMark, Hand, NoRow

\* Every post, mark and abort of run_once keeps the account of trades.
LEMMA StepAccounted ==
  ASSUME NEW solo, Workers = {solo}, TypeOK, SoloInv, AccountedWith(solo), [Next]_vars
  PROVE  AccountedWith(solo)'
<1> USE DEF server, locals, history
<1> DEFINE w == solo
<1> SUFFICES ASSUME NEW fp \in Fingerprints
             PROVE  /\ accepted'[fp] + open'[fp] <=
                         table'[fp].attempts + interrupted'[fp] + SentMark(fp)' + Hand(w, fp)'
                    /\ table'[fp].status = "absent" => table'[fp].attempts = 0
  BY DEF AccountedWith
<1>0. /\ w \in Workers /\ \A v \in Workers : v = w
      /\ table[fp].attempts \in Nat /\ interrupted[fp] \in Nat
      /\ accepted[fp] \in Nat /\ open[fp] \in Nat
      /\ entry[w] # Missing => Unsettled(entry[w])
      /\ entry[w] # Missing <=> pc[w] \in {"mark", "count", "bury"}
      /\ accepted[fp] + open[fp] <=
           table[fp].attempts + interrupted[fp] + SentMark(fp) + Hand(w, fp)
      /\ table[fp].status = "absent" => table[fp].attempts = 0
  BY DEF TypeOK, OutboxRow, SoloInv, SnapshotCurrent, AccountedWith
<1> USE DEF SentMark, Hand, Unsettled, Pending
\* Steps away from the marking of an entry leave every term alone.
<1>1. CASE \/ StartRun(w) \/ FetchLatest(w) \/ EvaluationDone(w) \/ Beat(w)
           \/ SelectPending(w) \/ CountAttempts(w) \/ FinishRun(w)
  <2>1. pc[w] # "mark" /\ pc'[w] # "mark" /\ UNCHANGED <<table, accepted, open, interrupted>>
    BY <1>0, <1>1 DEF StartRun, FetchLatest, EvaluationDone, Beat, SelectPending,
       CountAttempts, FinishRun, NextEntry, Exit, Goto, TypeOK
  <2> QED BY <1>0, <2>1
<1>2. CASE EvaluateSignal(w)
  <2>1. UNCHANGED <<pc, entry, reply, accepted, open, interrupted>>
    BY <1>2 DEF EvaluateSignal
  <2> QED BY <1>0, <1>2, <2>1, EnqueueRow
<1>3. CASE Publish(w)
  <2> PICK f \in batch[w], answer \in Replies :
         /\ Served(f, answer)
         /\ entry' = [entry EXCEPT ![w] = f]
         /\ reply' = [reply EXCEPT ![w] = answer]
    BY <1>3 DEF Publish
  <2>1. /\ pc[w] = "post" /\ pc'[w] = "mark" /\ entry'[w] = f /\ reply'[w] = answer
        /\ UNCHANGED <<table, interrupted>>
    BY <1>0, <1>3 DEF Publish, Goto, TypeOK
  <2>2. \/ accepted'[fp] + open'[fp] = accepted[fp] + open[fp]
        \/ /\ answer \in {"success", "retryable"} /\ fp = f
           /\ accepted'[fp] + open'[fp] = accepted[fp] + open[fp] + 1
    BY <1>0 DEF Served, Bump, TypeOK
  <2>3. Hand(w, fp) = 0 /\ Hand(w, fp)' \in {0, 1}
    BY <2>1
  <2>4. answer \in {"success", "retryable"} /\ fp = f => Hand(w, fp)' = 1
    BY <2>1
  <2>5. SentMark(fp)' = SentMark(fp) /\ SentMark(fp) \in {0, 1}
    BY <2>1
  <2>6. accepted'[fp] + open'[fp] <= accepted[fp] + open[fp] + Hand(w, fp)'
    <3> DEFINE total == accepted[fp] + open[fp]
    <3> DEFINE hand == Hand(w, fp)'
    <3>1. total \in Nat /\ hand \in {0, 1}
      BY <1>0, <2>3
    <3>2. \/ accepted'[fp] + open'[fp] = total
          \/ accepted'[fp] + open'[fp] = total + 1 /\ hand = 1
      BY <2>2, <2>4
    <3> HIDE DEF total, hand
    <3>3. accepted'[fp] + open'[fp] <= total + hand
      BY <3>1, <3>2
    <3> QED BY <3>3 DEF total, hand
  <2>7. accepted'[fp] \in Int /\ open'[fp] \in Int
    BY <1>0 DEF Served, Bump, TypeOK
  <2>8. table'[fp] = table[fp] /\ interrupted'[fp] = interrupted[fp]
    BY <2>1
  <2> HIDE DEF SentMark, Hand
  <2> QED BY <1>0, <2>3, <2>5, <2>6, <2>7, <2>8
<1>4. CASE MarkDelivered(w)
  <2>1. /\ pc[w] = "mark" /\ pc'[w] = "post" /\ UNCHANGED <<accepted, open, interrupted>>
    BY <1>0, <1>4 DEF MarkDelivered, NextEntry, Goto, TypeOK
  <2>2. IF fp = entry[w]
        THEN table'[fp].status = "sent" /\ table'[fp].attempts = table[fp].attempts
        ELSE table'[fp] = table[fp]
    BY <1>4 DEF MarkDelivered, MarkSent, SetStatus, TypeOK, OutboxRow
  <2> QED BY <1>0, <2>1, <2>2
<1>5. CASE MarkRefused(w) \/ MarkUnauthenticated(w) \/ Bury(w)
  <2>1. /\ Hand(w, fp) = 0 /\ pc'[w] # "mark" /\ UNCHANGED <<accepted, open, interrupted>>
    BY <1>0, <1>5 DEF MarkRefused, MarkUnauthenticated, Bury, NextEntry, Exit, Goto, TypeOK
  <2>2. IF fp = entry[w]
        THEN table'[fp].status = "dead_letter" /\ table'[fp].attempts = table[fp].attempts
        ELSE table'[fp] = table[fp]
    BY <1>5 DEF MarkRefused, MarkUnauthenticated, Bury, MarkDeadLetter, SetStatus,
       TypeOK, OutboxRow
  <2>3. fp = entry[w] => table[fp].status # "sent"
    BY <1>0, <1>5, FingerprintsAssumption
  <2>4. table'[fp].attempts = table[fp].attempts /\ SentMark(fp)' >= SentMark(fp)
        /\ (table'[fp].status = "absent" => table[fp].status = "absent")
    BY <2>2, <2>3
  <2>5. Hand(w, fp)' = 0
    BY <2>1
  <2> QED BY <1>0, <2>1, <2>4, <2>5
<1>6. CASE MarkForRetry(w)
  <2>1. /\ pc[w] = "mark" /\ pc'[w] = "count" /\ UNCHANGED <<accepted, open, interrupted>>
    BY <1>0, <1>6 DEF MarkForRetry, Goto, TypeOK
  <2>2. IF fp = entry[w]
        THEN table'[fp].status = "retrying" /\ table'[fp].attempts = table[fp].attempts + 1
        ELSE table'[fp] = table[fp]
    BY <1>6 DEF MarkForRetry, MarkRetrying, TypeOK, OutboxRow
  <2>3. fp = entry[w] => table[fp].status # "sent"
    BY <1>0, <2>1
  <2> QED BY <1>0, <2>1, <2>2, <2>3
<1>7. CASE Abort(w)
  <2>1. /\ pc'[w] = "idle" /\ UNCHANGED <<table, accepted, open>>
    BY <1>0, <1>7 DEF Abort, Exit, Goto, TypeOK
  <2>2. interrupted'[fp] = interrupted[fp] + (IF fp = entry[w] THEN 1 ELSE 0)
    BY <1>0, <1>7, FingerprintsAssumption DEF Abort, Bump, TypeOK
  <2> QED BY <1>0, <2>1, <2>2
<1>8. CASE PublishBreaksOff(w)
  <2>1. /\ pc[w] = "post" /\ pc'[w] = "idle" /\ UNCHANGED <<table, accepted>>
    BY <1>0, <1>8 DEF PublishBreaksOff, Exit, Goto, TypeOK
  <2>2. PICK f \in batch[w] : open' = Bump(open, f) /\ interrupted' = Bump(interrupted, f)
    BY <1>8 DEF PublishBreaksOff
  <2>3. /\ open'[fp] = open[fp] + (IF fp = f THEN 1 ELSE 0)
        /\ interrupted'[fp] = interrupted[fp] + (IF fp = f THEN 1 ELSE 0)
    BY <2>2 DEF Bump, TypeOK
  <2> QED BY <1>0, <2>1, <2>3
<1>9. ASSUME NEW f \in Fingerprints, LateAccept(f)
      PROVE  /\ accepted'[fp] + open'[fp] = accepted[fp] + open[fp]
             /\ UNCHANGED <<table, interrupted, pc, entry, reply>>
  BY <1>0, <1>9 DEF LateAccept, Bump, TypeOK
<1>10. CASE Tick \/ UNCHANGED vars
  BY <1>0, <1>10 DEF Tick, vars
<1> QED
  BY <1>0, <1>1, <1>2, <1>3, <1>4, <1>5, <1>6, <1>7, <1>8, <1>9, <1>10
     DEF Next, Step

\* With one worker the posts in hand are at most one.
LEMMA InHandCount ==
  ASSUME NEW solo, Workers = {solo}, NEW fp
  PROVE  Cardinality(InHand(fp)) = Hand(solo, fp)
<1>1. CASE Hand(solo, fp) = 1
  <2>1. InHand(fp) = {solo}
    BY <1>1 DEF InHand, Hand
  <2> QED BY <1>1, <2>1, FS_Singleton
<1>2. CASE Hand(solo, fp) = 0
  <2>1. InHand(fp) = {}
    BY <1>2 DEF InHand, Hand
  <2> QED BY <1>2, <2>1, FS_EmptySet
<1> QED BY <1>1, <1>2 DEF Hand

\* With one worker at a time a second trade of a payload has a recorded cause:
\* a counted attempt or a run that died while handling it.
THEOREM TradesAreAccountedFor ==
  ASSUME NEW solo, Workers = {solo}
  PROVE  Spec => []TradesAccountedFor
<1>1. Init => AccountedWith(solo)
  BY InitAccounted
<1>2. TypeOK /\ SoloInv /\ AccountedWith(solo) /\ [Next]_vars => AccountedWith(solo)'
  BY StepAccounted
<1>3. AccountedWith(solo) => TradesAccountedFor
  BY InHandCount DEF AccountedWith, TradesAccountedFor, SentMark
<1> QED BY <1>1, <1>2, <1>3, SoloInvariant, TypeCorrect, PTL DEF Spec

(***************************************************************************)
(* One worker at a time implements DeliveryContract                        *)
(***************************************************************************)
\* The initial states map to initial states of the contract.
LEMMA InitContract == Init => Contract!Init
BY DEF Init, Contract!Init, Stage, NoRow

\* Rewriting one row rewrites one stage.
LEMMA StageExcept ==
  ASSUME NEW fp \in Fingerprints, NEW row,
         table \in [Fingerprints -> OutboxRow],
         table' \in [Fingerprints -> OutboxRow],
         \A f \in Fingerprints \ {fp} : table'[f] = table[f],
         table'[fp] = row
  PROVE  [f \in Fingerprints |-> Stage(table'[f])] =
           [[f \in Fingerprints |-> Stage(table[f])] EXCEPT ![fp] = Stage(row)]
OBVIOUS

\* Every step of run_once maps to a step of the contract or to a stutter.
LEMMA StepContract ==
  ASSUME NEW solo, Workers = {solo}, TypeOK, TypeOK', SafetyInv, SoloInv, [Next]_vars
  PROVE  [Contract!Next]_(Contract!contractVars)
<1> DEFINE w == solo
<1> DEFINE stages == [fp \in Fingerprints |-> Stage(table[fp])]
<1> USE DEF server, locals, history
<1>0. /\ w \in Workers
      /\ table \in [Fingerprints -> OutboxRow] /\ table' \in [Fingerprints -> OutboxRow]
      /\ entry[w] # Missing => entry[w] \in Fingerprints /\ Unsettled(entry[w])
      /\ pc[w] \in {"mark", "count", "bury"} => entry[w] # Missing
      /\ \A fp \in batch[w] : fp \in Fingerprints /\ Unsettled(fp)
  BY DEF TypeOK, SoloInv, SnapshotCurrent
<1>1. \A fp \in Fingerprints : Unsettled(fp) => stages[fp] = "queued"
  BY DEF Unsettled, Pending, Stage
<1>2. ASSUME UNCHANGED <<table, accepted, open>>
      PROVE  UNCHANGED Contract!contractVars
  BY <1>2 DEF Contract!contractVars
\* Writing an outcome settles the entry in hand or leaves it queued.
<1>3. ASSUME NEW s \in {"sent", "dead_letter"}, table' = SetStatus(table, entry[w], s),
             UNCHANGED <<accepted, open>>, pc[w] \in {"mark", "bury"},
             s = "sent" => accepted[entry[w]] > 0
      PROVE  Contract!Next
  <2>1. entry[w] \in Fingerprints /\ stages[entry[w]] = "queued"
    BY <1>0, <1>1, <1>3
  <2>2. table'[entry[w]].status = s
        /\ \A f \in Fingerprints \ {entry[w]} : table'[f] = table[f]
    BY <1>0, <1>3, <2>1 DEF SetStatus, OutboxRow
  <2>3. Stage(table'[entry[w]]) = IF s = "sent" THEN "delivered" ELSE "abandoned"
    BY <2>2 DEF Stage
  <2>4. stages' = [stages EXCEPT ![entry[w]] = IF s = "sent" THEN "delivered" ELSE "abandoned"]
    BY <1>0, <2>1, <2>2, <2>3
  <2>5. Contract!Settle(entry[w])
    BY <1>3, <2>1, <2>4 DEF Contract!Settle
  <2> QED BY <2>1, <2>5 DEF Contract!Next
<1>4. CASE MarkDelivered(w)
  BY <1>0, <1>3, <1>4 DEF MarkDelivered, MarkSent, SafetyInv, VerdictsGrounded
<1>5. CASE MarkRefused(w) \/ MarkUnauthenticated(w) \/ Bury(w)
  BY <1>3, <1>5 DEF MarkRefused, MarkUnauthenticated, Bury, MarkDeadLetter
<1>6. CASE MarkForRetry(w)
  <2>1. entry[w] \in Fingerprints /\ stages[entry[w]] = "queued"
    BY <1>0, <1>1, <1>6 DEF MarkForRetry
  <2>2. table'[entry[w]].status = "retrying"
        /\ \A f \in Fingerprints \ {entry[w]} : table'[f] = table[f]
    BY <1>0, <1>6, <2>1 DEF MarkForRetry, MarkRetrying, OutboxRow
  <2>3. Stage(table'[entry[w]]) = "queued"
    BY <2>2 DEF Stage
  <2>4. stages' = stages
    BY <1>0, <2>1, <2>2, <2>3
  <2> QED BY <1>6, <2>4 DEF MarkForRetry, Contract!contractVars
<1>7. CASE EvaluateSignal(w)
  <2>1. UNCHANGED <<accepted, open>>
    BY <1>7 DEF EvaluateSignal
  <2>2. \E s \in {"shadow", "pending"} : \E fp :
          table' = table \/ table' = Enqueue(table, fp, s)
    <3> DEFINE status == EntryStatus(config[w])
    <3>1. status \in {"shadow", "pending"}
      BY DEF EntryStatus
    <3>2. \/ table' = table
          \/ \E row \in Signals :
               table' = Enqueue(table, Fingerprint(row, config[w].routes), status)
      BY <1>0, <1>7 DEF EvaluateSignal, TypeOK
    <3> HIDE DEF status
    <3> QED BY <3>1, <3>2
  <2>3. PICK s \in {"shadow", "pending"} : \E fp :
          table' = table \/ table' = Enqueue(table, fp, s)
    BY <2>2
  <2>4. PICK fp : table' = table \/ table' = Enqueue(table, fp, s)
    BY <2>3
  <2>5. CASE table' = table
    BY <1>2, <2>1, <2>5
  <2>6. CASE fp \in Fingerprints /\ table[fp].status = "absent" /\ table' # table
    <3>1. table'[fp].status = s
          /\ \A f \in Fingerprints \ {fp} : table'[f] = table[f]
      BY <1>0, <2>4, <2>6 DEF Enqueue
    <3>2. Stage(table'[fp]) = IF s = "shadow" THEN "evidence" ELSE "queued"
      BY <3>1 DEF Stage
    <3>3. stages' = [stages EXCEPT ![fp] = IF s = "shadow" THEN "evidence" ELSE "queued"]
      BY <1>0, <2>6, <3>1, <3>2
    <3>4. stages[fp] = "none"
      BY <2>6 DEF Stage
    <3>5. Contract!Record(fp)
      BY <2>1, <3>3, <3>4 DEF Contract!Record
    <3> QED BY <2>6, <3>5 DEF Contract!Next
  <2>7. CASE ~(fp \in Fingerprints /\ table[fp].status = "absent")
    <3>1. table' = table
      BY <1>0, <2>4, <2>7 DEF Enqueue
    <3> QED BY <1>2, <2>1, <3>1
  <2> QED BY <2>5, <2>6, <2>7
<1>8. ASSUME NEW fp \in batch[w], UNCHANGED table,
             \/ open' = Bump(open, fp) /\ UNCHANGED accepted
             \/ accepted' = Bump(accepted, fp) /\ UNCHANGED open
      PROVE  Contract!Next
  <2>1. fp \in Fingerprints /\ stages[fp] = "queued" /\ UNCHANGED stages
    BY <1>0, <1>1, <1>8
  <2>2. Contract!Transmit(fp)
    BY <1>8, <2>1 DEF Contract!Transmit, Bump
  <2> QED BY <2>1, <2>2 DEF Contract!Next
<1>9. CASE Publish(w)
  BY <1>2, <1>8, <1>9 DEF Publish, Served
<1>10. CASE PublishBreaksOff(w)
  BY <1>8, <1>10 DEF PublishBreaksOff
<1>11. ASSUME NEW fp \in Fingerprints, LateAccept(fp) PROVE Contract!Next
  <2>1. Contract!ResolveDoubt(fp)
    BY <1>11 DEF LateAccept, Contract!ResolveDoubt, Bump
  <2> QED BY <2>1 DEF Contract!Next
<1>12. CASE \/ StartRun(w) \/ FetchLatest(w) \/ EvaluationDone(w) \/ Beat(w)
            \/ SelectPending(w) \/ CountAttempts(w) \/ FinishRun(w) \/ Abort(w)
            \/ Tick \/ UNCHANGED vars
  <2>1. UNCHANGED <<table, accepted, open>>
    BY <1>12 DEF StartRun, FetchLatest, EvaluationDone, Beat, SelectPending,
       CountAttempts, FinishRun, Abort, Tick, vars
  <2> QED BY <1>2, <2>1
<1> QED
  BY <1>4, <1>5, <1>6, <1>7, <1>9, <1>10, <1>11, <1>12 DEF Next, Step

\* Under every schedule of runs that do not overlap, the worker and its outbox
\* keep DeliveryContract.
THEOREM WorkerImplementsContract ==
  ASSUME NEW solo, Workers = {solo}
  PROVE  Spec => ImplementsContract
<1>1. Init => Contract!Init
  BY InitContract
<1>2. TypeOK /\ TypeOK' /\ SafetyInv /\ SoloInv /\ [Next]_vars =>
        [Contract!Next]_(Contract!contractVars)
  BY StepContract
<1> QED
  BY <1>1, <1>2, SoloInvariant, SafetyInvariant, TypeCorrect, PTL
     DEF Spec, ImplementsContract, Contract!Spec
=============================================================================
