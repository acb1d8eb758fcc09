-------------------------- MODULE SignalLifecycle --------------------------
(***************************************************************************)
(* The life of a canonical signal: appended by the producers and the       *)
(* ingest API, judged by the outcome tracker (core/outcome_tracker.py,     *)
(* core/outcomes/evaluator.py), deleted by the maintenance commands        *)
(* (core/db_maintenance.py) or moved to a file by the archive script       *)
(* (scripts/archive_signals.py).                                           *)
(*                                                                         *)
(* These are processes of their own on two SQLite files.  Every statement  *)
(* is a transaction, nothing spans two of them.  A member of Trackers is   *)
(* an outcome tracker, the daemon or one started by hand.                  *)
(***************************************************************************)
EXTENDS SignalRegistry

CONSTANTS
  Trackers,          \* outcome trackers that may run at the same time
  Deployments,       \* sets of processes that run beside each other
  Direction, Move,   \* of each signal, and of its asset's price afterwards
  Window,            \* evaluation window, also the minimal age
  Limit,             \* how many signals one run takes
  MaxAge,            \* invalidation.max_age_seconds
  SignalRetention,   \* age from which cleanup deletes a signal
  OutcomeRetention,  \* age from which cleanup deletes an outcome
  ArchiveAge,        \* age from which the archive takes a signal
  Closable,          \* signals that some consumer moves by transition
  Stamps,            \* timestamps: how far ahead of the clock, offset from UTC
  FirstTime, MaxTime, MaxFaults,
  Nobody             \* the signal of an empty hand

ASSUME SignalAssumption ==
  /\ Direction \in [Signals -> Directions]
  /\ Move \in [Signals -> Moves]
  /\ Closable \subseteq Signals
  /\ Nobody \notin Signals
ASSUME DeploymentAssumption ==
  Deployments \subseteq SUBSET (Trackers \cup {"archive", "consumer"})
ASSUME SpanAssumption ==
  /\ Window \in Nat /\ Limit \in Nat \ {0} /\ MaxAge \in Nat \ {0}
  /\ SignalRetention \in Nat /\ OutcomeRetention \in Nat /\ ArchiveAge \in Nat
  /\ MaxTime \in Nat /\ FirstTime \in 0..MaxTime /\ MaxFaults \in Nat
ASSUME StampAssumption ==
  /\ Stamps \subseteq [ahead : Int, offset : Int]
  /\ \A stamp \in Stamps : -DayLength < stamp.offset /\ stamp.offset < DayLength

VARIABLES
  now,
  deployed,            \* the processes of this deployment
  lifecycle,           \* the signal table:
  created,             \*   the instant its timestamp stands for
  written,             \*   the local time that its text shows
  outcome,             \* the outcome table
  authors,             \* history: the trackers that have written an outcome
  pc,                  \* of each tracker
  batch,               \* of each tracker: its snapshot still to evaluate
  hand,                \* of each tracker: the outcome about to be written
  archiver,            \* the archive script and what it has read
  files,               \* archive files, one for each date
  archived,            \* history: the date under which a signal was moved
  rewritten,           \* history: dates whose file was opened a second time
  faults

signals  == <<lifecycle, created, written>>
outcomes == <<outcome, authors>>
tables   == <<signals, outcomes>>
trackers == <<pc, batch, hand>>
archive  == <<archiver, files, archived, rewritten>>
vars     == <<now, deployed, tables, trackers, archive, faults>>

NoOutcome == [label |-> "none", at |-> 0]
NoHand    == [signal |-> Nobody, label |-> "none", at |-> 0]
Resting   == [pc |-> "off", cutoff |-> 0, old |-> {}, seen |-> {}]

Init ==
  /\ now = FirstTime
  /\ deployed \in Deployments
  /\ lifecycle = [s \in Signals |-> "new"]
  /\ created = [s \in Signals |-> 0]
  /\ written = [s \in Signals |-> 0]
  /\ outcome = [s \in Signals |-> NoOutcome]
  /\ authors = [s \in Signals |-> {}]
  /\ pc = [t \in Trackers |-> "idle"]
  /\ batch = [t \in Trackers |-> {}]
  /\ hand = [t \in Trackers |-> NoHand]
  /\ archiver = Resting
  /\ files = [d \in 0..Date(MaxTime) |-> {}]
  /\ archived = [s \in Signals |-> -1]
  /\ rewritten = {}
  /\ faults = 0

Fault == faults < MaxFaults /\ faults' = faults + 1

-----------------------------------------------------------------------------
\* Producers and consumers of the table.

(***************************************************************************)
(* append.  A producer stamps its signal with the time in UTC.  The ingest *)
(* API takes the timestamp of the request, which may lie in the past or    *)
(* ahead: one without an offset counts as UTC, any other keeps its own, of *)
(* less than a day, one that cannot be parsed becomes the time of now      *)
(* (_request_to_envelope).                                                 *)
(***************************************************************************)
Append(s, stamp) ==
  /\ lifecycle[s] = "new"
  /\ lifecycle' = Inserted(lifecycle, s)
  /\ created' = [created EXCEPT ![s] = now + stamp.ahead]
  /\ written' = [written EXCEPT ![s] = now + stamp.ahead + stamp.offset]
  /\ UNCHANGED <<now, outcomes, trackers, archive, faults>>

\* transition asks neither for the old state nor whether the move is legal.
\* Nothing under the repository's packages calls it, only a consumer would.
Transition(s, to) ==
  /\ lifecycle[s] \in Stored
  /\ lifecycle' = Updated(lifecycle, s, to)
  /\ UNCHANGED <<now, created, written, outcomes, trackers, archive, faults>>

-----------------------------------------------------------------------------
\* The outcome tracker.

\* run: query_open is the snapshot the whole run works from.
Query(t) ==
  /\ pc[t] = "idle"
  /\ \E B \in OldestOf(OpenRows(lifecycle, written, now - Window), written,
                       Limit) :
       /\ B # {}
       /\ batch' = [batch EXCEPT ![t] = B]
  /\ pc' = [pc EXCEPT ![t] = "evaluate"]
  /\ UNCHANGED <<now, tables, hand, archive, faults>>

\* The rows come in the order of the query, by their written time.
Oldest(t) == {s \in batch[t] : \A u \in batch[t] : written[s] <= written[u]}

Done(t, s) ==
  /\ batch' = [batch EXCEPT ![t] = @ \ {s}]
  /\ pc' = [pc EXCEPT ![t] = IF batch[t] = {s} THEN "idle" ELSE "evaluate"]

\* evaluate_signal: has_outcome says that somebody has judged the signal.
Skip(t) ==
  /\ pc[t] = "evaluate"
  /\ \E s \in Oldest(t) :
       /\ outcome[s].label # "none"
       /\ Done(t, s)
  /\ UNCHANGED <<now, tables, hand, archive, faults>>

(***************************************************************************)
(* What _classify can say now.  Move is what the prices of signal time and *)
(* horizon show; before the horizon a provider may still return the        *)
(* nearest price it has (PriceProvider.get_price), with any move at all.   *)
(***************************************************************************)
Classified(s) ==
  {Classify(Direction[s], move) :
     move \in IF now >= created[s] + Window THEN {Move[s]} ELSE Moves}

\* A mutant: a signal expires with its evaluation window.
VerdictsByWindow(s) ==
  Classified(s)
    \cup {IF now >= created[s] + Window THEN "expired" ELSE "unknown"}

\* A mutant: a label that OutcomeLabel does not know.
VerdictsTimedOut(s) ==
  Classified(s)
    \cup {IF now >= created[s] + MaxAge THEN "timeout" ELSE "unknown"}

\* Without a price the verdict depends on _is_expired, which reads the clock.
Verdicts(s) ==
  Classified(s)
    \cup {IF now >= created[s] + MaxAge THEN "expired" ELSE "unknown"}

\* A mutant: signals with an outcome are evaluated again.
JudgeAgain(t) ==
  /\ pc[t] = "evaluate"
  /\ \E s \in Oldest(t), label \in Labels :
       /\ label \in Verdicts(s)
       /\ hand' = [hand EXCEPT ![t] =
                     [signal |-> s, label |-> label, at |-> now]]
  /\ pc' = [pc EXCEPT ![t] = "record"]
  /\ UNCHANGED <<now, tables, batch, archive, faults>>

\* evaluate_signal: has_outcome finds nothing, prices are fetched or missing.
Judge(t) ==
  /\ pc[t] = "evaluate"
  /\ \E s \in Oldest(t) :
       /\ outcome[s].label = "none"
       /\ \E label \in Verdicts(s) :
            hand' = [hand EXCEPT ![t] =
                       [signal |-> s, label |-> label, at |-> now]]
  /\ pc' = [pc EXCEPT ![t] = "record"]
  /\ UNCHANGED <<now, tables, batch, archive, faults>>

\* upsert: a transaction of its own, which overwrites what it finds.
Record(t) ==
  /\ pc[t] = "record"
  /\ LET h == hand[t] IN
       /\ outcome' = [outcome EXCEPT ![h.signal] =
                        [label |-> h.label, at |-> h.at]]
       /\ authors' = [authors EXCEPT ![h.signal] = @ \cup {t}]
       /\ Done(t, h.signal)
  /\ hand' = [hand EXCEPT ![t] = NoHand]
  /\ UNCHANGED <<now, signals, archive, faults>>

\* evaluate_batch catches what one signal raises and goes on with the next.
EvaluationFails(t) ==
  /\ Fault
  /\ \/ pc[t] = "evaluate" /\ \E s \in Oldest(t) : Done(t, s)
     \/ pc[t] = "record" /\ Done(t, hand[t].signal)
  /\ hand' = [hand EXCEPT ![t] = NoHand]
  /\ UNCHANGED <<now, tables, archive>>

\* A run that is killed, or whose query_open raises, which ends the daemon too.
Dies(t) ==
  /\ Fault
  /\ pc[t] # "off"
  /\ pc' = [pc EXCEPT ![t] = "off"]
  /\ batch' = [batch EXCEPT ![t] = {}]
  /\ hand' = [hand EXCEPT ![t] = NoHand]
  /\ UNCHANGED <<now, tables, archive>>

Start(t) ==
  /\ pc[t] = "off"
  /\ pc' = [pc EXCEPT ![t] = "idle"]
  /\ UNCHANGED <<now, tables, batch, hand, archive, faults>>

-----------------------------------------------------------------------------
\* Maintenance: the two deletions of db_maintenance can be asked for together
\* or alone, and one goes on when the other has failed.

CleanupSignals ==
  /\ lifecycle' = Deleted(lifecycle,
                    ExpiredRows(lifecycle, written, now - SignalRetention))
  /\ UNCHANGED <<now, created, written, outcomes, trackers, archive, faults>>

CleanupOutcomes ==
  /\ LET old == OldOutcomes(outcome, now - OutcomeRetention) IN
       /\ outcome' = [s \in Signals |-> IF s \in old THEN NoOutcome ELSE outcome[s]]
       /\ authors' = [s \in Signals |-> IF s \in old THEN {} ELSE authors[s]]
  /\ UNCHANGED <<now, signals, trackers, archive, faults>>

-----------------------------------------------------------------------------
\* The archive script: read, write the file of the day, delete.

ReadOld ==
  /\ archiver.pc = "off"
  /\ LET cutoff == now - ArchiveAge
         old    == SignalsBefore(lifecycle, written, cutoff)
     IN  /\ old # {}
         /\ archiver' = [pc |-> "write", cutoff |-> cutoff, old |-> old,
                         seen |-> Present(lifecycle)]
  /\ UNCHANGED <<now, tables, trackers, files, archived, rewritten, faults>>

\* write_text truncates the file of the date and writes what was read.
OpenFile(content) ==
  /\ archiver.pc = "write"
  /\ files' = [files EXCEPT ![Date(now)] = content]
  /\ rewritten' = rewritten \cup {d \in {Date(now)} : files[d] # {}}

\* A mutant: a write that fails is swallowed and the script goes on.
WriteFileUnchecked ==
  /\ \E content \in {{}, archiver.old} : OpenFile(content)
  /\ archiver' = [archiver EXCEPT !.pc = "delete"]
  /\ archived' = [s \in Signals |->
                    IF s \in archiver.old THEN Date(now) ELSE archived[s]]
  /\ UNCHANGED <<now, tables, trackers, faults>>

\* With --dry-run the script ends here.
WriteFile ==
  /\ OpenFile(archiver.old)
  /\ \/ archiver' = [archiver EXCEPT !.pc = "delete"]
        /\ archived' = [s \in Signals |->
                          IF s \in archiver.old THEN Date(now) ELSE archived[s]]
     \/ archiver' = Resting /\ UNCHANGED archived
  /\ UNCHANGED <<now, tables, trackers, faults>>

\* A mutant: the cutoff is computed again for the DELETE.
DeleteOldByNow ==
  /\ archiver.pc = "delete"
  /\ lifecycle' = Deleted(lifecycle,
                    SignalsBefore(lifecycle, written, now - ArchiveAge))
  /\ archiver' = Resting
  /\ UNCHANGED <<now, created, written, outcomes, trackers, files, archived,
                 rewritten, faults>>

DeleteOld ==
  /\ archiver.pc = "delete"
  /\ lifecycle' = Deleted(lifecycle,
                    SignalsBefore(lifecycle, written, archiver.cutoff))
  /\ archiver' = Resting
  /\ UNCHANGED <<now, created, written, outcomes, trackers, files, archived,
                 rewritten, faults>>

\* The script is killed or a statement raises; a file may be left truncated.
ArchiveBreaksOff ==
  /\ Fault
  /\ \/ archiver.pc # "off" /\ UNCHANGED <<files, rewritten>>
     \/ OpenFile({})
  /\ archiver' = Resting
  /\ UNCHANGED <<now, tables, trackers, archived>>

-----------------------------------------------------------------------------

Tick ==
  /\ now < MaxTime
  /\ now' = now + 1
  /\ UNCHANGED <<tables, trackers, archive, faults>>

Track(t) == Query(t) \/ Skip(t) \/ Judge(t) \/ Record(t) \/ Start(t)

Tracking ==
  \E t \in Trackers \cap deployed : Track(t) \/ EvaluationFails(t) \/ Dies(t)
Producing == \E s \in Signals, stamp \in Stamps : Append(s, stamp)
Consuming ==
  "consumer" \in deployed /\ \E s \in Closable, to \in Stored : Transition(s, to)
Maintaining == CleanupSignals \/ CleanupOutcomes
Archiving ==
  "archive" \in deployed /\ (ReadOld \/ WriteFile \/ DeleteOld \/ ArchiveBreaksOff)

Next ==
  /\ Tracking \/ Producing \/ Consuming \/ Maintaining \/ Archiving \/ Tick
  /\ UNCHANGED deployed

Spec == Init /\ [][Next]_vars

Fairness ==
  /\ \A t \in Trackers : WF_vars(t \in deployed /\ Track(t) /\ UNCHANGED deployed)
  /\ WF_vars(Tick /\ UNCHANGED deployed)

FairSpec == Spec /\ Fairness

-----------------------------------------------------------------------------

Times == 0..MaxTime

TypeOK ==
  /\ now \in Times
  /\ deployed \in Deployments
  /\ lifecycle \in [Signals -> Lifecycles]
  /\ created \in [Signals -> Int]
  /\ written \in [Signals -> Int]
  /\ outcome \in [Signals -> [label : Labels \cup {"none"}, at : Times]]
  /\ authors \in [Signals -> SUBSET Trackers]
  /\ pc \in [Trackers -> {"off", "idle", "evaluate", "record"}]
  /\ batch \in [Trackers -> SUBSET Signals]
  /\ hand \in [Trackers -> [signal : Signals \cup {Nobody},
                            label : Labels \cup {"none"}, at : Times]]
  /\ archiver \in [pc : {"off", "write", "delete"}, cutoff : Int,
                   old : SUBSET Signals, seen : SUBSET Signals]
  /\ files \in [0..Date(MaxTime) -> SUBSET Signals]
  /\ archived \in [Signals -> -1..Date(MaxTime)]
  /\ rewritten \subseteq 0..Date(MaxTime)
  /\ faults \in 0..MaxFaults

\* By how much the text of a timestamp lies before the instant it stands for.
West(s) == IF written[s] < created[s] THEN created[s] - written[s] ELSE 0

(***************************************************************************)
(* No signal is judged before the prices of its horizon exist: an outcome  *)
(* is not evaluated before created_at + window, except that a timestamp    *)
(* written west of UTC advances it by at most its offset.  query_open and  *)
(* evaluate_signal read two clocks and compare text, and nothing but the   *)
(* query looks at the age.                                                 *)
(***************************************************************************)
JudgedAtHorizon ==
  \A s \in Signals :
    outcome[s].label # "none" =>
      outcome[s].at >= created[s] + Window - West(s)

(***************************************************************************)
(* A win or a loss that was judged at its horizon is what the prices say,  *)
(* and an outcome is called expired only past the signal's maximal age,    *)
(* whichever tracker wrote last, and also when an outcome was cleaned up   *)
(* and judged again (OutcomeEvaluator.evaluate_signal, upsert).            *)
(***************************************************************************)
VerdictsAreTrue ==
  \A s \in Signals :
    /\ outcome[s].label \in Priced /\ outcome[s].at >= created[s] + Window =>
         outcome[s].label = Classify(Direction[s], Move[s])
    /\ outcome[s].label = "expired" => outcome[s].at >= created[s] + MaxAge
    /\ outcome[s].label = "unknown" => outcome[s].at < created[s] + MaxAge

(***************************************************************************)
(* "Idempotency: skip if already evaluated" (evaluator.py:67).  Trackers   *)
(* that looked before the first of them wrote do overwrite each other, but *)
(* an outcome is only ever overwritten by a tracker that has not written   *)
(* it yet: as often as there are trackers at most, until it is cleaned up. *)
(***************************************************************************)
NoTrackerRepeatsItself ==
  [][\A s \in Signals :
       (outcome[s].label # "none" /\ outcome'[s] \notin {outcome[s], NoOutcome})
         => authors'[s] # authors[s]]_vars

(***************************************************************************)
(* The archive deletes with the cutoff it has read with: a row that its    *)
(* DELETE removes is in the file just written, unless the row was appended *)
(* (with an old timestamp, or one written far west of UTC) after the       *)
(* script had read (archive_old_signals).                                  *)
(***************************************************************************)
ArchiveDeletesWhatItWrote ==
  [][\A s \in Signals :
       (lifecycle[s] \in Stored /\ lifecycle'[s] = "gone" /\ archiver' # archiver)
         => s \in archiver.old \/ s \notin archiver.seen]_vars

(***************************************************************************)
(* What was moved to the archive can be read there, unless the file of the *)
(* date was opened once more on that date: a second run on one day, or one *)
(* that breaks off, destroys the first one's file (archive_old_signals).   *)
(***************************************************************************)
ArchivedIsReadable ==
  \A s \in Signals :
    archived[s] # -1 => s \in files[archived[s]] \/ archived[s] \in rewritten

\* At least Limit others whose text is not later are open before s.
Crowded(s) ==
  Cardinality({u \in Signals \ {s} :
                 lifecycle[u] = "emitted" /\ written[u] <= written[s]}) >= Limit

(***************************************************************************)
(* An emitted signal whose written date is over has an outcome, unless it  *)
(* is closed or removed, or stands behind Limit others open before         *)
(* it: run never closes what it has judged, so the oldest are selected for *)
(* ever (outcome_tracker.py run).  Failures end, their number is bounded.  *)
(***************************************************************************)
Pending(s) ==
  /\ Trackers \cap deployed # {}
  /\ lifecycle[s] = "emitted"
  /\ outcome[s].label = "none"
  /\ SortsBeforeBlank(written[s], MaxTime - Window)
PassedOverOnlyBehindOlder ==
  \A s \in Signals :
    Pending(s) ~> (~Pending(s) \/ Crowded(s))

(***************************************************************************)
(* "Return signals that are still 'emitted' and older than                 *)
(* min_age_seconds" (registry.py:233): a run with room for more takes      *)
(* every such signal.                                                      *)
(***************************************************************************)
ReadyIsSelected ==
  [][\A t \in Trackers :
       (pc[t] = "idle" /\ pc'[t] = "evaluate" /\ Cardinality(batch'[t]) < Limit)
         => \A s \in Signals :
              (lifecycle[s] = "emitted" /\ created[s] < now - Window)
                => s \in batch'[t]]_vars
=============================================================================
