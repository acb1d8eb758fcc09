-------------------------- MODULE DeliveryWorker --------------------------
(***************************************************************************)
(* The optional AI4Trade delivery worker (rainbow/delivery/worker.py,      *)
(* client.py, __main__.py) with its durable outbox, the Rainbow API it     *)
(* reads and the AI4Trade server it posts to.                              *)
(*                                                                         *)
(* Every invocation of `python -m rainbow.delivery` is one pass through    *)
(* run_once by a member of Workers.  A worker's pc names the await it      *)
(* stands at; the outbox is shared and survives every abort, the locals    *)
(* of a run do not.  Two members of Workers are two invocations that       *)
(* overlap: nothing in the code keeps them apart.                          *)
(***************************************************************************)
EXTENDS DeliveryPolicy, DeliveryOutbox, FiniteSets

CONSTANTS
  Workers,       \* processes that may run the worker at the same time
  Signals,       \* rows the Rainbow store may come to hold
  Configs,       \* environments an invocation may be started with
  MaxAttempts,   \* config.max_attempts
  MaxTime,       \* bound on the clock
  MaxFaults,     \* bound on the number of runs that die before their end
  MaxTally       \* bound on the recorded outcomes of one fingerprint

Config == [mode : {"off", "shadow", "live"}, heartbeat : BOOLEAN,
           routes : {c.routes : c \in Configs}]

ASSUME MaxAttemptsAssumption == MaxAttempts \in Nat \ {0}
ASSUME BoundsAssumption ==
  MaxTime \in Nat /\ MaxFaults \in Nat /\ MaxTally \in Nat \ {0}
ASSUME ConfigsAssumption == Configs \subseteq Config /\ Missing \notin Configs

\* Every payload the policy can produce, under some route table at some time.
Fingerprints ==
  {Fingerprint(rc[1], rc[2].routes) :
     rc \in {x \in Signals \X Configs :
               \E t \in 0..MaxTime : Eligible(x[1], x[2].routes, t)}}

ASSUME FingerprintsAssumption == Missing \notin Fingerprints

Replies == {"success", "auth", "retryable", "permanent"}

Places == {"idle", "fetch", "evaluate", "beat", "select", "post", "mark",
           "count", "bury"}

VARIABLES
  now,          \* wall clock
  table,        \* the outbox, on disk
  pc, config,   \* of each worker: where it stands, its environment
  inbox,        \* of each worker: fetched rows not evaluated yet
  batch,        \* of each worker: its snapshot of pending() still to post
  entry, reply, \* of each worker: the entry in hand, what publish ended with
  accepted,     \* AI4Trade: how often each payload was turned into a trade
  open,         \* requests given up by their sender that may be accepted yet
  refused,      \* history: payloads AI4Trade answered 401 or a final 4xx
  interrupted,  \* history: runs that died while handling the payload
  faults        \* number of runs that died, for MaxFaults

server  == <<accepted, open>>
locals  == <<pc, config, inbox, batch, entry, reply>>
history == <<refused, interrupted, faults>>
vars    == <<now, table, locals, server, history>>

Init ==
  /\ now = 0
  /\ table = [fp \in Fingerprints |-> NoRow]
  /\ pc = [w \in Workers |-> "idle"]
  /\ config = [w \in Workers |-> Missing]
  /\ inbox = [w \in Workers |-> {}]
  /\ batch = [w \in Workers |-> {}]
  /\ entry = [w \in Workers |-> Missing]
  /\ reply = [w \in Workers |-> Missing]
  /\ accepted = [fp \in Fingerprints |-> 0]
  /\ open = [fp \in Fingerprints |-> 0]
  /\ refused = {}
  /\ interrupted = [fp \in Fingerprints |-> 0]
  /\ faults = 0

Bump(f, x) == [f EXCEPT ![x] = @ + 1]

Goto(w, place) == pc' = [pc EXCEPT ![w] = place]

\* The process ends: whatever its run held in memory is gone.
Exit(w) ==
  /\ Goto(w, "idle")
  /\ config' = [config EXCEPT ![w] = Missing]
  /\ inbox' = [inbox EXCEPT ![w] = {}]
  /\ batch' = [batch EXCEPT ![w] = {}]
  /\ entry' = [entry EXCEPT ![w] = Missing]
  /\ reply' = [reply EXCEPT ![w] = Missing]

\* The loop over the snapshot takes its next turn.
NextEntry(w) ==
  /\ Goto(w, "post")
  /\ entry' = [entry EXCEPT ![w] = Missing]
  /\ reply' = [reply EXCEPT ![w] = Missing]
  /\ UNCHANGED <<config, inbox, batch>>

(***************************************************************************)
(* One run                                                                 *)
(***************************************************************************)

\* Bound: no run is started once an outcome count has reached MaxTally.
WithinTally ==
  \A fp \in Fingerprints :
    table[fp].attempts + accepted[fp] + open[fp] + interrupted[fp] < MaxTally

StartRun(w) ==
  /\ pc[w] = "idle"
  /\ \E c \in Configs :
       \/ /\ c.mode = "off"
          /\ UNCHANGED <<pc, config>>
       \/ /\ c.mode # "off" /\ WithinTally
          /\ Goto(w, "fetch")
          /\ config' = [config EXCEPT ![w] = c]
  /\ UNCHANGED <<now, table, inbox, batch, entry, reply, server, history>>

\* GET /signals/latest answers with some of the rows stored so far.
FetchLatest(w) ==
  /\ pc[w] = "fetch"
  /\ \E rows \in SUBSET {row \in Signals : row.at = Missing \/ row.at <= now} :
       inbox' = [inbox EXCEPT ![w] = rows]
  /\ Goto(w, "evaluate")
  /\ UNCHANGED <<now, table, config, batch, entry, reply, server, history>>

\* Mutant: the mode itself is recorded as the status.
ModeAsStatus(c) == c.mode

EntryStatus(c) == IF c.mode = "shadow" THEN "shadow" ELSE "pending"

EvaluateSignal(w) ==
  /\ pc[w] = "evaluate"
  /\ \E row \in inbox[w] :
       /\ inbox' = [inbox EXCEPT ![w] = @ \ {row}]
       /\ table' = IF Eligible(row, config[w].routes, now)
                   THEN Enqueue(table, Fingerprint(row, config[w].routes),
                                EntryStatus(config[w]))
                   ELSE table
  /\ UNCHANGED <<now, pc, config, batch, entry, reply, server, history>>

\* A heartbeat exists only in live mode; shadow runs end after the loop.
EvaluationDone(w) ==
  /\ pc[w] = "evaluate" /\ inbox[w] = {}
  /\ \/ config[w].mode = "shadow" /\ Exit(w)
     \/ /\ config[w].mode = "live"
        /\ Goto(w, IF config[w].heartbeat THEN "beat" ELSE "select")
        /\ UNCHANGED <<config, inbox, batch, entry, reply>>
  /\ UNCHANGED <<now, table, server, history>>

\* poll_once and process_pending: the messages are logged and dropped.
Beat(w) ==
  /\ pc[w] = "beat"
  /\ Goto(w, "select")
  /\ UNCHANGED <<now, table, config, inbox, batch, entry, reply, server, history>>

SelectPending(w) ==
  /\ pc[w] = "select"
  /\ batch' = [batch EXCEPT ![w] = Pending(table)]
  /\ Goto(w, "post")
  /\ UNCHANGED <<now, table, config, inbox, entry, reply, server, history>>

\* What POST /signals/realtime did, as far as the server is concerned.
Served(fp, answer) ==
  \/ answer = "success"   /\ accepted' = Bump(accepted, fp) /\ UNCHANGED <<open, refused>>
  \/ answer = "retryable" /\ open' = Bump(open, fp) /\ UNCHANGED <<accepted, refused>>
  \/ answer = "retryable" /\ UNCHANGED <<accepted, open, refused>>
  \/ answer \in {"auth", "permanent"} /\ refused' = refused \cup {fp} /\ UNCHANGED server

Publish(w) ==
  /\ pc[w] = "post"
  /\ \E fp \in batch[w], answer \in Replies :
       /\ Served(fp, answer)
       /\ batch' = [batch EXCEPT ![w] = @ \ {fp}]
       /\ entry' = [entry EXCEPT ![w] = fp]
       /\ reply' = [reply EXCEPT ![w] = answer]
  /\ Goto(w, "mark")
  /\ UNCHANGED <<now, table, config, inbox, interrupted, faults>>

\* Mutant: an unconfirmed reply is taken for a success.
MarkUnconfirmedDelivered(w) ==
  /\ pc[w] = "mark" /\ reply[w] \in {"success", "retryable"}
  /\ table' = MarkSent(table, entry[w])
  /\ NextEntry(w)
  /\ UNCHANGED <<now, server, history>>

MarkDelivered(w) ==
  /\ pc[w] = "mark" /\ reply[w] = "success"
  /\ table' = MarkSent(table, entry[w])
  /\ NextEntry(w)
  /\ UNCHANGED <<now, server, history>>

MarkRefused(w) ==
  /\ pc[w] = "mark" /\ reply[w] = "permanent"
  /\ table' = MarkDeadLetter(table, entry[w])
  /\ NextEntry(w)
  /\ UNCHANGED <<now, server, history>>

\* A 401 buries the entry in hand and ends the run.
MarkUnauthenticated(w) ==
  /\ pc[w] = "mark" /\ reply[w] = "auth"
  /\ table' = MarkDeadLetter(table, entry[w])
  /\ Exit(w)
  /\ UNCHANGED <<now, server, history>>

MarkForRetry(w) ==
  /\ pc[w] = "mark" /\ reply[w] = "retryable"
  /\ table' = MarkRetrying(table, entry[w])
  /\ Goto(w, "count")
  /\ UNCHANGED <<now, config, inbox, batch, entry, reply, server, history>>

\* Mutant: an attempt too many.
CountAttemptsLate(w) ==
  /\ pc[w] = "count"
  /\ IF table[entry[w]].attempts > MaxAttempts
     THEN Goto(w, "bury") /\ UNCHANGED <<config, inbox, batch, entry, reply>>
     ELSE NextEntry(w)
  /\ UNCHANGED <<now, table, server, history>>

CountAttempts(w) ==
  /\ pc[w] = "count"
  /\ IF table[entry[w]].attempts >= MaxAttempts
     THEN Goto(w, "bury") /\ UNCHANGED <<config, inbox, batch, entry, reply>>
     ELSE NextEntry(w)
  /\ UNCHANGED <<now, table, server, history>>

Bury(w) ==
  /\ pc[w] = "bury"
  /\ table' = MarkDeadLetter(table, entry[w])
  /\ NextEntry(w)
  /\ UNCHANGED <<now, server, history>>

FinishRun(w) ==
  /\ pc[w] = "post" /\ batch[w] = {}
  /\ Exit(w)
  /\ UNCHANGED <<now, table, server, history>>

(***************************************************************************)
(* What goes wrong, and what goes on outside                               *)
(***************************************************************************)

\* The run dies between two awaits: the process is killed, Rainbow or the
\* heartbeat endpoint fails (neither error is caught), a statement raises.
Abort(w) ==
  /\ pc[w] # "idle"
  /\ faults < MaxFaults /\ faults' = faults + 1
  /\ interrupted' = IF entry[w] = Missing THEN interrupted
                    ELSE Bump(interrupted, entry[w])
  /\ Exit(w)
  /\ UNCHANGED <<now, table, server, refused>>

\* The run dies while a POST is under way: the process is killed, the peer
\* breaks the protocol, or a 2xx body is not JSON.  No attempt is recorded.
PublishBreaksOff(w) ==
  /\ pc[w] = "post"
  /\ faults < MaxFaults /\ faults' = faults + 1
  /\ \E fp \in batch[w] :
       /\ open' = Bump(open, fp)
       /\ interrupted' = Bump(interrupted, fp)
  /\ Exit(w)
  /\ UNCHANGED <<now, table, accepted, refused>>

\* AI4Trade accepts a payload whose sender has stopped waiting for it.
LateAccept(fp) ==
  /\ open[fp] > 0
  /\ open' = [open EXCEPT ![fp] = @ - 1]
  /\ accepted' = Bump(accepted, fp)
  /\ UNCHANGED <<now, table, locals, history>>

Tick ==
  /\ now < MaxTime
  /\ now' = now + 1
  /\ UNCHANGED <<table, locals, server, history>>

Step(w) ==
  \/ FetchLatest(w) \/ EvaluateSignal(w) \/ EvaluationDone(w) \/ Beat(w)
  \/ SelectPending(w) \/ Publish(w) \/ MarkDelivered(w) \/ MarkRefused(w)
  \/ MarkUnauthenticated(w) \/ MarkForRetry(w) \/ CountAttempts(w) \/ Bury(w)
  \/ FinishRun(w)

Next ==
  \/ \E w \in Workers : StartRun(w) \/ Step(w) \/ Abort(w) \/ PublishBreaksOff(w)
  \/ \E fp \in Fingerprints : LateAccept(fp)
  \/ Tick

Spec == Init /\ [][Next]_vars

(***************************************************************************)
(* Fairness.  A run that is not killed goes on: every await of run_once    *)
(* has a timeout (10 s for Rainbow, 15 s for AI4Trade) or is local I/O.    *)
(* That the worker is invoked again and again, now and then in live mode,  *)
(* is the operator's supervisor, outside this repository.                  *)
(***************************************************************************)
StartLive(w) == StartRun(w) /\ config'[w] \in {c \in Configs : c.mode = "live"}

Fairness == \A w \in Workers : SF_vars(StartLive(w)) /\ WF_vars(Step(w))

FairSpec == Spec /\ Fairness

(***************************************************************************)
(* Properties                                                              *)
(***************************************************************************)
TypeOK ==
  /\ now \in 0..MaxTime
  /\ table \in [Fingerprints -> OutboxRow]
  /\ pc \in [Workers -> Places]
  /\ config \in [Workers -> Configs \cup {Missing}]
  /\ inbox \in [Workers -> SUBSET Signals]
  /\ batch \in [Workers -> SUBSET Fingerprints]
  /\ entry \in [Workers -> Fingerprints \cup {Missing}]
  /\ reply \in [Workers -> Replies \cup {Missing}]
  /\ accepted \in [Fingerprints -> Nat]
  /\ open \in [Fingerprints -> Nat]
  /\ refused \in SUBSET Fingerprints
  /\ interrupted \in [Fingerprints -> Nat]
  /\ faults \in Nat

Unsettled(fp) == fp \in Pending(table)

Settled(fp) == table[fp].status \in {"sent", "dead_letter"}

\* An entry is recorded as sent only if AI4Trade turned it into a trade, in
\* every order of runs, aborts and overlaps (mark_sent after publish).
SentWasAccepted ==
  \A fp \in Fingerprints : table[fp].status = "sent" => accepted[fp] > 0

\* What was recorded as shadow evidence never reaches AI4Trade, in that run or
\* in a later live one that meets the same signal (INSERT OR IGNORE, pending()).
ShadowNeverTraded ==
  \A fp \in Fingerprints :
    table[fp].status = "shadow" => accepted[fp] = 0 /\ open[fp] = 0

\* An entry is given up only for a reason: AI4Trade refused it, or its attempts
\* are used up (the two ways into mark_dead_letter).
DeadLetterJustified ==
  \A fp \in Fingerprints :
    table[fp].status = "dead_letter" =>
      fp \in refused \/ table[fp].attempts >= MaxAttempts

\* What the outbox says of a payload is what AI4Trade did with it.
OutboxIsTruthful == SentWasAccepted /\ ShadowNeverTraded /\ DeadLetterJustified

\* The posts the running worker has made and not yet recorded.
InHand(fp) ==
  {w \in Workers : pc[w] = "mark" /\ entry[w] = fp /\ reply[w] \in {"success", "retryable"}}

\* Every trade AI4Trade made or may still make of a payload is accounted for:
\* by a counted attempt, by the sent mark, by a run that died while handling it,
\* or by the post in hand.  Without faults and retries there is no duplicate.
TradesAccountedFor ==
  \A fp \in Fingerprints :
    accepted[fp] + open[fp] <=
      table[fp].attempts + interrupted[fp]
      + (IF table[fp].status = "sent" THEN 1 ELSE 0) + Cardinality(InHand(fp))

\* An entry is attempted max_attempts times; each run that dies between the
\* UPDATE of mark_retrying and mark_dead_letter grants one attempt more.
AttemptsBounded ==
  \A fp \in Fingerprints : table[fp].attempts <= MaxAttempts + interrupted[fp]

\* A settled entry stays as it is: _set_status and mark_retrying overwrite any
\* status, so this rests on no run holding a stale snapshot of pending().
SettledIsFinal ==
  [][\A fp \in Fingerprints : Settled(fp) => table'[fp] = table[fp]]_vars

\* A queued entry is eventually sent or given up, if the worker is invoked in
\* live mode again and again and only finitely many runs die.
EveryEntrySettles == \A fp \in Fingerprints : Unsettled(fp) ~> Settled(fp)

\* docs/integration/ai4trade-delivery-worker.md: "Only fresh technical signals
\* may be delivered": when a payload is posted, its signal is still fresh.
OnlyFreshDelivered ==
  [][\A w \in Workers :
       pc[w] = "post" /\ pc'[w] = "mark" =>
         \E row \in Signals : row.id = entry'[w][1] /\ Fresh(row, now)]_vars

(***************************************************************************)
(* Inductive strengthenings, for any number of workers and for one.        *)
(***************************************************************************)
Recorded(fp) == table[fp].status \notin {"absent", "shadow"}

\* What was never queued has no trade and no request under way; what a run
\* holds in memory was queued; what it is about to write is backed by what the
\* server did or by the attempts already counted.
UnqueuedUntraded ==
  \A fp \in Fingerprints : ~Recorded(fp) => accepted[fp] = 0 /\ open[fp] = 0

HeldIsRecorded ==
  \A w \in Workers :
    /\ \A fp \in batch[w] : Recorded(fp)
    /\ entry[w] # Missing => Recorded(entry[w])

VerdictsGrounded ==
  \A w \in Workers : entry[w] # Missing =>
    /\ reply[w] = "success" => accepted[entry[w]] > 0
    /\ reply[w] \in {"auth", "permanent"} => entry[w] \in refused
    /\ pc[w] = "bury" => table[entry[w]].attempts >= MaxAttempts

SafetyInv ==
  /\ UnqueuedUntraded
  /\ HeldIsRecorded
  /\ VerdictsGrounded
  /\ SentWasAccepted
  /\ DeadLetterJustified

\* With one worker its snapshot never goes stale, and an entry whose attempts
\* are used up is either in its hands or was dropped by a run that died.
SnapshotCurrent ==
  \A w \in Workers :
    /\ \A fp \in batch[w] : Unsettled(fp) /\ fp # entry[w]
    /\ entry[w] # Missing => Unsettled(entry[w])
    /\ entry[w] # Missing <=> pc[w] \in {"mark", "count", "bury"}

BeingCounted(fp) == \E w \in Workers : pc[w] \in {"count", "bury"} /\ entry[w] = fp

AttemptsLeft ==
  \A fp \in Fingerprints :
    Unsettled(fp) /\ ~BeingCounted(fp) =>
      table[fp].attempts < MaxAttempts + interrupted[fp]

SoloInv == SnapshotCurrent /\ AttemptsLeft /\ AttemptsBounded

(***************************************************************************)
(* What one worker at a time promises: DeliveryContract.                   *)
(***************************************************************************)
Stage(row) ==
  CASE row.status = "absent" -> "none"
    [] row.status = "shadow" -> "evidence"
    [] row.status \in {"pending", "retrying"} -> "queued"
    [] row.status = "sent" -> "delivered"
    [] row.status = "dead_letter" -> "abandoned"

Contract == INSTANCE DeliveryContract WITH
  Entries <- Fingerprints,
  stage <- [fp \in Fingerprints |-> Stage(table[fp])],
  trades <- accepted,
  doubt <- open

\* One worker at a time implements the contract of the outbox.
ImplementsContract == Contract!Spec
=============================================================================
