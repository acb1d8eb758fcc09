--------------------------- MODULE RainbowEngine ---------------------------
(***************************************************************************)
(* The collector loops of the Rainbow engine (rainbow/main.py) with the    *)
(* signal store they share, the canonical registry they write on the side, *)
(* the webhooks they dispatch to, and the shutdown of the engine.          *)
(*                                                                         *)
(* All of it runs on one event loop: a step goes from one await to the     *)
(* next, and a cancellation is thrown into a loop at the await it stands   *)
(* at.  The store is one aiosqlite connection, so the COMMIT of one loop   *)
(* takes the INSERTs of the others with it.  Signals are numbered in the   *)
(* order they are collected; scoring changes no state and is part of the   *)
(* collecting step.                                                        *)
(***************************************************************************)
EXTENDS Webhooks, Sequences

CONSTANTS
  Collectors,
  MaxBatch,       \* bound on the signals of one cycle
  Loads           \* bounds on the signals collected, the calls of subscribe, the
                  \* seconds that subscriptions tell apart, failed cycles and crashes,
                  \* and the sets of collectors that subscribers may ask for

ASSUME EngineAssumption ==
  /\ MaxBatch \in Nat
  /\ Loads \subseteq [signals : Nat, subs : Nat, seconds : Nat, faults : Nat,
                     filters : SUBSET SUBSET Collectors]
  /\ IsFiniteSet(Collectors)

Signals == UNION {1..l.signals : l \in Loads}
Subs    == UNION {1..l.subs : l \in Loads}

Places == {"collect", "insert", "commit", "dispatch", "deliver", "wait", "done"}

VARIABLES
  engine,        \* "up", "cancelling", "closing" or "stopped"
  place,         \* of each loop: the await it stands at
  batch, at,     \* of each loop: the signals of its cycle, the one it is at
  inflight,      \* of each loop: subscriptions being posted to
  status,        \* api._collector_status
  uncommitted, stored,   \* the signals table: inserted only, committed
  registry,      \* the canonical registry
  subs,          \* WebhookManager._subscriptions
  failures,      \* of each subscription object
  collected,     \* history: number of signals collected
  dispatched,    \* history: signals whose dispatch has ended
  abandoned,     \* history: signals of cycles that failed or were cancelled
  wanted,        \* history: of each subscription its id, second and source filter
  withdrawn,     \* history: subscriptions given back by their owner
  now, faults,
  load           \* the bounds of this behaviour

loops   == <<place, batch, at, inflight, status>>
storage == <<uncommitted, stored, registry>>
hooks   == <<subs, failures, wanted, withdrawn, now>>
history == <<collected, dispatched, abandoned>>
vars    == <<engine, loops, storage, hooks, history, faults,
                 load>>

FreshLoops ==
  /\ place' = [c \in Collectors |-> "collect"]
  /\ batch' = [c \in Collectors |-> <<>>]
  /\ at' = [c \in Collectors |-> 1]
  /\ inflight' = [c \in Collectors |-> {}]
  /\ status' = [c \in Collectors |-> "running"]

Init ==
  /\ engine = "up"
  /\ place = [c \in Collectors |-> "collect"]
  /\ batch = [c \in Collectors |-> <<>>]
  /\ at = [c \in Collectors |-> 1]
  /\ inflight = [c \in Collectors |-> {}]
  /\ status = [c \in Collectors |-> "running"]
  /\ uncommitted = {} /\ stored = {} /\ registry = {}
  /\ subs = NoTable
  /\ failures = [k \in Subs |-> 0]
  /\ collected = 0 /\ dispatched = {} /\ abandoned = {}
  /\ wanted = <<>> /\ withdrawn = {}
  /\ now = 0 /\ faults = 0
  /\ load \in Loads

Fault == faults < load.faults /\ faults' = faults + 1

Goto(c, p) == place' = [place EXCEPT ![c] = p]

Current(c) == batch[c][at[c]]

InBatch(c) == {batch[c][i] : i \in 1..Len(batch[c])}

\* Mutant: the loop over the batch runs one signal too far.
AdvanceTooFar(c, p, after) ==
  IF at[c] <= Len(batch[c])
  THEN Goto(c, p) /\ at' = [at EXCEPT ![c] = @ + 1]
  ELSE Goto(c, after) /\ at' = [at EXCEPT ![c] = 1]

\* The loop is at the first signal again, now to dispatch, or at the next one.
Advance(c, p, after) ==
  IF at[c] < Len(batch[c])
  THEN Goto(c, p) /\ at' = [at EXCEPT ![c] = @ + 1]
  ELSE Goto(c, after) /\ at' = [at EXCEPT ![c] = 1]

(***************************************************************************)
(* One cycle of a loop                                                     *)
(***************************************************************************)
Collect(c) ==
  /\ engine = "up" /\ place[c] = "collect"
  /\ \E n \in 0..MaxBatch :
       /\ collected + n <= load.signals
       /\ collected' = collected + n
       /\ batch' = [batch EXCEPT ![c] = [i \in 1..n |-> collected + i]]
       /\ Goto(c, IF n = 0 THEN "wait" ELSE "insert")
  /\ UNCHANGED <<engine, at, inflight, status, storage, hooks, dispatched, abandoned, faults, load>>

\* Mutant: the side-write does not wait for the store.
InsertAndAppend(c) ==
  /\ engine = "up" /\ place[c] = "insert"
  /\ uncommitted' = uncommitted \cup {Current(c)}
  /\ registry' = registry \cup {Current(c)}
  /\ Goto(c, "commit")
  /\ UNCHANGED <<engine, batch, at, inflight, status, stored, hooks, history, faults, load>>

\* store.save, up to its first await: INSERT OR IGNORE of a fresh signal_id.
Insert(c) ==
  /\ engine = "up" /\ place[c] = "insert"
  /\ uncommitted' = uncommitted \cup {Current(c)}
  /\ Goto(c, "commit")
  /\ UNCHANGED <<engine, batch, at, inflight, status, stored, registry, hooks,
                 history, faults,
                 load>>

\* The COMMIT, and without an await the side-write, whose errors are swallowed.
Commit(c) ==
  /\ engine = "up" /\ place[c] = "commit"
  /\ stored' = stored \cup uncommitted \cup {Current(c)}
  /\ uncommitted' = {}
  /\ registry' \in {registry, registry \cup {Current(c)}}
  /\ Advance(c, "insert", "dispatch")
  /\ UNCHANGED <<engine, batch, inflight, status, hooks, history, faults, load>>

\* The subscriptions a dispatch posts to; _subscriptions is copied first.
Matching(c) ==
  {k \in Registered(subs) : Enabled(failures, k) /\ c \in wanted[k].sources}

Dispatch(c) ==
  /\ engine = "up" /\ place[c] = "dispatch"
  /\ inflight' = [inflight EXCEPT ![c] = Matching(c)]
  /\ Goto(c, "deliver")
  /\ UNCHANGED <<engine, batch, at, status, storage, hooks, history, faults, load>>

\* One of the concurrent posts of a dispatch is answered.
Answer(c) ==
  /\ engine = "up" /\ place[c] = "deliver"
  /\ \E k \in inflight[c], answer \in {"ok", "failed", "unknown"} :
       /\ failures' = Count(failures, k, answer)
       /\ inflight' = [inflight EXCEPT ![c] = @ \ {k}]
  /\ UNCHANGED <<engine, place, batch, at, status, storage, subs, wanted, withdrawn, now,
                 history, faults,
                 load>>

\* Mutant: the loop over the batch is left after one signal.
DispatchDoneOnce(c) ==
  /\ engine = "up" /\ place[c] = "deliver" /\ inflight[c] = {}
  /\ dispatched' = dispatched \cup {Current(c)}
  /\ Goto(c, "wait") /\ at' = [at EXCEPT ![c] = 1]
  /\ UNCHANGED <<engine, batch, inflight, status, storage, hooks, collected, abandoned, faults, load>>

DispatchDone(c) ==
  /\ engine = "up" /\ place[c] = "deliver" /\ inflight[c] = {}
  /\ dispatched' = dispatched \cup {Current(c)}
  /\ Advance(c, "dispatch", "wait")
  /\ UNCHANGED <<engine, batch, inflight, status, storage, hooks, collected, abandoned, faults, load>>

EndCycle(c) ==
  /\ batch' = [batch EXCEPT ![c] = <<>>]
  /\ at' = [at EXCEPT ![c] = 1]
  /\ inflight' = [inflight EXCEPT ![c] = {}]
  /\ abandoned' = abandoned \cup (InBatch(c) \ dispatched)

\* collect, the scorer, the INSERT or the COMMIT raises: the rest of the cycle
\* is skipped.  A row whose COMMIT failed waits for the next COMMIT.
CycleFails(c) ==
  /\ engine = "up" /\ place[c] \in {"collect", "insert", "commit"} /\ Fault
  /\ EndCycle(c)
  /\ Goto(c, "wait")
  /\ status' = [status EXCEPT ![c] = "error"]
  /\ UNCHANGED <<engine, storage, hooks, collected, dispatched, load>>

\* The interval is over: the collector counts as running before it has run.
Wake(c) ==
  /\ engine = "up" /\ place[c] = "wait"
  /\ Goto(c, "collect")
  /\ batch' = [batch EXCEPT ![c] = <<>>]
  /\ status' = [status EXCEPT ![c] = "running"]
  /\ UNCHANGED <<engine, at, inflight, storage, hooks, history, faults, load>>

(***************************************************************************)
(* The API                                                                 *)
(***************************************************************************)
Subscribe ==
  /\ engine = "up" /\ Len(wanted) < load.subs
  /\ \E sources \in load.filters :
       wanted' = Append(wanted, [id |-> SubId(subs, now), made |-> now, sources |-> sources])
  /\ subs' = Register(subs, SubId(subs, now), Len(wanted) + 1)
  /\ UNCHANGED <<engine, loops, storage, failures, withdrawn, now, history, faults, load>>

\* The owner of a subscription gives its id back.
Unsubscribe ==
  /\ engine = "up"
  /\ \E k \in 1..Len(wanted) :
       /\ k \notin withdrawn /\ wanted[k].id \in DOMAIN subs
       /\ withdrawn' = withdrawn \cup {k}
       /\ subs' = Remove(subs, wanted[k].id)
  /\ UNCHANGED <<engine, loops, storage, failures, wanted, now, history, faults, load>>

Tick ==
  /\ now < load.seconds
  /\ now' = now + 1
  /\ UNCHANGED <<engine, loops, storage, subs, failures, wanted, withdrawn, history, faults, load>>

(***************************************************************************)
(* Shutdown, crash and restart                                             *)
(***************************************************************************)

\* The event is set and every task is cancelled.
BeginShutdown ==
  /\ engine = "up"
  /\ engine' = "cancelling"
  /\ UNCHANGED <<loops, storage, hooks, history, faults, load>>

\* A loop meets the CancelledError at its await.  The thread of the connection
\* may have carried the statement out that the loop was waiting for.
Cancelled(c) ==
  /\ engine = "cancelling" /\ place[c] # "done"
  /\ EndCycle(c)
  /\ Goto(c, "done")
  /\ \/ UNCHANGED <<uncommitted, stored>>
     \/ /\ place[c] = "insert"
        /\ uncommitted' = uncommitted \cup {Current(c)} /\ UNCHANGED stored
     \/ /\ place[c] = "commit"
        /\ stored' = stored \cup uncommitted /\ uncommitted' = {}
  /\ UNCHANGED <<engine, status, registry, hooks, collected, dispatched, faults, load>>

\* Mutant: the connection is closed without waiting for the loops.
StopStoreEarly ==
  /\ engine = "cancelling"
  /\ engine' = "closing"
  /\ uncommitted' = {}
  /\ UNCHANGED <<loops, stored, registry, hooks, history, faults, load>>

\* gather has returned; closing the connection drops what was not committed.
StopStore ==
  /\ engine = "cancelling" /\ \A c \in Collectors : place[c] = "done"
  /\ engine' = "closing"
  /\ uncommitted' = {}
  /\ UNCHANGED <<loops, stored, registry, hooks, history, faults, load>>

CloseWebhooks ==
  /\ engine = "closing"
  /\ engine' = "stopped"
  /\ status' = [c \in Collectors |-> "stopped"]
  /\ UNCHANGED <<place, batch, at, inflight, storage, hooks, history, faults, load>>

\* The process starts anew: the subscriptions were in memory only.
Restarted ==
  /\ engine' = "up"
  /\ FreshLoops
  /\ uncommitted' = {}
  /\ subs' = NoTable /\ withdrawn' = 1..Len(wanted)
  /\ abandoned' = abandoned \cup (1..collected \ dispatched)
  /\ UNCHANGED <<stored, registry, failures, wanted, now, collected, dispatched, load>>

Restart == engine = "stopped" /\ Restarted /\ UNCHANGED faults

Crash == engine # "stopped" /\ Fault /\ Restarted

Step(c) ==
  \/ Collect(c) \/ Insert(c) \/ Commit(c) \/ Dispatch(c) \/ Answer(c)
  \/ DispatchDone(c) \/ CycleFails(c) \/ Wake(c) \/ Cancelled(c)

Next ==
  \/ \E c \in Collectors : Step(c)
  \/ Subscribe \/ Unsubscribe \/ Tick
  \/ BeginShutdown \/ StopStore \/ CloseWebhooks \/ Restart \/ Crash

Spec == Init /\ [][Next]_vars

\* Posts to subscribers time out after 10 s and the store is local, so every
\* loop goes on; so does a shutdown, which is the server's own coroutine.
FairSpec ==
  /\ Spec
  /\ \A c \in Collectors : WF_vars(Step(c))
  /\ WF_vars(StopStore) /\ WF_vars(CloseWebhooks)

(***************************************************************************)
(* Properties                                                              *)
(***************************************************************************)
TypeOK ==
  /\ engine \in {"up", "cancelling", "closing", "stopped"}
  /\ place \in [Collectors -> Places]
  /\ \A c \in Collectors :
       /\ batch[c] \in Seq(Signals) /\ Len(batch[c]) <= MaxBatch
       /\ at[c] \in 1..(Len(batch[c]) + 1)
       /\ inflight[c] \subseteq Subs
       /\ status[c] \in {"running", "error", "stopped"}
       /\ place[c] \in {"insert", "commit", "dispatch", "deliver"} => at[c] <= Len(batch[c])
  /\ uncommitted \subseteq Signals /\ stored \subseteq Signals /\ registry \subseteq Signals
  /\ Registered(subs) \subseteq Subs
  /\ failures \in [Subs -> Nat]
  /\ load \in Loads
  /\ collected \in 0..load.signals
  /\ dispatched \subseteq Signals /\ abandoned \subseteq Signals
  /\ withdrawn \subseteq Subs
  /\ now \in 0..load.seconds /\ faults \in 0..load.faults

\* Nobody hears of a signal before the store holds it for good.  The side-write
\* to the registry follows the COMMIT (rainbow/main.py, save before append), and
\* dispatching begins when the whole batch has been saved, through every failure,
\* cancellation and crash of either loop on the shared connection.
StoreIsAhead ==
  /\ registry \subseteq stored
  /\ dispatched \subseteq stored
  /\ \A c \in Collectors : place[c] \in {"dispatch", "deliver"} => InBatch(c) \subseteq stored

\* No collected signal vanishes: it is in the hands of its loop, dispatched, or
\* its cycle failed or was cancelled.
EverySignalAccounted ==
  \A s \in 1..collected :
    s \in dispatched \cup abandoned \/ \E c \in Collectors : s \in InBatch(c)

\* A disabled subscription is passed over, but posts of other loops that are
\* under way may still fail: MAX_FAILURES is overshot by less than their number.
FailuresBounded ==
  \A k \in Subs : failures[k] <= MaxFailures + Cardinality(Collectors) - 1

\* Who subscribes stays subscribed until he unsubscribes, except that two
\* subscriptions made in one second may share an id and replace each other
\* (WebhookManager.subscribe).
LostOnlyInSameSecond ==
  \A k \in 1..Len(wanted) :
    k \in withdrawn \cup Registered(subs)
    \/ \E j \in 1..Len(wanted) : j # k /\ wanted[j].made = wanted[k].made

\* When the connection of the store is closed no loop is left to use it, and
\* nothing changes the final status of a collector.
NothingAfterClose ==
  engine \in {"closing", "stopped"} => \A c \in Collectors : place[c] = "done"

\* What was stored is dispatched, unless its cycle ends early.
StoredIsDispatched ==
  \A s \in Signals : s \in stored ~> s \in dispatched \cup abandoned
=============================================================================
