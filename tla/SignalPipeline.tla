--------------------------- MODULE SignalPipeline ---------------------------
(***************************************************************************)
(* What RainbowEngine takes as one step: a collector loop collects a batch *)
(* from its sources, the scorer rates it, and the LLM evaluator judges its *)
(* signals concurrently (rainbow/main.py:230-236).  The loops share the    *)
(* evaluator and its cache; whatever each does between two awaits is one   *)
(* action.                                                                 *)
(*                                                                         *)
(* A batch maps the targets a collector is configured for to the signals   *)
(* they gave.  Waits are counted down and ages up, so that time goes on    *)
(* for ever in finitely many states.                                       *)
(***************************************************************************)
EXTENDS SignalScores, EvaluationCache, ModelReplies

CONSTANTS
  Lineups,      \* sets of collectors that may be enabled together
  Watch,        \* per collector: the assets of its targets, in order
  Subreddits,   \* number of subreddits read for an asset
  Raw,          \* per collector: what a source may say, None for nothing
  Predictions,  \* what the XGBoost model says, None for no model or an error
  Attempts,     \* max_retries of BitgetClient
  Models,       \* 1, or 2 with a fallback model
  Said,         \* the replies a model may give
  Timeout,      \* timeout_seconds of a model
  Threshold     \* threshold of the evaluation, in thousandths

Known == {"ta", "derivatives", "twitter", "reddit", "news"}

ASSUME PipelineAssumption ==
  /\ Lineups \subseteq SUBSET Known
  /\ Subreddits \in Nat \ {0} /\ Attempts \in Nat \ {0} /\ Models \in {1, 2}
  /\ Said \subseteq Replies
  /\ Timeout \in Nat \ {0} /\ Threshold \in 0..1000
  /\ \A c \in Known : Watch[c] \in Seq({k[1] : k \in Keys})
  /\ \A k \in Keys, d \in Directions : <<k[1], d>> \in Keys

VARIABLES
  evaluator,      \* "none", "disabled" without a key, or "ready"
  active,         \* the collectors that were built
  pc,             \* per collector: "idle", "asking" or "evaluating"
  at, tries,      \* the request under way, how often it was sent
  heard,          \* whether a request for the current target gave data
  batch,          \* signals per target
  failure,        \* what ended the collection of this cycle, None if nothing did
  tasks,          \* the evaluation of each signal
  held, order,    \* the cache: entries, keys by last use
  answered,       \* history: targets whose source gave a signal in this cycle, or in
                  \* the one before if the loop is idle
  handed,         \* history: those whose signal went on to the store
  elapsed         \* history: ticks since this evaluation began

collection == <<at, tries, heard, batch, failure, answered, handed>>
cache      == <<held, order>>
fixed      == <<evaluator, active>>
vars       == <<fixed, pc, collection, tasks, cache, elapsed>>

Targets(c) == 1..Len(Watch[c])

Members(b) == {i \in DOMAIN b : b[i] # None}

Signals(b) == [i \in Members(b) |-> b[i]]

Key(c, i) == <<Watch[c][i], batch[c][i].direction>>

-----------------------------------------------------------------------------
\* The requests of a collector.

PerTarget(c) ==
  CASE c = "derivatives" -> 3 [] c = "reddit" -> Subreddits [] OTHER -> 1

\* News are fetched once for all assets.
Requests(c) == IF c = "news" THEN 1 ELSE Len(Watch[c]) * PerTarget(c)

Concerned(c, r) ==
  IF c = "news" THEN Targets(c) ELSE {(r - 1) \div PerTarget(c) + 1}

Completes(c, r) == c = "news" \/ r % PerTarget(c) = 0

\* No data or too little, status 429, a timeout, another network error, another
\* status of 400 and above, status 401, a body that is not what it should be.
Troubles == {"none", "limited", "slow", "down", "refused", "denied", "garbage"}

Retried(c) == IF c = "ta" THEN {"slow", "down"} ELSE {}

\* Troubles that cost the signals of this request only.  Of the derivatives, the
\* ratio of long to short accounts, the last request of a target, is not used.
Skipped(c, r) ==
  CASE c = "twitter" -> {"none", "limited", "slow", "down", "refused"}
    [] c = "reddit"  -> {"none", "limited", "slow", "down", "refused", "denied"}
    [] c = "news"    -> {"none", "limited", "slow", "refused", "denied"}
    [] c = "derivatives" /\ Completes(c, r) -> {"none"}
    [] OTHER         -> {}

Fatal(c, r) == Troubles \ (Retried(c) \cup Skipped(c, r))

\* The signal a reading gives, if any.
Read(c, raw) ==
  IF raw = None THEN None
  ELSE CASE c = "ta"                    -> Technical(raw)
         [] c \in {"twitter", "reddit"} -> Sentiment("social", raw)
         [] c = "news"                  -> Sentiment("news", raw)
         [] OTHER -> IF Extreme(raw) THEN Funding(raw) ELSE None

Readings(c) == {Read(c, raw) : raw \in Raw[c]}

\* What may be scored, with what, and the records of the tasks that judge it.
Batches(c) == {b \in [Targets(c) -> Readings(c) \cup {None}] : Members(b) # {}}

Scores ==
  Predictions \cup UNION {{RainbowScore(Signals(b)) : b \in Batches(c)} : c \in Known}

Verdicts == {SafeDefault, NeutralVerdict} \cup {Build(reply) : reply \in Said}

Evaluations == [verdict : Verdicts, for : Keys, age : 0..Ttl]

CacheEntries == [evaluation : Evaluations, age : 0..Ttl]

Tasks ==
  [state : {"ready", "asked", "done"}, score : Scores, model : 1..Models,
   left : 0..Timeout, evaluation : Evaluations \cup {None}]

ASSUME NoneAssumption == None \notin Tasks /\ None \notin CacheEntries /\ None \notin Troubles

-----------------------------------------------------------------------------
\* Which collectors are built, and whether there is an evaluator.

Empty(c) == [i \in Targets(c) |-> None]

\* None is configured, or it has no key, or it is ready.
Evaluators == {"none", "disabled", "ready"}

Init ==
  /\ evaluator \in Evaluators
  /\ \E configured \in Lineups, token \in BOOLEAN :
       active = {c \in configured : c = "twitter" => token}
  /\ pc = [c \in Known |-> "idle"]
  /\ at = [c \in Known |-> 1] /\ tries = [c \in Known |-> 1]
  /\ heard = [c \in Known |-> FALSE]
  /\ batch = [c \in Known |-> Empty(c)]
  /\ failure = [c \in Known |-> None]
  /\ tasks = [c \in Known |-> Empty(c)]
  /\ held = [k \in Keys |-> None] /\ order = <<>>
  /\ answered = [c \in Known |-> {}] /\ handed = [c \in Known |-> {}]
  /\ elapsed = [c \in Known |-> 0]

-----------------------------------------------------------------------------
\* collect().

BeginCycle(c) ==
  /\ pc[c] = "idle"
  /\ pc' = [pc EXCEPT ![c] = "asking"]
  /\ tries' = [tries EXCEPT ![c] = 1]
  /\ failure' = [failure EXCEPT ![c] = None]
  /\ answered' = [answered EXCEPT ![c] = {}] /\ handed' = [handed EXCEPT ![c] = {}]
  /\ UNCHANGED <<fixed, at, heard, batch, tasks, cache, elapsed>>

\* The cycle is over, and what it collected is no longer held: with an error, it
\* is lost.
EndCycle(c) ==
  /\ pc' = [pc EXCEPT ![c] = "idle"]
  /\ at' = [at EXCEPT ![c] = 1] /\ heard' = [heard EXCEPT ![c] = FALSE]
  /\ batch' = [batch EXCEPT ![c] = Empty(c)]

Asking(c) == pc[c] = "asking" /\ at[c] <= Requests(c)

\* On to the next request; the last one for a target turns what was heard into
\* its signal.
Advance(c, some) ==
  LET here == Concerned(c, at[c])
      done == Completes(c, at[c])
  IN  /\ at' = [at EXCEPT ![c] = @ + 1]
      /\ tries' = [tries EXCEPT ![c] = 1]
      /\ heard' = [heard EXCEPT ![c] = some /\ ~done]
      /\ IF some /\ done
         THEN \E found \in [here -> Readings(c)] :
                /\ batch' = [batch EXCEPT ![c] =
                     [i \in Targets(c) |-> IF i \in here THEN found[i] ELSE @[i]]]
                /\ answered' = [answered EXCEPT ![c] = @ \cup Members(found)]
         ELSE UNCHANGED <<batch, answered>>
      /\ UNCHANGED <<fixed, pc, failure, handed, tasks, cache, elapsed>>

Answered(c) == Asking(c) /\ Advance(c, TRUE)

\* A mutant: the batch starts anew after a request without an answer.
Restart(c) ==
  /\ Asking(c) /\ Skipped(c, at[c]) # {}
  /\ at' = [at EXCEPT ![c] = @ + 1]
  /\ batch' = [batch EXCEPT ![c] = Empty(c)]
  /\ UNCHANGED <<fixed, pc, tries, heard, failure, answered, handed, tasks, cache, elapsed>>

Skip(c) ==
  /\ Asking(c) /\ Skipped(c, at[c]) # {}
  /\ Advance(c, heard[c])

Retry(c) ==
  /\ Asking(c) /\ Retried(c) # {} /\ tries[c] < Attempts
  /\ tries' = [tries EXCEPT ![c] = @ + 1]
  /\ UNCHANGED <<fixed, pc, at, heard, batch, failure, answered, handed, tasks, cache, elapsed>>

\* collect() raises: what other requests of this cycle have given is lost with
\* it, and the loop waits for its next cycle.
Fail(c) ==
  /\ Asking(c)
  /\ \E trouble \in Fatal(c, at[c]) \cup (IF tries[c] = Attempts THEN Retried(c) ELSE {}) :
       failure' = [failure EXCEPT ![c] = trouble]
  /\ EndCycle(c)
  /\ UNCHANGED <<fixed, tries, answered, handed, tasks, cache, elapsed>>

-----------------------------------------------------------------------------
\* score_and_evaluate.

Task(score) ==
  [state |-> IF evaluator = "none" THEN "done" ELSE "ready",
   score |-> score, model |-> 1, left |-> 0, evaluation |-> None]

\* What the XGBoost model says of the signals; None without one or with an error.
Predicted(among) == [among -> Predictions]

\* The whole batch gets one score, but for the signals the model has one for.
Score(c) ==
  /\ pc[c] = "asking" /\ at[c] > Requests(c)
  /\ LET signals == Signals(batch[c])
         among   == DOMAIN signals
     IN  IF among = {}
         THEN EndCycle(c) /\ UNCHANGED tasks
         ELSE /\ pc' = [pc EXCEPT ![c] = "evaluating"]
              /\ UNCHANGED <<at, heard, batch>>
              /\ \E predicted \in Predicted(among) :
                   tasks' = [tasks EXCEPT ![c] =
                     [i \in Targets(c) |->
                        IF i \notin among THEN None
                        ELSE IF predicted[i] # None THEN Task(predicted[i])
                        ELSE Task(RainbowScore(signals))]]
  /\ UNCHANGED <<fixed, tries, failure, answered, handed, cache, elapsed>>

At(c, i, state) ==
  pc[c] = "evaluating" /\ i \in Members(tasks[c]) /\ tasks[c][i].state = state

Done(c, i, evaluation) ==
  tasks' = [tasks EXCEPT ![c][i] =
              [@ EXCEPT !.state = "done", !.evaluation = evaluation, !.left = 0]]

Ask(c, i, model) ==
  tasks' = [tasks EXCEPT ![c][i] =
              [@ EXCEPT !.state = "asked", !.model = model, !.left = Timeout]]

Evaluation(verdict, key) == [verdict |-> verdict, for |-> key, age |-> 0]

\* The part of evaluate before the first model is called.
PassBy(c, i) ==
  /\ At(c, i, "ready") /\ tasks[c][i].score < Threshold
  /\ Done(c, i, None)
  /\ UNCHANGED <<fixed, pc, collection, cache, elapsed>>

Selected(c, i) == At(c, i, "ready") /\ tasks[c][i].score >= Threshold

Neutral(c, i) ==
  /\ Selected(c, i) /\ evaluator = "disabled"
  /\ Done(c, i, Evaluation(NeutralVerdict, Key(c, i)))
  /\ UNCHANGED <<fixed, pc, collection, cache, elapsed>>

\* A mutant: a hit renews the entry.
ServeAndRenew(c, i) ==
  /\ Selected(c, i) /\ evaluator = "ready"
  /\ Fresh(held, Key(c, i))
  /\ Done(c, i, held[Key(c, i)].evaluation)
  /\ held' = [held EXCEPT ![Key(c, i)].age = 0]
  /\ order' = Used(order, Key(c, i))
  /\ UNCHANGED <<fixed, pc, collection, elapsed>>

Serve(c, i) ==
  /\ Selected(c, i) /\ evaluator = "ready"
  /\ Fresh(held, Key(c, i))
  /\ Done(c, i, held[Key(c, i)].evaluation)
  /\ order' = Used(order, Key(c, i))
  /\ UNCHANGED <<fixed, pc, collection, held, elapsed>>

Miss(c, i) ==
  /\ Selected(c, i) /\ evaluator = "ready"
  /\ ~Fresh(held, Key(c, i))
  /\ held' = Forget(held, Key(c, i))
  /\ order' = Unused(order, Key(c, i))
  /\ Ask(c, i, 1)
  /\ UNCHANGED <<fixed, pc, collection, elapsed>>

\* The evaluation goes into the cache, also the safe default.
Conclude(c, i, verdict) ==
  LET evaluation == Evaluation(verdict, Key(c, i))
  IN  /\ Done(c, i, evaluation)
      /\ held' = Put(held, order, Key(c, i), evaluation)
      /\ order' = Kept(order, Key(c, i))
      /\ UNCHANGED <<fixed, pc, collection, elapsed>>

\* An object with acceptable fields, or a text in which no object is found.
ModelAnswers(c, i) ==
  /\ At(c, i, "asked")
  /\ \E reply \in {r \in Said : Usable(r)} : Conclude(c, i, Build(reply))

\* A mutant: the fallback model has a fallback as well.
ModelFailsAgain(c, i) ==
  /\ At(c, i, "asked")
  /\ \/ Ask(c, i, 1) /\ UNCHANGED <<fixed, pc, collection, cache, elapsed>>
     \/ Conclude(c, i, SafeDefault)

\* A timeout, an error, fields that AIEvaluation refuses: the fallback model
\* gets its turn, if there is one.
ModelFails(c, i) ==
  /\ At(c, i, "asked")
  /\ IF tasks[c][i].model < Models
     THEN /\ Ask(c, i, tasks[c][i].model + 1)
          /\ UNCHANGED <<fixed, pc, collection, cache, elapsed>>
     ELSE Conclude(c, i, SafeDefault)

Finished(c) ==
  pc[c] = "evaluating" /\ \A i \in Members(tasks[c]) : tasks[c][i].state = "done"

\* gather() has all results: the batch goes to the store.
HandOver(c) ==
  /\ Finished(c)
  /\ EndCycle(c)
  /\ handed' = [handed EXCEPT ![c] = Members(tasks[c])]
  /\ tasks' = [tasks EXCEPT ![c] = Empty(c)]
  /\ elapsed' = [elapsed EXCEPT ![c] = 0]
  /\ UNCHANGED <<fixed, tries, failure, answered, cache>>

-----------------------------------------------------------------------------
\* Time passes only while the event loop has nothing to run: no task that is ready
\* to start, no call that wait_for() has to cancel, no batch that is complete.
Busy ==
  \E c \in active :
    \/ Finished(c)
    \/ \E i \in Targets(c) :
         At(c, i, "ready") \/ (At(c, i, "asked") /\ tasks[c][i].left = 0)

Later(task) ==
  IF task # None /\ task.state = "asked" THEN [task EXCEPT !.left = @ - 1] ELSE task

Aged(entry) ==
  IF entry = None THEN None
  ELSE [evaluation |-> [entry.evaluation EXCEPT !.age = Older(@)],
        age        |-> Older(entry.age)]

Tick ==
  /\ ~Busy
  /\ tasks' = [c \in Known |-> [i \in Targets(c) |-> Later(tasks[c][i])]]
  /\ held' = [k \in Keys |-> Aged(held[k])]
  /\ elapsed' = [c \in Known |->
       IF pc[c] = "evaluating" /\ elapsed[c] <= Models * Timeout
       THEN elapsed[c] + 1 ELSE elapsed[c]]
  /\ UNCHANGED <<fixed, pc, collection, order>>

Evaluate(c, i) ==
  PassBy(c, i) \/ Neutral(c, i) \/ Serve(c, i) \/ Miss(c, i)
    \/ ModelAnswers(c, i) \/ ModelFails(c, i)

Loop(c) ==
  \/ BeginCycle(c) \/ Answered(c) \/ Skip(c) \/ Retry(c) \/ Fail(c)
  \/ Score(c) \/ HandOver(c)
  \/ \E i \in Targets(c) : Evaluate(c, i)

Next == Tick \/ \E c \in active : Loop(c)

Spec == Init /\ [][Next]_vars

FairSpec == Spec /\ WF_vars(Tick) /\ \A c \in Known : WF_vars(c \in active /\ Loop(c))

-----------------------------------------------------------------------------
\* Properties.

Entries == {k \in Keys : Stored(held, k)}

\* The variables have their types, and the cache holds at most MaxSize entries,
\* those whose keys it has in order.
TypeOK ==
  /\ evaluator \in Evaluators /\ active \subseteq Known
  /\ \A c \in Known :
       /\ pc[c] \in {"idle", "asking", "evaluating"}
       /\ at[c] \in 1..Requests(c) + 1 /\ tries[c] \in 1..Attempts
       /\ heard[c] \in BOOLEAN /\ failure[c] \in Troubles \cup {None}
       /\ answered[c] \subseteq Targets(c) /\ handed[c] \subseteq Targets(c)
       /\ elapsed[c] \in Nat
       /\ DOMAIN batch[c] = Targets(c) /\ DOMAIN tasks[c] = Targets(c)
       /\ Members(tasks[c]) # {} <=> pc[c] = "evaluating"
  /\ Entries = Range(order) /\ IsInjective(order) /\ Len(order) <= MaxSize
  /\ \A k \in Entries : held[k].age \in 0..Ttl

\* A signal is lost only with its whole cycle.  What the sources have given is in
\* the batch and in what is judged, and goes on to the store when the cycle ends
\* without an error, through all the trouble that its collector passes over or
\* repeats.  A trouble that collect() raises costs everything the cycle has
\* gathered, the signals of other targets too; the network alone is no such
\* trouble for Twitter and Reddit, nor for the technical analysis before the last
\* attempt.
LostOnlyWithCycle ==
  \A c \in active :
    /\ pc[c] # "idle" => failure[c] = None /\ Members(batch[c]) = answered[c]
    /\ pc[c] = "evaluating" => Members(tasks[c]) = answered[c]
    /\ pc[c] = "idle" => handed[c] = IF failure[c] = None THEN answered[c] ELSE {}
    /\ failure[c] \in {"slow", "down"} =>
         c \notin {"twitter", "reddit"} /\ (c = "ta" => tries[c] = Attempts)

\* An evaluation a signal gets was made for its own asset and direction less than
\* Ttl ago, however often the cache has served it meanwhile and whichever loop
\* had asked for it.
ServedIsRecent ==
  \A c \in active : \A i \in Members(tasks[c]) :
    LET evaluation == tasks[c][i].evaluation
    IN  evaluation # None => evaluation.for = Key(c, i) /\ evaluation.age < Ttl

\* A batch waits for its evaluations no longer than one call of each model may
\* take, whatever the models do and however many signals it has.
EvaluatedInTime ==
  \A c \in active : pc[c] = "evaluating" => elapsed[c] <= Models * Timeout

\* A cycle that has begun ends, with its batch handed over, an empty one or an
\* error: no source, model or other loop can keep a collector from its next one.
CyclesEnd == \A c \in Known : pc[c] # "idle" ~> pc[c] = "idle"
=============================================================================
