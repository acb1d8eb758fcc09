--------------------------- MODULE PipelineProofs ---------------------------
(***************************************************************************)
(* Theorems about SignalPipeline: a batch is judged in bounded time, what  *)
(* is served from the cache is recent, trouble is contained, and the cache *)
(* stays in order, for every set of collectors, targets, models and times. *)
(***************************************************************************)
EXTENDS SignalPipeline, SequenceTheorems, TLAPS

LEMMA Spans ==
  /\ Timeout \in Nat \ {0} /\ Ttl \in Nat \ {0}
  /\ Models \in {1, 2} /\ 1 \in 1..Models /\ Models \in Nat
BY PipelineAssumption, CacheAssumption

\* The shapes of batches and tasks, on which everything else rests.
Shape ==
  /\ active \subseteq Known
  /\ pc \in [Known -> {"idle", "asking", "evaluating"}]
  /\ \A c \in Known \ active : pc[c] = "idle"
  /\ DOMAIN batch = Known /\ DOMAIN tasks = Known
  /\ \A c \in Known :
       /\ batch[c] \in [Targets(c) -> Readings(c) \cup {None}]
       /\ tasks[c] \in [Targets(c) -> Tasks \cup {None}]
       /\ Members(tasks[c]) \subseteq Members(batch[c])
       /\ pc[c] # "evaluating" => Members(tasks[c]) = {}
  /\ held \in [Keys -> CacheEntries \cup {None}]

LEMMA ReadingsHaveDirection ==
  ASSUME NEW c \in Known, NEW s \in Readings(c), s # None
  PROVE  s.direction \in Directions
<1> PICK raw \in Raw[c] : s = Read(c, raw)
  BY DEF Readings
<1>1. \A ind : Technical(ind).direction \in Directions
  BY DEF Technical, Signal, TechnicalDirection, Directions
<1>2. \A type, count : Sentiment(type, count).direction \in Directions
  BY DEF Sentiment, Signal, Directions
<1>3. \A rate : Funding(rate).direction \in Directions
  BY DEF Funding, Signal, Directions
<1> QED BY <1>1, <1>2, <1>3 DEF Read, Known

LEMMA KeysAreKeys ==
  ASSUME Shape, NEW c \in Known, NEW i \in Members(tasks[c])
  PROVE  Key(c, i) \in Keys
<1>1. i \in Targets(c) /\ batch[c][i] # None /\ batch[c][i] \in Readings(c)
  BY DEF Shape, Members
<1>2. batch[c][i].direction \in Directions
  BY <1>1, ReadingsHaveDirection
<1>3. Watch[c] \in Seq({k[1] : k \in Keys})
  BY PipelineAssumption
<1>4. Watch[c][i] \in {k[1] : k \in Keys}
  BY <1>1, <1>3 DEF Targets
<1> QED BY <1>2, <1>4, PipelineAssumption DEF Key

\* How much of the time a task may take it has had at least; a task that is done
\* needs none.
Spent(t) ==
  CASE t.state = "ready" -> 0
    [] t.state = "asked" -> t.model * Timeout - t.left
    [] OTHER             -> Models * Timeout

LEMMA SpentIsBounded ==
  ASSUME NEW t \in Tasks
  PROVE  /\ Spent(t) \in 0..Models * Timeout
         /\ t.state = "ready" => Spent(t) = 0
         /\ t.state = "asked" => Spent(t) <= t.model * Timeout - t.left
<1>1. /\ t.state \in {"ready", "asked", "done"}
      /\ t.model \in 1..Models /\ t.left \in 0..Timeout
  BY DEF Tasks
<1>2. 1 * Timeout = Timeout /\ 2 * Timeout = Timeout + Timeout
  BY Spans
<1>3. CASE Models = 1
  <2>1. t.model = 1
    BY <1>1, <1>3
  <2> QED BY <1>1, <1>2, <1>3, <2>1, Spans DEF Spent
<1>4. CASE Models = 2
  <2>1. t.model = 1 \/ t.model = 2
    BY <1>1, <1>4
  <2> QED BY <1>1, <1>2, <1>4, <2>1, Spans DEF Spent
<1> QED BY <1>3, <1>4, Spans

\* What the two ways of changing a task make of it.
Judged(c, i, t) == tasks' = [tasks EXCEPT ![c][i] = t]

Judges(c, i, evaluations) ==
  \E t \in Tasks : /\ Judged(c, i, t) /\ t.evaluation \in evaluations
                   /\ Spent(tasks[c][i]) <= Spent(t)

LEMMA DoneIsJudged ==
  ASSUME Shape, NEW c \in Known, NEW i \in Members(tasks[c]),
         NEW e \in Evaluations \cup {None}, Done(c, i, e)
  PROVE  Judges(c, i, {e})
<1> DEFINE t == [tasks[c][i] EXCEPT !.state = "done", !.evaluation = e, !.left = 0]
<1>1. i \in Targets(c) /\ tasks[c][i] \in Tasks
  BY DEF Shape, Members
<1>2. t \in Tasks /\ t.state = "done" /\ t.evaluation = e
  <2>1. 0 \in 0..Timeout
    BY Spans
  <2> QED BY <1>1, <2>1 DEF Tasks
<1>3. Judged(c, i, t)
  BY DEF Judged, Done
<1>4. Spent(tasks[c][i]) <= Spent(t)
  <2>1. Spent(t) = Models * Timeout
    BY <1>2 DEF Spent
  <2> QED BY <1>1, <2>1, SpentIsBounded
<1> QED BY <1>2, <1>3, <1>4 DEF Judges

LEMMA AskIsJudged ==
  ASSUME Shape, NEW c \in Known, NEW i \in Members(tasks[c]),
         NEW model \in 1..Models, Ask(c, i, model),
         \/ tasks[c][i].state = "ready" /\ model = 1
         \/ tasks[c][i].state = "asked" /\ model = tasks[c][i].model + 1
  PROVE  Judges(c, i, {tasks[c][i].evaluation})
<1> DEFINE s == tasks[c][i]
           t == [s EXCEPT !.state = "asked", !.model = model, !.left = Timeout]
<1>1. i \in Targets(c) /\ s \in Tasks
  BY DEF Shape, Members
<1>2. /\ t \in Tasks /\ t.state = "asked" /\ t.model = model /\ t.left = Timeout
      /\ t.evaluation = s.evaluation
  <2>1. Timeout \in 0..Timeout
    BY Spans
  <2> QED BY <1>1, <2>1 DEF Tasks
<1>3. Judged(c, i, t)
  BY DEF Judged, Ask
<1>4. Spent(s) <= Spent(t)
  <2>1. Spent(t) = model * Timeout - Timeout
    BY <1>2 DEF Spent
  <2>2. 1 * Timeout = Timeout /\ 2 * Timeout = Timeout + Timeout
    BY Spans
  <2>3. CASE s.state = "ready" /\ model = 1
    <3>1. Spent(s) = 0
      BY <2>3 DEF Spent
    <3> QED BY <2>1, <2>2, <2>3, <3>1, Spans
  <2>4. CASE s.state = "asked" /\ model = s.model + 1
    <3>1. s.model \in 1..Models /\ s.left \in 0..Timeout
      BY <1>1 DEF Tasks
    <3>2. s.model = 1 /\ model = 2
      BY <2>4, <3>1, Spans
    <3>3. Spent(s) = 1 * Timeout - s.left
      BY <2>4, <3>2 DEF Spent
    <3> QED BY <2>1, <2>2, <3>1, <3>2, <3>3, Spans
  <2> QED BY <2>3, <2>4
<1> QED BY <1>2, <1>3, <1>4 DEF Judges

\* A task that changes stays a task; Shape outlives that.
LEMMA JudgedKeepsMembers ==
  ASSUME Shape, NEW c \in Known, NEW i \in Members(tasks[c]), NEW t \in Tasks,
         Judged(c, i, t)
  PROVE  /\ DOMAIN tasks' = Known /\ \A d \in Known : d # c => tasks'[d] = tasks[d]
         /\ tasks'[c] \in [Targets(c) -> Tasks \cup {None}]
         /\ tasks'[c] = [tasks[c] EXCEPT ![i] = t] /\ i \in Targets(c)
         /\ Members(tasks'[c]) = Members(tasks[c])
<1>1. i \in Targets(c) /\ tasks[c][i] # None
  BY DEF Shape, Members
<1>2. /\ DOMAIN tasks' = Known /\ \A d \in Known : d # c => tasks'[d] = tasks[d]
      /\ tasks'[c] = [tasks[c] EXCEPT ![i] = t]
  BY DEF Shape, Judged
<1>3. tasks'[c] \in [Targets(c) -> Tasks \cup {None}]
  BY <1>2 DEF Shape
<1>4. Members(tasks'[c]) = Members(tasks[c])
  BY <1>1, <1>2, <1>3, NoneAssumption DEF Members, Shape
<1> QED BY <1>1, <1>2, <1>3, <1>4

LEMMA JudgedKeepsShape ==
  ASSUME Shape, NEW c \in Known, NEW i \in Members(tasks[c]), NEW t \in Tasks,
         Judged(c, i, t), UNCHANGED <<active, pc, batch>>,
         held' \in [Keys -> CacheEntries \cup {None}]
  PROVE  Shape'
<1>1. DOMAIN tasks' = Known
  BY JudgedKeepsMembers
<1>2. ASSUME NEW d \in Known
      PROVE  /\ tasks'[d] \in [Targets(d) -> Tasks \cup {None}]
             /\ Members(tasks'[d]) = Members(tasks[d])
  <2>1. CASE d # c
    BY <2>1, JudgedKeepsMembers DEF Shape
  <2>2. CASE d = c
    BY <2>2, JudgedKeepsMembers
  <2> QED BY <2>1, <2>2
<1> QED BY <1>1, <1>2 DEF Shape, Members, Targets, Readings

-----------------------------------------------------------------------------
LEMMA InitShape == Init => Shape
<1> SUFFICES ASSUME Init PROVE Shape
  OBVIOUS
<1>1. /\ active \subseteq Known
      /\ pc = [c \in Known |-> "idle"]
      /\ batch = [c \in Known |-> Empty(c)] /\ tasks = [c \in Known |-> Empty(c)]
      /\ held = [k \in Keys |-> None]
  <2> PICK configured \in Lineups, token \in BOOLEAN :
        active = {c \in configured : c = "twitter" => token}
    BY DEF Init
  <2>1. active \subseteq Known
    BY PipelineAssumption
  <2> QED BY <2>1 DEF Init
<1>2. ASSUME NEW c \in Known
      PROVE  Members(Empty(c)) = {} /\ \A S : Empty(c) \in [Targets(c) -> S \cup {None}]
  BY DEF Empty, Members
<1> QED BY <1>1, <1>2 DEF Shape

\* What the end of a cycle leaves of it.
LEMMA EndedKeepsShape ==
  ASSUME Shape, NEW c \in Known, EndCycle(c), UNCHANGED <<active, held>>,
         \/ tasks' = [tasks EXCEPT ![c] = Empty(c)]
         \/ tasks[c] = Empty(c) /\ UNCHANGED tasks
  PROVE  Shape'
<1>1. /\ batch' = [batch EXCEPT ![c] = Empty(c)]
      /\ pc' = [pc EXCEPT ![c] = "idle"]
  BY DEF EndCycle
<1>2. Members(Empty(c)) = {} /\ \A S : Empty(c) \in [Targets(c) -> S \cup {None}]
  BY DEF Empty, Members
<1>3. /\ DOMAIN tasks' = Known /\ tasks'[c] = Empty(c)
      /\ \A d \in Known : d # c => tasks'[d] = tasks[d]
  <2>1. CASE tasks' = [tasks EXCEPT ![c] = Empty(c)]
    BY <2>1 DEF Shape
  <2>2. CASE tasks[c] = Empty(c) /\ UNCHANGED tasks
    BY <2>2 DEF Shape
  <2> QED BY <2>1, <2>2
<1>4. ASSUME NEW d \in Known
      PROVE  /\ batch'[d] \in [Targets(d) -> Readings(d) \cup {None}]
             /\ tasks'[d] \in [Targets(d) -> Tasks \cup {None}]
             /\ Members(tasks'[d]) \subseteq Members(batch'[d])
             /\ pc'[d] # "evaluating" => Members(tasks'[d]) = {}
  <2>1. CASE d = c
    BY <1>1, <1>2, <1>3, <2>1 DEF Shape
  <2>2. CASE d # c
    BY <1>1, <1>3, <2>2 DEF Shape
  <2> QED BY <2>1, <2>2
<1> QED BY <1>1, <1>3, <1>4 DEF Shape

\* Where the evaluation of a task may come from, and an entry of the cache.
Origins(c, i) ==
  {None, tasks[c][i].evaluation}
    \cup {Evaluation(verdict, Key(c, i)) : verdict \in Verdicts}
    \cup {held[k].evaluation : k \in {j \in {Key(c, i)} : Fresh(held, j)}}

HeldKept ==
  /\ held' = [k \in Keys |-> held'[k]]
  /\ \A k \in Keys : held'[k] \in
       {None, held[k]} \cup {Entry(Evaluation(verdict, k)) : verdict \in Verdicts}

\* One action changes one task at most, and the cache with it.
LEMMA EvaluateJudges ==
  ASSUME Shape, NEW c \in active, NEW i \in Targets(c), Evaluate(c, i)
  PROVE  /\ c \in Known /\ i \in Members(tasks[c]) /\ pc[c] = "evaluating"
         /\ Judges(c, i, Origins(c, i))
         /\ UNCHANGED <<fixed, pc, collection, elapsed>>
         /\ HeldKept
<1>1. c \in Known
  BY DEF Shape
<1>2. \A state : At(c, i, state) =>
        /\ i \in Members(tasks[c]) /\ pc[c] = "evaluating" /\ tasks[c][i].state = state
  BY DEF At
<1>3. i \in Members(tasks[c]) /\ pc[c] = "evaluating"
  BY <1>2 DEF Evaluate, PassBy, Neutral, Serve, Miss, ModelAnswers, ModelFails, Selected
<1>4. Key(c, i) \in Keys
  BY <1>1, <1>3, KeysAreKeys
<1>5. held \in [Keys -> CacheEntries \cup {None}]
  BY DEF Shape
<1>6. ASSUME NEW verdict \in Verdicts
      PROVE  Evaluation(verdict, Key(c, i)) \in Evaluations
  <2>1. 0 \in 0..Ttl
    BY Spans
  <2> QED BY <1>4, <2>1 DEF Evaluation, Evaluations
<1>7. ASSUME NEW e, e \in Origins(c, i), Judges(c, i, {e})
      PROVE  Judges(c, i, Origins(c, i))
  BY <1>7 DEF Judges
<1>8. ASSUME UNCHANGED held PROVE HeldKept
  BY <1>5, <1>8 DEF HeldKept
<1>9. ASSUME NEW verdict \in Verdicts, Conclude(c, i, verdict)
      PROVE  /\ Judges(c, i, Origins(c, i))
             /\ UNCHANGED <<fixed, pc, collection, elapsed>>
             /\ HeldKept
  <2> DEFINE e == Evaluation(verdict, Key(c, i))
  <2>1. /\ Done(c, i, e) /\ held' = Put(held, order, Key(c, i), e)
        /\ UNCHANGED <<fixed, pc, collection, elapsed>>
    BY <1>9 DEF Conclude
  <2>2. Judges(c, i, {e})
    BY <1>1, <1>3, <1>6, <2>1, DoneIsJudged
  <2>3. e \in Origins(c, i)
    BY DEF Origins
  <2>4. HeldKept
    BY <1>5, <2>1 DEF Put, HeldKept
  <2> HIDE DEF e
  <2> QED BY <1>7, <2>1, <2>2, <2>3, <2>4
<1>10. CASE PassBy(c, i)
  <2>1. Done(c, i, None) /\ UNCHANGED <<fixed, pc, collection, cache, elapsed>>
    BY <1>10 DEF PassBy
  <2>2. None \in Origins(c, i) /\ Judges(c, i, {None})
    BY <1>1, <1>3, <2>1, DoneIsJudged DEF Origins
  <2> QED BY <1>1, <1>3, <1>7, <1>8, <2>1, <2>2 DEF cache
<1>11. CASE Neutral(c, i)
  <2> DEFINE e == Evaluation(NeutralVerdict, Key(c, i))
  <2>1. Done(c, i, e) /\ UNCHANGED <<fixed, pc, collection, cache, elapsed>>
    BY <1>11 DEF Neutral
  <2>2. e \in Origins(c, i) /\ Judges(c, i, {e})
    <3>1. NeutralVerdict \in Verdicts
      BY DEF Verdicts
    <3> QED BY <1>1, <1>3, <1>6, <2>1, <3>1, DoneIsJudged DEF Origins
  <2> HIDE DEF e
  <2> QED BY <1>1, <1>3, <1>7, <1>8, <2>1, <2>2 DEF cache
<1>12. CASE Serve(c, i)
  <2> DEFINE e == held[Key(c, i)].evaluation
  <2>1. Done(c, i, e) /\ Fresh(held, Key(c, i)) /\ UNCHANGED <<fixed, pc, collection, held, elapsed>>
    BY <1>12 DEF Serve
  <2>2. e \in Evaluations
    BY <1>4, <1>5, <2>1 DEF CacheEntries, Fresh, Stored
  <2>3. e \in Origins(c, i) /\ Judges(c, i, {e})
    BY <1>1, <1>3, <2>1, <2>2, DoneIsJudged DEF Origins
  <2> HIDE DEF e
  <2> QED BY <1>1, <1>3, <1>7, <1>8, <2>1, <2>3
<1>13. CASE Miss(c, i)
  <2>1. /\ Ask(c, i, 1) /\ held' = Forget(held, Key(c, i))
        /\ tasks[c][i].state = "ready"
        /\ UNCHANGED <<fixed, pc, collection, elapsed>>
    BY <1>2, <1>13 DEF Miss, Selected
  <2>2. HeldKept
    BY <1>5, <2>1 DEF Forget, HeldKept
  <2>3. Judges(c, i, {tasks[c][i].evaluation}) /\ tasks[c][i].evaluation \in Origins(c, i)
    BY <1>1, <1>3, <2>1, AskIsJudged, Spans DEF Origins
  <2> QED BY <1>1, <1>3, <1>7, <2>1, <2>2, <2>3
<1>14. CASE ModelAnswers(c, i)
  <2> PICK reply \in Said : Conclude(c, i, Build(reply))
    BY <1>14 DEF ModelAnswers
  <2>1. Build(reply) \in Verdicts
    BY DEF Verdicts
  <2> QED BY <1>1, <1>3, <1>9, <2>1
<1>15. CASE ModelFails(c, i)
  <2>1. CASE tasks[c][i].model < Models
    <3>1. /\ Ask(c, i, tasks[c][i].model + 1) /\ tasks[c][i].state = "asked"
          /\ UNCHANGED <<fixed, pc, collection, cache, elapsed>>
      BY <1>2, <1>15, <2>1 DEF ModelFails
    <3>2. tasks[c][i].model + 1 \in 1..Models
      <4>1. tasks[c][i] \in Tasks
        BY <1>1, <1>3 DEF Shape, Members
      <4>2. tasks[c][i].model \in 1..Models
        BY <4>1 DEF Tasks
      <4> QED BY <2>1, <4>2, Spans
    <3>3. Judges(c, i, {tasks[c][i].evaluation}) /\ tasks[c][i].evaluation \in Origins(c, i)
      BY <1>1, <1>3, <3>1, <3>2, AskIsJudged DEF Origins
    <3> QED BY <1>1, <1>3, <1>7, <1>8, <3>1, <3>3 DEF cache
  <2>2. CASE ~(tasks[c][i].model < Models)
    <3>1. Conclude(c, i, SafeDefault) /\ SafeDefault \in Verdicts
      BY <1>15, <2>2 DEF ModelFails, Verdicts
    <3> QED BY <1>1, <1>3, <1>9, <3>1
  <2> QED BY <2>1, <2>2
<1> QED BY <1>10, <1>11, <1>12, <1>13, <1>14, <1>15 DEF Evaluate

LEMMA HeldKeptKeepsType ==
  ASSUME Shape, HeldKept
  PROVE  held' \in [Keys -> CacheEntries \cup {None}]
<1>1. ASSUME NEW verdict \in Verdicts, NEW k \in Keys
      PROVE  Entry(Evaluation(verdict, k)) \in CacheEntries
  <2>1. 0 \in 0..Ttl
    BY Spans
  <2> QED BY <2>1 DEF Evaluation, Evaluations, Entry, CacheEntries
<1> QED BY <1>1 DEF HeldKept, Shape

\* What time makes of a task and of an entry.
LEMMA LaterIsTask ==
  ASSUME NEW t \in Tasks \cup {None}, t # None /\ t.state = "asked" => t.left # 0
  PROVE  /\ Later(t) \in Tasks \cup {None}
         /\ Later(t) = None <=> t = None
<1>1. CASE t # None /\ t.state = "asked"
  <2>1. t \in Tasks /\ t.left \in 1..Timeout
    BY <1>1, Spans DEF Tasks
  <2>2. t.left - 1 \in 0..Timeout
    BY <2>1, Spans
  <2>3. Later(t) = [t EXCEPT !.left = t.left - 1]
    BY <1>1 DEF Later
  <2>4. Later(t) \in Tasks
    BY <2>1, <2>2, <2>3 DEF Tasks
  <2> QED BY <1>1, <2>4, NoneAssumption
<1>2. CASE ~(t # None /\ t.state = "asked")
  BY <1>2 DEF Later
<1> QED BY <1>1, <1>2

LEMMA AgedIsEntry ==
  ASSUME NEW e \in CacheEntries \cup {None}
  PROVE  Aged(e) \in CacheEntries \cup {None}
<1>1. CASE e = None
  BY <1>1 DEF Aged
<1>2. CASE e # None
  <2>1. e \in CacheEntries /\ e.evaluation \in Evaluations /\ e.age \in 0..Ttl
    BY <1>2 DEF CacheEntries
  <2>2. \A age \in 0..Ttl : Older(age) \in 0..Ttl
    BY Spans DEF Older
  <2>3. [e.evaluation EXCEPT !.age = Older(@)] \in Evaluations
    BY <2>1, <2>2 DEF Evaluations
  <2> QED BY <1>2, <2>1, <2>2, <2>3 DEF Aged, CacheEntries
<1> QED BY <1>1, <1>2

\* While time passes no call has used up its time.
LEMMA IdleHasTimeLeft ==
  ASSUME Shape, ~Busy, NEW c \in Known, NEW i \in Targets(c),
         tasks[c][i] # None, tasks[c][i].state = "asked"
  PROVE  c \in active /\ pc[c] = "evaluating" /\ tasks[c][i].left # 0
<1>1. i \in Members(tasks[c])
  BY DEF Members, Shape
<1>2. pc[c] = "evaluating" /\ c \in active
  BY <1>1 DEF Shape
<1> QED BY <1>1, <1>2 DEF Busy, At

LEMMA TickKeepsMembers ==
  ASSUME Shape, Tick, NEW c \in Known
  PROVE  /\ tasks'[c] = [i \in Targets(c) |-> Later(tasks[c][i])]
         /\ tasks'[c] \in [Targets(c) -> Tasks \cup {None}]
         /\ Members(tasks'[c]) = Members(tasks[c])
<1>1. ASSUME NEW i \in Targets(c)
      PROVE  /\ Later(tasks[c][i]) \in Tasks \cup {None}
             /\ Later(tasks[c][i]) = None <=> tasks[c][i] = None
  <2>1. tasks[c][i] \in Tasks \cup {None}
    BY DEF Shape
  <2>2. tasks[c][i] # None /\ tasks[c][i].state = "asked" => tasks[c][i].left # 0
    BY IdleHasTimeLeft DEF Tick
  <2> QED BY <2>1, <2>2, LaterIsTask
<1>2. tasks'[c] = [i \in Targets(c) |-> Later(tasks[c][i])]
  BY DEF Tick
<1>3. DOMAIN tasks[c] = Targets(c)
  BY DEF Shape
<1> QED BY <1>1, <1>2, <1>3 DEF Members

LEMMA TickKeepsShape ==
  ASSUME Shape, Tick
  PROVE  Shape'
<1>1. /\ DOMAIN tasks' = Known /\ held' = [k \in Keys |-> Aged(held[k])]
      /\ UNCHANGED <<active, pc, batch>>
  BY DEF Tick, fixed, collection
<1>2. held' \in [Keys -> CacheEntries \cup {None}]
  BY <1>1, AgedIsEntry DEF Shape
<1> QED BY <1>1, <1>2, TickKeepsMembers DEF Shape, Members, Targets, Readings

LEMMA AdvanceKeepsShape ==
  ASSUME Shape, NEW c \in active, NEW some \in BOOLEAN, Advance(c, some),
         pc[c] = "asking"
  PROVE  Shape'
<1>1. c \in Known /\ UNCHANGED <<active, pc, tasks, held>>
  BY DEF Shape, Advance, fixed, cache
<1>2. /\ DOMAIN batch' = Known
      /\ \A d \in Known : batch'[d] \in [Targets(d) -> Readings(d) \cup {None}]
      /\ \A d \in Known : d # c => batch'[d] = batch[d]
  <2>1. CASE UNCHANGED batch
    BY <2>1 DEF Shape
  <2>2. CASE ~UNCHANGED batch
    <3> DEFINE here == Concerned(c, at[c])
    <3> PICK found \in [here -> Readings(c)] :
          batch' = [batch EXCEPT ![c] =
                     [i \in Targets(c) |-> IF i \in here THEN found[i] ELSE @[i]]]
      BY <2>2 DEF Advance
    <3>1. batch'[c] = [i \in Targets(c) |-> IF i \in here THEN found[i] ELSE batch[c][i]]
      BY <1>1 DEF Shape
    <3> HIDE DEF here
    <3>2. batch'[c] \in [Targets(c) -> Readings(c) \cup {None}]
      BY <1>1, <3>1 DEF Shape
    <3> QED BY <3>2, <1>1 DEF Shape
  <2> QED BY <2>1, <2>2
<1>3. Members(tasks[c]) = {}
  BY <1>1 DEF Shape
<1> QED BY <1>1, <1>2, <1>3 DEF Shape, Members, Targets, Readings

\* Scoring ends the cycle of an empty batch, or makes a task of each signal.
Ended(c) == EndCycle(c) /\ UNCHANGED tasks /\ tasks[c] = Empty(c)

Started(c) ==
  /\ pc' = [pc EXCEPT ![c] = "evaluating"] /\ UNCHANGED <<batch, answered>>
  /\ DOMAIN tasks' = Known /\ \A d \in Known : d # c => tasks'[d] = tasks[d]
  /\ tasks'[c] \in [Targets(c) -> Tasks \cup {None}]
  /\ Members(tasks'[c]) = Members(batch[c])
  /\ \A i \in Members(tasks'[c]) : tasks'[c][i].evaluation = None

LEMMA ScoreEndsOrStarts ==
  ASSUME Shape, NEW c \in active, Score(c)
  PROVE  /\ c \in Known /\ pc[c] = "asking" /\ UNCHANGED <<active, tries, failure, held, elapsed>>
         /\ Members(tasks[c]) = {}
         /\ (Ended(c) \/ Started(c))
<1>1. /\ c \in Known /\ pc[c] = "asking"
      /\ UNCHANGED <<active, tries, failure, held, elapsed>>
  BY DEF Shape, Score, fixed, cache
<1>2. Members(tasks[c]) = {}
  BY <1>1 DEF Shape
<1> DEFINE among == DOMAIN Signals(batch[c])
<1>3. among = Members(batch[c])
  BY DEF Signals
<1>4. CASE among = {}
  <2>1. EndCycle(c) /\ UNCHANGED tasks
    BY <1>4 DEF Score
  <2>2. \A i \in Targets(c) : tasks[c][i] = None
    BY <1>1, <1>2 DEF Shape, Members
  <2>3. tasks[c] = [i \in Targets(c) |-> tasks[c][i]]
    BY <1>1 DEF Shape
  <2> QED BY <1>1, <1>2, <2>1, <2>2, <2>3 DEF Ended, Empty
<1>5. CASE among # {}
  <2> PICK predicted \in Predicted(among) :
        tasks' = [tasks EXCEPT ![c] =
                   [i \in Targets(c) |->
                      IF i \notin among THEN None
                      ELSE IF predicted[i] # None THEN Task(predicted[i])
                      ELSE Task(RainbowScore(Signals(batch[c])))]]
    BY <1>5 DEF Score
  <2>1. pc' = [pc EXCEPT ![c] = "evaluating"] /\ UNCHANGED <<batch, answered>>
    BY <1>5 DEF Score
  <2>2. RainbowScore(Signals(batch[c])) \in Scores
    <3>1. batch[c] \in Batches(c)
      BY <1>1, <1>3, <1>5 DEF Shape, Batches
    <3> QED BY <1>1, <3>1 DEF Scores
  <2>3. ASSUME NEW s \in Scores
        PROVE  Task(s) \in Tasks /\ Task(s).evaluation = None
    BY Spans DEF Task, Tasks
  <2>4. \A i \in among : predicted[i] \in Scores
    BY DEF Predicted, Scores
  <2> DEFINE judging == tasks'[c]
  <2>5. judging = [i \in Targets(c) |->
                     IF i \notin among THEN None
                     ELSE IF predicted[i] # None THEN Task(predicted[i])
                     ELSE Task(RainbowScore(Signals(batch[c])))]
    BY <1>1 DEF Shape
  <2>6. among \subseteq Targets(c)
    BY <1>1, <1>3 DEF Shape, Members
  <2>7. /\ judging \in [Targets(c) -> Tasks \cup {None}] /\ Members(judging) = among
        /\ \A i \in Members(judging) : judging[i].evaluation = None
    <3> HIDE DEF among, judging
    <3>1. \A i \in Targets(c) :
            /\ judging[i] \in Tasks \cup {None}
            /\ i \notin among => judging[i] = None
            /\ i \in among => judging[i] \in Tasks /\ judging[i].evaluation = None
      BY <2>2, <2>3, <2>4, <2>5
    <3> QED BY <2>5, <2>6, <3>1, NoneAssumption DEF Members
  <2>8. DOMAIN tasks' = Known /\ \A d \in Known : d # c => tasks'[d] = tasks[d]
    BY DEF Shape
  <2> HIDE DEF among
  <2> QED BY <1>1, <1>2, <1>3, <2>1, <2>7, <2>8 DEF Started
<1> QED BY <1>4, <1>5

\* An evaluation is started unless there is nothing to evaluate.
LEMMA ScoreOfSome ==
  ASSUME Shape, NEW c \in active, Score(c), ~Started(c)
  PROVE  Members(batch[c]) = {}
<1>1. DOMAIN Signals(batch[c]) = Members(batch[c])
  BY DEF Signals
<1>2. CASE DOMAIN Signals(batch[c]) # {}
  <2>1. pc' = [pc EXCEPT ![c] = "evaluating"]
    BY <1>2 DEF Score
  <2>2. ~EndCycle(c)
    BY <2>1 DEF EndCycle, Shape
  <2> QED BY <2>2, ScoreEndsOrStarts DEF Ended
<1> QED BY <1>1, <1>2

LEMMA ScoreKeepsShape ==
  ASSUME Shape, NEW c \in active, Score(c)
  PROVE  Shape'
<1>1. /\ c \in Known /\ UNCHANGED <<active, held>> /\ (Ended(c) \/ Started(c))
  BY ScoreEndsOrStarts
<1>2. CASE Ended(c)
  BY <1>1, <1>2, EndedKeepsShape DEF Ended
<1>3. CASE Started(c)
  BY <1>1, <1>3 DEF Started, Shape, Members, Targets, Readings
<1> QED BY <1>1, <1>2, <1>3

LEMMA StepShape == Shape /\ [Next]_vars => Shape'
<1> SUFFICES ASSUME Shape, [Next]_vars PROVE Shape'
  OBVIOUS
<1>1. CASE UNCHANGED vars
  BY <1>1 DEF Shape, vars, fixed, collection, cache, Members, Targets, Readings
<1>2. CASE Tick
  BY <1>2, TickKeepsShape
<1>3. ASSUME NEW c \in active, Loop(c) PROVE Shape'
  <2>1. c \in Known
    BY DEF Shape
  <2>2. CASE BeginCycle(c)
    <3>1. pc[c] = "idle" /\ pc' = [pc EXCEPT ![c] = "asking"]
          /\ UNCHANGED <<active, batch, tasks, held>>
      BY <2>2 DEF BeginCycle, fixed, cache
    <3> QED BY <2>1, <3>1 DEF Shape, Members, Targets, Readings
  <2>3. CASE Answered(c)
    BY <2>3, AdvanceKeepsShape DEF Answered, Asking
  <2>4. CASE Skip(c)
    <3>1. pc[c] = "asking" /\ \E some \in BOOLEAN : Advance(c, some)
      BY <2>4 DEF Skip, Asking, Advance
    <3> QED BY <3>1, AdvanceKeepsShape
  <2>5. CASE Retry(c)
    BY <2>5 DEF Retry, fixed, cache, Shape, Members, Targets, Readings
  <2>6. CASE Fail(c)
    <3>1. EndCycle(c) /\ pc[c] = "asking" /\ UNCHANGED <<active, tasks, held>>
      BY <2>6 DEF Fail, Asking, fixed, cache
    <3>2. \A i \in Targets(c) : tasks[c][i] = None
      BY <2>1, <3>1 DEF Shape, Members
    <3>3. tasks[c] = Empty(c)
      BY <2>1, <3>2 DEF Shape, Empty
    <3> QED BY <2>1, <3>1, <3>3, EndedKeepsShape
  <2>7. CASE Score(c)
    BY <2>7, ScoreKeepsShape
  <2>8. CASE HandOver(c)
    BY <2>1, <2>8, EndedKeepsShape DEF HandOver, fixed, cache
  <2>9. ASSUME NEW i \in Targets(c), Evaluate(c, i) PROVE Shape'
    <3>1. /\ i \in Members(tasks[c]) /\ UNCHANGED <<active, pc, batch>>
          /\ held' \in [Keys -> CacheEntries \cup {None}]
          /\ \E t \in Tasks : Judged(c, i, t)
      BY <2>9, EvaluateJudges, HeldKeptKeepsType DEF fixed, collection, Judges
    <3> QED BY <2>1, <3>1, JudgedKeepsShape
  <2> QED BY <1>3, <2>2, <2>3, <2>4, <2>5, <2>6, <2>7, <2>8, <2>9 DEF Loop
<1> QED BY <1>1, <1>2, <1>3 DEF Next

-----------------------------------------------------------------------------
\* Time: no task has had more of it than the calls of its models so far may take.
InTime ==
  /\ elapsed \in [Known -> Nat]
  /\ \A c \in Known :
       /\ elapsed[c] <= Models * Timeout
       /\ pc[c] # "evaluating" => elapsed[c] = 0
       /\ \A i \in Members(tasks[c]) : elapsed[c] <= Spent(tasks[c][i])

LEMMA InitInTime == Init => InTime
<1> SUFFICES ASSUME Init PROVE InTime
  OBVIOUS
<1>1. \A c \in Known : Members(tasks[c]) = {} /\ elapsed[c] = 0
  BY DEF Init, Empty, Members
<1>2. Models * Timeout \in Nat
  BY Spans
<1> QED BY <1>1, <1>2 DEF Init, InTime

\* While time passes a batch still waits for a call, which has time left.
LEMMA TickKeepsInTime ==
  ASSUME Shape, InTime, Tick
  PROVE  InTime'
<1>1. /\ tasks' = [c \in Known |-> [i \in Targets(c) |-> Later(tasks[c][i])]]
      /\ elapsed' = [c \in Known |->
           IF pc[c] = "evaluating" /\ elapsed[c] <= Models * Timeout
           THEN elapsed[c] + 1 ELSE elapsed[c]]
      /\ ~Busy /\ pc' = pc
  BY DEF Tick
<1>2. ASSUME NEW c \in Known, NEW i \in Targets(c), tasks[c][i] # None
      PROVE  /\ tasks[c][i] \in Tasks /\ i \in Members(tasks[c])
             /\ pc[c] = "evaluating" /\ c \in active
             /\ \/ tasks[c][i].state = "done"
                \/ tasks[c][i].state = "asked" /\ tasks[c][i].left # 0
  <2>1. tasks[c][i] \in Tasks /\ i \in Members(tasks[c])
    BY <1>2 DEF Shape, Members
  <2>2. pc[c] = "evaluating" /\ c \in active
    BY <2>1 DEF Shape
  <2>3. tasks[c][i].state \in {"ready", "asked", "done"}
    BY <2>1 DEF Tasks
  <2> QED BY <1>1, <2>1, <2>2, <2>3 DEF Busy, At
<1>3. ASSUME NEW t \in Tasks, t.state = "asked", t.left # 0
      PROVE  /\ Spent(Later(t)) = Spent(t) + 1
             /\ Spent(t) + 1 <= Models * Timeout
             /\ Spent(t) \in Nat
  <2>1. t.model \in 1..Models /\ t.left \in 1..Timeout
    BY <1>3, Spans DEF Tasks
  <2>2. Later(t) = [t EXCEPT !.left = t.left - 1] /\ t # None
    BY <1>3, NoneAssumption DEF Later
  <2>3. /\ Later(t).state = "asked" /\ Later(t).model = t.model
        /\ Later(t).left = t.left - 1
    BY <1>3, <2>2 DEF Tasks
  <2>4. t.model * Timeout \in Nat
    BY <2>1, Spans
  <2>5. Spent(t) = t.model * Timeout - t.left /\ Spent(Later(t)) = t.model * Timeout - (t.left - 1)
    BY <1>3, <2>3 DEF Spent
  <2>6. Spent(Later(t)) = Spent(t) + 1
    BY <2>1, <2>4, <2>5, Spans
  <2>7. Later(t) \in Tasks
    BY <1>3, <2>2, LaterIsTask, NoneAssumption
  <2>8. /\ Spent(Later(t)) \in 0..Models * Timeout /\ Spent(t) \in 0..Models * Timeout
    BY <2>7, SpentIsBounded
  <2> QED BY <2>6, <2>8
<1>4. ASSUME NEW c \in Known, pc[c] = "evaluating"
      PROVE  elapsed[c] + 1 <= Models * Timeout /\ elapsed[c] \in Nat
  <2>1. c \in active
    BY <1>4 DEF Shape
  <2>2. PICK i \in Members(tasks[c]) : tasks[c][i].state # "done"
    BY <1>1, <1>4, <2>1 DEF Busy, Finished
  <2>3. i \in Targets(c) /\ tasks[c][i] # None
    BY DEF Members, Shape
  <2>4. tasks[c][i] \in Tasks /\ tasks[c][i].state = "asked" /\ tasks[c][i].left # 0
    BY <1>2, <2>2, <2>3
  <2>5. /\ Spent(tasks[c][i]) + 1 <= Models * Timeout /\ Spent(tasks[c][i]) \in Nat
    BY <1>3, <2>4
  <2>6. elapsed[c] <= Spent(tasks[c][i]) /\ elapsed[c] \in Nat
    BY DEF InTime
  <2> QED BY <2>5, <2>6, Spans
<1>5. ASSUME NEW c \in Known
      PROVE  /\ elapsed'[c] \in Nat /\ elapsed'[c] <= Models * Timeout
             /\ pc'[c] # "evaluating" => elapsed'[c] = 0
             /\ \A i \in Members(tasks'[c]) : elapsed'[c] <= Spent(tasks'[c][i])
  <2>1. elapsed[c] \in Nat /\ elapsed[c] <= Models * Timeout
    BY DEF InTime
  <2>2. CASE pc[c] # "evaluating"
    <3>1. elapsed'[c] = elapsed[c] /\ elapsed[c] = 0
      BY <1>1, <2>2 DEF InTime
    <3>2. \A i \in Targets(c) : tasks[c][i] = None
      BY <1>2, <2>2
    <3>3. Members(tasks'[c]) = {}
      BY <1>1, <3>2 DEF Members, Later
    <3> QED BY <1>1, <2>1, <3>1, <3>3
  <2>3. CASE pc[c] = "evaluating"
    <3>1. elapsed'[c] = elapsed[c] + 1 /\ elapsed[c] + 1 <= Models * Timeout
      BY <1>1, <1>4, <2>1, <2>3
    <3>2. ASSUME NEW i \in Members(tasks'[c])
          PROVE  elapsed'[c] <= Spent(tasks'[c][i])
      <4>1. /\ i \in Targets(c) /\ tasks'[c][i] = Later(tasks[c][i])
            /\ tasks[c][i] # None
        BY <1>1 DEF Members, Later
      <4>2. elapsed[c] <= Spent(tasks[c][i])
        BY <1>2, <4>1 DEF InTime
      <4>3. CASE tasks[c][i].state = "done"
        <5>1. Later(tasks[c][i]) = tasks[c][i]
          BY <4>3 DEF Later
        <5>2. Spent(tasks[c][i]) = Models * Timeout
          BY <4>3 DEF Spent
        <5> QED BY <3>1, <4>1, <5>1, <5>2
      <4>4. CASE tasks[c][i].state = "asked" /\ tasks[c][i].left # 0
        <5>1. /\ Spent(Later(tasks[c][i])) = Spent(tasks[c][i]) + 1
              /\ Spent(tasks[c][i]) \in Nat
          BY <1>2, <1>3, <4>1, <4>4
        <5> QED BY <2>1, <3>1, <4>1, <4>2, <5>1
      <4> QED BY <1>2, <4>1, <4>3, <4>4
    <3>3. pc'[c] = "evaluating"
      BY <1>1, <2>3
    <3> QED BY <2>1, <3>1, <3>2, <3>3
  <2> QED BY <2>2, <2>3
<1>6. elapsed' = [c \in Known |-> elapsed'[c]]
  BY <1>1
<1> QED BY <1>5, <1>6 DEF InTime, Members

\* What does not evaluate changes neither a task nor the clock, or starts both.
LEMMA LoopKeepsInTime ==
  ASSUME Shape, InTime, NEW c \in active, Loop(c)
  PROVE  InTime'
<1>1. c \in Known
  BY DEF Shape
<1>2. elapsed \in [Known -> Nat] /\ Models * Timeout \in Nat
  BY Spans DEF InTime
<1>3. ASSUME UNCHANGED <<tasks, elapsed>>, NEW step,
             pc[c] # "evaluating", pc' = [pc EXCEPT ![c] = step] \/ UNCHANGED pc
      PROVE  InTime'
  <2>1. \A d \in Known : d # c => pc'[d] = pc[d]
    BY <1>3 DEF Shape
  <2> QED BY <1>1, <1>2, <1>3, <2>1 DEF InTime, Members
<1>4. CASE BeginCycle(c)
  BY <1>3, <1>4 DEF BeginCycle
<1>5. CASE Answered(c)
  BY <1>3, <1>5 DEF Answered, Asking, Advance
<1>6. CASE Skip(c)
  BY <1>3, <1>6 DEF Skip, Asking, Advance
<1>7. CASE Retry(c)
  BY <1>3, <1>7 DEF Retry, Asking
<1>8. CASE Fail(c)
  BY <1>3, <1>8 DEF Fail, Asking, EndCycle
<1>9. CASE Score(c)
  <2>1. pc[c] = "asking" /\ UNCHANGED elapsed /\ (Ended(c) \/ Started(c))
    BY <1>9, ScoreEndsOrStarts
  <2>2. CASE Ended(c)
    BY <1>3, <2>1, <2>2 DEF Ended, EndCycle
  <2>3. CASE Started(c)
    <3>1. \A d \in Known : d # c => tasks'[d] = tasks[d] /\ pc'[d] = pc[d]
      BY <2>3 DEF Started, Shape
    <3>2. elapsed'[c] = 0
      BY <1>1, <2>1 DEF InTime
    <3>3. ASSUME NEW i \in Members(tasks'[c])
          PROVE  elapsed'[c] <= Spent(tasks'[c][i])
      <4>1. tasks'[c][i] \in Tasks
        BY <2>3 DEF Started, Members
      <4> QED BY <1>2, <3>2, <4>1, SpentIsBounded
    <3> QED BY <1>1, <1>2, <2>1, <2>3, <3>1, <3>2, <3>3 DEF InTime, Members, Started, Shape
  <2> QED BY <2>1, <2>2, <2>3
<1>10. CASE HandOver(c)
  <2>1. /\ pc' = [pc EXCEPT ![c] = "idle"] /\ tasks' = [tasks EXCEPT ![c] = Empty(c)]
        /\ elapsed' = [elapsed EXCEPT ![c] = 0]
    BY <1>10 DEF HandOver, EndCycle
  <2>2. Members(Empty(c)) = {}
    BY DEF Members, Empty
  <2>3. \A d \in Known : d # c =>
          tasks'[d] = tasks[d] /\ pc'[d] = pc[d] /\ elapsed'[d] = elapsed[d]
    BY <1>2, <2>1 DEF Shape
  <2>4. tasks'[c] = Empty(c) /\ elapsed'[c] = 0 /\ elapsed' \in [Known -> Nat]
    BY <1>1, <1>2, <2>1 DEF Shape
  <2> QED BY <1>1, <1>2, <2>2, <2>3, <2>4 DEF InTime, Members
<1>11. ASSUME NEW i \in Targets(c), Evaluate(c, i) PROVE InTime'
  <2>1. Judges(c, i, Origins(c, i)) /\ UNCHANGED <<pc, elapsed>> /\ i \in Members(tasks[c])
    BY <1>11, EvaluateJudges
  <2> PICK t \in Tasks : Judged(c, i, t) /\ Spent(tasks[c][i]) <= Spent(t)
    BY <2>1 DEF Judges
  <2>2. tasks[c][i] \in Tasks /\ i \in Targets(c) /\ i \in DOMAIN tasks[c]
    BY <1>1, <2>1 DEF Shape, Members
  <2>3. tasks'[c] = [tasks[c] EXCEPT ![i] = t] /\ \A d \in Known : d # c => tasks'[d] = tasks[d]
    BY <1>1, <2>1, JudgedKeepsMembers
  <2>4. elapsed[c] <= Spent(t)
    <3>1. elapsed[c] <= Spent(tasks[c][i])
      BY <1>1, <2>1 DEF InTime
    <3>2. Spent(t) \in 0..Models * Timeout /\ Spent(tasks[c][i]) \in 0..Models * Timeout
      BY <2>2, SpentIsBounded
    <3> QED BY <1>1, <1>2, <3>1, <3>2
  <2>5. \A j \in Members(tasks'[c]) :
          tasks'[c][j] = t \/ (j \in Members(tasks[c]) /\ tasks'[c][j] = tasks[c][j])
    BY <1>1, <2>2, <2>3 DEF Members, Shape
  <2>6. \A j \in Members(tasks'[c]) : elapsed[c] <= Spent(tasks'[c][j])
    BY <1>1, <2>4, <2>5 DEF InTime
  <2> QED BY <1>1, <2>1, <2>3, <2>6 DEF InTime, Members
<1> QED BY <1>4, <1>5, <1>6, <1>7, <1>8, <1>9, <1>10, <1>11 DEF Loop

LEMMA StepInTime == Shape /\ InTime /\ [Next]_vars => InTime'
<1> SUFFICES ASSUME Shape, InTime, [Next]_vars PROVE InTime'
  OBVIOUS
<1>1. CASE UNCHANGED vars
  BY <1>1 DEF InTime, vars, Members
<1> QED BY <1>1, TickKeepsInTime, LoopKeepsInTime DEF Next

\* A batch waits for its evaluations no longer than one call of each model may take
\* (llm_evaluator's asyncio.wait_for around each call, main's gather over a batch):
\* each of its signals has its own time, and what a task has had bounds what the
\* batch has waited.
THEOREM EvaluationsTakeNoLonger == Spec => []EvaluatedInTime
<1>1. InTime /\ Shape => EvaluatedInTime
  BY DEF InTime, Shape, EvaluatedInTime
<1> QED BY InitShape, StepShape, InitInTime, StepInTime, <1>1, PTL DEF Spec

-----------------------------------------------------------------------------
\* Recency: what the cache holds and what the tasks got says for what it was made.
Justified(evaluation, key) ==
  evaluation # None => evaluation.for = key /\ evaluation.age < Ttl

Recent ==
  /\ \A k \in Keys : held[k] # None =>
       held[k].evaluation.for = k /\ held[k].evaluation.age = held[k].age
  /\ \A c \in Known : \A i \in Members(tasks[c]) :
       Justified(tasks[c][i].evaluation, Key(c, i))

LEMMA InitRecent == Init => Recent
<1> SUFFICES ASSUME Init PROVE Recent
  OBVIOUS
<1>1. \A c \in Known : Members(tasks[c]) = {}
  BY DEF Init, Empty, Members
<1>2. \A k \in Keys : held[k] = None
  BY DEF Init
<1> QED BY <1>1, <1>2 DEF Recent

LEMMA TickKeepsRecent ==
  ASSUME Shape, Recent, Tick
  PROVE  Recent'
<1>1. /\ tasks' = [c \in Known |-> [i \in Targets(c) |-> Later(tasks[c][i])]]
      /\ held' = [k \in Keys |-> Aged(held[k])]
      /\ UNCHANGED batch
  BY DEF Tick, collection
<1>2. ASSUME NEW k \in Keys, held'[k] # None
      PROVE  held'[k].evaluation.for = k /\ held'[k].evaluation.age = held'[k].age
  <2>1. held[k] # None /\ held'[k] = Aged(held[k])
    BY <1>1, <1>2 DEF Aged
  <2>2. held[k].evaluation \in Evaluations
    BY <2>1 DEF Shape, CacheEntries
  <2>3. /\ held'[k].evaluation = [held[k].evaluation EXCEPT !.age = Older(held[k].evaluation.age)]
        /\ held'[k].age = Older(held[k].age)
    BY <2>1 DEF Aged
  <2>4. /\ held'[k].evaluation.for = held[k].evaluation.for
        /\ held'[k].evaluation.age = Older(held[k].evaluation.age)
    BY <2>2, <2>3 DEF Evaluations
  <2> QED BY <2>1, <2>3, <2>4 DEF Recent
<1>3. ASSUME NEW c \in Known, NEW i \in Members(tasks'[c])
      PROVE  Justified(tasks'[c][i].evaluation, Key(c, i)')
  <2>1. /\ i \in Targets(c) /\ tasks'[c][i] = Later(tasks[c][i])
        /\ tasks[c][i] # None
    BY <1>1 DEF Members, Later
  <2>2. tasks[c][i] \in Tasks /\ i \in Members(tasks[c])
    BY <2>1 DEF Shape, Members
  <2>3. tasks'[c][i].evaluation = tasks[c][i].evaluation
    BY <2>1, <2>2 DEF Later, Tasks
  <2>4. Key(c, i)' = Key(c, i)
    BY <1>1 DEF Key
  <2> QED BY <2>2, <2>3, <2>4 DEF Recent
<1> QED BY <1>2, <1>3 DEF Recent, Members, Justified

LEMMA LoopKeepsRecent ==
  ASSUME Shape, Recent, NEW c \in active, Loop(c)
  PROVE  Recent'
<1>1. c \in Known
  BY DEF Shape
<1>2. \A d, i : Key(d, i) = <<Watch[d][i], batch[d][i].direction>>
  BY DEF Key
\* Outside an evaluation the tasks of a loop are empty, and nothing is said.
<1>3. ASSUME UNCHANGED held, \A d \in Known : d # c => tasks'[d] = tasks[d] /\ batch'[d] = batch[d],
             \A i \in Members(tasks'[c]) : tasks'[c][i].evaluation = None
      PROVE  Recent'
  <2>1. ASSUME NEW d \in Known, NEW i \in Members(tasks'[d])
        PROVE  Justified(tasks'[d][i].evaluation, Key(d, i)')
    <3>1. CASE d = c
      BY <1>3, <3>1 DEF Justified
    <3>2. CASE d # c
      BY <1>3, <3>2 DEF Key, Recent
    <3> QED BY <3>1, <3>2
  <2> QED BY <1>3, <2>1 DEF Recent, Members, Justified
<1>4. ASSUME pc[c] # "evaluating", UNCHANGED <<tasks, held>>,
             \A d \in Known : d # c => batch'[d] = batch[d]
      PROVE  Recent'
  <2>1. Members(tasks[c]) = {}
    BY <1>1, <1>4 DEF Shape
  <2> QED BY <1>3, <1>4, <2>1
<1>5. ASSUME EndCycle(c) PROVE \A d \in Known : d # c => batch'[d] = batch[d]
  BY <1>5 DEF EndCycle, Shape
<1>6. CASE BeginCycle(c)
  BY <1>4, <1>6 DEF BeginCycle, cache
<1>7. ASSUME NEW some, Asking(c), Advance(c, some) PROVE Recent'
  <2>1. \A d \in Known : d # c => batch'[d] = batch[d]
    BY <1>7 DEF Advance, Shape
  <2> QED BY <1>4, <1>7, <2>1 DEF Asking, Advance, cache
<1>8. CASE Answered(c)
  BY <1>7, <1>8 DEF Answered
<1>9. CASE Skip(c)
  BY <1>7, <1>9 DEF Skip
<1>10. CASE Retry(c)
  BY <1>4, <1>10 DEF Retry, Asking, cache
<1>11. CASE Fail(c)
  BY <1>4, <1>5, <1>11 DEF Fail, Asking, cache
<1>12. CASE Score(c)
  <2>1. pc[c] = "asking" /\ UNCHANGED held /\ (Ended(c) \/ Started(c))
    BY <1>12, ScoreEndsOrStarts
  <2>2. CASE Ended(c)
    BY <1>4, <1>5, <2>1, <2>2 DEF Ended
  <2>3. CASE Started(c)
    BY <1>3, <2>1, <2>3 DEF Started
  <2> QED BY <2>1, <2>2, <2>3
<1>13. CASE HandOver(c)
  <2>1. tasks' = [tasks EXCEPT ![c] = Empty(c)] /\ UNCHANGED held
    BY <1>13 DEF HandOver, cache
  <2>2. tasks'[c] = Empty(c) /\ Members(Empty(c)) = {}
    BY <1>1, <2>1 DEF Shape, Members, Empty
  <2>3. \A d \in Known : d # c => tasks'[d] = tasks[d] /\ batch'[d] = batch[d]
    BY <1>5, <1>13, <2>1 DEF HandOver, Shape
  <2> QED BY <1>3, <2>1, <2>2, <2>3
<1>14. ASSUME NEW i \in Targets(c), Evaluate(c, i) PROVE Recent'
  <2>1. /\ Judges(c, i, Origins(c, i)) /\ UNCHANGED batch /\ HeldKept
        /\ i \in Members(tasks[c])
    BY <1>14, EvaluateJudges DEF collection
  <2> PICK t \in Tasks : Judged(c, i, t) /\ t.evaluation \in Origins(c, i)
    BY <2>1 DEF Judges
  <2>2. i \in Targets(c) /\ i \in DOMAIN tasks[c]
    BY <2>1 DEF Shape, Members
  <2>3. tasks'[c] = [tasks[c] EXCEPT ![i] = t] /\ \A d \in Known : d # c => tasks'[d] = tasks[d]
    BY <1>1, <2>1, JudgedKeepsMembers
  <2>4. Key(c, i) \in Keys
    BY <1>1, <2>1, KeysAreKeys
  <2>5. Justified(t.evaluation, Key(c, i))
    <3>1. CASE t.evaluation = None
      BY <3>1 DEF Justified
    <3>2. CASE t.evaluation = tasks[c][i].evaluation
      BY <1>1, <2>1, <3>2 DEF Recent
    <3>3. ASSUME NEW verdict \in Verdicts, t.evaluation = Evaluation(verdict, Key(c, i))
          PROVE  Justified(t.evaluation, Key(c, i))
      BY <3>3, Spans DEF Justified, Evaluation
    <3>4. CASE Fresh(held, Key(c, i)) /\ t.evaluation = held[Key(c, i)].evaluation
      BY <2>4, <3>4 DEF Justified, Recent, Fresh, Stored
    <3> QED BY <3>1, <3>2, <3>3, <3>4 DEF Origins
  <2>6. ASSUME NEW k \in Keys, held'[k] # None
        PROVE  held'[k].evaluation.for = k /\ held'[k].evaluation.age = held'[k].age
    <3>1. CASE held'[k] = held[k]
      BY <2>6, <3>1 DEF Recent
    <3>2. ASSUME NEW verdict \in Verdicts, held'[k] = Entry(Evaluation(verdict, k))
          PROVE  held'[k].evaluation.for = k /\ held'[k].evaluation.age = held'[k].age
      BY <3>2 DEF Entry, Evaluation
    <3> QED BY <2>1, <2>6, <3>1, <3>2 DEF HeldKept
  <2>7. ASSUME NEW d \in Known, NEW j \in Members(tasks'[d])
        PROVE  Justified(tasks'[d][j].evaluation, Key(d, j)')
    <3>1. Key(d, j)' = Key(d, j)
      BY <2>1 DEF Key
    <3>2. \/ j \in Members(tasks[d]) /\ tasks'[d][j] = tasks[d][j]
          \/ d = c /\ j = i /\ tasks'[d][j] = t
      BY <1>1, <2>2, <2>3 DEF Members
    <3> QED BY <2>5, <3>1, <3>2 DEF Recent
  <2> QED BY <2>6, <2>7 DEF Recent, Members, Justified
<1> QED BY <1>6, <1>8, <1>9, <1>10, <1>11, <1>12, <1>13, <1>14 DEF Loop

LEMMA StepRecent == Shape /\ Recent /\ [Next]_vars => Recent'
<1> SUFFICES ASSUME Shape, Recent, [Next]_vars PROVE Recent'
  OBVIOUS
<1>1. CASE UNCHANGED vars
  BY <1>1 DEF Recent, vars, collection, cache, Members, Key, Justified
<1> QED BY <1>1, TickKeepsRecent, LoopKeepsRecent DEF Next

\* An evaluation a signal gets was made for its own asset and direction less than
\* Ttl ago (EvaluationCache's get and set, under the keys of llm_evaluator): the
\* age of an entry is the age of what it holds, for serving it renews neither.
THEOREM ServingRenewsNothing == Spec => []ServedIsRecent
<1>1. Recent /\ Shape => ServedIsRecent
  BY DEF Recent, Shape, ServedIsRecent, Justified
<1> QED BY InitShape, StepShape, InitRecent, StepRecent, <1>1, PTL DEF Spec

-----------------------------------------------------------------------------
\* Trouble: the targets that have given a signal lie behind the request under way,
\* so that nothing takes the place of what they gave.
LEMMA TargetsFollow ==
  ASSUME NEW n \in Nat \ {0}, NEW p \in Nat \ {0}, n % p = 0
  PROVE  ((n - 1) \div p + 1) * p = n
<1> DEFINE k == n \div p
           q == (n - 1) \div p
<1>1. k \in Nat /\ q \in Nat
  OBVIOUS
<1>2. n = k * p
  OBVIOUS
<1>3. q * p <= n - 1 /\ n - 1 < q * p + p
  OBVIOUS
<1> HIDE DEF k, q
<1>4. q * p + p = (q + 1) * p
  BY <1>1
<1>5. k = q + 1
  <2>1. ~(k <= q)
    <3> SUFFICES ASSUME k <= q PROVE FALSE
      OBVIOUS
    <3>1. k * p <= q * p
      BY <1>1
    <3> QED BY <1>1, <1>2, <1>3, <3>1
  <2>2. ~(k >= q + 2)
    <3> SUFFICES ASSUME k >= q + 2 PROVE FALSE
      OBVIOUS
    <3>1. (q + 2) * p <= k * p
      BY <1>1
    <3>2. (q + 2) * p = q * p + p + p
      BY <1>1
    <3> QED BY <1>1, <1>2, <1>3, <3>1, <3>2
  <2> QED BY <1>1, <2>1, <2>2
<1>6. (q + 1) * p = n
  BY <1>2, <1>5
<1> QED BY <1>6 DEF q

Behind(c, i) == IF c = "news" THEN at[c] > 1 ELSE i * PerTarget(c) < at[c]

\* Trouble a collector lets through to the end of its cycle.
Passable(c) ==
  failure[c] \in {"slow", "down"} =>
    c \notin {"twitter", "reddit"} /\ (c = "ta" => tries[c] = Attempts)

\* What an idle loop has handed over of what it was given in its last cycle.
Settled(c) ==
  /\ at[c] = 1 /\ Members(batch[c]) = {}
  /\ handed[c] = IF failure[c] = None THEN answered[c] ELSE {}

\* What a loop holds in its cycle is what it was given so far, once per target.
Gathered(c) ==
  /\ failure[c] = None /\ handed[c] = {}
  /\ Members(batch[c]) = answered[c]
  /\ \A i \in answered[c] : Behind(c, i)

ContainedAt(c) ==
  /\ at[c] \in Nat \ {0} /\ answered[c] \subseteq Targets(c)
  /\ pc[c] = "idle" => Settled(c)
  /\ pc[c] # "idle" => Gathered(c)
  /\ pc[c] = "evaluating" => Members(tasks[c]) = answered[c]
  /\ Passable(c)

Framed ==
  /\ DOMAIN at = Known /\ DOMAIN tries = Known
  /\ DOMAIN failure = Known /\ DOMAIN answered = Known /\ DOMAIN handed = Known

Contained == Framed /\ \A c \in Known : ContainedAt(c)

LEMMA InitContained == Init => Contained
<1> SUFFICES ASSUME Init PROVE Contained
  OBVIOUS
<1>1. /\ at = [c \in Known |-> 1] /\ tries = [c \in Known |-> 1]
      /\ failure = [c \in Known |-> None] /\ answered = [c \in Known |-> {}]
      /\ handed = [c \in Known |-> {}]
      /\ batch = [c \in Known |-> Empty(c)] /\ pc = [c \in Known |-> "idle"]
  BY DEF Init
<1>2. ASSUME NEW c \in Known PROVE ContainedAt(c)
  <2>1. Members(batch[c]) = {}
    BY <1>1 DEF Empty, Members
  <2>2. Passable(c)
    BY <1>1, NoneAssumption DEF Passable, Troubles
  <2> QED BY <1>1, <2>1, <2>2 DEF ContainedAt, Settled
<1> QED BY <1>1, <1>2 DEF Contained, Framed

\* A step of one loop changes nothing that belongs to another.
Untouched(d) ==
  /\ at'[d] = at[d] /\ tries'[d] = tries[d] /\ failure'[d] = failure[d]
  /\ batch'[d] = batch[d] /\ answered'[d] = answered[d] /\ handed'[d] = handed[d]
  /\ tasks'[d] = tasks[d] /\ pc'[d] = pc[d]

LEMMA OthersKeep ==
  ASSUME Shape, Framed, NEW c \in active, Loop(c)
  PROVE  Framed' /\ \A d \in Known : d # c => Untouched(d)
<1> USE DEF Shape, Framed, Untouched, fixed, collection, cache
<1>1. c \in Known
  OBVIOUS
<1>2. CASE BeginCycle(c)
  BY <1>2 DEF BeginCycle
<1>3. ASSUME NEW some, Advance(c, some)
      PROVE  Framed' /\ \A d \in Known : d # c => Untouched(d)
  BY <1>3 DEF Advance
<1>4. CASE Answered(c) \/ Skip(c)
  BY <1>3, <1>4 DEF Answered, Skip
<1>5. CASE Retry(c)
  BY <1>5 DEF Retry
<1>6. CASE Fail(c)
  BY <1>6 DEF Fail, EndCycle
<1>7. CASE Score(c)
  <2>1. UNCHANGED <<tries, failure, answered, handed>>
    BY <1>7 DEF Score
  <2>2. CASE Ended(c)
    BY <2>1, <2>2 DEF Ended, EndCycle
  <2>3. CASE Started(c)
    <3>1. UNCHANGED <<at, heard>>
      <4>1. pc[c] = "asking" /\ pc'[c] = "evaluating"
        BY <1>1, <1>7, <2>3 DEF Score, Started
      <4>2. ~EndCycle(c)
        BY <1>1, <4>1 DEF EndCycle
      <4> QED BY <1>7, <4>2 DEF Score
    <3> QED BY <2>1, <2>3, <3>1 DEF Started
  <2> QED BY <1>7, <2>2, <2>3, ScoreEndsOrStarts
<1>8. CASE HandOver(c)
  BY <1>8 DEF HandOver, EndCycle
<1>9. ASSUME NEW i \in Targets(c), Evaluate(c, i)
      PROVE  Framed' /\ \A d \in Known : d # c => Untouched(d)
  <2>1. /\ UNCHANGED <<fixed, pc, collection, elapsed>> /\ i \in Members(tasks[c])
        /\ \E t \in Tasks : Judged(c, i, t)
    BY <1>9, EvaluateJudges DEF Judges
  <2>2. \A d \in Known : d # c => tasks'[d] = tasks[d]
    BY <1>1, <2>1, JudgedKeepsMembers
  <2> QED BY <2>1, <2>2
<1> QED BY <1>2, <1>4, <1>5, <1>6, <1>7, <1>8, <1>9 DEF Loop

LEMMA CollectorsAsk ==
  ASSUME NEW c \in Known
  PROVE  /\ PerTarget(c) \in Nat \ {0}
         /\ Len(Watch[c]) \in Nat
         /\ Requests(c) = IF c = "news" THEN 1 ELSE Len(Watch[c]) * PerTarget(c)
  BY PipelineAssumption DEF PerTarget, Requests

\* What an answer completes was not answered before.
LEMMA AdvanceContains ==
  ASSUME Shape, Contained, NEW c \in active, NEW some, Asking(c), Advance(c, some)
  PROVE  ContainedAt(c)'
<1>1. /\ c \in Known /\ pc[c] = "asking" /\ pc' = pc /\ failure' = failure
      /\ at[c] <= Requests(c) /\ ContainedAt(c) /\ Gathered(c) /\ handed' = handed
  BY DEF Shape, Contained, ContainedAt, Asking, Advance
<1>2. at'[c] = at[c] + 1 /\ at[c] \in Nat \ {0}
  BY <1>1 DEF Contained, Framed, ContainedAt, Advance
<1>3. PerTarget(c)' = PerTarget(c) /\ PerTarget(c) \in Nat \ {0}
  BY <1>1, CollectorsAsk DEF PerTarget
<1>4. answered[c] \subseteq Targets(c)
  BY <1>1 DEF ContainedAt
<1>5. Targets(c) \subseteq Nat \ {0}
  BY DEF Targets
<1>6. ASSUME NEW i \in answered[c] PROVE Behind(c, i)'
  <2>1. Behind(c, i) /\ i \in Nat
    BY <1>1, <1>4, <1>5 DEF Gathered
  <2> QED BY <1>2, <1>3, <2>1 DEF Behind
<1>7. Passable(c)' /\ failure'[c] = None /\ handed'[c] = {} /\ pc'[c] = "asking"
  <2>1. failure'[c] = None
    BY <1>1 DEF Gathered
  <2> QED BY <1>1, <2>1, NoneAssumption DEF Passable, Troubles, Gathered
<1>8. CASE UNCHANGED <<batch, answered>>
  <2>1. Members(batch[c])' = answered'[c]
    BY <1>1, <1>8 DEF Gathered, Members
  <2>2. Gathered(c)' /\ answered'[c] \subseteq Targets(c)
    BY <1>4, <1>6, <1>7, <1>8, <2>1 DEF Gathered
  <2> QED BY <1>2, <1>7, <2>2 DEF ContainedAt, Targets
<1>9. CASE ~UNCHANGED <<batch, answered>>
  <2> DEFINE here == Concerned(c, at[c])
  <2>1. Completes(c, at[c])
    BY <1>9 DEF Advance
  <2> PICK found \in [here -> Readings(c)] :
        /\ batch' = [batch EXCEPT ![c] =
             [i \in Targets(c) |-> IF i \in here THEN found[i] ELSE @[i]]]
        /\ answered' = [answered EXCEPT ![c] = @ \cup Members(found)]
    BY <1>9 DEF Advance
  <2>2. ASSUME NEW i \in here
        PROVE  i \in Targets(c) /\ ~Behind(c, i) /\ Behind(c, i)'
    <3>1. CASE c = "news"
      <4>1. at[c] = 1
        BY <1>1, <1>2, <3>1 DEF Requests
      <4> QED BY <1>2, <3>1, <4>1 DEF Behind, Concerned
    <3>2. CASE c # "news"
      <4>1. i = (at[c] - 1) \div PerTarget(c) + 1 /\ at[c] % PerTarget(c) = 0
        BY <2>1, <3>2 DEF Concerned, Completes
      <4>2. i * PerTarget(c) = at[c] /\ i \in Nat \ {0}
        <5> DEFINE n == at[c]
                   p == PerTarget(c)
        <5>1. n \in Nat \ {0} /\ p \in Nat \ {0} /\ n % p = 0 /\ i = (n - 1) \div p + 1
          BY <1>2, <1>3, <4>1
        <5> HIDE DEF n, p
        <5>2. i * p = n
          BY <5>1, TargetsFollow
        <5>3. (n - 1) \div p \in Nat
          BY <5>1
        <5> QED BY <5>1, <5>2, <5>3 DEF n, p
      <4>3. i * PerTarget(c) <= Len(Watch[c]) * PerTarget(c) /\ Len(Watch[c]) \in Nat
        BY <1>1, <3>2, <4>2, CollectorsAsk
      <4>4. i <= Len(Watch[c])
        <5> SUFFICES ASSUME Len(Watch[c]) + 1 <= i PROVE FALSE
          BY <4>2, <4>3
        <5> DEFINE n == Len(Watch[c])
                   p == PerTarget(c)
        <5>1. n \in Nat /\ p \in Nat \ {0} /\ i \in Nat /\ n + 1 <= i /\ i * p <= n * p
          BY <1>3, <4>2, <4>3
        <5> HIDE DEF n, p
        <5>2. (n + 1) * p <= i * p /\ (n + 1) * p = n * p + p
          BY <5>1
        <5> QED BY <5>1, <5>2
      <4> QED BY <1>2, <1>3, <3>2, <4>2, <4>4 DEF Behind, Targets
    <3> QED BY <3>1, <3>2
  <2>3. batch'[c] = [i \in Targets(c) |-> IF i \in here THEN found[i] ELSE batch[c][i]]
    BY <1>1 DEF Shape
  <2>4. answered'[c] = answered[c] \cup Members(found)
    BY <1>1 DEF Contained, Framed
  <2>5. here \cap answered[c] = {} /\ here \subseteq Targets(c)
    BY <1>1, <2>2 DEF Gathered
  <2>6. Members(found) \subseteq here
    BY DEF Members
  <2>7. Members(batch'[c]) = answered'[c]
    <3> HIDE DEF here
    <3>1. answered[c] = {i \in Targets(c) : batch[c][i] # None}
      BY <1>1 DEF Gathered, Members, Shape
    <3>2. Members(found) = {i \in here : found[i] # None}
      BY DEF Members
    <3> QED BY <2>3, <2>4, <2>5, <3>1, <3>2 DEF Members
  <2>8. \A i \in answered'[c] : Behind(c, i)'
    BY <1>6, <2>2, <2>4, <2>6
  <2>9. Members(batch[c])' = Members(batch'[c])
    BY DEF Members
  <2>10. Gathered(c)' /\ answered'[c] \subseteq Targets(c)
    BY <1>4, <1>7, <2>4, <2>5, <2>6, <2>7, <2>8, <2>9 DEF Gathered
  <2> QED BY <1>2, <1>7, <2>10 DEF ContainedAt, Targets
<1> QED BY <1>8, <1>9

LEMMA LoopContains ==
  ASSUME Shape, Contained, NEW c \in active, Loop(c)
  PROVE  ContainedAt(c)'
<1>1. c \in Known /\ ContainedAt(c) /\ Framed /\ Framed'
  BY OthersKeep DEF Shape, Contained
<1>2. ASSUME EndCycle(c), Passable(c)', answered' = answered,
             handed'[c] = IF failure'[c] = None THEN answered[c] ELSE {}
      PROVE  ContainedAt(c)'
  <2>1. /\ pc'[c] = "idle" /\ at'[c] = 1 /\ batch'[c] = Empty(c)
    BY <1>1, <1>2 DEF EndCycle, Shape, Framed
  <2>2. Members(batch[c])' = {}
    BY <2>1 DEF Members, Empty
  <2>3. Settled(c)'
    BY <1>2, <2>1, <2>2 DEF Settled
  <2>4. answered'[c] \subseteq Targets(c)
    BY <1>1, <1>2 DEF ContainedAt
  <2> QED BY <1>2, <2>1, <2>3, <2>4 DEF ContainedAt, Targets
<1>3. CASE BeginCycle(c)
  <2>1. /\ pc'[c] = "asking" /\ failure'[c] = None
        /\ answered'[c] = {} /\ handed'[c] = {} /\ UNCHANGED <<at, batch, tasks>>
    BY <1>1, <1>3 DEF BeginCycle, Shape, Framed
  <2>2. Passable(c)'
    BY <2>1, NoneAssumption DEF Passable, Troubles
  <2>3. Members(batch[c])' = {}
    BY <1>1, <1>3, <2>1 DEF BeginCycle, ContainedAt, Settled, Members
  <2>4. Gathered(c)'
    BY <2>1, <2>3 DEF Gathered
  <2> QED BY <1>1, <2>1, <2>2, <2>4 DEF ContainedAt
<1>4. CASE Answered(c) \/ Skip(c)
  BY <1>4, AdvanceContains DEF Answered, Skip
<1>5. CASE Retry(c)
  <2>1. pc[c] = "asking" /\ UNCHANGED <<pc, at, batch, failure, answered, handed, tasks>>
    BY <1>5 DEF Retry, Asking
  <2>2. Passable(c)'
    BY <1>1, <2>1, NoneAssumption DEF Passable, Troubles, ContainedAt, Gathered
  <2>3. Members(batch[c])' = Members(batch[c]) /\ \A i : Behind(c, i)' = Behind(c, i)
    BY <2>1 DEF Members, Behind, PerTarget
  <2>4. Gathered(c)'
    BY <1>1, <2>1, <2>3 DEF ContainedAt, Gathered
  <2> QED BY <1>1, <2>1, <2>2, <2>4 DEF ContainedAt, Targets
<1>6. CASE Fail(c)
  <2> PICK trouble \in Fatal(c, at[c]) \cup (IF tries[c] = Attempts THEN Retried(c) ELSE {}) :
        failure' = [failure EXCEPT ![c] = trouble]
    BY <1>6 DEF Fail
  <2>1. /\ failure'[c] = trouble /\ EndCycle(c) /\ pc[c] = "asking"
        /\ UNCHANGED <<tries, answered, handed>>
    BY <1>1, <1>6 DEF Fail, Asking, Framed
  <2>2. Passable(c)'
    BY <2>1 DEF Passable, Fatal, Retried, Skipped
  <2>3. failure'[c] # None
    BY <2>1, NoneAssumption DEF Fatal, Retried, Troubles
  <2>4. handed'[c] = {}
    BY <1>1, <2>1 DEF ContainedAt, Gathered
  <2> QED BY <1>2, <2>1, <2>2, <2>3, <2>4
<1>7. CASE Score(c)
  <2>1. /\ pc[c] = "asking" /\ UNCHANGED <<tries, failure, answered, handed>>
        /\ (Ended(c) \/ Started(c)) /\ Gathered(c)
    BY <1>1, <1>7, ScoreEndsOrStarts DEF Score, ContainedAt
  <2>2. Passable(c)'
    BY <1>1, <2>1 DEF Passable, ContainedAt
  <2>3. CASE Ended(c) /\ ~Started(c)
    <3>1. Members(batch[c]) = {}
      BY <1>7, <2>3, ScoreOfSome
    <3> QED BY <1>2, <2>1, <2>2, <2>3, <3>1 DEF Ended, Gathered
  <2>4. CASE Started(c)
    <3>1. pc'[c] = "evaluating" /\ UNCHANGED <<batch, answered>> /\ failure'[c] = None
      BY <1>1, <2>1, <2>4 DEF Started, Shape, Gathered
    <3>2. at' = at
      <4>1. ~EndCycle(c)
        BY <1>1, <3>1 DEF EndCycle, Shape
      <4> QED BY <1>7, <4>1 DEF Score
    <3>3. Members(batch[c])' = Members(batch[c]) /\ Members(tasks[c])' = Members(batch[c])
      BY <2>4, <3>1 DEF Started, Members
    <3>4. \A i : Behind(c, i)' = Behind(c, i)
      BY <3>2 DEF Behind, PerTarget
    <3>5. Gathered(c)'
      BY <2>1, <3>1, <3>3, <3>4 DEF Gathered
    <3> QED BY <1>1, <2>1, <2>2, <3>1, <3>2, <3>3, <3>5 DEF ContainedAt, Gathered, Targets
  <2> QED BY <2>1, <2>3, <2>4
<1>8. CASE HandOver(c)
  <2>1. /\ EndCycle(c) /\ UNCHANGED <<tries, failure, answered>> /\ pc[c] = "evaluating"
        /\ handed'[c] = Members(tasks[c])
    BY <1>1, <1>8 DEF HandOver, Finished, Framed
  <2>2. Passable(c)'
    BY <1>1, <2>1 DEF Passable, ContainedAt
  <2>3. failure'[c] = None /\ handed'[c] = answered[c]
    BY <1>1, <2>1 DEF ContainedAt, Gathered
  <2> QED BY <1>2, <2>1, <2>2, <2>3
<1>9. ASSUME NEW i \in Targets(c), Evaluate(c, i) PROVE ContainedAt(c)'
  <2>1. /\ UNCHANGED <<fixed, pc, collection, elapsed>> /\ i \in Members(tasks[c])
        /\ \E t \in Tasks : Judged(c, i, t)
    BY <1>9, EvaluateJudges DEF Judges
  <2>2. Members(tasks[c])' = Members(tasks[c])
    <3>1. Members(tasks'[c]) = Members(tasks[c])
      BY <1>1, <2>1, JudgedKeepsMembers
    <3> QED BY <3>1 DEF Members
  <2>3. Members(batch[c])' = Members(batch[c]) /\ \A j : Behind(c, j)' = Behind(c, j)
    BY <2>1 DEF Members, Behind, PerTarget, collection
  <2>4. Passable(c)'
    BY <1>1, <2>1 DEF Passable, ContainedAt, collection
  <2>5. Settled(c)' = Settled(c) /\ Gathered(c)' = Gathered(c)
    BY <2>1, <2>3 DEF Settled, Gathered, collection
  <2> QED BY <1>1, <2>1, <2>2, <2>4, <2>5 DEF ContainedAt, collection, Targets
<1> QED BY <1>3, <1>4, <1>5, <1>6, <1>7, <1>8, <1>9 DEF Loop

LEMMA StepContained == Shape /\ Contained /\ [Next]_vars => Contained'
<1> SUFFICES ASSUME Shape, Contained, [Next]_vars PROVE Contained'
  OBVIOUS
<1>1. ASSUME UNCHANGED <<pc, collection>>, NEW c \in Known,
             Members(tasks'[c]) = Members(tasks[c])
      PROVE  ContainedAt(c)'
  <2>1. Members(batch[c])' = Members(batch[c]) /\ \A j : Behind(c, j)' = Behind(c, j)
    BY <1>1 DEF Members, Behind, PerTarget, collection
  <2>2. Members(tasks[c])' = Members(tasks[c]) /\ ContainedAt(c)
    BY <1>1 DEF Members, Contained
  <2>3. Passable(c)'
    BY <1>1, <2>2 DEF Passable, ContainedAt, collection
  <2>4. Settled(c)' = Settled(c) /\ Gathered(c)' = Gathered(c)
    BY <1>1, <2>1 DEF Settled, Gathered, collection
  <2> QED BY <1>1, <2>2, <2>3, <2>4 DEF ContainedAt, collection, Targets
<1>2. CASE UNCHANGED vars
  <2>1. UNCHANGED <<pc, collection, tasks>>
    BY <1>2 DEF vars
  <2> QED BY <1>1, <2>1 DEF Contained, Framed, collection
<1>3. CASE Tick
  <2>1. UNCHANGED <<pc, collection>>
    BY <1>3 DEF Tick
  <2> QED BY <1>1, <1>3, <2>1, TickKeepsMembers DEF Contained, Framed, collection
<1>4. ASSUME NEW c \in active, Loop(c) PROVE Contained'
  <2>1. Framed' /\ ContainedAt(c)' /\ \A d \in Known : d # c => Untouched(d)
    BY <1>4, OthersKeep, LoopContains DEF Contained
  <2>2. ASSUME NEW d \in Known, d # c PROVE ContainedAt(d)'
    <3>1. ContainedAt(d) /\ Untouched(d)
      BY <2>1, <2>2 DEF Contained
    <3>2. /\ Members(batch[d])' = Members(batch[d]) /\ Members(tasks[d])' = Members(tasks[d])
          /\ \A j : Behind(d, j)' = Behind(d, j)
      BY <3>1 DEF Members, Untouched, Behind, PerTarget
    <3>3. Passable(d)'
      BY <3>1 DEF Passable, ContainedAt, Untouched
    <3>4. Settled(d)' = Settled(d) /\ Gathered(d)' = Gathered(d)
      BY <3>1, <3>2 DEF Settled, Gathered, Untouched
    <3> QED BY <3>1, <3>2, <3>3, <3>4 DEF ContainedAt, Untouched, Targets
  <2> QED BY <2>1, <2>2 DEF Contained
<1> QED BY <1>2, <1>3, <1>4 DEF Next

\* Signals are lost with their whole cycle only.  Trouble that a collector passes
\* over or repeats costs nothing that other targets have given, in whatever order
\* the answers come: a request completes one target, and none that was completed
\* before.  A cycle that ends without an error hands over all it was given, one
\* that a raised trouble ends nothing (the except clauses of the five collectors,
\* rainbow/main.py _run_collector_loop).
THEOREM SignalsAreLostOnlyWithTheirCycle == Spec => []LostOnlyWithCycle
<1>1. Shape /\ Contained => LostOnlyWithCycle
  BY DEF Shape, Contained, ContainedAt, Settled, Gathered, Passable, LostOnlyWithCycle
<1> QED BY InitShape, StepShape, InitContained, StepContained, <1>1, PTL DEF Spec

-----------------------------------------------------------------------------
\* Lists without repetitions, from which an element is taken or to whose end it goes.
Once(s, S) == s \in Seq(S) /\ IsInjective(s)

LEMMA RemovedFrom ==
  ASSUME NEW S, NEW s, Once(s, S), NEW k
  PROVE  /\ Once(RemoveFirst(s, k), S)
         /\ Range(RemoveFirst(s, k)) = Range(s) \ {k}
         /\ Len(RemoveFirst(s, k)) = Len(s) - (IF k \in Range(s) THEN 1 ELSE 0)
<1> USE DEF Once
<1>1. Len(s) \in Nat /\ DOMAIN s = 1..Len(s) /\ \A i \in 1..Len(s) : s[i] \in S
  BY LenProperties
<1>2. CASE k \notin Range(s)
  <2>1. RemoveFirst(s, k) = s
    BY <1>1, <1>2 DEF RemoveFirst, Range
  <2> QED BY <1>1, <1>2, <2>1
<1>3. CASE k \in Range(s)
  <2>1. PICK j \in 1..Len(s) : s[j] = k
    BY <1>1, <1>3 DEF Range
  <2>2. {i \in 1..Len(s) : s[i] = k} = {j}
    BY <1>1, <2>1 DEF IsInjective
  <2>3. RemoveFirst(s, k) = RemoveAt(s, j)
    <3>1. Min({j}) = j
      <4>1. j <= j
        BY <1>1, <2>1
      <4> QED BY <4>1 DEF Min
    <3>2. SelectInSeq(s, LAMBDA v : v = k) = j
      BY <2>2, <3>1 DEF SelectInSeq
    <3> QED BY <2>1, <3>2 DEF RemoveFirst
  <2> DEFINE n == Len(s)
             a == SubSeq(s, 1, j - 1)
             b == SubSeq(s, j + 1, n)
             r == a \o b
  <2>4. /\ a \in Seq(S) /\ Len(a) = j - 1
        /\ \A i \in 1..(j - 1) : a[i] = s[i]
    <3>1. /\ SubSeq(s, 1, j - 1) \in Seq(S)
          /\ Len(SubSeq(s, 1, j - 1)) = IF 1 <= j - 1 THEN (j - 1) - 1 + 1 ELSE 0
          /\ \A i \in 1..((j - 1) - 1 + 1) : SubSeq(s, 1, j - 1)[i] = s[1 + i - 1]
      <4>1. 1 \in Int /\ j - 1 \in Int /\ \A i \in 1..(j - 1) : s[i] \in S
        BY <1>1, <2>1
      <4> QED BY <4>1, SubSeqProperties
    <3>2. \A i \in 1..(j - 1) : i \in 1..((j - 1) - 1 + 1) /\ 1 + i - 1 = i
      BY <2>1
    <3> QED BY <2>1, <3>1, <3>2
  <2>5. /\ b \in Seq(S) /\ Len(b) = n - j
        /\ \A i \in 1..(n - j) : b[i] = s[j + i]
    <3>1. /\ SubSeq(s, j + 1, n) \in Seq(S)
          /\ Len(SubSeq(s, j + 1, n)) = IF j + 1 <= n THEN n - (j + 1) + 1 ELSE 0
          /\ \A i \in 1..(n - (j + 1) + 1) : SubSeq(s, j + 1, n)[i] = s[(j + 1) + i - 1]
      <4>1. j + 1 \in Int /\ n \in Int /\ \A i \in (j + 1)..n : s[i] \in S
        BY <1>1, <2>1
      <4> QED BY <4>1, SubSeqProperties
    <3>2. \A i \in 1..(n - j) : i \in 1..(n - (j + 1) + 1) /\ (j + 1) + i - 1 = j + i
      BY <1>1, <2>1
    <3>3. (IF j + 1 <= n THEN n - (j + 1) + 1 ELSE 0) = n - j
      <4>1. n \in Int /\ j \in Int /\ j <= n
        BY <1>1, <2>1
      <4> HIDE DEF n
      <4> QED BY ONLY <4>1, SMT
    <3>4. \A i \in 1..(n - j) : b[i] = s[j + i]
      BY <3>1, <3>2
    <3> QED BY <3>1, <3>3, <3>4
  <2> HIDE DEF a, b
  <2>6. /\ r \in Seq(S) /\ Len(r) = n - 1
        /\ \A i \in 1..(n - 1) : r[i] = IF i < j THEN s[i] ELSE s[i + 1]
    <3>1. /\ r \in Seq(S) /\ Len(r) = Len(a) + Len(b)
          /\ \A i \in 1..(Len(a) + Len(b)) : r[i] = IF i <= Len(a) THEN a[i] ELSE b[i - Len(a)]
      BY <2>4, <2>5, ConcatProperties
    <3>2. Len(a) + Len(b) = n - 1
      BY <1>1, <2>1, <2>4, <2>5
    <3>3. ASSUME NEW i \in 1..(n - 1)
          PROVE  r[i] = IF i < j THEN s[i] ELSE s[i + 1]
      <4>1. CASE i < j
        <5>1. i \in 1..(j - 1) /\ i <= Len(a)
          BY <1>1, <2>1, <2>4, <4>1
        <5> QED BY <2>4, <3>1, <3>2, <4>1, <5>1
      <4>2. CASE ~(i < j)
        <5>1. i - (j - 1) \in 1..(n - j) /\ ~(i <= Len(a)) /\ j + (i - (j - 1)) = i + 1
          BY <1>1, <2>1, <2>4, <4>2
        <5>2. r[i] = b[i - (j - 1)]
          BY <2>4, <3>1, <3>2, <5>1
        <5>3. b[i - (j - 1)] = s[i + 1]
          BY <2>5, <5>1
        <5> QED BY <4>2, <5>2, <5>3
      <4> QED BY <4>1, <4>2
    <3> QED BY <3>1, <3>2, <3>3
  <2>7. r = RemoveFirst(s, k)
    BY <2>3 DEF RemoveAt, a, b
  <2> HIDE DEF r
  <2>8. DOMAIN r = 1..(n - 1)
    BY <2>6, LenProperties
  <2>9. IsInjective(r)
    <3> SUFFICES ASSUME NEW x \in 1..(n - 1), NEW y \in 1..(n - 1), r[x] = r[y] PROVE x = y
      BY <2>8 DEF IsInjective
    <3> DEFINE of(i) == IF i < j THEN i ELSE i + 1
    <3>1. of(x) \in 1..n /\ of(y) \in 1..n /\ r[x] = s[of(x)] /\ r[y] = s[of(y)]
      BY <1>1, <2>1, <2>6
    <3>2. of(x) = of(y)
      BY <1>1, <3>1 DEF IsInjective
    <3> QED BY <2>1, <3>2
  <2>10. ASSUME NEW v \in Range(s) \ {k} PROVE v \in Range(r)
    <3>1. PICK i \in 1..n : s[i] = v
      BY <1>1 DEF Range
    <3>2. i # j
      BY <2>1, <3>1
    <3>3. CASE i < j
      <4>1. i \in 1..(n - 1) /\ r[i] = v
        BY <1>1, <2>1, <2>6, <3>1, <3>3
      <4> QED BY <2>8, <4>1 DEF Range
    <3>4. CASE i > j
      <4>1. i - 1 \in 1..(n - 1) /\ ~(i - 1 < j) /\ (i - 1) + 1 = i
        BY <1>1, <2>1, <3>4
      <4>2. r[i - 1] = v
        BY <2>6, <3>1, <4>1
      <4> QED BY <2>8, <4>1, <4>2 DEF Range
    <3> QED BY <2>1, <3>1, <3>2, <3>3, <3>4
  <2>11. ASSUME NEW v \in Range(r) PROVE v \in Range(s) \ {k}
    <3>1. PICK i \in 1..(n - 1) : r[i] = v
      BY <2>8 DEF Range
    <3> DEFINE m == IF i < j THEN i ELSE i + 1
    <3>2. m \in 1..n /\ m # j /\ v = s[m]
      BY <1>1, <2>1, <2>6, <3>1
    <3>3. s[m] # k
      BY <1>1, <2>1, <3>2 DEF IsInjective
    <3> QED BY <1>1, <3>2, <3>3 DEF Range
  <2>12. Range(r) = Range(s) \ {k}
    BY <2>10, <2>11
  <2> QED BY <1>3, <2>6, <2>7, <2>9, <2>12
<1> QED BY <1>2, <1>3

LEMMA Appended ==
  ASSUME NEW S, NEW s, Once(s, S), NEW k \in S, k \notin Range(s)
  PROVE  /\ Once(Append(s, k), S) /\ Range(Append(s, k)) = Range(s) \cup {k}
         /\ Len(Append(s, k)) = Len(s) + 1 /\ Append(s, k)[Len(s) + 1] = k
<1> DEFINE r == Append(s, k)
<1>1. Len(s) \in Nat /\ DOMAIN s = 1..Len(s)
  BY LenProperties DEF Once
<1>2. /\ r \in Seq(S) /\ Len(r) = Len(s) + 1 /\ r[Len(s) + 1] = k
      /\ \A i \in 1..Len(s) : r[i] = s[i]
  BY DEF Once
<1> HIDE DEF r
<1>3. DOMAIN r = 1..(Len(s) + 1)
  BY <1>2, LenProperties
<1>4. \A i \in DOMAIN r : i \in DOMAIN s \/ i = Len(s) + 1
  BY <1>1, <1>3
<1>5. DOMAIN s \subseteq DOMAIN r /\ Len(s) + 1 \in DOMAIN r
  BY <1>1, <1>3
<1>6. Range(r) = Range(s) \cup {k}
  BY <1>1, <1>2, <1>4, <1>5 DEF Range
<1>7. IsInjective(r)
  BY <1>1, <1>2, <1>4 DEF IsInjective, Once, Range
<1> QED BY <1>2, <1>6, <1>7 DEF Once, r

LEMMA WithoutFirst ==
  ASSUME NEW S, NEW s, Once(s, S), Len(s) > 0
  PROVE  /\ Once(Tail(s), S) /\ Range(Tail(s)) = Range(s) \ {s[1]}
         /\ Len(Tail(s)) = Len(s) - 1
<1> DEFINE r == Tail(s)
<1>1. Len(s) \in Nat \ {0} /\ DOMAIN s = 1..Len(s) /\ s # <<>>
  BY LenProperties DEF Once
<1>2. r \in Seq(S) /\ Len(r) = Len(s) - 1 /\ \A i \in 1..(Len(s) - 1) : r[i] = s[i + 1]
  BY <1>1, HeadTailProperties DEF Once
<1> HIDE DEF r
<1>3. DOMAIN r = 1..(Len(s) - 1)
  BY <1>2, LenProperties
<1>4. \A i \in DOMAIN r : i + 1 \in DOMAIN s /\ i + 1 # 1 /\ i \in Int
  BY <1>1, <1>3
<1>5. IsInjective(r)
  <2> SUFFICES ASSUME NEW x \in DOMAIN r, NEW y \in DOMAIN r, r[x] = r[y] PROVE x = y
    BY DEF IsInjective
  <2>1. x + 1 = y + 1
    BY <1>2, <1>3, <1>4 DEF Once, IsInjective
  <2> QED BY <1>4, <2>1
<1>6. Range(r) \subseteq Range(s) \ {s[1]}
  <2> SUFFICES ASSUME NEW i \in DOMAIN r PROVE r[i] \in Range(s) \ {s[1]}
    BY DEF Range
  <2>1. r[i] = s[i + 1] /\ 1 \in DOMAIN s
    BY <1>1, <1>2, <1>3
  <2> QED BY <1>4, <2>1 DEF Once, IsInjective, Range
<1>7. Range(s) \ {s[1]} \subseteq Range(r)
  <2> SUFFICES ASSUME NEW i \in DOMAIN s, s[i] # s[1] PROVE s[i] \in Range(r)
    BY DEF Range
  <2>1. i - 1 \in 1..(Len(s) - 1) /\ (i - 1) + 1 = i
    BY <1>1
  <2>2. r[i - 1] = s[i]
    BY <1>2, <2>1
  <2> QED BY <1>3, <2>1, <2>2 DEF Range
<1> QED BY <1>2, <1>5, <1>6, <1>7 DEF Once, r

-----------------------------------------------------------------------------
\* The cache: its keys in their order are those of its entries.
LEMMA UsedOrder ==
  ASSUME NEW s, Once(s, Keys), Len(s) <= MaxSize, NEW k \in Keys
  PROVE  /\ Once(Used(s, k), Keys) /\ Range(Used(s, k)) = Range(s) \cup {k}
         /\ k \in Range(s) => Len(Used(s, k)) = Len(s)
         /\ Once(Kept(s, k), Keys) /\ Len(Kept(s, k)) <= MaxSize
         /\ k \in Range(Kept(s, k)) /\ Range(Kept(s, k)) \subseteq Range(s) \cup {k}
<1> DEFINE r == RemoveFirst(s, k)
           u == Append(r, k)
<1>1. Len(s) \in Nat /\ MaxSize \in Nat \ {0}
  BY LenProperties, CacheAssumption DEF Once
<1>2. /\ Once(r, Keys) /\ Range(r) = Range(s) \ {k}
      /\ Len(r) = Len(s) - (IF k \in Range(s) THEN 1 ELSE 0)
  BY RemovedFrom
<1>3. Len(r) \in Nat
  BY <1>2, LenProperties DEF Once
<1> HIDE DEF r
<1>4. /\ Once(u, Keys) /\ Range(u) = Range(s) \cup {k}
      /\ Len(u) = Len(r) + 1 /\ u[Len(r) + 1] = k
  BY <1>2, Appended
<1>5. u = Used(s, k)
  BY DEF Used, r
<1> HIDE DEF u
<1>6. CASE Len(u) > MaxSize
  <2>1. Kept(s, k) = Tail(u)
    BY <1>5, <1>6 DEF Kept
  <2>2. Once(Tail(u), Keys) /\ Range(Tail(u)) = Range(u) \ {u[1]} /\ Len(Tail(u)) = Len(u) - 1
    BY <1>1, <1>3, <1>4, <1>6, WithoutFirst
  <2>3. u[1] # k
    <3>1. Len(u) \in DOMAIN u /\ 1 \in DOMAIN u /\ Len(u) # 1 /\ u[Len(u)] = k
      BY <1>1, <1>3, <1>4, <1>6, LenProperties DEF Once
    <3> QED BY <1>4, <3>1 DEF Once, IsInjective
  <2>4. Len(u) - 1 <= MaxSize
    BY <1>1, <1>2, <1>3, <1>4
  <2> QED BY <1>1, <1>2, <1>3, <1>4, <1>5, <2>1, <2>2, <2>3, <2>4
<1>7. CASE ~(Len(u) > MaxSize)
  <2>1. Kept(s, k) = u
    BY <1>5, <1>7 DEF Kept
  <2> QED BY <1>1, <1>2, <1>3, <1>4, <1>5, <1>7, <2>1
<1> QED BY <1>6, <1>7

Ordered ==
  Once(order, Keys) /\ Len(order) <= MaxSize /\ Entries = Range(order)

LEMMA InitOrdered == Init => Ordered
<1> SUFFICES ASSUME Init PROVE Ordered
  OBVIOUS
<1>1. order = <<>> /\ held = [k \in Keys |-> None]
  BY DEF Init
<1>2. <<>> \in Seq(Keys) /\ Len(<<>>) = 0 /\ DOMAIN <<>> = {}
  OBVIOUS
<1>3. Once(order, Keys) /\ Range(order) = {}
  BY <1>1, <1>2 DEF Once, IsInjective, Range
<1>4. Entries = {}
  BY <1>1 DEF Entries, Stored
<1> QED BY <1>1, <1>2, <1>3, <1>4, CacheAssumption DEF Ordered

\* What evaluate does to the cache.
LEMMA EvaluateOrdered ==
  ASSUME Shape, Ordered, NEW c \in active, NEW i \in Targets(c), Evaluate(c, i)
  PROVE  Ordered'
<1> DEFINE k == Key(c, i)
<1>1. c \in Known /\ i \in Members(tasks[c])
  BY EvaluateJudges
<1>2. k \in Keys
  BY <1>1, KeysAreKeys
<1>3. held \in [Keys -> CacheEntries \cup {None}] /\ Once(order, Keys) /\ Len(order) <= MaxSize
  BY DEF Shape, Ordered
<1>4. Entries = Range(order) /\ Entries = {j \in Keys : held[j] # None}
  BY DEF Ordered, Entries, Stored
<1>5. Entries' = {j \in Keys : held'[j] # None}
  BY DEF Entries, Stored
<1>6. CASE UNCHANGED cache
  BY <1>6 DEF Ordered, cache, Entries, Stored, Once
<1>7. CASE Serve(c, i)
  <2>1. held' = held /\ order' = Used(order, k) /\ k \in Entries
    BY <1>2, <1>7 DEF Serve, Fresh, Entries
  <2>2. /\ Once(order', Keys) /\ Range(order') = Range(order) \cup {k}
        /\ Len(order') = Len(order)
    BY <1>2, <1>3, <1>4, <2>1, UsedOrder
  <2> QED BY <1>3, <1>4, <1>5, <2>1, <2>2 DEF Ordered, Once
<1>8. CASE Miss(c, i)
  <2>1. held' = [held EXCEPT ![k] = None] /\ order' = RemoveFirst(order, k)
    BY <1>8 DEF Miss, Forget, Unused
  <2>2. /\ Once(order', Keys) /\ Range(order') = Range(order) \ {k}
        /\ Len(order') = Len(order) - (IF k \in Range(order) THEN 1 ELSE 0)
    BY <1>3, <2>1, RemovedFrom
  <2>3. Entries' = Entries \ {k}
    BY <1>2, <1>3, <1>4, <1>5, <2>1
  <2>4. Len(order') <= MaxSize
    BY <1>3, <2>2, LenProperties, CacheAssumption DEF Once
  <2> QED BY <1>4, <2>2, <2>3, <2>4 DEF Ordered, Once
<1>9. ASSUME NEW verdict \in Verdicts, Conclude(c, i, verdict) PROVE Ordered'
  <2> DEFINE kept == Kept(order, k)
             e    == Entry(Evaluation(verdict, k))
  <2>1. /\ order' = kept
        /\ held' = [j \in Keys |-> IF j = k THEN e
                                   ELSE IF Contains(kept, j) THEN held[j] ELSE None]
    BY <1>9 DEF Conclude, Put
  <2>2. /\ Once(kept, Keys) /\ Len(kept) <= MaxSize
        /\ k \in Range(kept) /\ Range(kept) \subseteq Range(order) \cup {k}
    BY <1>2, <1>3, UsedOrder
  <2>3. e # None
    <3>1. 0 \in 0..Ttl
      BY Spans
    <3>2. e \in CacheEntries
      BY <1>2, <3>1 DEF Entry, Evaluation, Evaluations, CacheEntries
    <3> QED BY <3>2, NoneAssumption
  <2> HIDE DEF kept, e
  <2>4. \A j : Contains(kept, j) <=> j \in Range(kept)
    <3>1. DOMAIN kept = 1..Len(kept)
      BY <2>2, LenProperties DEF Once
    <3> QED BY <3>1 DEF Contains, Range
  <2>5. Range(kept) \subseteq Keys
    BY <2>2, LenProperties DEF Once, Range
  <2>6. Entries' = Range(kept)
    BY <1>4, <1>5, <2>1, <2>2, <2>3, <2>4, <2>5
  <2> QED BY <2>1, <2>2, <2>6 DEF Ordered, Once
<1>10. CASE ModelAnswers(c, i)
  BY <1>9, <1>10 DEF ModelAnswers, Verdicts
<1>11. CASE ModelFails(c, i)
  BY <1>6, <1>9, <1>11 DEF ModelFails, Verdicts
<1>12. CASE PassBy(c, i) \/ Neutral(c, i)
  BY <1>6, <1>12 DEF PassBy, Neutral
<1> QED BY <1>7, <1>8, <1>10, <1>11, <1>12 DEF Evaluate

LEMMA StepOrdered == Shape /\ Ordered /\ [Next]_vars => Ordered'
<1> SUFFICES ASSUME Shape, Ordered, [Next]_vars PROVE Ordered'
  OBVIOUS
<1>1. CASE UNCHANGED cache
  BY <1>1 DEF Ordered, cache, Entries, Stored, Once
<1>2. CASE Tick
  <2>1. order' = order /\ held' = [k \in Keys |-> Aged(held[k])]
    BY <1>2 DEF Tick
  <2>2. ASSUME NEW k \in Keys PROVE Aged(held[k]) = None <=> held[k] = None
    <3>1. CASE held[k] = None
      BY <3>1 DEF Aged
    <3>2. CASE held[k] # None
      <4>1. held[k] \in CacheEntries
        BY <3>2 DEF Shape
      <4>2. /\ held[k].evaluation \in Evaluations /\ held[k].age \in 0..Ttl
            /\ held[k].evaluation.age \in 0..Ttl
        BY <4>1 DEF CacheEntries, Evaluations
      <4>3. \A age \in 0..Ttl : Older(age) \in 0..Ttl
        BY Spans DEF Older
      <4>4. Aged(held[k]) \in CacheEntries
        BY <3>2, <4>2, <4>3 DEF Aged, CacheEntries, Evaluations
      <4> QED BY <3>2, <4>4, NoneAssumption
    <3> QED BY <3>1, <3>2
  <2>3. Entries' = Entries
    BY <2>1, <2>2 DEF Entries, Stored
  <2> QED BY <2>1, <2>3 DEF Ordered, Once
<1>3. ASSUME NEW c \in active, Loop(c) PROVE Ordered'
  <2>1. ASSUME NEW i \in Targets(c), Evaluate(c, i) PROVE Ordered'
    BY <2>1, EvaluateOrdered
  <2>2. CASE ~\E i \in Targets(c) : Evaluate(c, i)
    <3>1. UNCHANGED cache
      BY <1>3, <2>2 DEF Loop, BeginCycle, Answered, Skip, Advance, Retry, Fail, Score, HandOver
    <3> QED BY <1>1, <3>1
  <2> QED BY <2>1, <2>2
<1>4. CASE UNCHANGED vars
  BY <1>1, <1>4 DEF vars, cache
<1> QED BY <1>2, <1>3, <1>4 DEF Next

-----------------------------------------------------------------------------
\* Types of what the loops keep.
LoopTyped(c) ==
  /\ at[c] \in 1..Requests(c) + 1 /\ tries[c] \in 1..Attempts
  /\ failure[c] \in Troubles \cup {None}
  /\ pc[c] = "evaluating" => Members(tasks[c]) # {}

LoopsTyped ==
  /\ evaluator \in Evaluators /\ heard \in [Known -> BOOLEAN]
  /\ \A c \in Known : LoopTyped(c)

LEMMA InitLoopsTyped == Init => LoopsTyped
<1> SUFFICES ASSUME Init PROVE LoopsTyped
  OBVIOUS
<1>1. ASSUME NEW c \in Known PROVE 1 \in 1..Requests(c) + 1 /\ 1 \in 1..Attempts
  <2>1. Requests(c) \in Nat
    BY CollectorsAsk
  <2> QED BY <2>1, PipelineAssumption
<1> QED BY <1>1 DEF Init, LoopsTyped, LoopTyped

LEMMA LoopKeepsLoopsTyped ==
  ASSUME Shape, Contained, LoopsTyped, NEW c \in active, Loop(c)
  PROVE  LoopsTyped'
<1>1. c \in Known /\ Framed /\ Framed' /\ LoopTyped(c)
  BY OthersKeep DEF Shape, Contained, LoopsTyped
<1>2. /\ Requests(c) \in Nat /\ Requests(c)' = Requests(c) /\ Attempts \in Nat \ {0}
      /\ 1 \in 1..Requests(c) + 1 /\ 1 \in 1..Attempts
  <2>1. Requests(c) \in Nat
    BY <1>1, CollectorsAsk
  <2> QED BY <2>1, PipelineAssumption DEF Requests, PerTarget
<1>3. \A d \in Known : d # c => LoopTyped(d)'
  <2> SUFFICES ASSUME NEW d \in Known, d # c PROVE LoopTyped(d)'
    OBVIOUS
  <2>1. Untouched(d) /\ LoopTyped(d)
    BY <1>1, OthersKeep DEF LoopsTyped
  <2> QED BY <2>1 DEF Untouched, LoopTyped, Members, Requests, PerTarget
<1>4. SUFFICES evaluator' = evaluator /\ heard' \in [Known -> BOOLEAN] /\ LoopTyped(c)'
  BY <1>3 DEF LoopsTyped
<1>5. heard \in [Known -> BOOLEAN]
  BY DEF LoopsTyped
<1>6. ASSUME EndCycle(c), UNCHANGED <<evaluator, tries>>, failure'[c] \in Troubles \cup {None}
      PROVE  evaluator' = evaluator /\ heard' \in [Known -> BOOLEAN] /\ LoopTyped(c)'
  <2>1. pc'[c] = "idle" /\ at'[c] = 1 /\ heard' = [heard EXCEPT ![c] = FALSE]
    BY <1>1, <1>6 DEF EndCycle, Shape, Framed
  <2> QED BY <1>1, <1>2, <1>5, <1>6, <2>1 DEF LoopTyped
<1>7. CASE BeginCycle(c)
  <2>1. /\ pc'[c] = "asking" /\ tries'[c] = 1 /\ failure'[c] = None
        /\ UNCHANGED <<evaluator, at, heard>>
    BY <1>1, <1>7 DEF BeginCycle, fixed, Shape, Framed
  <2> QED BY <1>1, <1>2, <1>5, <2>1 DEF LoopTyped
<1>8. ASSUME NEW some \in BOOLEAN, Asking(c), Advance(c, some)
      PROVE  evaluator' = evaluator /\ heard' \in [Known -> BOOLEAN] /\ LoopTyped(c)'
  <2>1. /\ at'[c] = at[c] + 1 /\ at[c] <= Requests(c) /\ tries'[c] = 1
        /\ heard' = [heard EXCEPT ![c] = some /\ ~Completes(c, at[c])]
        /\ UNCHANGED <<evaluator, pc, failure>> /\ pc[c] = "asking"
    BY <1>1, <1>8 DEF Advance, Asking, fixed, Framed
  <2>2. heard' \in [Known -> BOOLEAN]
    BY <1>5, <2>1
  <2>3. at'[c] \in 1..Requests(c) + 1
    BY <1>1, <1>2, <2>1 DEF LoopTyped
  <2> QED BY <1>1, <1>2, <2>1, <2>2, <2>3 DEF LoopTyped
<1>9. CASE Answered(c)
  BY <1>8, <1>9 DEF Answered
<1>10. CASE Skip(c)
  BY <1>5, <1>1, <1>8, <1>10 DEF Skip
<1>11. CASE Retry(c)
  <2>1. /\ tries'[c] = tries[c] + 1 /\ tries[c] < Attempts /\ pc[c] = "asking"
        /\ UNCHANGED <<evaluator, pc, at, heard, failure>>
    BY <1>1, <1>11 DEF Retry, Asking, fixed, Framed
  <2>2. tries'[c] \in 1..Attempts
    BY <1>1, <1>2, <2>1 DEF LoopTyped
  <2> QED BY <1>1, <1>2, <1>5, <2>1, <2>2 DEF LoopTyped
<1>12. CASE Fail(c)
  <2>1. PICK trouble \in Fatal(c, at[c]) \cup (IF tries[c] = Attempts THEN Retried(c) ELSE {}) :
             failure' = [failure EXCEPT ![c] = trouble]
    BY <1>12 DEF Fail
  <2>2. trouble \in Troubles
    BY DEF Fatal, Retried, Troubles
  <2>3. failure'[c] \in Troubles
    BY <1>1, <2>1, <2>2 DEF Framed
  <2> QED BY <1>6, <1>12, <2>3 DEF Fail, fixed
<1>13. CASE Score(c)
  <2>1. /\ pc[c] = "asking" /\ UNCHANGED <<evaluator, tries, failure>>
        /\ (Ended(c) \/ Started(c))
    BY <1>13, ScoreEndsOrStarts DEF Score, fixed
  <2>2. failure[c] \in Troubles \cup {None}
    BY <1>1 DEF LoopTyped
  <2>3. CASE Ended(c)
    BY <1>6, <2>1, <2>2, <2>3 DEF Ended
  <2>4. CASE Started(c) /\ ~EndCycle(c)
    <3>1. UNCHANGED <<at, heard>> /\ Members(batch[c]) # {}
      BY <1>13, <2>4 DEF Score, Signals
    <3>2. Members(tasks'[c]) # {}
      BY <2>4, <3>1 DEF Started
    <3> QED BY <1>1, <1>2, <1>5, <2>1, <3>1, <3>2 DEF LoopTyped, Members
  <2>5. CASE EndCycle(c)
    BY <1>6, <2>1, <2>2, <2>5
  <2> QED BY <2>1, <2>3, <2>4, <2>5
<1>14. CASE HandOver(c)
  <2>1. failure'[c] \in Troubles \cup {None}
    BY <1>1, <1>14 DEF HandOver, LoopTyped
  <2> QED BY <1>6, <1>14, <2>1 DEF HandOver, fixed
<1>15. ASSUME NEW i \in Targets(c), Evaluate(c, i)
       PROVE  evaluator' = evaluator /\ heard' \in [Known -> BOOLEAN] /\ LoopTyped(c)'
  <2>1. /\ i \in Members(tasks[c]) /\ UNCHANGED <<fixed, pc, collection>>
        /\ \E t \in Tasks : Judged(c, i, t)
    BY <1>15, EvaluateJudges DEF Judges
  <2>2. Members(tasks'[c]) = Members(tasks[c])
    BY <1>1, <2>1, JudgedKeepsMembers
  <2> QED BY <1>1, <1>2, <1>5, <2>1, <2>2 DEF LoopTyped, Members, fixed, collection
<1> QED
  BY <1>7, <1>9, <1>10, <1>11, <1>12, <1>13, <1>14, <1>15 DEF Loop

LEMMA StepLoopsTyped == Shape /\ Contained /\ LoopsTyped /\ [Next]_vars => LoopsTyped'
<1> SUFFICES ASSUME Shape, Contained, LoopsTyped, [Next]_vars PROVE LoopsTyped'
  OBVIOUS
<1>1. CASE Tick
  <2>1. UNCHANGED <<evaluator, pc, at, tries, heard, failure>>
    BY <1>1 DEF Tick, fixed, collection
  <2>2. \A c \in Known : Members(tasks'[c]) = Members(tasks[c])
    BY <1>1, TickKeepsMembers
  <2> QED BY <2>1, <2>2 DEF LoopsTyped, LoopTyped, Members, Requests, PerTarget
<1>2. CASE UNCHANGED vars
  BY <1>2 DEF vars, fixed, collection, LoopsTyped, LoopTyped, Members, Requests, PerTarget
<1> QED BY <1>1, <1>2, LoopKeepsLoopsTyped DEF Next

(***************************************************************************)
(* Types, and the cache: it holds no more than MaxSize entries, and its    *)
(* order names each of their keys once and no other, whatever loops do to  *)
(* it in between (EvaluationCache, an OrderedDict for both in the code).   *)
(***************************************************************************)
THEOREM TypeCorrect == Spec => []TypeOK
<1>1. Shape /\ InTime /\ Contained /\ Ordered /\ LoopsTyped => TypeOK
  <2> SUFFICES ASSUME Shape, InTime, Contained, Ordered, LoopsTyped PROVE TypeOK
    OBVIOUS
  <2>1. ASSUME NEW c \in Known
        PROVE  /\ pc[c] \in {"idle", "asking", "evaluating"}
               /\ at[c] \in 1..Requests(c) + 1 /\ tries[c] \in 1..Attempts
               /\ heard[c] \in BOOLEAN /\ failure[c] \in Troubles \cup {None}
               /\ answered[c] \subseteq Targets(c) /\ handed[c] \subseteq Targets(c)
               /\ elapsed[c] \in Nat
               /\ DOMAIN batch[c] = Targets(c) /\ DOMAIN tasks[c] = Targets(c)
               /\ Members(tasks[c]) # {} <=> pc[c] = "evaluating"
    <3>1. LoopTyped(c) /\ ContainedAt(c) /\ heard[c] \in BOOLEAN
      BY DEF LoopsTyped, Contained
    <3>2. /\ pc[c] \in {"idle", "asking", "evaluating"} /\ elapsed[c] \in Nat
          /\ DOMAIN batch[c] = Targets(c) /\ DOMAIN tasks[c] = Targets(c)
          /\ pc[c] # "evaluating" => Members(tasks[c]) = {}
      BY DEF Shape, InTime
    <3>3. answered[c] \subseteq Targets(c) /\ handed[c] \subseteq Targets(c)
      BY <3>1, <3>2 DEF ContainedAt, Settled, Gathered
    <3> QED BY <3>1, <3>2, <3>3 DEF LoopTyped
  <2>2. \A k \in Entries : held[k].age \in 0..Ttl
    BY DEF Shape, Entries, Stored, CacheEntries
  <2> QED BY <2>1, <2>2 DEF TypeOK, Ordered, Once, LoopsTyped, Shape
<1> QED
  BY <1>1, InitShape, StepShape, InitInTime, StepInTime, InitContained, StepContained,
     InitOrdered, StepOrdered, InitLoopsTyped, StepLoopsTyped, PTL DEF Spec
=============================================================================
