---------------------------- MODULE EngineProofs ----------------------------
(***************************************************************************)
(* Theorems about RainbowEngine: what its store, its account of signals,   *)
(* its shutdown and its subscriptions keep through failures, cancellation  *)
(* and crashes, for every set of collectors, batch size and load; and that *)
(* it implements EngineContract.                                           *)
(***************************************************************************)
EXTENDS RainbowEngine, FiniteSetTheorems, TLAPS

Statuses == {"running", "error", "stopped"}

Wants == [id : Nat \X Nat, made : Nat, sources : SUBSET Collectors]

\* Where a loop is in its batch.
Turn(c) ==
  /\ Len(batch[c]) <= MaxBatch
  /\ place[c] \in {"collect", "wait", "done"} => at[c] = 1
  /\ place[c] = "collect" => batch[c] = <<>>
  /\ place[c] \in {"insert", "commit", "dispatch", "deliver"} => at[c] <= Len(batch[c])

LoopShape ==
  /\ place \in [Collectors -> Places]
  /\ batch \in [Collectors -> Seq(Signals)] /\ at \in [Collectors -> Nat \ {0}]
  /\ inflight \in [Collectors -> SUBSET Subs]
  /\ status \in [Collectors -> Statuses]
  /\ \A c \in Collectors : Turn(c)

StoreShape ==
  /\ engine \in {"up", "cancelling", "closing", "stopped"} /\ load \in Loads
  /\ uncommitted \subseteq Signals /\ stored \subseteq Signals /\ registry \subseteq Signals
  /\ collected \in 0..load.signals
  /\ dispatched \subseteq Signals /\ abandoned \subseteq Signals
  /\ faults \in 0..load.faults

\* The table has entries of those who have subscribed, under the ids they got.
HookShape ==
  /\ load \in Loads /\ now \in 0..load.seconds
  /\ wanted \in Seq(Wants) /\ Len(wanted) <= load.subs
  /\ IsFiniteSet(DOMAIN subs)
  /\ \A id \in DOMAIN subs : subs[id] \in 1..Len(wanted) /\ wanted[subs[id]].id = id
  /\ \A k \in 1..Len(wanted) : wanted[k].id[2] = wanted[k].made
  /\ withdrawn \subseteq 1..Len(wanted)
  /\ failures \in [Subs -> Nat]

Shape == LoopShape /\ StoreShape /\ HookShape

LEMMA LoadsAreLoads ==
  ASSUME load \in Loads
  PROVE  /\ load.signals \in Nat /\ load.subs \in Nat /\ load.seconds \in Nat
         /\ load.faults \in Nat /\ load.filters \subseteq SUBSET Collectors
         /\ 1..load.signals \subseteq Signals /\ 1..load.subs \subseteq Subs
         /\ Signals \subseteq Nat /\ Subs \subseteq Nat
<1>1. \A l \in Loads : /\ l.signals \in Nat /\ l.subs \in Nat /\ l.seconds \in Nat
                        /\ l.faults \in Nat /\ l.filters \subseteq SUBSET Collectors
  BY EngineAssumption
<1>2. 1..load.signals \subseteq Signals /\ 1..load.subs \subseteq Subs
  BY DEF Signals, Subs
<1>3. Signals \subseteq Nat /\ Subs \subseteq Nat
  BY <1>1 DEF Signals, Subs
<1> QED BY <1>1, <1>2, <1>3

LEMMA RegisteredAreSubs ==
  ASSUME HookShape
  PROVE  Registered(subs) \subseteq 1..Len(wanted) /\ 1..Len(wanted) \subseteq Subs
<1>1. Registered(subs) \subseteq 1..Len(wanted)
  BY DEF HookShape, Registered
<1>2. Len(wanted) \in Nat /\ load.subs \in Nat /\ 1..load.subs \subseteq Subs
  BY LoadsAreLoads DEF HookShape
<1>3. 1..Len(wanted) \subseteq 1..load.subs
  BY <1>2 DEF HookShape
<1> QED BY <1>1, <1>2, <1>3

LEMMA ShapeIsType == Shape => TypeOK
<1> SUFFICES ASSUME Shape PROVE TypeOK
  OBVIOUS
<1>1. /\ engine \in {"up", "cancelling", "closing", "stopped"}
      /\ place \in [Collectors -> Places] /\ load \in Loads
      /\ uncommitted \subseteq Signals /\ stored \subseteq Signals /\ registry \subseteq Signals
      /\ collected \in 0..load.signals
      /\ dispatched \subseteq Signals /\ abandoned \subseteq Signals
      /\ faults \in 0..load.faults
  BY DEF Shape, LoopShape, StoreShape
<1>2. /\ Registered(subs) \subseteq Subs /\ withdrawn \subseteq Subs
      /\ failures \in [Subs -> Nat] /\ now \in 0..load.seconds
  BY RegisteredAreSubs DEF Shape, HookShape
<1>3. ASSUME NEW c \in Collectors
      PROVE  /\ batch[c] \in Seq(Signals) /\ Len(batch[c]) <= MaxBatch
             /\ at[c] \in 1..(Len(batch[c]) + 1)
             /\ inflight[c] \subseteq Subs
             /\ status[c] \in {"running", "error", "stopped"}
             /\ place[c] \in {"insert", "commit", "dispatch", "deliver"} => at[c] <= Len(batch[c])
  <2>1. /\ batch[c] \in Seq(Signals) /\ at[c] \in Nat \ {0} /\ inflight[c] \in SUBSET Subs
        /\ status[c] \in Statuses /\ Turn(c) /\ place[c] \in Places
    BY DEF Shape, LoopShape
  <2>2. Len(batch[c]) \in Nat
    BY <2>1
  <2>3. at[c] <= Len(batch[c]) + 1
    BY <2>1, <2>2 DEF Turn, Places
  <2> QED BY <2>1, <2>2, <2>3 DEF Turn, Statuses
<1> QED BY <1>1, <1>2, <1>3 DEF TypeOK

LEMMA InitShape == Init => Shape
<1> SUFFICES ASSUME Init PROVE Shape
  OBVIOUS
<1>1. load \in Loads /\ MaxBatch \in Nat
  BY EngineAssumption DEF Init
<1>2. 0 \in 0..load.signals /\ 0 \in 0..load.seconds /\ 0 \in 0..load.faults /\ load.subs \in Nat
  BY <1>1, LoadsAreLoads
<1>3. LoopShape
  BY <1>1 DEF Init, LoopShape, Turn, Places, Statuses
<1>4. StoreShape
  BY <1>1, <1>2 DEF Init, StoreShape
<1>5. HookShape
  <2>1. wanted = <<>> /\ DOMAIN subs = {} /\ withdrawn = {} /\ now = 0
    BY DEF Init, NoTable
  <2>2. IsFiniteSet(DOMAIN subs)
    BY <2>1, FS_EmptySet
  <2>3. failures \in [Subs -> Nat]
    BY DEF Init
  <2> QED BY <1>1, <1>2, <2>1, <2>2, <2>3 DEF HookShape
<1> QED BY <1>3, <1>4, <1>5 DEF Shape

-----------------------------------------------------------------------------
\* Shape is kept.

\* What the others of a loop see of its step: nothing that is theirs.
Untouched(d) ==
  /\ place'[d] = place[d] /\ batch'[d] = batch[d] /\ at'[d] = at[d]
  /\ inflight'[d] = inflight[d] /\ status'[d] = status[d]

LEMMA CurrentIsInBatch ==
  ASSUME LoopShape, NEW c \in Collectors,
         place[c] \in {"insert", "commit", "dispatch", "deliver"}
  PROVE  /\ Current(c) \in InBatch(c) /\ Current(c) \in Signals
         /\ at[c] \in 1..Len(batch[c]) /\ Len(batch[c]) \in Nat
         /\ batch[c] \in Seq(Signals)
<1>1. batch[c] \in Seq(Signals) /\ at[c] \in Nat \ {0} /\ at[c] <= Len(batch[c])
  BY DEF LoopShape, Turn
<1>2. Len(batch[c]) \in Nat /\ at[c] \in 1..Len(batch[c])
  BY <1>1
<1> QED BY <1>1, <1>2 DEF Current, InBatch

LEMMA AdvanceMoves ==
  ASSUME LoopShape, NEW c \in Collectors, NEW p \in {"insert", "dispatch"}, NEW after \in {"dispatch", "wait"},
         place[c] \in {"insert", "commit", "dispatch", "deliver"}, Advance(c, p, after),
         UNCHANGED <<batch, inflight, status>>
  PROVE  /\ LoopShape' /\ \A d \in Collectors : d # c => Untouched(d)
         /\ \/ at[c] < Len(batch[c]) /\ place'[c] = p /\ at'[c] = at[c] + 1
            \/ at[c] = Len(batch[c]) /\ place'[c] = after /\ at'[c] = 1
<1>1. /\ at[c] \in 1..Len(batch[c]) /\ Len(batch[c]) \in Nat /\ at[c] \in Nat \ {0}
      /\ Turn(c)
  BY CurrentIsInBatch DEF LoopShape
<1>2. /\ place' \in [Collectors -> Places] /\ at' \in [Collectors -> Nat \ {0}]
      /\ \A d \in Collectors : d # c => Untouched(d)
  <2>1. \E q \in Places, n \in Nat \ {0} :
          place' = [place EXCEPT ![c] = q] /\ at' = [at EXCEPT ![c] = n]
    <3>1. at[c] + 1 \in Nat \ {0} /\ p \in Places /\ after \in Places
      BY <1>1 DEF Places
    <3>2. CASE at[c] < Len(batch[c])
      BY <3>1, <3>2 DEF Advance, Goto, LoopShape
    <3>3. CASE ~(at[c] < Len(batch[c]))
      BY <3>1, <3>3 DEF Advance, Goto
    <3> QED BY <3>2, <3>3
  <2> QED BY <2>1 DEF LoopShape, Untouched
<1>3. \/ at[c] < Len(batch[c]) /\ place'[c] = p /\ at'[c] = at[c] + 1
      \/ at[c] = Len(batch[c]) /\ place'[c] = after /\ at'[c] = 1
  BY <1>1 DEF Advance, Goto, LoopShape
<1>4. ASSUME NEW d \in Collectors PROVE Turn(d)'
  <2>1. CASE d # c
    BY <1>2, <2>1 DEF Untouched, LoopShape, Turn
  <2>2. CASE d = c
    BY <1>1, <1>3, <2>2 DEF Turn
  <2> QED BY <2>1, <2>2
<1> QED BY <1>2, <1>3, <1>4 DEF LoopShape

LEMMA EndCycleMoves ==
  ASSUME LoopShape, NEW c \in Collectors, NEW p \in {"wait", "done"}, EndCycle(c), Goto(c, p),
         UNCHANGED status \/ status' = [status EXCEPT ![c] = "error"]
  PROVE  /\ LoopShape' /\ \A d \in Collectors : d # c => Untouched(d)
         /\ place'[c] = p /\ batch'[c] = <<>> /\ at'[c] = 1 /\ inflight'[c] = {}
<1>1. /\ place' = [place EXCEPT ![c] = p] /\ batch' = [batch EXCEPT ![c] = <<>>]
      /\ at' = [at EXCEPT ![c] = 1] /\ inflight' = [inflight EXCEPT ![c] = {}]
  BY DEF EndCycle, Goto
<1>2. place'[c] = p /\ batch'[c] = <<>> /\ at'[c] = 1 /\ inflight'[c] = {}
  BY <1>1 DEF LoopShape
<1>3. /\ place' \in [Collectors -> Places] /\ batch' \in [Collectors -> Seq(Signals)]
      /\ at' \in [Collectors -> Nat \ {0}] /\ inflight' \in [Collectors -> SUBSET Subs]
  <2>1. <<>> \in Seq(Signals) /\ {} \in SUBSET Subs /\ p \in Places
    BY DEF Places
  <2> QED BY <1>1, <2>1 DEF LoopShape
<1>4. status' \in [Collectors -> Statuses] /\ \A d \in Collectors : d # c => status'[d] = status[d]
  BY DEF LoopShape, Statuses
<1>5. \A d \in Collectors : d # c => Untouched(d)
  BY <1>1, <1>4 DEF Untouched, LoopShape
<1>6. ASSUME NEW d \in Collectors PROVE Turn(d)'
  <2>1. CASE d # c
    BY <1>5, <2>1 DEF Untouched, LoopShape, Turn
  <2>2. CASE d = c
    BY <1>2, <2>2, EngineAssumption DEF Turn
  <2> QED BY <2>1, <2>2
<1> QED BY <1>2, <1>3, <1>4, <1>5, <1>6 DEF LoopShape

LEMMA CollectMoves ==
  ASSUME LoopShape, StoreShape, NEW c \in Collectors, Collect(c)
  PROVE  \E n \in Nat :
           /\ LoopShape' /\ \A d \in Collectors : d # c => Untouched(d)
           /\ collected' = collected + n /\ collected' \in 0..load.signals
           /\ place'[c] = (IF n = 0 THEN "wait" ELSE "insert")
           /\ batch'[c] = [i \in 1..n |-> collected + i] /\ at'[c] = 1
           /\ at[c] = 1 /\ batch[c] = <<>> /\ Len(batch'[c]) = n
<1> PICK n \in 0..MaxBatch :
       /\ collected + n <= load.signals
       /\ collected' = collected + n
       /\ batch' = [batch EXCEPT ![c] = [i \in 1..n |-> collected + i]]
       /\ Goto(c, IF n = 0 THEN "wait" ELSE "insert")
  BY DEF Collect
<1>1. /\ place[c] = "collect" /\ UNCHANGED <<at, inflight, status>>
      /\ at[c] = 1 /\ batch[c] = <<>>
  BY DEF Collect, LoopShape, Turn
<1>2. n \in Nat /\ n <= MaxBatch /\ collected \in Nat /\ load.signals \in Nat
  BY EngineAssumption, LoadsAreLoads DEF StoreShape
<1> DEFINE mine == [i \in 1..n |-> collected + i]
<1>3. mine \in Seq(Signals) /\ Len(mine) = n
  <2>1. \A i \in 1..n : collected + i \in Signals
    <3>1. \A i \in 1..n : collected + i \in 1..load.signals
      BY <1>2
    <3> QED BY <3>1, LoadsAreLoads DEF StoreShape
  <2> QED BY <1>2, <2>1
<1>4. batch'[c] = mine /\ batch' \in [Collectors -> Seq(Signals)]
  BY <1>3 DEF LoopShape
<1>5. /\ place'[c] = (IF n = 0 THEN "wait" ELSE "insert") /\ place' \in [Collectors -> Places]
  BY DEF LoopShape, Goto, Places
<1>6. \A d \in Collectors : d # c => Untouched(d)
  BY <1>1 DEF Untouched, LoopShape, Goto
<1>7. ASSUME NEW d \in Collectors PROVE Turn(d)'
  <2>1. CASE d # c
    BY <1>6, <2>1 DEF Untouched, LoopShape, Turn
  <2>2. CASE d = c
    <3>1. Len(batch'[c]) = n /\ at'[c] = 1
      BY <1>1, <1>3, <1>4
    <3> QED BY <1>2, <1>5, <2>2, <3>1 DEF Turn
  <2> QED BY <2>1, <2>2
<1>8. LoopShape'
  BY <1>1, <1>4, <1>5, <1>7 DEF LoopShape
<1>9. collected' \in 0..load.signals /\ at'[c] = 1
  BY <1>1, <1>2
<1> QED BY <1>1, <1>2, <1>3, <1>4, <1>5, <1>6, <1>8, <1>9

LEMMA StepKeepsLoops ==
  ASSUME Shape, NEW c \in Collectors, Step(c)
  PROVE  LoopShape' /\ \A d \in Collectors : d # c => Untouched(d)
<1> USE DEF Shape
<1>1. CASE Collect(c)
  BY <1>1, CollectMoves
<1>2. CASE Insert(c)
  <2>1. /\ place[c] = "insert" /\ place' = [place EXCEPT ![c] = "commit"]
        /\ UNCHANGED <<batch, at, inflight, status>>
    BY <1>2 DEF Insert, Goto
  <2>2. \A d \in Collectors : Turn(d)'
    BY <2>1 DEF LoopShape, Turn
  <2> QED BY <2>1, <2>2 DEF LoopShape, Untouched, Places
<1>3. CASE Commit(c)
  BY <1>3, AdvanceMoves DEF Commit
<1>4. CASE Dispatch(c)
  <2>1. /\ place[c] = "dispatch" /\ place' = [place EXCEPT ![c] = "deliver"]
        /\ inflight' = [inflight EXCEPT ![c] = Matching(c)]
        /\ UNCHANGED <<batch, at, status>>
    BY <1>4 DEF Dispatch, Goto
  <2>2. Matching(c) \in SUBSET Subs
    BY RegisteredAreSubs DEF Matching
  <2>3. \A d \in Collectors : Turn(d)'
    BY <2>1 DEF LoopShape, Turn
  <2> QED BY <2>1, <2>2, <2>3 DEF LoopShape, Untouched, Places
<1>5. CASE Answer(c)
  <2> PICK k \in inflight[c] : inflight' = [inflight EXCEPT ![c] = @ \ {k}]
    BY <1>5 DEF Answer
  <2>1. UNCHANGED <<place, batch, at, status>>
    BY <1>5 DEF Answer
  <2>2. inflight' \in [Collectors -> SUBSET Subs]
    BY DEF LoopShape
  <2> QED BY <2>1, <2>2 DEF LoopShape, Turn, Untouched
<1>6. CASE DispatchDone(c)
  BY <1>6, AdvanceMoves DEF DispatchDone
<1>7. CASE CycleFails(c)
  BY <1>7, EndCycleMoves DEF CycleFails
<1>8. CASE Wake(c)
  <2>1. /\ place[c] = "wait" /\ place' = [place EXCEPT ![c] = "collect"]
        /\ batch' = [batch EXCEPT ![c] = <<>>] /\ status' = [status EXCEPT ![c] = "running"]
        /\ UNCHANGED <<at, inflight>>
    BY <1>8 DEF Wake, Goto
  <2>2. /\ place' \in [Collectors -> Places] /\ batch' \in [Collectors -> Seq(Signals)]
        /\ status' \in [Collectors -> Statuses]
    BY <2>1 DEF LoopShape, Places, Statuses
  <2>3. \A d \in Collectors : d # c => Untouched(d)
    BY <2>1 DEF LoopShape, Untouched
  <2>4. ASSUME NEW d \in Collectors PROVE Turn(d)'
    <3>1. CASE d # c
      BY <2>3, <3>1 DEF Untouched, LoopShape, Turn
    <3>2. CASE d = c
      BY <2>1, <3>2, EngineAssumption DEF LoopShape, Turn
    <3> QED BY <3>1, <3>2
  <2> QED BY <2>1, <2>2, <2>3, <2>4 DEF LoopShape
<1>9. CASE Cancelled(c)
  BY <1>9, EndCycleMoves DEF Cancelled
<1> QED BY <1>1, <1>2, <1>3, <1>4, <1>5, <1>6, <1>7, <1>8, <1>9 DEF Step

LEMMA StepKeepsStore ==
  ASSUME Shape, NEW c \in Collectors, Step(c)
  PROVE  StoreShape'
<1>1. LoopShape /\ StoreShape /\ load' = load
  BY DEF Shape, Step, Collect, Insert, Commit, Dispatch, Answer, DispatchDone, CycleFails,
         Wake, Cancelled
<1>2. \A d \in Collectors : InBatch(d) \subseteq Signals
  BY <1>1 DEF LoopShape, InBatch
<1>3. ASSUME EndCycle(c), UNCHANGED <<load, registry, collected, dispatched>>,
             uncommitted' \subseteq Signals, stored' \subseteq Signals,
             engine' = engine, faults' \in 0..load.faults
      PROVE  StoreShape'
  BY <1>1, <1>2, <1>3 DEF EndCycle, StoreShape
<1>4. CASE Collect(c)
  BY <1>1, <1>4, CollectMoves DEF Collect, StoreShape, storage
<1>5. CASE Insert(c)
  BY <1>1, <1>5, CurrentIsInBatch DEF Insert, StoreShape, history
<1>6. CASE Commit(c)
  BY <1>1, <1>6, CurrentIsInBatch DEF Commit, StoreShape, history
<1>7. CASE Dispatch(c)
  BY <1>1, <1>7 DEF Dispatch, StoreShape, storage, history
<1>8. CASE Answer(c)
  BY <1>1, <1>8 DEF Answer, StoreShape, storage, history
<1>9. CASE DispatchDone(c)
  BY <1>1, <1>9, CurrentIsInBatch DEF DispatchDone, StoreShape, storage
<1>10. CASE CycleFails(c)
  <2>1. faults' \in 0..load.faults
    BY <1>1, <1>10, LoadsAreLoads DEF CycleFails, Fault, StoreShape
  <2> QED BY <1>1, <1>3, <1>10, <2>1 DEF CycleFails, storage, StoreShape
<1>11. CASE Wake(c)
  BY <1>1, <1>11 DEF Wake, StoreShape, storage, history
<1>12. CASE Cancelled(c)
  <2>1. uncommitted' \subseteq Signals /\ stored' \subseteq Signals
    BY <1>1, <1>12, CurrentIsInBatch DEF Cancelled, StoreShape
  <2> QED BY <1>1, <1>3, <1>12, <2>1 DEF Cancelled, StoreShape
<1> QED BY <1>4, <1>5, <1>6, <1>7, <1>8, <1>9, <1>10, <1>11, <1>12 DEF Step

LEMMA StepKeepsHooks ==
  ASSUME Shape, NEW c \in Collectors, Step(c)
  PROVE  HookShape'
<1>1. CASE UNCHANGED <<hooks, load>>
  BY <1>1 DEF Shape, HookShape, hooks
<1>2. CASE Answer(c)
  <2> PICK k \in inflight[c], answer \in {"ok", "failed", "unknown"} :
        failures' = Count(failures, k, answer)
    BY <1>2 DEF Answer
  <2>1. failures' \in [Subs -> Nat]
    <3>1. k \in Subs /\ failures \in [Subs -> Nat]
      BY DEF Shape, LoopShape, HookShape
    <3>2. failures[k] + 1 \in Nat
      BY <3>1
    <3>3. failures' \in {failures, [failures EXCEPT ![k] = 0], [failures EXCEPT ![k] = failures[k] + 1]}
      BY DEF Count
    <3> QED BY <3>1, <3>2, <3>3
  <2>2. UNCHANGED <<subs, wanted, withdrawn, now, load>>
    BY <1>2 DEF Answer
  <2> QED BY <2>1, <2>2 DEF Shape, HookShape
<1> QED BY <1>1, <1>2 DEF Step, Collect, Insert, Commit, Dispatch, DispatchDone, CycleFails,
                          Wake, Cancelled

\* The API: an id is a pair of numbers, and leads to who got it last.
LEMMA SubscribeKeepsHooks ==
  ASSUME HookShape, Subscribe
  PROVE  HookShape'
<1> DEFINE id == SubId(subs, now)
           n == Len(wanted)
<1> PICK sources \in load.filters :
      wanted' = Append(wanted, [id |-> id, made |-> now, sources |-> sources])
  BY DEF Subscribe
<1>1. /\ subs' = Register(subs, id, n + 1) /\ n < load.subs
      /\ UNCHANGED <<load, now, failures, withdrawn>>
  BY DEF Subscribe
<1>2. n \in Nat /\ now \in Nat /\ load.subs \in Nat /\ load.seconds \in Nat
      /\ sources \in SUBSET Collectors
  BY LoadsAreLoads DEF HookShape
<1>3. id \in Nat \X Nat /\ id[2] = now
  <2>1. Cardinality(DOMAIN subs) \in Nat
    BY FS_CardinalityType DEF HookShape
  <2> QED BY <1>2, <2>1 DEF SubId
<1> HIDE DEF id
<1> DEFINE want == [id |-> id, made |-> now, sources |-> sources]
<1>4. want \in Wants
  BY <1>2, <1>3 DEF Wants
<1>5. /\ wanted' \in Seq(Wants) /\ Len(wanted') = n + 1
      /\ wanted'[n + 1] = want /\ \A k \in 1..n : wanted'[k] = wanted[k]
  BY <1>2, <1>4 DEF HookShape
<1>6. IsFiniteSet(DOMAIN subs') /\ DOMAIN subs' = DOMAIN subs \cup {id}
  <2>1. DOMAIN subs' = DOMAIN subs \cup {id}
    BY <1>1 DEF Register
  <2>2. IsFiniteSet(DOMAIN subs)
    BY DEF HookShape
  <2>3. IsFiniteSet(DOMAIN subs \cup {id})
    BY <2>2, FS_AddElement
  <2> QED BY <2>1, <2>3
<1>7. ASSUME NEW i \in DOMAIN subs'
      PROVE  subs'[i] \in 1..Len(wanted') /\ wanted'[subs'[i]].id = i
  <2>1. CASE i = id
    <3>1. subs'[i] = n + 1
      BY <1>1, <2>1 DEF Register
    <3> QED BY <1>2, <1>5, <2>1, <3>1
  <2>2. CASE i # id
    <3>1. i \in DOMAIN subs /\ subs'[i] = subs[i]
      BY <1>1, <1>6, <2>2 DEF Register
    <3>2. subs[i] \in 1..n /\ wanted[subs[i]].id = i
      BY <3>1 DEF HookShape
    <3> QED BY <1>2, <1>5, <3>1, <3>2
  <2> QED BY <2>1, <2>2
<1>8. \A k \in 1..Len(wanted') : wanted'[k].id[2] = wanted'[k].made
  <2>1. \A k \in 1..Len(wanted') : k \in 1..n \/ k = n + 1
    BY <1>2, <1>5
  <2> QED BY <1>3, <1>5, <2>1 DEF HookShape
<1>9. withdrawn' \subseteq 1..Len(wanted') /\ Len(wanted') <= load.subs
  BY <1>1, <1>2, <1>5 DEF HookShape
<1> QED BY <1>1, <1>5, <1>6, <1>7, <1>8, <1>9 DEF HookShape

LEMMA UnsubscribeKeepsHooks ==
  ASSUME HookShape, Unsubscribe
  PROVE  HookShape'
<1> PICK k \in 1..Len(wanted) :
      withdrawn' = withdrawn \cup {k} /\ subs' = Remove(subs, wanted[k].id)
  BY DEF Unsubscribe
<1>1. UNCHANGED <<load, now, wanted, failures>>
  BY DEF Unsubscribe
<1>2. IsFiniteSet(DOMAIN subs')
  <2>1. DOMAIN subs' = DOMAIN subs \ {wanted[k].id}
    BY DEF Remove
  <2>2. IsFiniteSet(DOMAIN subs)
    BY DEF HookShape
  <2>3. IsFiniteSet(DOMAIN subs \ {wanted[k].id})
    BY <2>2, FS_RemoveElement
  <2> QED BY <2>1, <2>3
<1>3. \A id \in DOMAIN subs' : id \in DOMAIN subs /\ subs'[id] = subs[id]
  BY DEF Remove
<1> QED BY <1>1, <1>2, <1>3 DEF HookShape

LEMMA RestartedKeepsShape ==
  ASSUME Shape, Restarted, faults' \in 0..load.faults
  PROVE  Shape'
<1>1. LoopShape'
  BY EngineAssumption DEF Restarted, FreshLoops, LoopShape, Turn, Places, Statuses
<1>2. StoreShape'
  <2>1. 1..collected \subseteq Signals
    <3>1. 1..collected \subseteq 1..load.signals
      BY LoadsAreLoads DEF Shape, StoreShape
    <3> QED BY <3>1, LoadsAreLoads DEF Shape, StoreShape
  <2> QED BY <2>1 DEF Restarted, StoreShape, Shape
<1>3. HookShape'
  <2>1. DOMAIN subs' = {} /\ withdrawn' = 1..Len(wanted)
    BY DEF Restarted, NoTable
  <2>2. IsFiniteSet(DOMAIN subs')
    BY <2>1, FS_EmptySet
  <2> QED BY <2>1, <2>2 DEF Restarted, Shape, HookShape
<1> QED BY <1>1, <1>2, <1>3 DEF Shape

LEMMA StepShape == Shape /\ [Next]_vars => Shape'
<1> SUFFICES ASSUME Shape, [Next]_vars PROVE Shape'
  OBVIOUS
<1>1. CASE UNCHANGED vars
  BY <1>1 DEF vars, loops, storage, hooks, history, Shape, LoopShape, StoreShape, HookShape, Turn
<1>2. ASSUME NEW c \in Collectors, Step(c) PROVE Shape'
  BY <1>2, StepKeepsLoops, StepKeepsStore, StepKeepsHooks DEF Shape
<1>3. ASSUME UNCHANGED <<engine, loops, storage, history, faults, load>>
      PROVE  LoopShape' /\ StoreShape'
  BY <1>3 DEF loops, storage, history, Shape, LoopShape, StoreShape, Turn
<1>4. CASE Subscribe
  BY <1>3, <1>4, SubscribeKeepsHooks DEF Subscribe, Shape
<1>5. CASE Unsubscribe
  BY <1>3, <1>5, UnsubscribeKeepsHooks DEF Unsubscribe, Shape
<1>6. CASE Tick
  <2>1. HookShape'
    <3>1. now' = now + 1 /\ now < load.seconds /\ UNCHANGED <<load, subs, failures, wanted, withdrawn>>
      BY <1>6 DEF Tick
    <3>2. now' \in 0..load.seconds
      BY <3>1, LoadsAreLoads DEF Shape, HookShape
    <3> QED BY <3>1, <3>2 DEF Shape, HookShape
  <2> QED BY <1>3, <1>6, <2>1 DEF Tick, Shape
<1>7. CASE BeginShutdown \/ StopStore
  <2>1. LoopShape' /\ HookShape'
    BY <1>7 DEF BeginShutdown, StopStore, loops, hooks, Shape, LoopShape, HookShape, Turn
  <2>2. StoreShape'
    BY <1>7 DEF BeginShutdown, StopStore, storage, history, Shape, StoreShape
  <2> QED BY <2>1, <2>2 DEF Shape
<1>8. CASE CloseWebhooks
  <2>1. LoopShape'
    BY <1>8 DEF CloseWebhooks, Shape, LoopShape, Turn, Statuses
  <2>2. StoreShape' /\ HookShape'
    BY <1>8 DEF CloseWebhooks, storage, history, hooks, Shape, StoreShape, HookShape
  <2> QED BY <2>1, <2>2 DEF Shape
<1>9. CASE Restart \/ Crash
  <2>1. Restarted /\ faults' \in 0..load.faults
    BY <1>9, LoadsAreLoads DEF Restart, Crash, Fault, Shape, StoreShape
  <2> QED BY <2>1, RestartedKeepsShape
<1> QED BY <1>1, <1>2, <1>4, <1>5, <1>6, <1>7, <1>8, <1>9 DEF Next

\* The variables have their types: no loop runs past its batch, and the table has
\* only subscriptions that were made.
THEOREM TypeCorrect == Spec => []TypeOK
BY InitShape, StepShape, ShapeIsType, PTL DEF Spec

-----------------------------------------------------------------------------
\* When the connection of the store is closed no loop is left to use it
\* (rainbow/main.py: gather before store.stop), and none starts before the
\* process does.
THEOREM ClosedIsQuiet == Spec => []NothingAfterClose
<1>1. Init => NothingAfterClose
  BY DEF Init, NothingAfterClose
<1>2. NothingAfterClose /\ [Next]_vars => NothingAfterClose'
  <2> SUFFICES ASSUME NothingAfterClose, [Next]_vars PROVE NothingAfterClose'
    OBVIOUS
  <2>1. CASE UNCHANGED <<engine, place>>
    BY <2>1 DEF NothingAfterClose
  <2>2. CASE engine' \in {"up", "cancelling"}
    BY <2>2 DEF NothingAfterClose
  <2>3. ASSUME NEW c \in Collectors, Step(c)
        PROVE  engine \in {"up", "cancelling"} /\ engine' = engine
    BY <2>3 DEF Step, Collect, Insert, Commit, Dispatch, Answer, DispatchDone, CycleFails,
                Wake, Cancelled
  <2>4. CASE Subscribe \/ Unsubscribe \/ Tick \/ CloseWebhooks
    BY <2>4 DEF Subscribe, Unsubscribe, Tick, CloseWebhooks, loops, NothingAfterClose
  <2>5. CASE BeginShutdown \/ Restart \/ Crash
    BY <2>2, <2>5 DEF BeginShutdown, Restart, Crash, Restarted
  <2>6. CASE StopStore
    BY <2>6 DEF StopStore, loops, NothingAfterClose
  <2> QED BY <2>1, <2>2, <2>3, <2>4, <2>5, <2>6 DEF Next, vars, loops
<1> QED BY <1>1, <1>2, PTL DEF Spec

-----------------------------------------------------------------------------
\* Subscriptions: an id holds the second it was made in, so that only one made in the
\* same second can take or give back another's entry.
LEMMA InitLasts == Init => LostOnlyInSameSecond
BY DEF Init, LostOnlyInSameSecond

LEMMA SubscribeLasts ==
  ASSUME HookShape, LostOnlyInSameSecond, Subscribe
  PROVE  LostOnlyInSameSecond'
<1> DEFINE id == SubId(subs, now)
           n == Len(wanted)
<1> PICK sources \in load.filters :
      wanted' = Append(wanted, [id |-> id, made |-> now, sources |-> sources])
  BY DEF Subscribe
<1>1. subs' = Register(subs, id, n + 1) /\ withdrawn' = withdrawn /\ n \in Nat
  BY DEF Subscribe, HookShape
<1>2. id[2] = now
  BY DEF SubId
<1> HIDE DEF id
<1>3. /\ Len(wanted') = n + 1 /\ \A k \in 1..n : wanted'[k] = wanted[k]
      /\ wanted'[n + 1] = [id |-> id, made |-> now, sources |-> sources]
  BY DEF HookShape
<1>4. n + 1 \in Registered(subs')
  <2>1. id \in DOMAIN subs' /\ subs'[id] = n + 1
    BY <1>1 DEF Register
  <2> QED BY <2>1 DEF Registered
<1>5. ASSUME NEW k \in 1..n, k \in Registered(subs)
      PROVE  k \in Registered(subs') \/ wanted[k].made = now
  <2> PICK i \in DOMAIN subs : subs[i] = k
    BY <1>5 DEF Registered
  <2>1. CASE i # id
    <3>1. i \in DOMAIN subs' /\ subs'[i] = k
      BY <1>1, <2>1 DEF Register
    <3> QED BY <3>1 DEF Registered
  <2>2. CASE i = id
    BY <1>2, <2>2 DEF HookShape
  <2> QED BY <2>1, <2>2
<1>6. ASSUME NEW k \in 1..Len(wanted')
      PROVE  \/ k \in withdrawn' \cup Registered(subs')
             \/ \E j \in 1..Len(wanted') : j # k /\ wanted'[j].made = wanted'[k].made
  <2>1. CASE k = n + 1
    BY <1>4, <2>1
  <2>2. CASE k # n + 1
    <3>1. k \in 1..n /\ n + 1 \in 1..Len(wanted') /\ wanted'[n + 1].made = now
          /\ 1..n \subseteq 1..Len(wanted')
      BY <1>1, <1>3, <2>2
    <3>2. \/ k \in withdrawn \cup Registered(subs)
          \/ \E j \in 1..n : j # k /\ wanted[j].made = wanted[k].made
      BY <3>1 DEF LostOnlyInSameSecond
    <3> QED BY <1>1, <1>3, <1>5, <2>2, <3>1, <3>2
  <2> QED BY <2>1, <2>2
<1>7. Registered(subs)' = Registered(subs')
  BY DEF Registered
<1> QED BY <1>6, <1>7 DEF LostOnlyInSameSecond

LEMMA UnsubscribeLasts ==
  ASSUME HookShape, LostOnlyInSameSecond, Unsubscribe
  PROVE  LostOnlyInSameSecond'
<1> PICK owner \in 1..Len(wanted) :
      /\ withdrawn' = withdrawn \cup {owner} /\ subs' = Remove(subs, wanted[owner].id)
  BY DEF Unsubscribe
<1>1. wanted' = wanted
  BY DEF Unsubscribe
<1>2. ASSUME NEW k \in 1..Len(wanted), k \in Registered(subs)
      PROVE  k \in Registered(subs') \/ wanted[k].made = wanted[owner].made
  <2> PICK i \in DOMAIN subs : subs[i] = k
    BY <1>2 DEF Registered
  <2>1. CASE i # wanted[owner].id
    <3>1. i \in DOMAIN subs' /\ subs'[i] = k
      BY <2>1 DEF Remove
    <3> QED BY <3>1 DEF Registered
  <2>2. CASE i = wanted[owner].id
    BY <2>2 DEF HookShape
  <2> QED BY <2>1, <2>2
<1>3. ASSUME NEW k \in 1..Len(wanted)
      PROVE  \/ k \in withdrawn' \cup Registered(subs')
             \/ \E j \in 1..Len(wanted) : j # k /\ wanted[j].made = wanted[k].made
  <2>1. \/ k \in withdrawn \cup Registered(subs)
        \/ \E j \in 1..Len(wanted) : j # k /\ wanted[j].made = wanted[k].made
    BY DEF LostOnlyInSameSecond
  <2>2. k = owner => k \in withdrawn'
    OBVIOUS
  <2> QED BY <1>2, <2>1, <2>2
<1>4. Registered(subs)' = Registered(subs')
  BY DEF Registered
<1> QED BY <1>1, <1>3, <1>4 DEF LostOnlyInSameSecond

LEMMA StepLasts ==
  Shape /\ LostOnlyInSameSecond /\ [Next]_vars => LostOnlyInSameSecond'
<1> SUFFICES ASSUME Shape, LostOnlyInSameSecond, [Next]_vars PROVE LostOnlyInSameSecond'
  OBVIOUS
<1>1. CASE UNCHANGED <<wanted, withdrawn, subs>>
  BY <1>1 DEF LostOnlyInSameSecond, Registered
<1>2. ASSUME NEW c \in Collectors, Step(c) PROVE UNCHANGED <<wanted, withdrawn, subs>>
  BY <1>2 DEF Step, Collect, Insert, Commit, Dispatch, Answer, DispatchDone, CycleFails,
              Wake, Cancelled, hooks
<1>3. CASE Subscribe \/ Unsubscribe
  BY <1>3, SubscribeLasts, UnsubscribeLasts DEF Shape
<1>4. CASE Tick \/ BeginShutdown \/ StopStore \/ CloseWebhooks
  BY <1>1, <1>4 DEF Tick, BeginShutdown, StopStore, CloseWebhooks, hooks
<1>5. CASE Restart \/ Crash
  <2>1. withdrawn' = 1..Len(wanted) /\ wanted' = wanted
    BY <1>5 DEF Restart, Crash, Restarted
  <2> QED BY <2>1 DEF LostOnlyInSameSecond
<1>6. CASE UNCHANGED vars
  BY <1>1, <1>6 DEF vars, hooks
<1> QED BY <1>1, <1>2, <1>3, <1>4, <1>5, <1>6 DEF Next

\* Who subscribes stays subscribed until he unsubscribes, unless another did in the
\* same second (WebhookManager.subscribe and unsubscribe).
THEOREM SubscriptionsLast == Spec => []LostOnlyInSameSecond
BY InitShape, StepShape, InitLasts, StepLasts, PTL DEF Spec

-----------------------------------------------------------------------------
\* Signals on their way: what of its batch a loop has stored and dispatched.
Progress(c) ==
  /\ place[c] \in {"insert", "commit"} => \A i \in 1..(at[c] - 1) : batch[c][i] \in stored
  /\ place[c] \in {"dispatch", "deliver"} =>
       InBatch(c) \subseteq stored /\ \A i \in 1..(at[c] - 1) : batch[c][i] \in dispatched
  /\ place[c] = "wait" => InBatch(c) \subseteq dispatched

Ahead ==
  /\ registry \subseteq stored /\ dispatched \subseteq stored
  /\ \A c \in Collectors : Progress(c)

LEMMA InitAhead == Init => Ahead
BY DEF Init, Ahead, Progress

\* What is stored or dispatched stays so, and the other loops stay where they are.
LEMMA StepGrows ==
  ASSUME NEW c \in Collectors, Step(c)
  PROVE  stored \subseteq stored' /\ dispatched \subseteq dispatched' /\ abandoned \subseteq abandoned'
BY DEF Step, Collect, Insert, Commit, Dispatch, Answer, DispatchDone, CycleFails, Wake,
       Cancelled, EndCycle, storage, history

LEMMA OthersProgress ==
  ASSUME NEW d \in Collectors, Progress(d),
         place'[d] = place[d], batch'[d] = batch[d], at'[d] = at[d],
         stored \subseteq stored', dispatched \subseteq dispatched'
  PROVE  Progress(d)' /\ InBatch(d)' = InBatch(d)
<1>1. InBatch(d)' = InBatch(d)
  BY DEF InBatch
<1> QED BY <1>1 DEF Progress

LEMMA StepKeepsProgress ==
  ASSUME Shape, Ahead, NEW c \in Collectors, Step(c)
  PROVE  /\ Progress(c)' /\ registry' \subseteq stored' /\ dispatched' \subseteq stored'
         /\ \/ InBatch(c)' = InBatch(c) /\ collected' = collected
            \/ collected' \in Nat /\ 1..collected' \subseteq 1..collected \cup InBatch(c)'
               /\ InBatch(c) = {}
            \/ InBatch(c) \subseteq dispatched' \cup abandoned' /\ collected' = collected
<1>1. /\ Progress(c) /\ registry \subseteq stored /\ dispatched \subseteq stored
      /\ LoopShape /\ StoreShape /\ HookShape
  BY DEF Ahead, Shape
<1>2. ASSUME batch'[c] = batch[c] PROVE InBatch(c)' = InBatch(c)
  BY <1>2 DEF InBatch
<1>3. ASSUME EndCycle(c), place'[c] \in {"wait", "done"}
      PROVE  Progress(c)' /\ InBatch(c) \subseteq dispatched \cup abandoned'
  <2>1. InBatch(c)' = {}
    BY <1>1, <1>3 DEF EndCycle, LoopShape, InBatch
  <2> QED BY <1>3, <2>1 DEF EndCycle, Progress
<1>4. CASE Collect(c)
  <2> PICK n \in Nat :
        /\ collected' = collected + n
        /\ place'[c] = (IF n = 0 THEN "wait" ELSE "insert")
        /\ batch'[c] = [i \in 1..n |-> collected + i] /\ at'[c] = 1
        /\ batch[c] = <<>> /\ Len(batch'[c]) = n
    BY <1>1, <1>4, CollectMoves
  <2>1. InBatch(c)' = {collected + i : i \in 1..n} /\ InBatch(c) = {}
    BY DEF InBatch
  <2>2. UNCHANGED <<storage, dispatched>> /\ collected \in Nat
    BY <1>1, <1>4, LoadsAreLoads DEF Collect, StoreShape
  <2>3. 1..collected' \subseteq 1..collected \cup InBatch(c)'
    <3>1. ASSUME NEW s \in 1..collected', s \notin 1..collected
          PROVE  s \in InBatch(c)'
      <4>1. s - collected \in 1..n /\ s = collected + (s - collected)
        BY <2>2, <3>1
      <4> QED BY <2>1, <4>1
    <3> QED BY <3>1
  <2>4. Progress(c)'
    <3>1. \A i \in 1..(at'[c] - 1) : FALSE
      OBVIOUS
    <3>2. n = 0 => InBatch(c)' = {}
      BY <2>1
    <3> QED BY <3>1, <3>2 DEF Progress
  <2> QED BY <1>1, <2>1, <2>2, <2>3, <2>4 DEF storage
<1>5. CASE Insert(c)
  <2>1. /\ place[c] = "insert" /\ place'[c] = "commit" /\ UNCHANGED <<batch, at, stored, registry, history>>
    BY <1>1, <1>5 DEF Insert, Goto, LoopShape
  <2> QED BY <1>1, <1>2, <2>1 DEF Progress, history
<1>6. ASSUME NEW S, NEW T, at[c] < Len(batch[c]), at'[c] = at[c] + 1,
             \A i \in 1..(at[c] - 1) : batch[c][i] \in S, S \subseteq T, Current(c) \in T,
             place[c] \in {"insert", "commit", "dispatch", "deliver"}
      PROVE  \A i \in 1..(at'[c] - 1) : batch[c][i] \in T
  <2>1. at[c] \in Nat \ {0} /\ \A i \in 1..(at'[c] - 1) : i \in 1..(at[c] - 1) \/ i = at[c]
    BY <1>1, <1>6 DEF LoopShape
  <2> QED BY <1>6, <2>1 DEF Current
<1>7. ASSUME NEW S, NEW T, at[c] = Len(batch[c]),
             \A i \in 1..(at[c] - 1) : batch[c][i] \in S, S \subseteq T, Current(c) \in T,
             place[c] \in {"insert", "commit", "dispatch", "deliver"}
      PROVE  InBatch(c) \subseteq T
  <2>1. at[c] \in Nat \ {0} /\ \A i \in 1..Len(batch[c]) : i \in 1..(at[c] - 1) \/ i = at[c]
    BY <1>1, <1>7 DEF LoopShape
  <2> QED BY <1>7, <2>1 DEF Current, InBatch
<1>8. CASE Commit(c)
  <2>1. /\ place[c] = "commit" /\ Advance(c, "insert", "dispatch")
        /\ UNCHANGED <<batch, inflight, status, history>>
        /\ stored' = stored \cup uncommitted \cup {Current(c)}
        /\ registry' \in {registry, registry \cup {Current(c)}}
    BY <1>8 DEF Commit
  <2>2. \A i \in 1..(at[c] - 1) : batch[c][i] \in stored
    BY <1>1, <2>1 DEF Progress
  <2>3. CASE at[c] < Len(batch[c])
    <3>1. place'[c] = "insert" /\ at'[c] = at[c] + 1
      BY <1>1, <2>1, <2>3, AdvanceMoves
    <3>2. \A i \in 1..(at'[c] - 1) : batch[c][i] \in stored'
      BY <1>6, <2>1, <2>2, <2>3, <3>1
    <3> QED BY <1>1, <1>2, <2>1, <3>1, <3>2 DEF Progress, history
  <2>4. CASE ~(at[c] < Len(batch[c]))
    <3>1. at[c] = Len(batch[c]) /\ place'[c] = "dispatch" /\ at'[c] = 1
      BY <1>1, <2>1, <2>4, AdvanceMoves
    <3>2. InBatch(c) \subseteq stored'
      <4>1. stored \subseteq stored' /\ Current(c) \in stored' /\ place[c] = "commit"
        BY <2>1
      <4> QED BY <1>7, <2>2, <3>1, <4>1
    <3>3. \A i \in 1..(at'[c] - 1) : FALSE
      BY <3>1
    <3> QED BY <1>1, <1>2, <2>1, <3>1, <3>2, <3>3 DEF Progress, history
  <2> QED BY <2>3, <2>4
<1>9. CASE Dispatch(c)
  <2>1. /\ place[c] = "dispatch" /\ place'[c] = "deliver" /\ UNCHANGED <<batch, at, storage, history>>
    BY <1>1, <1>9 DEF Dispatch, Goto, LoopShape
  <2> QED BY <1>1, <1>2, <2>1 DEF Progress, storage, history
<1>10. CASE Answer(c)
  <2>1. UNCHANGED <<place, batch, at, storage, history>>
    BY <1>10 DEF Answer
  <2> QED BY <1>1, <1>2, <2>1 DEF Progress, storage, history
<1>11. CASE DispatchDone(c)
  <2>1. /\ place[c] = "deliver" /\ Advance(c, "dispatch", "wait")
        /\ UNCHANGED <<batch, inflight, status, storage, collected>>
        /\ dispatched' = dispatched \cup {Current(c)}
    BY <1>11 DEF DispatchDone
  <2>2. InBatch(c) \subseteq stored /\ \A i \in 1..(at[c] - 1) : batch[c][i] \in dispatched
    BY <1>1, <2>1 DEF Progress
  <2>3. Current(c) \in stored
    BY <1>1, <2>1, <2>2, CurrentIsInBatch
  <2>4. CASE at[c] < Len(batch[c])
    <3>1. place'[c] = "dispatch" /\ at'[c] = at[c] + 1
      BY <1>1, <2>1, <2>4, AdvanceMoves
    <3>2. \A i \in 1..(at'[c] - 1) : batch[c][i] \in dispatched'
      BY <1>6, <2>1, <2>2, <2>4, <3>1
    <3> QED BY <1>1, <1>2, <2>1, <2>2, <2>3, <3>1, <3>2 DEF Progress, storage
  <2>5. CASE ~(at[c] < Len(batch[c]))
    <3>1. at[c] = Len(batch[c]) /\ place'[c] = "wait" /\ at'[c] = 1
      BY <1>1, <2>1, <2>5, AdvanceMoves
    <3>2. InBatch(c) \subseteq dispatched'
      BY <1>7, <2>1, <2>2, <3>1
    <3> QED BY <1>1, <1>2, <2>1, <2>3, <3>1, <3>2 DEF Progress, storage
  <2> QED BY <2>4, <2>5
<1>12. CASE CycleFails(c)
  <2>1. EndCycle(c) /\ place'[c] = "wait" /\ UNCHANGED <<storage, collected, dispatched>>
    BY <1>1, <1>12 DEF CycleFails, Goto, LoopShape
  <2> QED BY <1>1, <1>3, <2>1 DEF storage
<1>13. CASE Wake(c)
  <2>1. /\ place[c] = "wait" /\ place'[c] = "collect" /\ UNCHANGED <<storage, history>>
    BY <1>1, <1>13 DEF Wake, Goto, LoopShape
  <2> QED BY <1>1, <2>1 DEF Progress, storage, history
<1>14. CASE Cancelled(c)
  <2>1. /\ EndCycle(c) /\ place'[c] = "done" /\ UNCHANGED <<registry, collected, dispatched>>
        /\ stored \subseteq stored'
    BY <1>1, <1>14 DEF Cancelled, Goto, LoopShape
  <2> QED BY <1>1, <1>3, <2>1
<1> QED BY <1>4, <1>5, <1>8, <1>9, <1>10, <1>11, <1>12, <1>13, <1>14 DEF Step

LEMMA StepAhead == Shape /\ Ahead /\ [Next]_vars => Ahead'
<1> SUFFICES ASSUME Shape, Ahead, [Next]_vars PROVE Ahead'
  OBVIOUS
<1>1. ASSUME UNCHANGED <<place, batch, at, stored, registry, dispatched>>
      PROVE  Ahead'
  BY <1>1 DEF Ahead, Progress, InBatch
<1>2. ASSUME NEW c \in Collectors, Step(c) PROVE Ahead'
  <2>1. Progress(c)' /\ registry' \subseteq stored' /\ dispatched' \subseteq stored'
    BY <1>2, StepKeepsProgress
  <2>2. \A d \in Collectors : d # c => Progress(d)'
    BY <1>2, StepKeepsLoops, StepGrows, OthersProgress DEF Untouched, Ahead
  <2> QED BY <2>1, <2>2 DEF Ahead
<1>3. CASE Subscribe \/ Unsubscribe \/ Tick \/ BeginShutdown \/ StopStore \/ CloseWebhooks
  BY <1>1, <1>3 DEF Subscribe, Unsubscribe, Tick, BeginShutdown, StopStore, CloseWebhooks,
                    loops, storage, history
<1>4. CASE Restart \/ Crash
  <2>1. UNCHANGED <<stored, registry, dispatched>> /\ place' = [c \in Collectors |-> "collect"]
    BY <1>4 DEF Restart, Crash, Restarted, FreshLoops
  <2> QED BY <2>1 DEF Ahead, Progress
<1>5. CASE UNCHANGED vars
  BY <1>1, <1>5 DEF vars, loops, storage, history
<1> QED BY <1>2, <1>3, <1>4, <1>5 DEF Next

\* Nobody hears of a signal before the store holds it for good (rainbow/main.py: save
\* before the append to the registry, the whole batch saved before dispatching):
\* what a loop has passed in its batch is stored, or dispatched.
THEOREM StoreStaysAhead == Spec => []StoreIsAhead
<1>1. Ahead => StoreIsAhead
  BY DEF Ahead, Progress, StoreIsAhead
<1> QED BY InitShape, StepShape, InitAhead, StepAhead, <1>1, PTL DEF Spec

LEMMA StepAccounts ==
  Shape /\ Ahead /\ EverySignalAccounted /\ [Next]_vars => EverySignalAccounted'
<1> SUFFICES ASSUME Shape, Ahead, EverySignalAccounted, [Next]_vars
             PROVE  EverySignalAccounted'
  OBVIOUS
<1>1. ASSUME UNCHANGED <<batch, collected, dispatched, abandoned>>
      PROVE  EverySignalAccounted'
  BY <1>1 DEF EverySignalAccounted, InBatch
<1>2. ASSUME NEW c \in Collectors, Step(c) PROVE EverySignalAccounted'
  <2>1. dispatched \subseteq dispatched' /\ abandoned \subseteq abandoned'
    BY <1>2, StepGrows
  <2>2. \A d \in Collectors : d # c => InBatch(d)' = InBatch(d)
    BY <1>2, StepKeepsLoops DEF Untouched, InBatch
  <2>3. ASSUME NEW s \in 1..collected'
        PROVE  s \in dispatched' \cup abandoned' \/ \E d \in Collectors : s \in InBatch(d)'
    <3>1. CASE s \in InBatch(c)'
      BY <3>1
    <3>2. CASE s \in 1..collected
      <4>1. s \in dispatched \cup abandoned \/ \E d \in Collectors : s \in InBatch(d)
        BY <3>2 DEF EverySignalAccounted
      <4>2. CASE s \in InBatch(c)
        BY <1>2, <4>2, StepKeepsProgress
      <4> QED BY <2>1, <2>2, <4>1, <4>2
    <3> QED BY <1>2, <3>1, <3>2, StepKeepsProgress
  <2> QED BY <2>3 DEF EverySignalAccounted
<1>3. CASE Subscribe \/ Unsubscribe \/ Tick \/ BeginShutdown \/ StopStore \/ CloseWebhooks
  BY <1>1, <1>3 DEF Subscribe, Unsubscribe, Tick, BeginShutdown, StopStore, CloseWebhooks,
                    loops, storage, history
<1>4. CASE Restart \/ Crash
  BY <1>4 DEF Restart, Crash, Restarted, EverySignalAccounted
<1>5. CASE UNCHANGED vars
  BY <1>1, <1>5 DEF vars, loops, storage, history
<1> QED BY <1>2, <1>3, <1>4, <1>5 DEF Next

\* No collected signal vanishes (the loop of rainbow/main.py): a batch is let go only
\* when all of it is dispatched, or when its cycle fails, is cancelled or crashes.
THEOREM NoSignalVanishes == Spec => []EverySignalAccounted
<1>1. Init => EverySignalAccounted
  BY DEF Init, EverySignalAccounted
<1> QED BY <1>1, InitShape, StepShape, InitAhead, StepAhead, StepAccounts, PTL DEF Spec

-----------------------------------------------------------------------------
\* Failures: a post under way may still fail, so it counts as if it had.
Posting(k) == {c \in Collectors : k \in inflight[c]}

Overshoot ==
  \A k \in Subs :
    failures[k] + Cardinality(Posting(k)) <= MaxFailures - 1 + Cardinality(Collectors)

LEMMA PostersAreCollectors ==
  ASSUME NEW S \in SUBSET Collectors
  PROVE  /\ IsFiniteSet(S) /\ Cardinality(S) \in Nat /\ Cardinality(Collectors) \in Nat
         /\ Cardinality(S) <= Cardinality(Collectors)
BY EngineAssumption, FS_Subset, FS_CardinalityType

LEMMA InitOvershoot == Init => Overshoot
<1> SUFFICES ASSUME Init, NEW k \in Subs
             PROVE  failures[k] + Cardinality(Posting(k))
                      <= MaxFailures - 1 + Cardinality(Collectors)
  BY DEF Overshoot
<1>1. failures[k] = 0 /\ Posting(k) \in SUBSET Collectors
  BY DEF Init, Posting
<1> QED BY <1>1, PostersAreCollectors, MaxFailuresAssumption

\* Fewer posts under way and no more failures.
LEMMA FewerPosts ==
  ASSUME Shape, Overshoot, NEW k \in Subs, failures'[k] \in Nat, failures'[k] <= failures[k],
         Posting(k)' \subseteq Posting(k)
  PROVE  failures'[k] + Cardinality(Posting(k)') <= MaxFailures - 1 + Cardinality(Collectors)
<1>1. Posting(k) \in SUBSET Collectors
  BY DEF Posting
<1>2. IsFiniteSet(Posting(k)) /\ Cardinality(Posting(k)) \in Nat /\ Cardinality(Collectors) \in Nat
  BY <1>1, PostersAreCollectors
<1>3. Cardinality(Posting(k)') \in Nat /\ Cardinality(Posting(k)') <= Cardinality(Posting(k))
  BY <1>2, FS_Subset, FS_CardinalityType
<1>4. failures[k] \in Nat
  BY DEF Shape, HookShape
<1> QED BY <1>2, <1>3, <1>4, MaxFailuresAssumption DEF Overshoot

\* A new post, to a subscription that is not disabled.
LEMMA NewPosts ==
  ASSUME Shape, NEW k \in Subs, failures'[k] = failures[k], failures[k] < MaxFailures,
         Posting(k)' \subseteq Collectors
  PROVE  failures'[k] + Cardinality(Posting(k)') <= MaxFailures - 1 + Cardinality(Collectors)
<1>1. Cardinality(Posting(k)') \in Nat /\ Cardinality(Posting(k)') <= Cardinality(Collectors)
      /\ Cardinality(Collectors) \in Nat
  BY PostersAreCollectors
<1>2. failures[k] \in Nat
  BY DEF Shape, HookShape
<1> QED BY <1>1, <1>2, MaxFailuresAssumption

LEMMA AnswerKeepsOvershoot ==
  ASSUME Shape, Overshoot, NEW c \in Collectors, Answer(c)
  PROVE  Overshoot'
<1> PICK k \in inflight[c], answer \in {"ok", "failed", "unknown"} :
       /\ failures' = Count(failures, k, answer)
       /\ inflight' = [inflight EXCEPT ![c] = @ \ {k}]
  BY DEF Answer
<1>1. k \in Subs /\ failures \in [Subs -> Nat] /\ c \in Posting(k)
  BY DEF Shape, LoopShape, HookShape, Posting
<1>2. /\ Posting(k)' = Posting(k) \ {c}
      /\ \A j \in Subs : j # k => Posting(j)' = Posting(j)
  BY DEF Shape, LoopShape, Posting
<1>3. /\ failures'[k] \in {0, failures[k], failures[k] + 1}
      /\ \A j \in Subs : j # k => failures'[j] = failures[j]
  BY <1>1 DEF Count
<1>4. ASSUME NEW j \in Subs
      PROVE  failures'[j] + Cardinality(Posting(j)') <= MaxFailures - 1 + Cardinality(Collectors)
  <2>1. CASE j # k
    <3>1. failures'[j] = failures[j] /\ failures[j] \in Nat /\ Posting(j)' = Posting(j)
      BY <1>1, <1>2, <1>3, <2>1
    <3> QED BY <3>1, FewerPosts
  <2>2. CASE j = k
    <3>1. Posting(k) \in SUBSET Collectors
      BY DEF Posting
    <3>2. IsFiniteSet(Posting(k)) /\ Cardinality(Posting(k)) \in Nat /\ Cardinality(Collectors) \in Nat
      BY <3>1, PostersAreCollectors
    <3>3. Cardinality(Posting(k) \ {c}) = Cardinality(Posting(k)) - 1
      BY <1>1, <3>2, FS_RemoveElement
    <3>4. failures[k] \in Nat /\ failures'[k] <= failures[k] + 1 /\ failures'[k] \in Nat
      BY <1>1, <1>3
    <3>5. failures[k] + Cardinality(Posting(k)) <= MaxFailures - 1 + Cardinality(Collectors)
      BY <1>1 DEF Overshoot
    <3>6. Cardinality(Posting(k)') = Cardinality(Posting(k)) - 1
      BY <1>2, <3>3
    <3> QED BY <2>2, <3>2, <3>4, <3>5, <3>6, MaxFailuresAssumption
  <2> QED BY <2>1, <2>2
<1> QED BY <1>4 DEF Overshoot, Posting

LEMMA StepOvershoot == Shape /\ Overshoot /\ [Next]_vars => Overshoot'
<1> SUFFICES ASSUME Shape, Overshoot, [Next]_vars PROVE Overshoot'
  OBVIOUS
<1>1. ASSUME UNCHANGED failures, \A k \in Subs : Posting(k)' \subseteq Posting(k)
      PROVE  Overshoot'
  <2>1. \A k \in Subs : failures'[k] = failures[k] /\ failures[k] \in Nat
    BY <1>1 DEF Shape, HookShape
  <2>2. \A k \in Subs : failures'[k] + Cardinality(Posting(k)')
                          <= MaxFailures - 1 + Cardinality(Collectors)
    BY <1>1, <2>1, FewerPosts
  <2> QED BY <2>2 DEF Overshoot, Posting
<1>2. ASSUME UNCHANGED failures, \A c \in Collectors : inflight'[c] \subseteq inflight[c]
      PROVE  Overshoot'
  BY <1>1, <1>2 DEF Posting
<1>3. ASSUME NEW c \in Collectors, Step(c) PROVE Overshoot'
  <2>1. CASE Collect(c) \/ Insert(c) \/ Commit(c) \/ DispatchDone(c) \/ Wake(c)
    BY <1>2, <2>1 DEF Collect, Insert, Commit, DispatchDone, Wake, hooks
  <2>2. CASE CycleFails(c) \/ Cancelled(c)
    <3>1. UNCHANGED failures /\ inflight' = [inflight EXCEPT ![c] = {}]
      BY <2>2 DEF CycleFails, Cancelled, EndCycle, hooks
    <3>2. \A d \in Collectors : inflight'[d] \subseteq inflight[d]
      BY <3>1 DEF Shape, LoopShape
    <3> QED BY <1>2, <3>1, <3>2
  <2>3. CASE Answer(c)
    BY <2>3, AnswerKeepsOvershoot
  <2>4. CASE Dispatch(c)
    <3>1. UNCHANGED failures /\ inflight' = [inflight EXCEPT ![c] = Matching(c)]
      BY <2>4 DEF Dispatch, hooks
    <3>2. ASSUME NEW k \in Subs
          PROVE  failures'[k] + Cardinality(Posting(k)')
                   <= MaxFailures - 1 + Cardinality(Collectors)
      <4>1. failures'[k] = failures[k] /\ failures[k] \in Nat
        BY <3>1 DEF Shape, HookShape
      <4>2. CASE k \in Matching(c)
        <5>1. failures[k] < MaxFailures /\ Posting(k)' \subseteq Collectors
          BY <4>2 DEF Matching, Enabled, Posting
        <5> QED BY <4>1, <5>1, NewPosts
      <4>3. CASE k \notin Matching(c)
        <5>1. Posting(k)' \subseteq Posting(k)
          BY <3>1, <4>3 DEF Posting, Shape, LoopShape
        <5> QED BY <4>1, <5>1, FewerPosts
      <4> QED BY <4>2, <4>3
    <3> QED BY <3>2 DEF Overshoot, Posting
  <2> QED BY <1>3, <2>1, <2>2, <2>3, <2>4 DEF Step
<1>4. CASE Subscribe \/ Unsubscribe \/ Tick \/ BeginShutdown \/ StopStore \/ CloseWebhooks
  BY <1>2, <1>4 DEF Subscribe, Unsubscribe, Tick, BeginShutdown, StopStore, CloseWebhooks,
                    loops, hooks
<1>5. CASE Restart \/ Crash
  BY <1>2, <1>5 DEF Restart, Crash, Restarted, FreshLoops
<1>6. CASE UNCHANGED vars
  BY <1>2, <1>6 DEF vars, loops, hooks
<1> QED BY <1>3, <1>4, <1>5, <1>6 DEF Next

\* A disabled subscription is passed over (WebhookManager.dispatch), but posts of
\* other loops that are under way may still fail: with those counted as failed, the
\* bound is overshot by less than the number of loops.
THEOREM FailuresStayBounded == Spec => []FailuresBounded
<1>1. Shape /\ Overshoot => FailuresBounded
  <2> SUFFICES ASSUME Shape, Overshoot, NEW k \in Subs
               PROVE  failures[k] <= MaxFailures + Cardinality(Collectors) - 1
    BY DEF FailuresBounded
  <2>1. Posting(k) \in SUBSET Collectors /\ failures[k] \in Nat
    BY DEF Posting, Shape, HookShape
  <2>2. Cardinality(Posting(k)) \in Nat /\ Cardinality(Collectors) \in Nat
    BY <2>1, PostersAreCollectors
  <2> QED BY <2>1, <2>2, MaxFailuresAssumption DEF Overshoot
<1> QED BY InitShape, StepShape, InitOvershoot, StepOvershoot, <1>1, PTL DEF Spec

-----------------------------------------------------------------------------
\* The engine implements EngineContract.

\* What the contract calls the state of a signal.
Fate(s) ==
  IF s \in dispatched THEN "announced"
  ELSE IF s \in abandoned THEN "dropped"
  ELSE IF s \in 1..collected THEN "taken" ELSE "fresh"

Contract == INSTANCE EngineContract WITH
  stage <- [s \in Signals |-> Fate(s)],
  kept <- stored,
  listed <- registry

\* A batch is one loop's alone, and each of its signals is in it once.
Owned(c) ==
  /\ InBatch(c) \subseteq 1..collected /\ InBatch(c) \cap abandoned = {}
  /\ \A i, j \in 1..Len(batch[c]) : batch[c][i] = batch[c][j] => i = j
  /\ place[c] \in {"insert", "commit"} =>
       /\ InBatch(c) \cap dispatched = {}
       /\ \A i \in at[c]..Len(batch[c]) : batch[c][i] \notin registry
  /\ place[c] \in {"dispatch", "deliver"} =>
       \A i \in at[c]..Len(batch[c]) : batch[c][i] \notin dispatched

Fates ==
  /\ uncommitted \subseteq 1..collected /\ stored \subseteq 1..collected
  /\ abandoned \subseteq 1..collected /\ dispatched \cap abandoned = {}
  /\ \A c \in Collectors : Owned(c)
  /\ \A c, d \in Collectors : c # d => InBatch(c) \cap InBatch(d) = {}

\* No loop has a signal at first.
LEMMA InitFates == Init => Fates
<1> SUFFICES ASSUME Init PROVE Fates
  OBVIOUS
<1>1. \A c \in Collectors : batch[c] = <<>> /\ InBatch(c) = {} /\ place[c] = "collect"
  BY DEF Init, InBatch
<1>2. \A c \in Collectors : Owned(c)
  BY <1>1 DEF Owned
<1> QED BY <1>1, <1>2 DEF Init, Fates

\* What a step does to the signals: those it touches are its loop's or new.
LEMMA StepTouches ==
  ASSUME Shape, Fates, NEW c \in Collectors, Step(c)
  PROVE  /\ collected' \in Nat /\ collected \in Nat /\ collected <= collected'
         /\ dispatched' \subseteq dispatched \cup InBatch(c)
         /\ abandoned' \subseteq abandoned \cup (InBatch(c) \ dispatched)
         /\ registry' \subseteq registry \cup InBatch(c)
         /\ stored' \cup uncommitted' \subseteq stored \cup uncommitted \cup InBatch(c)
         /\ InBatch(c)' \subseteq InBatch(c) \cup {s \in 1..collected' : s \notin 1..collected}
<1>1. LoopShape /\ StoreShape /\ collected \in Nat
  BY LoadsAreLoads DEF Shape, StoreShape
<1>2. ASSUME batch'[c] = batch[c] PROVE InBatch(c)' = InBatch(c)
  BY <1>2 DEF InBatch
<1>3. ASSUME batch'[c] = <<>> PROVE InBatch(c)' = {}
  BY <1>3 DEF InBatch
<1>4. CASE Collect(c)
  <2> PICK n \in Nat :
        /\ collected' = collected + n
        /\ batch'[c] = [i \in 1..n |-> collected + i] /\ Len(batch'[c]) = n
    BY <1>1, <1>4, CollectMoves
  <2>1. InBatch(c)' = {collected + i : i \in 1..n}
    BY DEF InBatch
  <2>2. \A i \in 1..n : collected + i \in 1..collected' /\ collected + i \notin 1..collected
    BY <1>1
  <2>3. UNCHANGED <<storage, dispatched, abandoned>>
    BY <1>4 DEF Collect
  <2> QED BY <1>1, <2>1, <2>2, <2>3 DEF storage
<1>5. CASE Insert(c) \/ Commit(c)
  <2>1. /\ Current(c) \in InBatch(c) /\ UNCHANGED <<batch, history>>
        /\ registry' \subseteq registry \cup {Current(c)}
        /\ stored' \cup uncommitted' \subseteq stored \cup uncommitted \cup {Current(c)}
    BY <1>1, <1>5, CurrentIsInBatch DEF Insert, Commit
  <2> QED BY <1>1, <1>2, <2>1 DEF history
<1>6. CASE Dispatch(c) \/ Answer(c)
  <2>1. UNCHANGED <<batch, storage, history>>
    BY <1>6 DEF Dispatch, Answer
  <2> QED BY <1>1, <1>2, <2>1 DEF storage, history
<1>7. CASE DispatchDone(c)
  <2>1. /\ Current(c) \in InBatch(c) /\ UNCHANGED <<batch, storage, collected, abandoned>>
        /\ dispatched' = dispatched \cup {Current(c)}
    BY <1>1, <1>7, CurrentIsInBatch DEF DispatchDone
  <2> QED BY <1>1, <1>2, <2>1 DEF storage
<1>8. CASE CycleFails(c)
  <2>1. /\ batch'[c] = <<>> /\ abandoned' = abandoned \cup (InBatch(c) \ dispatched)
        /\ UNCHANGED <<storage, collected, dispatched>>
    BY <1>1, <1>8 DEF CycleFails, EndCycle, LoopShape
  <2> QED BY <1>1, <1>3, <2>1 DEF storage
<1>9. CASE Wake(c)
  <2>1. batch'[c] = <<>> /\ UNCHANGED <<storage, history>>
    BY <1>1, <1>9 DEF Wake, LoopShape
  <2> QED BY <1>1, <1>3, <2>1 DEF storage, history
<1>10. CASE Cancelled(c)
  <2>1. /\ batch'[c] = <<>> /\ abandoned' = abandoned \cup (InBatch(c) \ dispatched)
        /\ UNCHANGED <<registry, collected, dispatched>>
    BY <1>1, <1>10 DEF Cancelled, EndCycle, LoopShape
  <2>2. stored' \cup uncommitted' \subseteq stored \cup uncommitted \cup InBatch(c)
    BY <1>1, <1>10, CurrentIsInBatch DEF Cancelled
  <2> QED BY <1>1, <1>3, <2>1, <2>2
<1> QED BY <1>4, <1>5, <1>6, <1>7, <1>8, <1>9, <1>10 DEF Step

\* A loop that has gone one signal further has the rest before it.
LEMMA RestShrinks ==
  ASSUME Shape, NEW c \in Collectors, at[c] \in 1..Len(batch[c]),
         \A i, j \in 1..Len(batch[c]) : batch[c][i] = batch[c][j] => i = j
  PROVE  \A i \in (at[c] + 1)..Len(batch[c]) : i \in at[c]..Len(batch[c]) /\ batch[c][i] # Current(c)
<1>1. at[c] \in Nat \ {0} /\ Len(batch[c]) \in Nat
  BY DEF Shape, LoopShape
<1> QED BY <1>1 DEF Current

\* The loop that steps keeps its own batch so.
LEMMA StepOwned ==
  ASSUME Shape, Ahead, Fates, NEW c \in Collectors, Step(c)
  PROVE  Owned(c)'
<1>1. /\ Owned(c) /\ dispatched \cap abandoned = {} /\ LoopShape /\ StoreShape
      /\ dispatched \subseteq Signals
  BY DEF Shape, StoreShape, Fates
<1>2. ASSUME batch'[c] = batch[c] PROVE InBatch(c)' = InBatch(c)
  BY <1>2 DEF InBatch
<1>3. ASSUME batch'[c] = <<>>, place'[c] \in {"collect", "wait", "done"} PROVE Owned(c)'
  <2>1. InBatch(c)' = {}
    BY <1>3 DEF InBatch
  <2> QED BY <1>3, <2>1 DEF Owned
<1>4. CASE Collect(c)
  <2> PICK n \in Nat :
        /\ collected' = collected + n
        /\ place'[c] = (IF n = 0 THEN "wait" ELSE "insert")
        /\ batch'[c] = [i \in 1..n |-> collected + i] /\ at'[c] = 1
        /\ Len(batch'[c]) = n
    BY <1>1, <1>4, CollectMoves
  <2>1. InBatch(c)' = {collected + i : i \in 1..n} /\ collected \in Nat
    BY <1>1, LoadsAreLoads DEF InBatch, StoreShape
  <2>2. \A i \in 1..n : collected + i \in 1..collected' /\ collected + i \notin 1..collected
    BY <2>1
  <2>3. UNCHANGED <<storage, dispatched, abandoned>>
    BY <1>4 DEF Collect
  <2>4. \A i, j \in 1..n : batch'[c][i] = batch'[c][j] => i = j
    BY <2>1
  <2>5. dispatched' \cup abandoned' \cup registry' \subseteq 1..collected
    BY <2>3 DEF Fates, Ahead, storage
  <2> QED BY <2>1, <2>2, <2>4, <2>5 DEF Owned
<1>5. CASE Insert(c) \/ Dispatch(c) \/ Answer(c)
  <2>1. /\ place[c] = "insert" => place'[c] \in {"insert", "commit"}
        /\ place[c] \in {"dispatch", "deliver"} => place'[c] \in {"dispatch", "deliver"}
        /\ place[c] \in {"insert", "dispatch", "deliver"}
        /\ UNCHANGED <<batch, at, registry, history>>
    BY <1>1, <1>5 DEF Insert, Dispatch, Answer, Goto, LoopShape, storage
  <2> QED BY <1>1, <1>2, <2>1 DEF Owned, history
<1>6. CASE Commit(c)
  <2>1. /\ place[c] = "commit" /\ Advance(c, "insert", "dispatch")
        /\ UNCHANGED <<batch, inflight, status, history>>
        /\ registry' \subseteq registry \cup {Current(c)}
    BY <1>6 DEF Commit
  <2>2. InBatch(c) \cap dispatched = {} /\ \A i \in at[c]..Len(batch[c]) : batch[c][i] \notin registry
    BY <1>1, <2>1 DEF Owned
  <2>3. CASE at[c] < Len(batch[c])
    <3>1. place'[c] = "insert" /\ at'[c] = at[c] + 1
      BY <1>1, <2>1, <2>3, AdvanceMoves
    <3>2. \A i \in (at[c] + 1)..Len(batch[c]) :
            i \in at[c]..Len(batch[c]) /\ batch[c][i] # Current(c)
      BY <1>1, <2>1, CurrentIsInBatch, RestShrinks DEF Owned
    <3>3. \A i \in at'[c]..Len(batch'[c]) : batch'[c][i] \notin registry'
      BY <2>1, <2>2, <3>1, <3>2
    <3> QED BY <1>1, <1>2, <2>1, <2>2, <3>1, <3>3 DEF Owned, history
  <2>4. CASE ~(at[c] < Len(batch[c]))
    <3>1. place'[c] = "dispatch" /\ at'[c] = 1
      BY <1>1, <2>1, <2>4, AdvanceMoves
    <3>2. \A i \in 1..Len(batch[c]) : batch[c][i] \notin dispatched
      BY <2>2 DEF InBatch
    <3> QED BY <1>1, <1>2, <2>1, <3>1, <3>2 DEF Owned, history
  <2> QED BY <2>3, <2>4
<1>7. CASE DispatchDone(c)
  <2>1. /\ place[c] = "deliver" /\ Advance(c, "dispatch", "wait")
        /\ UNCHANGED <<batch, inflight, status, storage, collected, abandoned>>
        /\ dispatched' = dispatched \cup {Current(c)}
    BY <1>7 DEF DispatchDone
  <2>2. \A i \in at[c]..Len(batch[c]) : batch[c][i] \notin dispatched
    BY <1>1, <2>1 DEF Owned
  <2>3. CASE at[c] < Len(batch[c])
    <3>1. place'[c] = "dispatch" /\ at'[c] = at[c] + 1
      BY <1>1, <2>1, <2>3, AdvanceMoves
    <3>2. \A i \in (at[c] + 1)..Len(batch[c]) :
            i \in at[c]..Len(batch[c]) /\ batch[c][i] # Current(c)
      BY <1>1, <2>1, CurrentIsInBatch, RestShrinks DEF Owned
    <3> QED BY <1>1, <1>2, <2>1, <2>2, <3>1, <3>2 DEF Owned
  <2>4. CASE ~(at[c] < Len(batch[c]))
    <3>1. place'[c] = "wait"
      BY <1>1, <2>1, <2>4, AdvanceMoves
    <3> QED BY <1>1, <1>2, <2>1, <3>1 DEF Owned
  <2> QED BY <2>3, <2>4
<1>8. CASE CycleFails(c) \/ Wake(c) \/ Cancelled(c)
  <2>1. batch'[c] = <<>> /\ place'[c] \in {"collect", "wait", "done"}
    BY <1>1, <1>8 DEF CycleFails, Wake, Cancelled, EndCycle, Goto, LoopShape
  <2> QED BY <1>3, <2>1
<1> QED BY <1>4, <1>5, <1>6, <1>7, <1>8 DEF Step

\* The other loops lose none of their signals, and get none.
LEMMA OthersOwned ==
  ASSUME Shape, Fates, NEW c \in Collectors, Step(c), NEW d \in Collectors, d # c
  PROVE  Owned(d)' /\ InBatch(d)' = InBatch(d) /\ InBatch(c)' \cap InBatch(d)' = {}
<1>1. /\ place'[d] = place[d] /\ batch'[d] = batch[d] /\ at'[d] = at[d]
      /\ InBatch(d)' = InBatch(d)
  BY StepKeepsLoops DEF Untouched, InBatch
<1>2. Owned(d) /\ InBatch(c) \cap InBatch(d) = {}
  BY DEF Fates
<1>3. \A i \in 1..Len(batch[d]) : batch[d][i] \in InBatch(d)
  BY DEF InBatch
<1>4. at[d] \in Nat \ {0} /\ Len(batch[d]) \in Nat /\ \A i \in at[d]..Len(batch[d]) : i \in 1..Len(batch[d])
  BY DEF Shape, LoopShape
<1>5. /\ InBatch(d) \cap dispatched' = InBatch(d) \cap dispatched
      /\ InBatch(d) \cap abandoned' = {} /\ InBatch(d) \cap registry' \subseteq registry
      /\ InBatch(d) \subseteq 1..collected'
      /\ InBatch(c)' \cap InBatch(d) = {}
  <2>1. InBatch(d) \subseteq 1..collected /\ 1..collected \subseteq 1..collected'
        /\ InBatch(d) \cap abandoned = {}
    BY <1>2, StepTouches DEF Owned
  <2>2. dispatched \subseteq dispatched'
    BY StepGrows
  <2> QED BY <1>2, <2>1, <2>2, StepTouches
<1>6. Owned(d)'
  <2>1. /\ place[d] \in {"insert", "commit"} =>
             \A i \in at[d]..Len(batch[d]) : batch[d][i] \notin registry'
        /\ place[d] \in {"dispatch", "deliver"} =>
             \A i \in at[d]..Len(batch[d]) : batch[d][i] \notin dispatched'
    BY <1>2, <1>3, <1>4, <1>5 DEF Owned
  <2> QED BY <1>1, <1>2, <1>5, <2>1 DEF Owned
<1> QED BY <1>1, <1>5, <1>6

\* Every step keeps the batches apart and the dropped ones from being announced.
LEMMA StepFates == Shape /\ Ahead /\ Fates /\ [Next]_vars => Fates'
<1> SUFFICES ASSUME Shape, Ahead, Fates, [Next]_vars PROVE Fates'
  OBVIOUS
<1>1. ASSUME UNCHANGED <<place, batch, at, stored, registry, history>>,
             uncommitted' \subseteq uncommitted
      PROVE  Fates'
  <2>1. UNCHANGED <<stored, registry, collected, dispatched, abandoned>>
    BY <1>1 DEF history
  <2>2. \A c \in Collectors : InBatch(c)' = InBatch(c)
    BY <1>1 DEF InBatch
  <2>3. ASSUME NEW c \in Collectors PROVE Owned(c)'
    <3>1. Owned(c)
      BY DEF Fates
    <3> QED BY <1>1, <2>1, <2>2, <3>1 DEF Owned
  <2> QED BY <1>1, <2>1, <2>2, <2>3 DEF Fates
<1>2. ASSUME NEW c \in Collectors, Step(c) PROVE Fates'
  <2>1. \A d \in Collectors : Owned(d)'
    BY <1>2, StepOwned, OthersOwned
  <2>2. ASSUME NEW d \in Collectors, NEW e \in Collectors, d # e
        PROVE  InBatch(d)' \cap InBatch(e)' = {}
    <3>1. CASE d = c \/ e = c
      BY <1>2, <2>2, <3>1, OthersOwned
    <3>2. CASE d # c /\ e # c
      <4>1. InBatch(d)' = InBatch(d) /\ InBatch(e)' = InBatch(e)
        BY <1>2, <3>2, OthersOwned
      <4> QED BY <2>2, <4>1 DEF Fates
    <3> QED BY <3>1, <3>2
  <2>3. /\ uncommitted' \subseteq 1..collected' /\ stored' \subseteq 1..collected'
        /\ abandoned' \subseteq 1..collected'
    <3>1. InBatch(c) \subseteq 1..collected /\ 1..collected \subseteq 1..collected'
      BY <1>2, StepTouches DEF Fates, Owned
    <3> QED BY <1>2, <3>1, StepTouches DEF Fates
  <2>4. dispatched' \cap abandoned' = {}
    <3>1. dispatched' = dispatched \/ abandoned' = abandoned
      BY <1>2 DEF Step, Collect, Insert, Commit, Dispatch, Answer, DispatchDone, CycleFails,
                  Wake, Cancelled, history
    <3>2. InBatch(c) \cap abandoned = {} /\ dispatched \cap abandoned = {}
      BY DEF Fates, Owned
    <3> QED BY <1>2, <3>1, <3>2, StepTouches
  <2> QED BY <2>1, <2>2, <2>3, <2>4 DEF Fates
<1>3. CASE Subscribe \/ Unsubscribe \/ Tick \/ BeginShutdown
  BY <1>1, <1>3 DEF Subscribe, Unsubscribe, Tick, BeginShutdown, loops, storage
<1>4. CASE StopStore
  BY <1>1, <1>4 DEF StopStore, loops
<1>5. CASE CloseWebhooks
  <2>1. UNCHANGED <<place, batch, at, storage, history>>
    BY <1>5 DEF CloseWebhooks
  <2> QED BY <1>1, <2>1 DEF storage
<1>6. CASE Restart \/ Crash
  <2>1. /\ place' = [c \in Collectors |-> "collect"] /\ batch' = [c \in Collectors |-> <<>>]
        /\ uncommitted' = {} /\ abandoned' = abandoned \cup (1..collected \ dispatched)
        /\ UNCHANGED <<stored, registry, collected, dispatched>>
    BY <1>6 DEF Restart, Crash, Restarted, FreshLoops
  <2>2. \A c \in Collectors : InBatch(c)' = {} /\ batch'[c] = <<>> /\ place'[c] = "collect"
    BY <2>1 DEF InBatch
  <2>3. \A c \in Collectors : Owned(c)'
    BY <2>2 DEF Owned
  <2> QED BY <2>1, <2>2, <2>3 DEF Fates
<1>7. CASE UNCHANGED vars
  BY <1>1, <1>7 DEF vars, loops, storage
<1> QED BY <1>2, <1>3, <1>4, <1>5, <1>6, <1>7 DEF Next

\* The initial states map to those of the contract.
LEMMA InitContract == Init => Contract!Init
<1> SUFFICES ASSUME Init PROVE Contract!Init
  OBVIOUS
<1>1. dispatched = {} /\ abandoned = {} /\ collected = 0 /\ stored = {} /\ registry = {}
  BY DEF Init
<1>2. \A s \in Signals : Fate(s) = "fresh"
  BY <1>1 DEF Fate
<1> QED BY <1>1, <1>2 DEF Contract!Init

\* Who is in hand, and who is not yet there.
LEMMA InHand ==
  ASSUME Shape, Ahead, Fates
  PROVE  /\ Contract!At("taken") = 1..collected \ (dispatched \cup abandoned)
         /\ Contract!At("fresh") = Signals \ 1..collected
         /\ 1..collected \subseteq Signals /\ collected \in Nat /\ Signals \subseteq Nat
         /\ dispatched \cup abandoned \cup stored \subseteq 1..collected
         /\ dispatched \cap abandoned = {} /\ registry \subseteq stored
<1>1. load \in Loads /\ collected \in 0..load.signals
  BY DEF Shape, StoreShape
<1>2. load.signals \in Nat /\ 1..load.signals \subseteq Signals /\ Signals \subseteq Nat
  BY <1>1, LoadsAreLoads
<1>3. 1..collected \subseteq Signals /\ collected \in Nat
  BY <1>1, <1>2
<1>4. /\ dispatched \cup abandoned \cup stored \subseteq 1..collected
      /\ dispatched \cap abandoned = {} /\ registry \subseteq stored
  BY DEF Fates, Ahead
<1>5. \A s \in Signals :
        /\ Fate(s) = "taken" <=> s \in 1..collected \ (dispatched \cup abandoned)
        /\ Fate(s) = "fresh" <=> s \notin 1..collected
  BY <1>4 DEF Fate
<1> QED BY <1>2, <1>3, <1>4, <1>5 DEF Contract!At

\* Every step maps to one of the contract or to a stutter.
LEMMA StepContract ==
  ASSUME Shape, Ahead, Fates, Fates', [Next]_vars
  PROVE  [Contract!Next]_(Contract!contractVars)
<1> DEFINE stages == [s \in Signals |-> Fate(s)]
           inHand == 1..collected \ (dispatched \cup abandoned)
<1>1. /\ Contract!At("taken") = inHand /\ Contract!At("fresh") = Signals \ 1..collected
      /\ 1..collected \subseteq Signals /\ collected \in Nat /\ Signals \subseteq Nat
      /\ dispatched \cup abandoned \cup stored \subseteq 1..collected
      /\ dispatched \cap abandoned = {} /\ registry \subseteq stored
  BY InHand
<1>2. LoopShape /\ StoreShape /\ \A c \in Collectors : Owned(c)
  BY DEF Shape, Fates
<1>3. ASSUME UNCHANGED <<collected, dispatched, abandoned>> PROVE UNCHANGED stages
  BY <1>3 DEF Fate
\* Signals are dropped, and a commit may be carried out.
<1>4. ASSUME NEW S \in SUBSET inHand, abandoned' = abandoned \cup S,
             UNCHANGED <<collected, dispatched, registry>>, stored \subseteq stored'
      PROVE  Contract!Next
  <2>1. stages' = [s \in Signals |-> IF s \in S THEN "dropped" ELSE stages[s]]
    <3>1. \A s \in Signals : Fate(s)' = IF s \in S THEN "dropped" ELSE Fate(s)
      BY <1>4 DEF Fate
    <3> QED BY <3>1
  <2>2. Contract!Keep
    <3>1. stored' \subseteq 1..collected /\ stored' = stored \cup stored'
      BY <1>4 DEF Fates
    <3>2. stored' \in SUBSET (Signals \ Contract!At("fresh"))
      BY <1>1, <3>1
    <3> QED BY <3>1, <3>2 DEF Contract!Keep
  <2>3. Contract!Move(S, "dropped")
    BY <2>1 DEF Contract!Move
  <2> QED BY <1>1, <1>4, <2>2, <2>3 DEF Contract!Drop, Contract!Next
<1>5. ASSUME NEW c \in Collectors, Collect(c) PROVE Contract!Next
  <2> DEFINE S == 1..collected' \ 1..collected
  <2>1. collected' \in Nat /\ collected <= collected' /\ 1..collected' \subseteq Signals
    <3>1. collected' \in Nat /\ collected <= collected' /\ collected' <= load.signals
      <4>1. PICK n \in Nat : collected' = collected + n /\ collected' \in 0..load.signals
        BY <1>2, <1>5, CollectMoves
      <4>2. load.signals \in Nat
        BY <1>2, LoadsAreLoads DEF StoreShape
      <4> QED BY <1>1, <4>1, <4>2
    <3>2. load.signals \in Nat /\ 1..load.signals \subseteq Signals
      BY <1>2, LoadsAreLoads DEF StoreShape
    <3> QED BY <3>1, <3>2
  <2>2. UNCHANGED <<dispatched, abandoned, stored, registry>>
    BY <1>5 DEF Collect, storage
  <2>3. Contract!Move(S, "taken")
    <3>1. \A s \in Signals : Fate(s)' = IF s \in S THEN "taken" ELSE Fate(s)
      BY <1>1, <2>1, <2>2 DEF Fate
    <3> QED BY <3>1 DEF Contract!Move
  <2>4. S \in SUBSET (Signals \ 1..collected) /\ \A s \in S, f \in (Signals \ 1..collected) \ S : s < f
    <3>1. ASSUME NEW s \in S, NEW f \in (Signals \ 1..collected) \ S PROVE s < f \/ f = 0
      BY <1>1, <2>1
    <3>2. 0 \notin Signals
      BY EngineAssumption DEF Signals
    <3> QED BY <2>1, <3>1, <3>2
  <2> HIDE DEF S
  <2> QED BY <1>1, <2>2, <2>3, <2>4 DEF Contract!Take, Contract!Next
<1>6. ASSUME NEW c \in Collectors, Commit(c) PROVE Contract!Next
  <2>1. /\ place[c] = "commit" /\ UNCHANGED history
        /\ stored' = stored \cup uncommitted \cup {Current(c)}
        /\ registry' \in {registry, registry \cup {Current(c)}}
    BY <1>6 DEF Commit
  <2>2. /\ Current(c) \in InBatch(c) /\ at[c] \in 1..Len(batch[c]) /\ Len(batch[c]) \in Nat
    BY <1>2, <2>1, CurrentIsInBatch
  <2>3. Current(c) \in inHand /\ Current(c) \notin registry
    <3>1. at[c] \in at[c]..Len(batch[c])
      BY <2>2
    <3> QED BY <1>2, <2>1, <2>2, <3>1 DEF Owned, Current
  <2>4. Contract!Keep
    <3>1. uncommitted \cup {Current(c)} \in SUBSET (Signals \ Contract!At("fresh"))
      BY <1>1, <2>3 DEF Fates
    <3>2. stored' = stored \cup (uncommitted \cup {Current(c)})
      BY <2>1
    <3> QED BY <3>1, <3>2 DEF Contract!Keep
  <2>5. UNCHANGED registry \/ \E s \in inHand : Contract!List(s)
    <3>1. registry' # registry => Contract!List(Current(c))
      BY <2>1, <2>3 DEF Contract!List
    <3> QED BY <2>3, <3>1
  <2>6. UNCHANGED stages
    BY <1>3, <2>1 DEF history
  <2> HIDE DEF inHand
  <2> QED BY <1>1, <2>4, <2>5, <2>6 DEF Contract!Save, Contract!Next
<1>7. ASSUME NEW c \in Collectors, DispatchDone(c) PROVE Contract!Next
  <2>1. /\ place[c] = "deliver" /\ UNCHANGED <<storage, collected, abandoned>>
        /\ dispatched' = dispatched \cup {Current(c)}
    BY <1>7 DEF DispatchDone
  <2>2. /\ Current(c) \in InBatch(c) /\ at[c] \in 1..Len(batch[c]) /\ Len(batch[c]) \in Nat
    BY <1>2, <2>1, CurrentIsInBatch
  <2>3. Current(c) \in inHand
    <3>1. at[c] \in at[c]..Len(batch[c])
      BY <2>2
    <3> QED BY <1>2, <2>1, <2>2, <3>1 DEF Owned, Current
  <2>4. Current(c) \in stored
    BY <2>1, <2>2 DEF Ahead, Progress
  <2>5. Contract!Move({Current(c)}, "announced")
    <3>1. \A s \in Signals : Fate(s)' = IF s \in {Current(c)} THEN "announced" ELSE Fate(s)
      BY <2>1 DEF Fate
    <3> QED BY <3>1 DEF Contract!Move
  <2> HIDE DEF inHand
  <2> QED BY <1>1, <2>1, <2>3, <2>4, <2>5 DEF Contract!Announce, Contract!Next, storage
<1>8. ASSUME NEW c \in Collectors, CycleFails(c) \/ Cancelled(c) PROVE Contract!Next
  <2>1. /\ abandoned' = abandoned \cup (InBatch(c) \ dispatched)
        /\ UNCHANGED <<collected, dispatched, registry>> /\ stored \subseteq stored'
    BY <1>8 DEF CycleFails, Cancelled, EndCycle, storage
  <2>2. InBatch(c) \ dispatched \in SUBSET inHand
    BY <1>2 DEF Owned
  <2> QED BY <1>4, <2>1, <2>2
<1>9. CASE Restart \/ Crash
  <2>1. /\ abandoned' = abandoned \cup (1..collected \ dispatched)
        /\ UNCHANGED <<collected, dispatched, registry, stored>>
    BY <1>9 DEF Restart, Crash, Restarted
  <2>2. abandoned' = abandoned \cup inHand
    BY <2>1
  <2> HIDE DEF inHand
  <2> QED BY <1>4, <2>1, <2>2
<1>10. ASSUME UNCHANGED <<collected, dispatched, abandoned, stored, registry>>
       PROVE  UNCHANGED Contract!contractVars
  BY <1>3, <1>10 DEF Contract!contractVars
<1>11. ASSUME NEW c \in Collectors, Insert(c) \/ Dispatch(c) \/ Answer(c) \/ Wake(c)
       PROVE  UNCHANGED Contract!contractVars
  BY <1>10, <1>11 DEF Insert, Dispatch, Answer, Wake, storage, history
<1>12. CASE Subscribe \/ Unsubscribe \/ Tick \/ BeginShutdown \/ StopStore \/ CloseWebhooks
  BY <1>10, <1>12 DEF Subscribe, Unsubscribe, Tick, BeginShutdown, StopStore, CloseWebhooks,
                      storage, history
<1>13. CASE UNCHANGED vars
  BY <1>10, <1>13 DEF vars, storage, history
<1> QED
  BY <1>5, <1>6, <1>7, <1>8, <1>9, <1>11, <1>12, <1>13 DEF Next, Step

\* The engine keeps EngineContract: whatever fails or is cut off, and however often it
\* restarts, a signal is listed once and announced once, both only when the store holds
\* it for good, and neither any more when its cycle has ended early.
THEOREM EngineImplementsContract == Spec => Contract!Spec
<1>1. Shape /\ Ahead /\ Fates /\ Fates' /\ [Next]_vars =>
        [Contract!Next]_(Contract!contractVars)
  BY StepContract
<1> QED
  BY <1>1, InitContract, InitShape, StepShape, InitAhead, StepAhead, InitFates, StepFates,
     PTL DEF Spec, Contract!Spec
=============================================================================
