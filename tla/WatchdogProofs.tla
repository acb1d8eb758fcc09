--------------------------- MODULE WatchdogProofs ---------------------------
(***************************************************************************)
(* Theorems about the watchdog, for any list of components and any times   *)
(* with a post shorter than the cooldown.                                  *)
(***************************************************************************)
EXTENDS Watchdog, TLAPS

\* A function keeps its type when one of its values is replaced.
LEMMA ExceptTyped ==
  ASSUME NEW S, NEW T, NEW f \in [S -> T], NEW x, NEW v \in T
  PROVE  [f EXCEPT ![x] = v] \in [S -> T]
OBVIOUS

\* What the sequence type of the configuration says about its positions.
LEMMA WatchedFacts ==
  /\ Len(Watched) \in Nat /\ Len(Watched) > 0
  /\ \A i \in 1..Len(Watched) : Watched[i] \in Components
  /\ \A c \in Components : \E i \in 1..Len(Watched) : Watched[i] = c
BY WatchedAssumption DEF Components

\* One post more is one PostTime more, and fewer posts never last longer.
LEMMA PostsSucc ==
  ASSUME NEW n \in Int
  PROVE  Posts(n) \in Int /\ Posts(n + 1) = Posts(n) + PostTime
BY TimingAssumption DEF Posts

LEMMA PostsSum ==
  ASSUME NEW m \in Int, NEW n \in Int
  PROVE  Posts(m + n) = Posts(m) + Posts(n)
<1>1. m \in Int /\ n \in Int /\ PostTime \in Int
  BY TimingAssumption
<1>2. (m + n) * PostTime = m * PostTime + n * PostTime
  BY <1>1
<1> QED BY <1>2 DEF Posts

LEMMA PostsNatural ==
  ASSUME NEW n \in Nat
  PROVE  Posts(n) \in Nat
<1>1. PostTime \in Nat
  BY TimingAssumption
<1> QED BY <1>1 DEF Posts

\* The bound is a positive number.
LEMMA PatiencePositive == Patience \in Nat /\ Patience > 0
<1>1. Len(Watched) - 1 \in Nat
  BY WatchedFacts
<1>2. Posts(Len(Watched) - 1) \in Nat
  BY <1>1, PostsNatural
<1> QED BY <1>2, TimingAssumption DEF Patience

(***************************************************************************)
(* Type correctness                                                        *)
(***************************************************************************)

\* The files of HeartbeatWriter.
LEMMA FilesTyped ==
  /\ NoFile \in Files
  /\ \A well \in BOOLEAN : Written(well) \in Files
  /\ \A f \in Files : Aged(f) \in Files
<1>1. NoFile \in Files /\ \A well \in BOOLEAN : Written(well) \in Files
  BY TimingAssumption DEF NoFile, Written, Files
<1>2. ASSUME NEW f \in Files PROVE Aged(f) \in Files
  BY TimingAssumption DEF Aged, Files, Least
<1> QED BY <1>1, <1>2

\* At the start there is no file and no watchdog.
LEMMA InitTypeOK == Init => TypeOK
<1> SUFFICES ASSUME Init PROVE TypeOK
  OBVIOUS
<1>1. Patience \in Nat
  BY PatiencePositive
<1>2. file \in [Components -> Files]
  BY FilesTyped DEF Init
<1>3. unheard \in [Components -> 0..Patience]
  BY <1>1 DEF Init
<1> QED BY <1>2, <1>3, WatchedFacts, TimingAssumption DEF Init, TypeOK

\* Another file in the place of one keeps the types.
LEMMA ReplaceTyped ==
  ASSUME TypeOK, NEW c \in Components, NEW f \in Files, Replace(c, f)
  PROVE  /\ file' \in [Components -> Files]
         /\ unheard' \in [Components -> 0..Patience]
         /\ told' \in [Components -> BOOLEAN]
<1>1. Patience \in Nat
  BY PatiencePositive
<1> QED BY <1>1 DEF TypeOK, Replace

LEMMA WriteTyped ==
  ASSUME TypeOK, NEW c \in Components, NEW well \in BOOLEAN, Write(c, well)
  PROVE  /\ file' \in [Components -> Files]
         /\ unheard' \in [Components -> 0..Patience]
         /\ told' \in [Components -> BOOLEAN]
         /\ quiet' \in [Components -> 0..Stale + 1]
         /\ lost' \in [Components -> BOOLEAN]
         /\ faults' \in 0..MaxFaults
<1>1. quiet' \in [Components -> 0..Stale + 1] /\ lost' \in [Components -> BOOLEAN]
  <2>1. 0 \in 0..Stale + 1 /\ TRUE \in BOOLEAN /\ FALSE \in BOOLEAN
    BY TimingAssumption
  <2>2. quiet \in [Components -> 0..Stale + 1] /\ lost \in [Components -> BOOLEAN]
    BY DEF TypeOK
  <2>3. /\ quiet' = [quiet EXCEPT ![c] = 0]
        /\ \/ lost' = [lost EXCEPT ![c] = TRUE]
           \/ lost' = [lost EXCEPT ![c] = FALSE]
    BY DEF Write
  <2> QED BY <2>1, <2>2, <2>3, ExceptTyped
<1>2. CASE Replace(c, Written(well)) /\ UNCHANGED faults
  BY <1>1, <1>2, FilesTyped, ReplaceTyped DEF TypeOK
<1>3. CASE Fault /\ UNCHANGED <<file, history>>
  BY <1>1, <1>3, TimingAssumption DEF TypeOK, Fault, history
<1> QED BY <1>2, <1>3 DEF Write

\* Every step of the processes, of the watchdog and of time keeps the types.
LEMMA StepTypeOK == TypeOK /\ [Next]_vars => TypeOK'
<1> SUFFICES ASSUME TypeOK, [Next]_vars PROVE TypeOK'
  OBVIOUS
<1>1. ASSUME NEW c \in Components, Launch(c) PROVE TypeOK'
  BY <1>1, WriteTyped DEF TypeOK, Launch, dog
<1>2. ASSUME NEW c \in Components, Beat(c) PROVE TypeOK'
  BY <1>2, WriteTyped DEF TypeOK, Beat, dog
<1>3. ASSUME NEW c \in Components, Stop(c) PROVE TypeOK'
  <2>1. process' \in [Components -> {"down", "starting", "up"}]
    BY <1>3 DEF TypeOK, Stop
  <2>2. CASE Write(c, FALSE)
    BY <1>3, <2>1, <2>2, WriteTyped DEF TypeOK, Stop, dog
  <2>3. CASE UNCHANGED <<file, quiet, lost, history, faults>>
    BY <1>3, <2>1, <2>3 DEF TypeOK, Stop, dog, history
  <2> QED BY <1>3, <2>2, <2>3 DEF Stop
<1>4. ASSUME NEW c \in Components, LoseFile(c) PROVE TypeOK'
  <2>1. lost' \in [Components -> BOOLEAN] /\ faults' \in 0..MaxFaults
    BY <1>4, TimingAssumption DEF TypeOK, LoseFile, Fault
  <2> QED BY <1>4, <2>1, FilesTyped, ReplaceTyped DEF TypeOK, LoseFile, dog
<1>5. CASE Start
  BY <1>5, WatchedFacts, TimingAssumption DEF TypeOK, Start, world, history
<1>6. CASE CheckWell
  BY <1>6, WatchedFacts, TimingAssumption
     DEF TypeOK, CheckWell, Proceed, world, history
<1>7. CASE Suppress
  BY <1>7, WatchedFacts, TimingAssumption
     DEF TypeOK, Suppress, Proceed, world, history
<1>8. CASE Alert
  <2>1. sinceAlert' \in [Components -> 0..Cooldown]
    <3>1. 0 \in 0..Cooldown /\ sinceAlert \in [Components -> 0..Cooldown]
      BY TimingAssumption DEF TypeOK
    <3>2. sinceAlert' = [sinceAlert EXCEPT ![Observed] = 0]
      BY <1>8 DEF Alert
    <3> QED BY <3>1, <3>2, ExceptTyped
  <2>2. unheard' \in [Components -> 0..Patience]
    <3>1. 0 \in 0..Patience /\ unheard \in [Components -> 0..Patience]
      BY PatiencePositive DEF TypeOK
    <3>2. unheard' = [unheard EXCEPT ![Observed] = 0]
      BY <1>8 DEF Alert
    <3> QED BY <3>1, <3>2, ExceptTyped
  <2>3. /\ pc' \in {"down", "sleep", "check", "post"}
        /\ next' \in 1..Len(Watched) + 1
        /\ timer' \in 0..Interval + PostTime
    BY <1>8, WatchedFacts, TimingAssumption DEF TypeOK, Alert, Proceed, Observed
  <2>4. /\ UNCHANGED <<world, sinceSend, told, faults>>
        /\ pc' = "post" => next' <= Len(Watched)
    BY <1>8, WatchedFacts DEF Alert, Proceed
  <2> QED BY <2>1, <2>2, <2>3, <2>4 DEF TypeOK, world
<1>9. CASE Answer
  <2>1. told' \in [Components -> BOOLEAN] /\ faults' \in 0..MaxFaults
    <3>1. Ill(Observed) \in BOOLEAN /\ told \in [Components -> BOOLEAN]
      BY DEF TypeOK, Ill
    <3>2. \/ told' = [told EXCEPT ![Observed] = Ill(Observed)]
          \/ told' = told
      BY <1>9 DEF Answer
    <3>3. told' \in [Components -> BOOLEAN]
      BY <3>1, <3>2, ExceptTyped
    <3> QED BY <1>9, <3>3, TimingAssumption DEF TypeOK, Answer, Fault
  <2>2. sinceSend' \in 0..MinInterval
    BY <1>9, TimingAssumption DEF TypeOK, Answer
  <2>3. next' \in 1..Len(Watched) + 1 /\ pc' = "check" /\ timer' = 0
    BY <1>9, WatchedFacts DEF TypeOK, Answer, Proceed
  <2> QED BY <1>9, <2>1, <2>2, <2>3, TimingAssumption DEF TypeOK, Answer, world
<1>10. CASE FinishCheck
  BY <1>10, TimingAssumption DEF TypeOK, FinishCheck, world, history
<1>11. CASE WakeUp
  BY <1>11, WatchedFacts DEF TypeOK, WakeUp, world, history
<1>12. CASE Die
  <2>1. unheard' \in [Components -> 0..Patience]
    BY <1>12, PatiencePositive DEF Die
  <2> QED BY <1>12, <2>1, WatchedFacts, TimingAssumption DEF TypeOK, Die, Fault, world
<1>13. CASE Tick
  <2>1. file' \in [Components -> Files]
    BY <1>13, FilesTyped DEF TypeOK, Tick
  <2>2. quiet' \in [Components -> 0..Stale + 1]
    BY <1>13, TimingAssumption DEF TypeOK, Tick, Least
  <2>3. sinceAlert' \in [Components -> 0..Cooldown] /\ sinceSend' \in 0..MinInterval
    BY <1>13, TimingAssumption DEF TypeOK, Tick, Least
  <2>4. unheard' \in [Components -> 0..Patience]
    BY <1>13, PatiencePositive DEF TypeOK, Tick, Least
  <2>5. timer' \in 0..Interval + PostTime
    BY <1>13, TimingAssumption DEF TypeOK, Tick
  <2> QED BY <1>13, <2>1, <2>2, <2>3, <2>4, <2>5 DEF TypeOK, Tick
<1>14. CASE UNCHANGED vars
  BY <1>14 DEF TypeOK, vars, world, dog, history
<1> QED
  BY <1>1, <1>2, <1>3, <1>4, <1>5, <1>6, <1>7, <1>8, <1>9, <1>10, <1>11, <1>12,
     <1>13, <1>14 DEF Next, Watching, Living

(***************************************************************************)
(* Heartbeat files, watchdog and sink always hold values of their types,   *)
(* and a post is about a component of the list.                            *)
(***************************************************************************)
THEOREM TypeCorrect == Spec => []TypeOK
BY InitTypeOK, StepTypeOK, PTL DEF Spec

(***************************************************************************)
(* A fault is named in time                                                *)
(***************************************************************************)

\* The most time until the component at position i is checked, if nobody dies.
Round(i) == Interval + Posts(i - 1)
Until(i) ==
  IF pc = "sleep" THEN timer + Posts(i - 1)
  ELSE IF pc = "check"
  THEN IF next <= i THEN Posts(i - next)
       ELSE Posts(Len(Watched) + 1 - next) + Round(i)
  ELSE IF next < i THEN timer + Posts(i - next - 1)
       ELSE timer + Posts(Len(Watched) - next) + Round(i)

\* The wait is a natural number.
LEMMA UntilTyped ==
  ASSUME TypeOK, pc # "down", NEW i \in 1..Len(Watched)
  PROVE  Until(i) \in Nat
<1> DEFINE n == Len(Watched)
<1>1. n \in Nat /\ next \in 1..n + 1 /\ timer \in Nat /\ Interval \in Nat
      /\ (pc = "post" => next <= n)
  BY WatchedFacts, TimingAssumption DEF TypeOK
<1>2. Posts(i - 1) \in Nat
  BY PostsNatural
<1>3. Round(i) \in Nat
  BY <1>1, <1>2 DEF Round
<1>4. CASE pc = "sleep"
  BY <1>1, <1>2, <1>4 DEF Until
<1>5. CASE pc = "check"
  <2>1. CASE next <= i
    <3>1. i - next \in Nat
      BY <1>1, <2>1
    <3>2. Posts(i - next) \in Nat
      BY <3>1, PostsNatural
    <3> QED BY <1>5, <2>1, <3>2 DEF Until
  <2>2. CASE ~(next <= i)
    <3>1. n + 1 - next \in Nat
      BY <1>1
    <3>2. Posts(n + 1 - next) \in Nat
      BY <3>1, PostsNatural
    <3> QED BY <1>3, <1>5, <2>2, <3>2 DEF Until
  <2> QED BY <2>1, <2>2
<1>6. CASE pc = "post"
  <2>1. CASE next < i
    <3>1. i - next - 1 \in Nat
      BY <1>1, <2>1
    <3>2. Posts(i - next - 1) \in Nat
      BY <3>1, PostsNatural
    <3> QED BY <1>1, <1>6, <2>1, <3>2 DEF Until
  <2>2. CASE ~(next < i)
    <3>1. n - next \in Nat
      BY <1>1, <1>6
    <3>2. Posts(n - next) \in Nat
      BY <3>1, PostsNatural
    <3> QED BY <1>1, <1>3, <1>6, <2>2, <3>2 DEF Until
  <2> QED BY <2>1, <2>2
<1> QED BY <1>4, <1>5, <1>6 DEF Until, TypeOK

\* What has no fault and nobody to report it has no fault that waits.
NothingUnheard ==
  \A c \in Components : pc = "down" \/ ~Ill(c) => unheard[c] = 0

\* A fault under a cooldown is younger than the alert that began it.
YoungerThanAlert ==
  \A c \in Components : sinceAlert[c] < Cooldown => unheard[c] <= sinceAlert[c]

\* The fault will be looked at before its time is over.
LookedAtInTime ==
  pc # "down" =>
    \A i \in 1..Len(Watched) : unheard[Watched[i]] + Until(i) < Patience

TimelyInv ==
  TypeOK /\ NothingUnheard /\ YoungerThanAlert /\ LookedAtInTime

\* At the start there are faults and nobody who could report them.
LEMMA InitTimelyInv == Init => TimelyInv
<1> SUFFICES ASSUME Init PROVE TimelyInv
  OBVIOUS
<1>1. TypeOK
  BY InitTypeOK
<1> QED BY <1>1, TimingAssumption
        DEF Init, TimelyInv, NothingUnheard, YoungerThanAlert, LookedAtInTime

\* Ages are natural numbers.
LEMMA NaturalAges ==
  ASSUME TypeOK
  PROVE  \A k \in Components : unheard[k] \in Nat /\ sinceAlert[k] \in Nat
<1> TAKE k \in Components
<1>1. unheard[k] \in 0..Patience
  BY DEF TypeOK
<1>2. sinceAlert[k] \in 0..Cooldown
  BY DEF TypeOK
<1> QED BY <1>1, <1>2, PatiencePositive, TimingAssumption

\* A step of a watched process starts a fault afresh or leaves it as old as it
\* is, and takes nothing from the watchdog.
LEMMA ReplaceKeepsTime ==
  ASSUME TypeOK, NothingUnheard, NEW c \in Components, NEW f, Replace(c, f),
         UNCHANGED dog
  PROVE  /\ NothingUnheard'
         /\ \A k \in Components : unheard'[k] = unheard[k] \/ unheard'[k] = 0
<1>1. /\ file' = [file EXCEPT ![c] = f]
      /\ unheard' = [unheard EXCEPT ![c] =
                       IF Finding(f) = Finding(file[c]) THEN @ ELSE 0]
  BY DEF Replace
<1>2. /\ \A k \in Components : k # c => file'[k] = file[k] /\ unheard'[k] = unheard[k]
      /\ file'[c] = f
      /\ unheard'[c] = IF Finding(f) = Finding(file[c]) THEN unheard[c] ELSE 0
  BY <1>1 DEF TypeOK
<1>3. \A k \in Components : unheard'[k] = unheard[k] \/ unheard'[k] = 0
  BY <1>2
<1>4. ASSUME NEW k \in Components, pc' = "down" \/ ~Ill(k)' PROVE unheard'[k] = 0
  <2>1. Finding(file'[k]) = IF k = c THEN Finding(f) ELSE Finding(file[k])
    BY <1>2
  <2> QED BY <1>2, <1>4, <2>1 DEF NothingUnheard, Ill, dog
<1> QED BY <1>3, <1>4 DEF NothingUnheard

\* Then the whole invariant stays.
LEMMA LivingKeepsTime ==
  ASSUME TimelyInv, TypeOK', UNCHANGED dog,
         NothingUnheard',
         \A k \in Components : unheard'[k] = unheard[k] \/ unheard'[k] = 0
  PROVE  TimelyInv'
<1>1. /\ sinceAlert' = sinceAlert /\ pc' = pc /\ \A i : Until(i)' = Until(i)
  BY DEF dog, Until
<1>2. \A k \in Components : unheard[k] \in Nat /\ unheard'[k] \in Nat
                           /\ unheard'[k] <= unheard[k] /\ sinceAlert[k] \in Nat
  BY NaturalAges DEF TimelyInv
<1>3. YoungerThanAlert'
  BY <1>1, <1>2, TimingAssumption DEF TimelyInv, YoungerThanAlert
<1>4. LookedAtInTime'
  <2> SUFFICES ASSUME pc' # "down", NEW i \in 1..Len(Watched)
               PROVE  unheard'[Watched[i]] + Until(i)' < Patience
    BY DEF LookedAtInTime
  <2>1. unheard[Watched[i]] + Until(i) < Patience
    BY <1>1 DEF TimelyInv, LookedAtInTime
  <2>2. Until(i) \in Int
    BY <1>1, UntilTyped DEF TimelyInv
  <2> QED BY <1>1, <1>2, <2>1, <2>2, WatchedFacts, PatiencePositive
<1> QED BY <1>3, <1>4 DEF TimelyInv

\* When check_all goes on, nobody has to wait longer than before, and the one
\* just checked has a whole round to wait.
LEMMA ProceedUntil ==
  ASSUME TypeOK, Proceed, pc \in {"check", "post"}, next <= Len(Watched),
         NEW i \in 1..Len(Watched)
  PROVE  /\ pc' = "check"
         /\ Until(i)' \in Nat
         /\ i # next \/ pc = "post" => Until(i)' <= Until(i)
         /\ i = next => Until(i)' = Interval + Posts(Len(Watched) - 1)
<1> DEFINE n == Len(Watched)
<1>1. /\ n \in Nat /\ next \in 1..n /\ timer \in Nat /\ i \in 1..n
      /\ Interval \in Nat /\ PostTime \in Nat
  BY WatchedFacts, TimingAssumption DEF TypeOK
<1>2. Round(i)' = Round(i) /\ Round(i) \in Nat
  <2>1. i - 1 \in Nat
    BY <1>1
  <2>2. Posts(i - 1) \in Nat
    BY <2>1, PostsNatural
  <2> QED BY <1>1, <2>2 DEF Round
<1>3. CASE next < i
  <2>1. i - next - 1 \in Nat /\ (i - next - 1) + 1 = i - next
    BY <1>1, <1>3
  <2>2. Posts(i - next) = Posts(i - next - 1) + PostTime
    BY <2>1, PostsSucc
  <2>3. Posts(i - next - 1) \in Nat
    BY <2>1, PostsNatural
  <2>4. i - (next + 1) = i - next - 1 /\ next + 1 <= i
    BY <1>1, <1>3
  <2>5. Until(i)' = Posts(i - next - 1)
    BY <2>4 DEF Until, Proceed
  <2>6. Until(i) = IF pc = "check" THEN Posts(i - next)
                   ELSE timer + Posts(i - next - 1)
    BY <1>1, <1>3 DEF Until
  <2> QED BY <1>1, <1>3, <2>2, <2>3, <2>5, <2>6 DEF Proceed
<1>4. CASE i <= next
  <2>1. n - next \in Nat /\ (n - next) + 1 = n + 1 - next /\ n + 1 - (next + 1) = n - next
        /\ ~(next + 1 <= i) /\ ~(next < i) /\ (next <= i <=> i = next)
    BY <1>1, <1>4
  <2>2. Posts(n + 1 - next) = Posts(n - next) + PostTime
    BY <2>1, PostsSucc
  <2>3. Posts(n - next) \in Nat
    BY <2>1, PostsNatural
  <2>4. Until(i)' = Posts(n - next) + Round(i)
    BY <1>2, <2>1 DEF Until, Proceed
  <2>5. CASE i = next
    <3>1. n - next \in Int /\ i - 1 \in Int /\ (n - next) + (i - 1) = n - 1
      BY <1>1, <2>5
    <3>2. Posts(n - 1) = Posts(n - next) + Posts(i - 1)
      BY <3>1, PostsSum
    <3>3. Posts(i - 1) \in Int
      BY <3>1, PostsSucc
    <3>4. Until(i)' = Interval + Posts(n - 1)
      BY <1>1, <2>3, <2>4, <3>2, <3>3 DEF Round
    <3>5. pc = "post" => Until(i) = timer + Posts(n - next) + Round(i)
      BY <2>1, <2>5 DEF Until
    <3> QED BY <1>1, <1>2, <2>3, <2>4, <2>5, <3>4, <3>5 DEF Proceed
  <2>6. CASE i # next
    <3>1. Until(i) = IF pc = "check" THEN Posts(n + 1 - next) + Round(i)
                     ELSE timer + Posts(n - next) + Round(i)
      BY <2>1, <2>6 DEF Until
    <3> QED BY <1>1, <1>2, <2>2, <2>3, <2>4, <2>6, <3>1 DEF Proceed
  <2> QED BY <2>5, <2>6
<1> QED BY <1>1, <1>3, <1>4

\* A post takes the time that the wait has reserved for it.
LEMMA PostUntil ==
  ASSUME TypeOK, pc = "check", next <= Len(Watched),
         pc' = "post", timer' = PostTime, next' = next,
         NEW i \in 1..Len(Watched)
  PROVE  /\ i # next => Until(i)' = Until(i)
         /\ i = next => Until(i)' = PostTime + Interval + Posts(Len(Watched) - 1)
<1> DEFINE n == Len(Watched)
<1>1. /\ n \in Nat /\ next \in 1..n /\ i \in 1..n
      /\ Interval \in Nat /\ PostTime \in Nat
  BY WatchedFacts, TimingAssumption DEF TypeOK
<1>2. Round(i)' = Round(i)
  BY DEF Round
<1>3. CASE next < i
  <2>1. i - next - 1 \in Int /\ (i - next - 1) + 1 = i - next
    BY <1>1, <1>3
  <2>2. /\ Posts(i - next) = Posts(i - next - 1) + PostTime
        /\ Posts(i - next - 1) \in Int
    BY <2>1, PostsSucc
  <2>3. Until(i) = Posts(i - next) /\ Until(i)' = PostTime + Posts(i - next - 1)
    BY <1>1, <1>3 DEF Until
  <2> QED BY <1>1, <1>3, <2>2, <2>3
<1>4. CASE i <= next
  <2>1. n - next \in Int /\ (n - next) + 1 = n + 1 - next /\ i - 1 \in Int
        /\ ~(next < i) /\ (next <= i <=> i = next) /\ (n - next) + (i - 1) = n - 1 + (i - next)
    BY <1>1, <1>4
  <2>2. Posts(n + 1 - next) = Posts(n - next) + PostTime /\ Posts(n - next) \in Int
    BY <2>1, PostsSucc
  <2>3. Until(i)' = PostTime + Posts(n - next) + Round(i)
    BY <1>2, <2>1 DEF Until
  <2>4. Posts(i - 1) \in Int
    BY <2>1, PostsSucc
  <2>5. CASE i = next
    <3>1. (n - next) + (i - 1) = n - 1
      BY <1>1, <2>5
    <3>2. Posts(n - 1) = Posts(n - next) + Posts(i - 1)
      BY <2>1, <3>1, PostsSum
    <3> QED BY <1>1, <2>2, <2>3, <2>4, <2>5, <3>2 DEF Round
  <2>6. CASE i # next
    <3>1. Until(i) = Posts(n + 1 - next) + Round(i)
      BY <2>1, <2>6 DEF Until
    <3> QED BY <1>1, <2>2, <2>3, <2>4, <2>6, <3>1 DEF Round
  <2> QED BY <2>5, <2>6
<1> QED BY <1>1, <1>3, <1>4

\* Neither grows.
LEMMA NoMore ==
  ASSUME NEW a \in Nat, NEW b \in Nat, NEW bound \in Nat, a + b < bound,
         NEW a1 \in Nat, a1 <= a, NEW b1 \in Nat, b1 <= b
  PROVE  a1 + b1 < bound
OBVIOUS

\* A tick that takes one from b and adds at most one to a.
LEMMA OneLess ==
  ASSUME NEW a \in Nat, NEW b \in Nat, NEW bound \in Nat, a + b < bound,
         NEW a1 \in Nat, a1 <= a + 1, NEW b1, b1 = b - 1
  PROVE  a1 + b1 < bound
OBVIOUS

\* Every step keeps faults waiting for no longer than the invariant says.
LEMMA StepTimelyInv == TimelyInv /\ [Next]_vars => TimelyInv'
<1> SUFFICES ASSUME TimelyInv, [Next]_vars PROVE TimelyInv'
  OBVIOUS
<1> USE DEF TimelyInv
<1> DEFINE n == Len(Watched)
<1>1. TypeOK'
  BY StepTypeOK
<1>2. /\ n \in Nat /\ n > 0 /\ Interval \in Nat /\ Interval > 0 /\ PostTime \in Nat
      /\ Cooldown \in Nat /\ PostTime < Cooldown /\ Patience \in Nat
      /\ next \in 1..n + 1 /\ timer \in Nat
      /\ (pc = "post" => next <= n)
  BY WatchedFacts, PatiencePositive, TimingAssumption DEF TypeOK
<1>3. \A k \in Components : unheard[k] \in Nat /\ sinceAlert[k] \in Nat
  BY NaturalAges
<1>4. /\ Posts(n - 1) \in Nat /\ Patience = Cooldown + Interval + Posts(n - 1)
      /\ Cooldown \in Nat /\ Interval \in Nat /\ PostTime \in Nat
      /\ PostTime < Cooldown
  <2>1. n - 1 \in Nat
    BY <1>2
  <2> QED BY <1>2, <2>1, PostsNatural DEF Patience
<1>5. pc # "down" => \A i \in 1..n : Until(i) \in Nat
                                  /\ unheard[Watched[i]] + Until(i) < Patience
  BY UntilTyped DEF LookedAtInTime
<1>6. \A i \in 1..n : Watched[i] \in Components
  BY WatchedFacts
<1>7. CASE Living
  <2>1. \/ UNCHANGED <<file, history>>
        \/ \E c \in Components, f \in {NoFile, Written(TRUE), Written(FALSE)} :
             Replace(c, f)
    BY <1>7 DEF Living, Launch, Beat, Stop, LoseFile, Write
  <2>2. UNCHANGED dog
    BY <1>7 DEF Living, Launch, Beat, Stop, LoseFile
  <2>3. CASE UNCHANGED <<file, history>>
    <3>1. NothingUnheard'
      BY <2>2, <2>3 DEF NothingUnheard, Ill, history, dog
    <3> QED BY <1>1, <2>2, <2>3, <3>1, LivingKeepsTime DEF history
  <2>4. CASE \E c \in Components, f \in {NoFile, Written(TRUE), Written(FALSE)} :
               Replace(c, f)
    BY <1>1, <2>2, <2>4, ReplaceKeepsTime, LivingKeepsTime
  <2> QED BY <2>1, <2>3, <2>4
<1>8. ASSUME Start \/ CheckWell \/ Suppress \/ Answer \/ FinishCheck \/ WakeUp
      PROVE  UNCHANGED <<file, unheard>> /\ pc' # "down"
  BY <1>8 DEF Start, CheckWell, Suppress, Answer, FinishCheck, WakeUp, Proceed,
              world, history
<1>9. ASSUME UNCHANGED <<file, unheard>>, pc' # "down" \/ pc = "down"
      PROVE  NothingUnheard'
  BY <1>9 DEF NothingUnheard, Ill
<1>10. ASSUME UNCHANGED <<unheard, sinceAlert>> PROVE YoungerThanAlert'
  BY <1>10 DEF YoungerThanAlert
<1>11. CASE Start
  <2>1. YoungerThanAlert'
    BY <1>2, <1>11 DEF Start, YoungerThanAlert
  <2>2. ASSUME NEW i \in 1..n PROVE unheard'[Watched[i]] + Until(i)' < Patience
    <3>1. unheard'[Watched[i]] = 0
      BY <1>6, <1>8, <1>11 DEF NothingUnheard, Start
    <3>2. Until(i)' = Posts(i - 1)
      BY <1>2, <1>11 DEF Start, Until
    <3>3. i - 1 \in Nat /\ n - i \in Nat /\ (i - 1) + (n - i) = n - 1
      BY <1>2
    <3>4. Posts(i - 1) \in Nat /\ Posts(n - i) \in Nat
      BY <3>3, PostsNatural
    <3>5. Posts((i - 1) + (n - i)) = Posts(i - 1) + Posts(n - i)
      BY <3>3, PostsSum
    <3>6. Posts(n - 1) = Posts(i - 1) + Posts(n - i)
      BY <3>3, <3>5
    <3> QED BY <1>2, <1>4, <3>1, <3>2, <3>4, <3>6
  <2> QED BY <1>1, <1>8, <1>9, <1>11, <2>1, <2>2 DEF LookedAtInTime
<1>12. CASE CheckWell
  <2>1. YoungerThanAlert'
    BY <1>8, <1>10, <1>12 DEF CheckWell
  <2>2. ASSUME NEW i \in 1..n PROVE unheard'[Watched[i]] + Until(i)' < Patience
    <3>1. /\ Until(i)' \in Nat
          /\ i # next => Until(i)' <= Until(i)
          /\ i = next => Until(i)' = Interval + Posts(n - 1)
      BY <1>12, ProceedUntil DEF CheckWell
    <3>2. i = next => unheard[Watched[i]] = 0
      BY <1>6, <1>12 DEF CheckWell, Observed, NothingUnheard
    <3>3. unheard[Watched[i]] \in Nat /\ Until(i) \in Nat
          /\ unheard[Watched[i]] + Until(i) < Patience
      BY <1>3, <1>5, <1>6, <1>12 DEF CheckWell
    <3>4. unheard'[Watched[i]] = unheard[Watched[i]]
      BY <1>8, <1>12
    <3>5. CASE i = next
      <4>1. unheard'[Watched[i]] = 0 /\ Until(i)' = Interval + Posts(n - 1)
        BY <3>1, <3>2, <3>4, <3>5
      <4> QED BY <1>4, <4>1
    <3>6. CASE i # next
      BY <3>1, <3>3, <3>4, <3>6, NoMore, <1>2
    <3> QED BY <3>5, <3>6
  <2> QED BY <1>1, <1>8, <1>9, <1>12, <2>1, <2>2 DEF LookedAtInTime
<1>13. CASE Suppress
  <2>1. YoungerThanAlert'
    BY <1>8, <1>10, <1>13 DEF Suppress
  <2>2. ASSUME NEW i \in 1..n PROVE unheard'[Watched[i]] + Until(i)' < Patience
    <3>1. /\ Until(i)' \in Nat
          /\ i # next => Until(i)' <= Until(i)
          /\ i = next => Until(i)' = Interval + Posts(n - 1)
      BY <1>13, ProceedUntil DEF Suppress
    <3>2. i = next => /\ unheard[Watched[i]] <= sinceAlert[Watched[i]]
                      /\ sinceAlert[Watched[i]] < Cooldown
      BY <1>6, <1>13 DEF Suppress, Observed, YoungerThanAlert
    <3>3. unheard[Watched[i]] \in Nat /\ sinceAlert[Watched[i]] \in Nat
          /\ Until(i) \in Nat /\ unheard[Watched[i]] + Until(i) < Patience
      BY <1>3, <1>5, <1>6, <1>13 DEF Suppress
    <3>4. unheard'[Watched[i]] = unheard[Watched[i]]
      BY <1>8, <1>13
    <3>5. CASE i = next
      <4>1. unheard[Watched[i]] < Cooldown
        BY <1>4, <3>2, <3>3, <3>5
      <4>2. Until(i)' = Interval + Posts(n - 1)
        BY <3>1, <3>5
      <4> QED BY <1>4, <3>3, <3>4, <4>1, <4>2
    <3>6. CASE i # next
      BY <3>1, <3>3, <3>4, <3>6, NoMore, <1>2
    <3> QED BY <3>5, <3>6
  <2> QED BY <1>1, <1>8, <1>9, <1>13, <2>1, <2>2 DEF LookedAtInTime
<1>14. CASE Alert
  <2>1. /\ pc = "check" /\ next \in 1..n /\ Observed \in Components /\ pc' # "down"
        /\ file' = file
        /\ unheard' = [unheard EXCEPT ![Observed] = 0]
        /\ sinceAlert' = [sinceAlert EXCEPT ![Observed] = 0]
    BY <1>2, <1>6, <1>14 DEF Alert, Proceed, Observed, world
  <2>2. \A k \in Components :
          /\ k = Observed => unheard'[k] = 0 /\ sinceAlert'[k] = 0
          /\ k # Observed => unheard'[k] = unheard[k] /\ sinceAlert'[k] = sinceAlert[k]
    BY <2>1 DEF TypeOK
  <2>3. NothingUnheard' /\ YoungerThanAlert'
    BY <2>1, <2>2 DEF NothingUnheard, YoungerThanAlert, Ill
  <2>4. ASSUME NEW i \in 1..n PROVE unheard'[Watched[i]] + Until(i)' < Patience
    <3>1. /\ unheard[Watched[i]] \in Nat /\ Until(i) \in Nat
          /\ unheard[Watched[i]] + Until(i) < Patience
          /\ unheard'[Watched[i]] \in Nat /\ unheard'[Watched[i]] <= unheard[Watched[i]]
          /\ i = next => unheard'[Watched[i]] = 0
      BY <1>3, <1>5, <1>6, <2>1, <2>2 DEF Observed
    <3>2. CASE Proceed
      <4>1. /\ Until(i)' \in Nat
            /\ i # next => Until(i)' <= Until(i)
            /\ i = next => Until(i)' = Interval + Posts(n - 1)
        BY <2>1, <3>2, ProceedUntil
      <4>2. CASE i = next
        BY <1>4, <3>1, <4>1, <4>2
      <4>3. CASE i # next
        BY <1>2, <3>1, <4>1, <4>3, NoMore
      <4> QED BY <4>2, <4>3
    <3>3. CASE pc' = "post" /\ timer' = PostTime /\ next' = next
      <4>1. /\ i # next => Until(i)' = Until(i)
            /\ i = next => Until(i)' = PostTime + Interval + Posts(n - 1)
        BY <2>1, <3>3, PostUntil
      <4>2. CASE i = next
        BY <1>4, <3>1, <4>1, <4>2
      <4>3. CASE i # next
        BY <1>2, <3>1, <4>1, <4>3, NoMore
      <4> QED BY <4>2, <4>3
    <3> QED BY <1>14, <3>2, <3>3 DEF Alert
  <2> QED BY <1>1, <2>3, <2>4 DEF LookedAtInTime
<1>15. CASE Answer
  <2>1. YoungerThanAlert'
    BY <1>8, <1>10, <1>15 DEF Answer
  <2>2. ASSUME NEW i \in 1..n PROVE unheard'[Watched[i]] + Until(i)' < Patience
    <3>1. Until(i)' \in Nat /\ Until(i)' <= Until(i)
      BY <1>2, <1>15, ProceedUntil DEF Answer
    <3>2. unheard[Watched[i]] \in Nat /\ Until(i) \in Nat
          /\ unheard[Watched[i]] + Until(i) < Patience
      BY <1>3, <1>5, <1>6, <1>15 DEF Answer
    <3> QED BY <1>2, <1>8, <1>15, <3>1, <3>2
  <2> QED BY <1>1, <1>8, <1>9, <1>15, <2>1, <2>2 DEF LookedAtInTime
<1>16. CASE FinishCheck
  <2>1. YoungerThanAlert'
    BY <1>8, <1>10, <1>16 DEF FinishCheck
  <2>2. ASSUME NEW i \in 1..n PROVE unheard'[Watched[i]] + Until(i)' < Patience
    <3>1. next = n + 1 /\ ~(next <= i) /\ n + 1 - next = 0
      BY <1>2, <1>16 DEF FinishCheck
    <3>2. Posts(0) = 0
      BY TimingAssumption DEF Posts
    <3>3. Posts(i - 1) \in Int
      BY PostsSucc
    <3>4. Until(i)' = Interval + Posts(i - 1)
      BY <1>16 DEF FinishCheck, Until
    <3>5. Until(i) = Posts(0) + Round(i)
      BY <1>16, <3>1 DEF FinishCheck, Until
    <3>6. Until(i)' = Until(i)
      BY <1>2, <3>2, <3>3, <3>4, <3>5 DEF Round
    <3> QED BY <1>5, <1>8, <1>16, <3>6 DEF FinishCheck
  <2> QED BY <1>1, <1>8, <1>9, <1>16, <2>1, <2>2 DEF LookedAtInTime
<1>17. CASE WakeUp
  <2>1. YoungerThanAlert'
    BY <1>8, <1>10, <1>17 DEF WakeUp
  <2>2. ASSUME NEW i \in 1..n PROVE unheard'[Watched[i]] + Until(i)' < Patience
    <3>1. Until(i)' = Posts(i - 1) /\ Until(i) = 0 + Posts(i - 1)
      BY <1>17 DEF WakeUp, Until
    <3>2. Posts(i - 1) \in Int
      BY PostsSucc
    <3> QED BY <1>5, <1>8, <1>17, <3>1, <3>2 DEF WakeUp
  <2> QED BY <1>1, <1>8, <1>9, <1>17, <2>1, <2>2 DEF LookedAtInTime
<1>18. CASE Die
  <2>1. pc' = "down" /\ unheard' = [c \in Components |-> 0] /\ sinceAlert' = sinceAlert
    BY <1>18 DEF Die
  <2> QED BY <1>1, <1>3, <2>1
          DEF NothingUnheard, YoungerThanAlert, LookedAtInTime
<1>19. CASE Tick
  <2>1. \A k \in Components :
          /\ file'[k] = Aged(file[k])
          /\ sinceAlert'[k] = Least(sinceAlert[k] + 1, Cooldown)
          /\ unheard'[k] =
               IF pc # "down" /\ Ill(k) /\ Finding(Aged(file[k])) = Finding(file[k])
                 THEN Least(unheard[k] + 1, Patience) ELSE 0
    BY <1>19 DEF Tick
  <2>2. pc' = pc /\ next' = next
    BY <1>19 DEF Tick
  <2>3. NothingUnheard'
    <3> SUFFICES ASSUME NEW k \in Components, pc' = "down" \/ ~Ill(k)'
                 PROVE  unheard'[k] = 0
      BY DEF NothingUnheard
    <3> QED BY <2>1, <2>2 DEF Ill
  <2>4. \A k \in Components : unheard'[k] \in Nat /\ unheard'[k] <= unheard[k] + 1
    BY <1>2, <1>3, <2>1 DEF Least
  <2>5. YoungerThanAlert'
    <3> SUFFICES ASSUME NEW k \in Components, sinceAlert'[k] < Cooldown
                 PROVE  unheard'[k] <= sinceAlert'[k]
      BY DEF YoungerThanAlert
    <3>1. sinceAlert'[k] = sinceAlert[k] + 1 /\ sinceAlert[k] < Cooldown
      BY <1>2, <1>3, <2>1 DEF Least
    <3>2. unheard[k] <= sinceAlert[k]
      BY <3>1 DEF YoungerThanAlert
    <3> QED BY <1>3, <2>4, <3>1, <3>2
  <2>6. ASSUME pc # "down", NEW i \in 1..n
        PROVE  unheard'[Watched[i]] + Until(i)' < Patience
    <3>1. pc \in {"sleep", "post"} /\ timer > 0 /\ timer' = timer - 1
      BY <1>19, <2>6 DEF Tick
    <3>2. /\ Posts(i - 1) \in Int /\ Posts(i - next - 1) \in Int
          /\ Posts(n - next) \in Int
      <4>1. i - 1 \in Int /\ i - next - 1 \in Int /\ n - next \in Int
        BY <1>2
      <4> QED BY <4>1, PostsSucc
    <3>3. Round(i) \in Int /\ Round(i)' = Round(i)
      BY <1>2, <3>2 DEF Round
    <3>4. pc = "sleep" => Until(i)' = Until(i) - 1
      <4> HAVE pc = "sleep"
      <4>1. Until(i) = timer + Posts(i - 1) /\ Until(i)' = (timer - 1) + Posts(i - 1)
        BY <2>2, <3>1 DEF Until
      <4>2. timer \in Int /\ Posts(i - 1) \in Int
        BY <1>2, <3>2
      <4> QED BY <4>1, <4>2
    <3>5. pc = "post" => Until(i)' = Until(i) - 1
      <4> HAVE pc = "post"
      <4>1. /\ Until(i) = IF next < i THEN timer + Posts(i - next - 1)
                          ELSE timer + Posts(n - next) + Round(i)
            /\ Until(i)' = IF next < i THEN (timer - 1) + Posts(i - next - 1)
                           ELSE (timer - 1) + Posts(n - next) + Round(i)
        BY <2>2, <3>1, <3>3 DEF Until
      <4>2. timer \in Int /\ Posts(i - next - 1) \in Int /\ Posts(n - next) \in Int
            /\ Round(i) \in Int
        BY <1>2, <3>2, <3>3
      <4>3. CASE next < i
        BY <4>1, <4>2, <4>3
      <4>4. CASE ~(next < i)
        BY <4>1, <4>2, <4>4
      <4> QED BY <4>3, <4>4
    <3>6. Watched[i] \in Components
      BY <1>6
    <3>7. /\ unheard[Watched[i]] \in Nat /\ unheard'[Watched[i]] \in Nat
          /\ unheard'[Watched[i]] <= unheard[Watched[i]] + 1
      BY <1>3, <2>4, <3>6
    <3>8. Until(i) \in Nat /\ unheard[Watched[i]] + Until(i) < Patience
      BY <1>5, <2>6
    <3>9. Until(i)' = Until(i) - 1
      BY <3>1, <3>4, <3>5
    <3> QED BY <1>2, <3>7, <3>8, <3>9, OneLess
  <2> QED BY <1>1, <2>2, <2>3, <2>5, <2>6 DEF LookedAtInTime
<1>20. CASE UNCHANGED vars
  <2>1. UNCHANGED <<file, unheard, sinceAlert, pc, dog>> /\ \A i : Until(i)' = Until(i)
    BY <1>20 DEF vars, world, dog, history, Until
  <2> QED BY <1>1, <2>1
          DEF NothingUnheard, YoungerThanAlert, LookedAtInTime, Ill
<1> QED
  BY <1>7, <1>11, <1>12, <1>13, <1>14, <1>15, <1>16, <1>17, <1>18, <1>19, <1>20
     DEF Next, Watching

\* What is looked at in time has not waited too long.
LEMMA TimelyInvReports == TimelyInv => ReportedInTime
<1> SUFFICES ASSUME TimelyInv, NEW c \in Components PROVE unheard[c] < Patience
  BY DEF ReportedInTime
<1>1. PICK i \in 1..Len(Watched) : Watched[i] = c
  BY WatchedFacts
<1>2. CASE pc = "down"
  BY <1>2, PatiencePositive DEF TimelyInv, NothingUnheard
<1>3. CASE pc # "down"
  <2>1. Until(i) \in Nat /\ unheard[c] \in Nat
    BY <1>3, UntilTyped, NaturalAges DEF TimelyInv
  <2> QED BY <1>1, <1>3, <2>1, PatiencePositive DEF TimelyInv, LookedAtInTime
<1> QED BY <1>2, <1>3

(***************************************************************************)
(* While the watchdog lives, no component stays at one finding for the     *)
(* cooldown, a sleep and the posts about all others without an alert of    *)
(* that severity, however many components there are and however their      *)
(* faults fall (Watchdog._maybe_alert, run_watchdog).                      *)
(***************************************************************************)
THEOREM FaultsAreReportedInTime == Spec => []ReportedInTime
<1>1. Spec => []TimelyInv
  BY InitTimelyInv, StepTimelyInv, PTL DEF Spec
<1> QED BY <1>1, TimelyInvReports, PTL

(***************************************************************************)
(* Alerts have a cause                                                     *)
(***************************************************************************)

\* A file that nobody has lost is as old as the silence of its process.
FileTellsTruth ==
  \A c \in Components : ~lost[c] =>
    /\ file[c].readable
    /\ file[c].age = quiet[c]
    /\ process[c] = "up" => file[c].well

CauseInv == TypeOK /\ FileTellsTruth

\* At the start there are no files to tell the truth.
LEMMA InitCauseInv == Init => CauseInv
BY InitTypeOK DEF Init, CauseInv, FileTellsTruth

\* A write that succeeds makes file and silence new at once.
LEMMA WriteTellsTruth ==
  ASSUME CauseInv, NEW c \in Components, NEW well \in BOOLEAN, Write(c, well),
         NEW state \in {"down", "starting", "up"}, state = "up" => well,
         process' = [process EXCEPT ![c] = state]
  PROVE  FileTellsTruth'
<1> SUFFICES ASSUME NEW k \in Components, ~lost'[k]
             PROVE  /\ file'[k].readable
                    /\ file'[k].age = quiet'[k]
                    /\ process'[k] = "up" => file'[k].well
  BY DEF FileTellsTruth
<1>1. /\ process'[k] = IF k = c THEN state ELSE process[k]
      /\ quiet'[k] = IF k = c THEN 0 ELSE quiet[k]
  BY DEF CauseInv, TypeOK, Write
<1>2. CASE k = c
  <2>1. Replace(c, Written(well))
    BY <1>2 DEF CauseInv, TypeOK, Write
  <2>2. file'[c] = Written(well)
    BY <2>1 DEF CauseInv, TypeOK, Replace
  <2> QED BY <1>1, <1>2, <2>2 DEF Written
<1>3. CASE k # c
  <2>1. file'[k] = file[k] /\ lost'[k] = lost[k]
    BY <1>3 DEF CauseInv, TypeOK, Write, Replace
  <2> QED BY <1>1, <1>3, <2>1 DEF CauseInv, FileTellsTruth
<1> QED BY <1>2, <1>3

\* So do the other steps, time among them.
LEMMA StepCauseInv == CauseInv /\ [Next]_vars => CauseInv'
<1> SUFFICES ASSUME CauseInv, [Next]_vars PROVE FileTellsTruth'
  BY StepTypeOK DEF CauseInv
<1> USE DEF CauseInv
<1>1. ASSUME NEW c \in Components, Launch(c) PROVE FileTellsTruth'
  BY <1>1, WriteTellsTruth DEF Launch
<1>2. ASSUME NEW c \in Components, Beat(c) PROVE FileTellsTruth'
  BY <1>2, WriteTellsTruth DEF Beat
<1>3. ASSUME NEW c \in Components, Stop(c) PROVE FileTellsTruth'
  <2>1. CASE Write(c, FALSE)
    BY <1>3, <2>1, WriteTellsTruth DEF Stop
  <2>2. CASE UNCHANGED <<file, quiet, lost, history, faults>>
    BY <1>3, <2>2 DEF Stop, FileTellsTruth, TypeOK
  <2> QED BY <1>3, <2>1, <2>2 DEF Stop
<1>4. ASSUME NEW c \in Components, LoseFile(c) PROVE FileTellsTruth'
  BY <1>4 DEF LoseFile, Replace, FileTellsTruth, TypeOK
<1>5. CASE Tick
  <2> SUFFICES ASSUME NEW k \in Components, ~lost'[k]
               PROVE  /\ file'[k].readable
                      /\ file'[k].age = quiet'[k]
                      /\ process'[k] = "up" => file'[k].well
    BY DEF FileTellsTruth
  <2>1. /\ file'[k] = Aged(file[k])
        /\ quiet'[k] = Least(quiet[k] + 1, Stale + 1)
        /\ lost'[k] = lost[k] /\ process'[k] = process[k]
    BY <1>5 DEF Tick
  <2>2. file[k] \in Files /\ file[k].readable
    BY <2>1 DEF TypeOK, FileTellsTruth
  <2>3. /\ Aged(file[k]).readable /\ Aged(file[k]).well = file[k].well
        /\ Aged(file[k]).age = Least(file[k].age + 1, Stale + 1)
    BY <2>2 DEF Aged, Files
  <2> QED BY <2>1, <2>3 DEF FileTellsTruth
<1>6. ASSUME UNCHANGED world PROVE FileTellsTruth'
  BY <1>6 DEF world, FileTellsTruth
<1> QED
  BY <1>1, <1>2, <1>3, <1>4, <1>5, <1>6
     DEF Next, Watching, Living, CheckWell, Suppress, Alert, Answer, FinishCheck,
         WakeUp, Start, Die, vars

\* Only Alert starts a cooldown, and only of the component it has looked at.
LEMMA AlertHasCause ==
  ASSUME CauseInv, [Next]_vars, NEW c \in Components, pc = "check",
         sinceAlert'[c] < sinceAlert[c]
  PROVE  process[c] # "up" \/ quiet[c] > Stale \/ lost[c]
<1> USE DEF CauseInv
<1>1. sinceAlert[c] \in Nat
  BY TimingAssumption DEF TypeOK
<1>2. CASE Alert
  <2>1. c = Observed
    BY <1>1, <1>2 DEF Alert, TypeOK
  <2>2. Ill(c)
    BY <1>2, <2>1 DEF Alert
  <2> QED BY <2>2 DEF Ill, Finding, FileTellsTruth
<1>3. CASE UNCHANGED sinceAlert
  BY <1>1, <1>3
<1>4. Alert \/ UNCHANGED sinceAlert
  BY DEF Next, Watching, Living, Launch, Beat, Stop, LoseFile, CheckWell, Suppress,
         Answer, FinishCheck, WakeUp, Start, Die, Tick, vars, dog
<1> QED BY <1>2, <1>3, <1>4

(***************************************************************************)
(* No alert without a reason in the process it is about                    *)
(* (Watchdog._check_component, HeartbeatWriter.write).                     *)
(***************************************************************************)
THEOREM AlertsAreCaused == Spec => AlertsHaveCause
<1>1. Spec => []CauseInv
  BY InitCauseInv, StepCauseInv, PTL DEF Spec
<1>2. CauseInv /\ [Next]_vars =>
        [\A c \in Components :
           (pc = "check" /\ sinceAlert'[c] < sinceAlert[c])
             => process[c] # "up" \/ quiet[c] > Stale \/ lost[c]]_vars
  BY AlertHasCause
<1> QED BY <1>1, <1>2, PTL DEF Spec, AlertsHaveCause

(***************************************************************************)
(* Skipped alerts                                                          *)
(***************************************************************************)

\* The sink skips an alert only behind another: in this very check, and no time ago,
\* it has sent one about a component earlier in the list, whose alert is younger than
\* a post can last (telegram_sink.py:71, watchdog.py:163).  The component that is
\* listed first is never skipped.
SkippedBehindAnother ==
  (pc = "check" /\ RateLimited) =>
    /\ sinceSend = 0
    /\ \E i \in 1..next - 1 : sinceAlert[Watched[i]] <= PostTime

\* The sleep makes up for the interval of the sink, and a post is not limited.
Paced ==
  /\ SkippedBehindAnother
  /\ pc = "sleep" => sinceSend + timer >= MinInterval
  /\ pc = "post" => sinceSend = MinInterval /\ sinceAlert[Observed] + timer <= PostTime

\* The watchdog's part of the types.
LEMMA DogTyped ==
  ASSUME TypeOK
  PROVE  /\ next \in 1..Len(Watched) + 1 /\ Len(Watched) \in Nat /\ next \in Nat
         /\ timer \in Nat /\ sinceSend \in 0..MinInterval
         /\ MinInterval \in Nat /\ PostTime \in Nat /\ Cooldown \in Nat
         /\ \A c \in Components : sinceAlert[c] \in 0..Cooldown
         /\ sinceAlert \in [Components -> 0..Cooldown]
         /\ \A i \in 1..Len(Watched) : Watched[i] \in Components
         /\ pc = "post" => next \in 1..Len(Watched)
<1>1. /\ next \in 1..Len(Watched) + 1 /\ timer \in 0..Interval + PostTime
      /\ sinceSend \in 0..MinInterval /\ sinceAlert \in [Components -> 0..Cooldown]
      /\ pc = "post" => next <= Len(Watched)
  BY DEF TypeOK
<1> QED BY <1>1, WatchedFacts, TimingAssumption

LEMMA StepPaced == TypeOK /\ Paced /\ [Next]_vars => Paced'
<1> SUFFICES ASSUME TypeOK, Paced, [Next]_vars PROVE Paced'
  OBVIOUS
<1> USE DogTyped, TimingAssumption
<1>1. CASE UNCHANGED dog
  BY <1>1 DEF dog, Paced, SkippedBehindAnother, RateLimited, Observed
<1>2. CASE Start
  BY <1>2 DEF Start, Paced, SkippedBehindAnother, RateLimited
\* The check goes on.
<1>3. ASSUME pc = "check", next \in 1..Len(Watched), Proceed, UNCHANGED sinceSend,
             \A i \in 1..next - 1 : sinceAlert'[Watched[i]] = sinceAlert[Watched[i]]
      PROVE  Paced'
  <2>1. pc' = "check" /\ next' = next + 1
    BY <1>3 DEF Proceed
  <2>2. SkippedBehindAnother'
    <3> SUFFICES ASSUME RateLimited
                 PROVE  sinceSend' = 0 /\ \E i \in 1..next' - 1 : sinceAlert'[Watched[i]] <= PostTime
      BY <1>3 DEF SkippedBehindAnother, RateLimited
    <3>1. sinceSend = 0 /\ \E i \in 1..next - 1 : sinceAlert[Watched[i]] <= PostTime
      BY <1>3 DEF Paced, SkippedBehindAnother
    <3> QED BY <1>3, <2>1, <3>1
  <2> QED BY <2>1, <2>2 DEF Paced
<1>4. CASE CheckWell \/ Suppress
  <2>1. next \in 1..Len(Watched) /\ pc = "check" /\ Proceed /\ UNCHANGED <<sinceSend, sinceAlert>>
    BY <1>4 DEF CheckWell, Suppress
  <2> QED BY <1>3, <2>1
<1>5. CASE Alert
  <2>1. /\ next \in 1..Len(Watched) /\ pc = "check" /\ UNCHANGED sinceSend
        /\ sinceAlert' = [sinceAlert EXCEPT ![Observed] = 0]
        /\ IF RateLimited THEN Proceed ELSE pc' = "post" /\ timer' = PostTime /\ UNCHANGED next
    BY <1>5 DEF Alert
  <2>2. Observed \in Components
    BY <2>1 DEF Observed
  <2>3. CASE RateLimited
    <3>1. \A i \in 1..next - 1 : Watched[i] # Observed /\ Watched[i] \in Components
      <4>1. \A i \in 1..next - 1 : i \in DOMAIN Watched /\ next \in DOMAIN Watched /\ i # next
        BY <2>1, WatchedAssumption
      <4> QED BY <4>1, WatchedAssumption DEF Observed, Components
    <3>2. \A i \in 1..next - 1 : sinceAlert'[Watched[i]] = sinceAlert[Watched[i]]
      BY <2>1, <3>1
    <3> QED BY <1>3, <2>1, <2>3, <3>2
  <2>4. CASE ~RateLimited
    <3>1. pc' = "post" /\ timer' = PostTime /\ Observed' = Observed /\ sinceAlert'[Observed] = 0
      BY <2>1, <2>2, <2>4 DEF Observed
    <3>2. sinceSend' = MinInterval
      BY <2>1, <2>4 DEF RateLimited
    <3> QED BY <3>1, <3>2 DEF Paced, SkippedBehindAnother
  <2> QED BY <2>3, <2>4
<1>6. CASE Answer
  <2>1. /\ pc = "post" /\ next \in 1..Len(Watched) /\ pc' = "check" /\ next' = next + 1
        /\ sinceSend' \in {0, sinceSend} /\ UNCHANGED sinceAlert
    BY <1>6 DEF Answer, Proceed
  <2>2. sinceAlert[Watched[next]] <= PostTime /\ sinceSend = MinInterval
    <3>1. sinceAlert[Watched[next]] + timer <= PostTime /\ sinceSend = MinInterval
      BY <2>1 DEF Paced, Observed
    <3>2. sinceAlert[Watched[next]] \in Nat
      BY <2>1
    <3> QED BY <3>1, <3>2
  <2>3. next \in 1..next' - 1
    BY <2>1
  <2> QED BY <2>1, <2>2, <2>3 DEF Paced, SkippedBehindAnother, RateLimited
<1>7. CASE FinishCheck
  BY <1>7 DEF FinishCheck, Paced, SkippedBehindAnother
<1>8. CASE WakeUp
  BY <1>8 DEF WakeUp, Paced, SkippedBehindAnother, RateLimited
<1>9. CASE Die
  BY <1>9 DEF Die, Paced, SkippedBehindAnother
<1>10. CASE Living
  <2>1. UNCHANGED dog
    BY <1>10 DEF Living, Launch, Beat, Stop, LoseFile
  <2> QED BY <1>1, <2>1
<1>11. CASE Tick
  <2>1. /\ pc' = pc /\ next' = next /\ pc # "check" /\ Observed' = Observed
        /\ timer' = (IF pc = "down" THEN timer ELSE timer - 1)
        /\ pc \in {"sleep", "post"} => timer > 0
        /\ sinceSend' = Least(sinceSend + 1, MinInterval)
        /\ sinceAlert' = [c \in Components |-> Least(sinceAlert[c] + 1, Cooldown)]
    BY <1>11 DEF Tick, Observed
  <2>2. pc = "sleep" => sinceSend' + timer' >= MinInterval
    BY <2>1 DEF Paced, Least
  <2>3. pc = "post" => sinceSend' = MinInterval /\ sinceAlert'[Observed] + timer' <= PostTime
    <3> SUFFICES ASSUME pc = "post" PROVE sinceSend' = MinInterval /\ sinceAlert'[Observed] + timer' <= PostTime
      OBVIOUS
    <3>1. Observed \in Components
      BY DEF Observed
    <3>2. sinceAlert'[Observed] <= sinceAlert[Observed] + 1 /\ sinceAlert'[Observed] \in Nat
          /\ sinceAlert[Observed] \in Nat
      BY <2>1, <3>1 DEF Least
    <3>3. sinceAlert[Observed] + timer <= PostTime /\ sinceSend = MinInterval
      BY DEF Paced
    <3>4. sinceSend' = MinInterval
      BY <2>1, <3>3 DEF Least
    <3> QED BY <2>1, <3>2, <3>3, <3>4
  <2> QED BY <2>1, <2>2, <2>3 DEF Paced, SkippedBehindAnother
<1>12. CASE UNCHANGED vars
  BY <1>1, <1>12 DEF vars
<1> QED
  BY <1>2, <1>4, <1>5, <1>6, <1>7, <1>8, <1>9, <1>10, <1>11, <1>12 DEF Next, Watching

THEOREM SkipsHaveCause == Spec => []SkippedBehindAnother
<1>1. Init => Paced
  BY TimingAssumption DEF Init, Paced, SkippedBehindAnother
<1>2. Paced => SkippedBehindAnother
  BY DEF Paced
<1> QED BY <1>1, <1>2, InitTypeOK, StepTypeOK, StepPaced, PTL DEF Spec
=============================================================================
