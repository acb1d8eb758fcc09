--------------------------- MODULE AdvisoryProofs ---------------------------
(***************************************************************************)
(* What the bridge hands out, for any registry, any limits and any times:  *)
(* answers are recent, advice keeps the limits, queries are spaced, the    *)
(* limiter of the ingest API lets no more through than it says.            *)
(***************************************************************************)
EXTENDS FreqtradeBridge, FiniteSetTheorems, SequenceTheorems,
        WellFoundedInduction, TLAPS

(***************************************************************************)
(* The limits of a bridge whose modulation cannot undercut its threshold:  *)
(* no penalty for uncertainty, no cap below it.  The defaults are 0.6 and  *)
(* 0.7.                                                                    *)
(***************************************************************************)
PolicyAssumption ==
  /\ Unit <= 2 * Threshold
  /\ Threshold <= Share(Unit, 65)
  /\ RiskLimit <= Share(Unit, 70)
  /\ \E t \in Nat : Threshold = Grain * t

-----------------------------------------------------------------------------
\* Arithmetic of the modulation.

LEMMA SharesOfUnit ==
  /\ Share(Unit, 100) = Unit /\ Share(Unit, 15) \in Nat /\ Share(Unit, 35) \in Nat
  /\ Share(Unit, 65) \in Nat /\ Share(Unit, 65) < Unit /\ Share(Unit, 30) <= Share(Unit, 65)
  /\ 2 * Share(Unit, 30) < Unit /\ Share(Unit, 70) < Share(Unit, 80)
  /\ Share(Unit, 70) < Share(Unit, 90) /\ Share(Unit, 70) \in Nat /\ Share(Unit, 80) \in Nat
  /\ Share(Unit, 90) \in Nat /\ Share(Unit, 40) \in Nat
<1>1. PICK k \in Nat : Unit = 100 * k /\ k > 0
  <2>1. Unit = 100 * (Unit \div 100) /\ Unit \div 100 \in Nat
    BY ScaleAssumption
  <2>2. Unit \div 100 > 0
    BY <2>1, ScaleAssumption
  <2> DEFINE k == Unit \div 100
  <2>3. k \in Nat /\ Unit = 100 * k /\ k > 0
    BY <2>1, <2>2
  <2> HIDE DEF k
  <2> QED BY <2>3
<1> QED BY <1>1 DEF Share

\* Products of naturals grow with each factor.
LEMMA ProductsGrow ==
  ASSUME NEW a \in Nat, NEW b \in Nat, NEW x \in Nat, NEW y \in Nat, a <= b, x <= y
  PROVE  a * x <= b * y /\ a * x \in Nat /\ b * y \in Nat
<1>1. PICK n \in Nat : b = a + n
  <2>1. b - a \in Nat /\ b = a + (b - a)
    OBVIOUS
  <2> QED BY <2>1
<1>2. PICK k \in Nat : y = x + k
  <2>1. y - x \in Nat /\ y = x + (y - x)
    OBVIOUS
  <2> QED BY <2>1
<1>3. b * y = a * x + a * k + n * x + n * k
  BY <1>1, <1>2
<1>4. a * x \in Nat /\ a * k \in Nat /\ n * x \in Nat /\ n * k \in Nat
  OBVIOUS
<1> QED BY <1>3, <1>4

\* Taking off a greater share of less leaves no more, and nothing below zero.
LEMMA SharesLeave ==
  ASSUME NEW c \in Nat, NEW d \in Nat, NEW k \in 0..100, NEW m \in 0..100, c <= d, m <= k
  PROVE  c - Share(c, k) \in 0..c /\ c - Share(c, k) <= d - Share(d, m)
<1> DEFINE a == Share(c, k)
           b == Share(d, m)
           x == 100 - k
           y == 100 - m
<1>1. c * k \in Nat /\ d * m \in Nat /\ c * x \in Nat /\ d * y \in Nat /\ c * x <= d * y
  <2>1. x \in Nat /\ y \in Nat /\ x <= y /\ k \in Nat /\ m \in Nat
    OBVIOUS
  <2>2. c * k \in Nat /\ d * m \in Nat
    BY <2>1
  <2> HIDE DEF x, y
  <2> QED BY <2>1, <2>2, ProductsGrow
<1>2. c * k = 100 * c - c * x /\ d * m = 100 * d - d * y
  OBVIOUS
<1>3. a \in Nat /\ 100 * a <= c * k /\ c * k < 100 * a + 100
  BY <1>1 DEF Share
<1>4. b \in Nat /\ 100 * b <= d * m /\ d * m < 100 * b + 100
  BY <1>1 DEF Share
<1> HIDE DEF a, b, x, y
<1>5. c - a <= d - b
  BY <1>1, <1>2, <1>3, <1>4
<1>6. a <= c
  BY <1>1, <1>2, <1>3
<1>7. c - a \in 0..c
  BY <1>3, <1>6
<1> QED BY <1>5, <1>7 DEF a, b

\* The modulation is a caution: a signal of less confidence, a severer level of
\* risk, more warnings or less data never come out with more confidence, and what
\* comes out lies between zero and what went in.
THEOREM CautionIsMonotone ==
  ASSUME NEW raw \in 0..Unit, NEW more \in 0..Unit, raw <= more,
         NEW level \in RiskLevels, NEW milder \in RiskLevels,
         RiskCap(level) <= RiskCap(milder),
         NEW warnings \in Nat, NEW fewer \in Nat, fewer <= warnings,
         NEW completeness \in Int, NEW fuller \in Int, completeness <= fuller
  PROVE  /\ Penalised(raw, level, warnings, completeness) \in 0..raw
         /\ Penalised(raw, level, warnings, completeness) <=
              Penalised(more, milder, fewer, fuller)
<1> DEFINE start(r) == Lesser(Greater(r, 0), Unit)
           c0 == Lesser(start(raw), RiskCap(level))
           d0 == Lesser(start(more), RiskCap(milder))
           c1 == Doubtful(c0)
           d1 == Doubtful(d0)
           c2 == Warned(c1, warnings)
           d2 == Warned(d1, fewer)
           c3 == Incomplete(c2, completeness)
           d3 == Incomplete(d2, fuller)
<1>1. RiskCap(level) \in Nat /\ RiskCap(milder) \in Nat /\ Unit \in Nat
  BY SharesOfUnit, ScaleAssumption DEF RiskCap, RiskLevels
<1>2. c0 \in Nat /\ d0 \in Nat /\ c0 <= d0
  BY <1>1 DEF Lesser, Greater
<1> HIDE DEF c0, d0
<1>3. c1 \in Nat /\ d1 \in Nat /\ c1 <= d1
  <2>1. 10 \in 0..100 /\ 10 <= 10 /\ d0 <= d0
    BY <1>2
  <2>2. c0 - Share(c0, 10) \in 0..c0 /\ c0 - Share(c0, 10) <= d0 - Share(d0, 10)
    BY <1>2, <2>1, SharesLeave
  <2>3. d0 - Share(d0, 10) \in 0..d0
    BY <1>2, <2>1, SharesLeave
  <2>4. 2 * c0 < Unit \/ ~(2 * d0 < Unit)
    BY <1>1, <1>2
  <2> QED BY <1>2, <2>2, <2>3, <2>4 DEF Doubtful
<1> HIDE DEF c1, d1
<1>4. c2 \in Nat /\ d2 \in Nat /\ c2 <= d2
  <2>1. /\ Lesser(5 * warnings, 20) \in 0..100 /\ Lesser(5 * fewer, 20) \in 0..100
        /\ Lesser(5 * fewer, 20) <= Lesser(5 * warnings, 20)
    BY DEF Lesser
  <2>2. c2 \in 0..c1 /\ c2 <= d2
    BY <1>3, <2>1, SharesLeave DEF Warned
  <2>3. d2 \in 0..d1
    <3>1. d1 <= d1 /\ Lesser(5 * fewer, 20) <= Lesser(5 * fewer, 20)
      BY <1>3, <2>1
    <3> QED BY <1>3, <2>1, <3>1, SharesLeave DEF Warned
  <2> QED BY <2>2, <2>3
<1> HIDE DEF c2, d2
<1>5. c3 \in Nat /\ d3 \in Nat /\ c3 <= d3
  <2>1. 15 \in 0..100 /\ 15 <= 15 /\ d2 <= d2
    BY <1>4
  <2>2. c2 - Share(c2, 15) \in 0..c2 /\ c2 - Share(c2, 15) <= d2 - Share(d2, 15)
    BY <1>4, <2>1, SharesLeave
  <2>3. d2 - Share(d2, 15) \in 0..d2
    BY <1>4, <2>1, SharesLeave
  <2> QED BY <1>4, <2>2, <2>3 DEF Incomplete
<1> HIDE DEF c3, d3
<1>6. /\ Penalised(raw, level, warnings, completeness) =
           Lesser(Lesser(Greater(c3, 0), RiskCap(level)), raw)
      /\ Penalised(more, milder, fewer, fuller) =
           Lesser(Lesser(Greater(d3, 0), RiskCap(milder)), more)
  BY DEF Penalised, c3, d3, c2, d2, c1, d1, c0, d0
<1> QED BY <1>1, <1>5, <1>6 DEF Lesser, Greater

\* What the bridge accepts is cut to the cap of its risk and to nothing below.
LEMMA LoweredAcceptable ==
  ASSUME PolicyAssumption, NEW e \in Envelope, Acceptable(e)
  PROVE  /\ Lowered(e) \in Nat
         /\ Threshold <= Lowered(e) /\ Lowered(e) <= e.confidence
<1>1. e.confidence \in Nat /\ e.risk \in Nat /\ e.confidence <= Unit
      /\ Threshold \in Nat /\ Unit \in Nat /\ RiskLimit \in Nat
  BY ScaleAssumption, BridgeAssumption DEF Envelope
<1>2. Threshold <= e.confidence /\ e.risk < Share(Unit, 70)
  BY <1>1, SharesOfUnit DEF PolicyAssumption, Acceptable
<1> DEFINE cap == RiskCap(RiskLevel(e.risk))
<1>3. cap \in Nat /\ Threshold <= cap
  <2>1. RiskLevel(e.risk) \in {"low", "medium"}
    BY <1>1, <1>2, SharesOfUnit DEF RiskLevel
  <2> QED BY <1>1, <2>1, SharesOfUnit DEF RiskCap, PolicyAssumption
<1> DEFINE capped == Lesser(Lesser(Greater(e.confidence, 0), Unit), cap)
<1> HIDE DEF cap
<1>4. capped \in Nat /\ Threshold <= capped /\ capped <= cap /\ capped <= e.confidence
  BY <1>1, <1>2, <1>3 DEF Lesser, Greater
<1> HIDE DEF capped
<1>5. Doubtful(capped) = capped
  BY <1>1, <1>4 DEF Doubtful, PolicyAssumption
<1>6. Warned(capped, 0) = capped
  <2>1. Lesser(5 * 0, 20) = 0
    BY DEF Lesser
  <2>2. Share(capped, 0) = 0
    BY <1>4 DEF Share
  <2> QED BY <1>4, <2>1, <2>2 DEF Warned
<1>7. Incomplete(capped, 100) = capped
  BY DEF Incomplete
<1>8. Lowered(e) = Lesser(Lesser(Greater(capped, 0), cap), e.confidence)
  BY <1>5, <1>6, <1>7 DEF Lowered, Penalised, capped, cap
<1> QED BY <1>1, <1>3, <1>4, <1>8 DEF Lesser, Greater

\* Rounding does not lead below a threshold that is a multiple of the grain.
LEMMA RoundedAbove ==
  ASSUME NEW c \in Nat, NEW t \in Nat, Grain * t <= c, NEW m \in Rounded(c)
  PROVE  m \in Nat /\ Grain * t <= m
<1> DEFINE q == c \div Grain
<1>1. Grain \in Nat /\ Grain > 0
  BY ScaleAssumption
<1>2. q \in Nat /\ Grain * q <= c /\ c < Grain * q + Grain
  BY <1>1
<1> HIDE DEF q
<1>3. t <= q
  <2> SUFFICES ASSUME q + 1 <= t PROVE FALSE
    BY <1>2
  <2>1. Grain * (q + 1) <= Grain * t
    BY <1>1, <1>2
  <2>2. Grain * (q + 1) = Grain * q + Grain
    BY <1>1, <1>2
  <2>3. Grain * q \in Nat /\ Grain * t \in Nat
    BY <1>1, <1>2
  <2> QED BY <1>1, <1>2, <2>1, <2>2, <2>3
<1>4. Grain * t <= Grain * q /\ Grain * t \in Nat /\ Grain * q \in Nat
  BY <1>1, <1>2, <1>3
<1>5. m = Grain * q \/ m = Grain * q + Grain
  BY DEF Rounded, q
<1> QED BY <1>1, <1>4, <1>5

\* The confidence that is handed out lies between threshold and raw value.
LEMMA FinalsBetween ==
  ASSUME PolicyAssumption, NEW e \in Envelope, Acceptable(e), NEW f \in Finals(e)
  PROVE  Threshold <= f /\ f <= e.confidence
<1>1. PICK m \in Rounded(Lowered(e)) : f = Lesser(m, e.confidence)
  BY DEF Finals
<1>2. PICK t \in Nat : Threshold = Grain * t
  BY DEF PolicyAssumption
<1>3. m \in Nat /\ Threshold <= m
  BY <1>2, LoweredAcceptable, RoundedAbove
<1>4. e.confidence \in Nat /\ Threshold \in Nat /\ Threshold <= e.confidence
  BY BridgeAssumption, ScaleAssumption DEF Envelope, Acceptable
<1> QED BY <1>1, <1>3, <1>4 DEF Lesser

(***************************************************************************)
(* The gate turns away what the bridge accepts only for its age or because *)
(* an entry has no direction (RiskGate.evaluate, _evaluate_envelope).      *)
(***************************************************************************)
THEOREM GateAgrees ==
  ASSUME PolicyAssumption, NEW e \in Envelope, Acceptable(e), NEW age
  PROVE  /\ Gate(e, age) \in Approving \cup {"stale_signal", "entry_no_direction"}
         /\ Gate(e, age) = "entry_no_direction" => e.direction = "neutral"
<1>1. e.confidence \in Nat /\ e.risk \in Nat /\ Threshold \in Nat /\ Unit \in Nat
      /\ RiskLimit \in Nat
  BY ScaleAssumption, BridgeAssumption DEF Envelope
<1>2. e.quality = "ok" /\ ~(e.risk >= Share(Unit, 80)) /\ ~(e.confidence < Share(Unit, 30))
  <2>1. Share(Unit, 30) \in Nat
    BY <1>1 DEF Share
  <2> QED BY <1>1, <2>1, SharesOfUnit DEF Acceptable, PolicyAssumption
<1> QED BY <1>2 DEF Gate, Approving

-----------------------------------------------------------------------------
\* What the legacy bot writes are envelopes.
LEMMA LegacyEnvelopes ==
  /\ \A s \in LegacySignals : FromLegacy(s) \in Envelope /\ Share(Unit, s.confidence) \in Nat
  /\ FeedWarning \in Envelope
<1>1. PICK k \in Nat : Unit = 100 * k
  <2>1. Unit = 100 * (Unit \div 100) /\ Unit \div 100 \in Nat
    BY ScaleAssumption
  <2> QED BY <2>1
<1>2. \A n \in 0..100 : Share(Unit, n) = k * n /\ k * n \in 0..Unit
  <2> TAKE n \in 0..100
  <2>1. Unit * n = 100 * (k * n) /\ k * n \in Nat
    BY <1>1
  <2>2. Share(Unit, n) = k * n
    BY <2>1 DEF Share
  <2>3. k * n <= k * 100
    BY <1>1
  <2> QED BY <1>1, <2>1, <2>2, <2>3
<1>3. ASSUME NEW s \in LegacySignals
      PROVE  FromLegacy(s) \in Envelope /\ Share(Unit, s.confidence) \in Nat
  <2>1. s.confidence \in 0..100
    BY SourcesAssumption
  <2>2. Share(Unit, s.confidence) \in 0..Unit /\ Share(Unit, 50) \in 0..Unit
    BY <1>2, <2>1
  <2>3. s.confidence <= 1 => s.confidence * Unit \in 0..Unit
    <3>1. s.confidence <= 1 => s.confidence = 0 \/ s.confidence = 1
      BY <2>1
    <3> QED BY <3>1, ScaleAssumption
  <2>4. FromLegacy(s).confidence \in 0..Unit
    BY <2>1, <2>2, <2>3 DEF FromLegacy
  <2>5. FromLegacy(s).direction \in Directions
    BY DEF FromLegacy, Directions
  <2> QED BY <2>2, <2>4, <2>5, ScaleAssumption DEF FromLegacy, Envelope, SignalClasses, Qualities
<1>4. FeedWarning \in Envelope
  BY <1>2 DEF FeedWarning, Envelope, SignalClasses, Directions, Qualities
<1> QED BY <1>3, <1>4

-----------------------------------------------------------------------------
\* The inductive invariant.

Clocks == now \in Nat /\ boot \in Nat /\ boot <= now

\* Rows carry what the gate said of them, if it was asked.
GatedRow(r) ==
  r.gate = "not_asked" \/ \E age \in Int : r.gate = Gate(r.envelope, age)

RowsSound ==
  /\ rows \in Seq(Rows)
  /\ \A i \in 1..Len(rows) : rows[i].stored <= now /\ GatedRow(rows[i])

\* An entry holds the result for a row that was the newest at its time.
Filled(e) ==
  /\ e.time \in Nat /\ e.boot \in Nat /\ e.boot <= boot
  /\ e.boot = boot => boot + e.time <= now
  /\ \E n \in 0..Len(rows) :
       /\ e.result \in ResultsAt(n)
       /\ (e.boot = boot /\ n < Len(rows)) => boot + e.time <= rows[n + 1].stored

EntrySound(e) == e = NoEntry \/ Filled(e)

Errors == {Hold("rate_limited"), Hold("registry_error")}

\* An answer is an error, or what a query gave recently, or from another boot.
Grounded(a) ==
  /\ a.at \in Nat /\ a.at <= now
  /\ \/ a.result \in Errors
     \/ \E n \in 0..Len(rows) :
          a.result \in ResultsAt(n) /\ (a.boot = boot => NewestBefore(n, a.at))

AnswerSound(a) == a = NoAnswer \/ Grounded(a)

BridgeInv ==
  /\ Clocks /\ RowsSound /\ last \in Int
  /\ EntrySound(cache) /\ EntrySound(file) /\ AnswerSound(answer)

LEMMA InitBridgeInv == Init => BridgeInv
BY DEF Init, SourcesInit, BridgeInv, Clocks, RowsSound, EntrySound, AnswerSound

\* One row more, stored now.
Grown ==
  \E r \in Rows : r.stored = now /\ GatedRow(r) /\ rows' = Append(rows, r)

\* Rows that are there stay, and so does what a query of them gives.
LEMMA GrownRows ==
  ASSUME BridgeInv, Grown, UNCHANGED now
  PROVE  /\ RowsSound'
         /\ Len(rows) \in Nat /\ Len(rows') = Len(rows) + 1
         /\ rows'[Len(rows) + 1].stored = now
         /\ \A i \in 1..Len(rows) : rows'[i] = rows[i] /\ rows[i].stored \in Nat
         /\ \A n \in 0..Len(rows) : ResultsAt(n)' = ResultsAt(n)
<1> PICK r \in Rows : r.stored = now /\ GatedRow(r) /\ rows' = Append(rows, r)
  BY DEF Grown
<1>1. rows \in Seq(Rows) /\ now \in Nat
  BY DEF BridgeInv, RowsSound, Clocks
<1>2. /\ rows' \in Seq(Rows) /\ Len(rows) \in Nat /\ Len(rows') = Len(rows) + 1
      /\ rows'[Len(rows) + 1] = r
      /\ \A i \in 1..Len(rows) : rows'[i] = rows[i] /\ rows[i] \in Rows
  BY <1>1
<1>3. \A i \in 1..Len(rows) : rows[i].stored \in Nat
  BY <1>2 DEF Rows
<1>4. \A n \in 0..Len(rows) : ResultsAt(n)' = ResultsAt(n)
  <2> TAKE n \in 0..Len(rows)
  <2>1. CASE n = 0
    BY <2>1 DEF ResultsAt
  <2>2. CASE n # 0
    <3>1. rows'[n] = rows[n]
      BY <1>2, <2>2
    <3> QED BY <3>1 DEF ResultsAt
  <2> QED BY <2>1, <2>2
<1>5. RowsSound'
  <2> SUFFICES ASSUME NEW i \in 1..Len(rows')
               PROVE  rows'[i].stored <= now /\ GatedRow(rows'[i])
    BY <1>2 DEF RowsSound, GatedRow
  <2>1. CASE i = Len(rows) + 1
    BY <1>1, <1>2, <2>1
  <2>2. CASE i \in 1..Len(rows)
    BY <1>2, <2>2 DEF BridgeInv, RowsSound
  <2> QED BY <1>2, <2>1, <2>2
<1> QED BY <1>2, <1>3, <1>4, <1>5

\* A new row is younger than every entry and every answer.
LEMMA GrowthKeepsInv ==
  ASSUME BridgeInv, Grown, UNCHANGED <<now, boot, memory, file, answer>>
  PROVE  BridgeInv'
<1> USE GrownRows
<1>1. \A e : EntrySound(e) => EntrySound(e)'
  <2> SUFFICES ASSUME NEW e, Filled(e) PROVE Filled(e)'
    BY DEF EntrySound
  <2> PICK n \in 0..Len(rows) :
         /\ e.result \in ResultsAt(n)
         /\ (e.boot = boot /\ n < Len(rows)) => boot + e.time <= rows[n + 1].stored
    BY DEF Filled
  <2>1. n \in 0..Len(rows') /\ e.result \in ResultsAt(n)'
    OBVIOUS
  <2>2. (e.boot = boot /\ n < Len(rows')) => boot + e.time <= rows'[n + 1].stored
    <3>1. CASE n < Len(rows)
      BY <3>1
    <3>2. CASE n = Len(rows)
      BY <3>2 DEF Filled
    <3> QED BY <3>1, <3>2
  <2> QED BY <2>1, <2>2 DEF Filled
<1>2. AnswerSound(answer)'
  <2> SUFFICES ASSUME Grounded(answer), answer.result \notin Errors
               PROVE  \E n \in 0..Len(rows') :
                        /\ answer.result \in ResultsAt(n)'
                        /\ answer.boot = boot => NewestBefore(n, answer.at)'
    BY DEF AnswerSound, Grounded, Errors, Hold, BridgeInv
  <2> PICK n \in 0..Len(rows) :
         answer.result \in ResultsAt(n) /\ (answer.boot = boot => NewestBefore(n, answer.at))
    BY DEF Grounded
  <2>1. n \in 0..Len(rows') /\ answer.result \in ResultsAt(n)'
    OBVIOUS
  <2>2. answer.boot = boot => NewestBefore(n, answer.at)'
    <3>1. CASE n < Len(rows)
      BY <3>1 DEF NewestBefore
    <3>2. CASE n = Len(rows)
      BY <3>2, BridgeAssumption DEF NewestBefore, Grounded, BridgeInv, Clocks
    <3> QED BY <3>1, <3>2
  <2> QED BY <2>1, <2>2
<1> QED BY <1>1, <1>2 DEF BridgeInv, Clocks, memory

\* Steps of the sources add one row or none and touch no clock.
LEMMA SourcesGrow ==
  ASSUME BridgeInv, SourcesNext
  PROVE  UNCHANGED <<now, boot>> /\ (Grown \/ rows' = rows)
<1>1. UNCHANGED <<now, boot>>
  BY DEF SourcesNext, Ingest, RefuseRequest, IngestFails, LegacyAppend,
         WarnOfFeed, EngineAppend, RestartEngine
<1>2. ASSUME NEW e \in Written, NEW said \in Nat, NEW lag \in Int,
             NEW verdict \in Verdicts \cup {"not_asked"}, Store(e, said, now - lag, verdict),
             verdict = "not_asked" \/ \E age \in Int : verdict = Gate(e, age)
      PROVE  Grown
  <2> DEFINE r == [envelope |-> e, said |-> said, made |-> now - lag, gate |-> verdict,
                   stored |-> now]
  <2>1. r \in Rows
    BY <1>2 DEF Rows, BridgeInv, Clocks
  <2>2. GatedRow(r) /\ r.stored = now
    BY <1>2 DEF GatedRow
  <2>3. rows' = Append(rows, r)
    BY <1>2 DEF Store
  <2> QED BY <2>1, <2>2, <2>3 DEF Grown
<1>3. \A e, age : Gate(e, age) \in Verdicts
  BY DEF Gate, Verdicts, Approving
<1>4. ASSUME NEW c \in Callers, Ingest(c) PROVE Grown
  <2> PICK e \in Offers, lag \in Lags \cup {0} :
         Store(e, e.confidence, now - lag, Gate(e, lag))
    BY <1>4 DEF Ingest
  <2>1. lag \in Int /\ e \in Written /\ e.confidence \in Nat
    BY SourcesAssumption, ScaleAssumption DEF Written, Envelope
  <2> QED BY <1>2, <1>3, <2>1
<1>5. CASE LegacyAppend
  <2> PICK s \in LegacySignals :
         Store(FromLegacy(s), Share(Unit, s.confidence), now, Gate(FromLegacy(s), 0))
    BY <1>5 DEF LegacyAppend
  <2>1. FromLegacy(s) \in Written /\ Share(Unit, s.confidence) \in Nat
    BY LegacyEnvelopes DEF Written
  <2>2. Store(FromLegacy(s), Share(Unit, s.confidence), now - 0, Gate(FromLegacy(s), 0))
    BY DEF BridgeInv, Clocks
  <2> QED BY <1>1, <1>2, <1>3, <2>1, <2>2
<1>8. CASE WarnOfFeed
  <2>1. FeedWarning \in Written /\ FeedWarning.confidence \in Nat
    BY LegacyEnvelopes DEF Written, Envelope
  <2>2. Store(FeedWarning, FeedWarning.confidence, now - 0, Gate(FeedWarning, 0))
    BY <1>8 DEF BridgeInv, Clocks, WarnOfFeed
  <2> QED BY <1>1, <1>2, <1>3, <2>1, <2>2
<1>6. CASE EngineAppend
  <2> PICK e \in Offers, lag \in Lags : Store(e, e.confidence, now - lag, "not_asked")
    BY <1>6 DEF EngineAppend
  <2>1. lag \in Int /\ e \in Written /\ e.confidence \in Nat
    BY SourcesAssumption, ScaleAssumption DEF Written, Envelope
  <2> QED BY <1>1, <1>2, <2>1
<1>7. CASE RestartEngine \/ \E c \in Callers : RefuseRequest(c) \/ IngestFails(c)
  BY <1>7 DEF RestartEngine, RefuseRequest, IngestFails
<1> QED BY <1>1, <1>4, <1>5, <1>6, <1>7, <1>8 DEF SourcesNext

\* With the same rows and clocks nothing changes its meaning.
LEMMA SameMeaning ==
  ASSUME rows' = rows, UNCHANGED <<now, boot>>
  PROVE  /\ RowsSound => RowsSound'
         /\ \A e : EntrySound(e)' = EntrySound(e)
         /\ \A n : ResultsAt(n)' = ResultsAt(n)
         /\ \A n, t : NewestBefore(n, t)' = NewestBefore(n, t)
<1>1. \A n : ResultsAt(n)' = ResultsAt(n)
  BY DEF ResultsAt
<1>2. \A n, t : NewestBefore(n, t)' = NewestBefore(n, t)
  BY DEF NewestBefore
<1> QED BY <1>1, <1>2 DEF RowsSound, GatedRow, EntrySound, Filled

\* What is served from the cache is recent, if its time is from this boot.
LEMMA ServedIsRecent ==
  ASSUME BridgeInv, Live
  PROVE  \E n \in 0..Len(rows) :
           /\ cache.result \in ResultsAt(n)
           /\ cache.boot = boot => NewestBefore(n, now)
<1>1. Filled(cache) /\ Mono - cache.time < CacheTtl
  BY DEF Live, BridgeInv, EntrySound
<1> PICK n \in 0..Len(rows) :
      /\ cache.result \in ResultsAt(n)
      /\ (cache.boot = boot /\ n < Len(rows)) => boot + cache.time <= rows[n + 1].stored
  BY <1>1 DEF Filled
<1>2. rows \in Seq(Rows) /\ now \in Nat /\ boot \in Nat /\ cache.time \in Nat
  BY <1>1 DEF BridgeInv, RowsSound, Clocks, Filled
<1>3. ASSUME cache.boot = boot, n < Len(rows) PROVE now - rows[n + 1].stored < CacheTtl
  <2> DEFINE stored == rows[n + 1].stored
  <2>1. rows[n + 1] \in Rows
    BY <1>2, <1>3
  <2>2. stored \in Nat
    BY <2>1 DEF Rows
  <2>3. boot + cache.time <= stored /\ (now - boot) - cache.time < CacheTtl
    BY <1>1, <1>3 DEF Mono
  <2> HIDE DEF stored
  <2>4. now - stored < CacheTtl
    BY <1>2, <2>2, <2>3, BridgeAssumption
  <2> QED BY <2>4 DEF stored
<1>4. cache.boot = boot => NewestBefore(n, now)
  BY <1>3 DEF NewestBefore
<1> QED BY <1>4

\* Every step of producers, bridge and machine keeps the invariant.
LEMMA StepBridgeInv == BridgeInv /\ [Next]_vars => BridgeInv'
<1> SUFFICES ASSUME BridgeInv, [Next]_vars PROVE BridgeInv'
  OBVIOUS
<1>1. CASE SourcesNext /\ UNCHANGED <<memory, file, answer>>
  <2>1. CASE Grown
    BY <1>1, <2>1, SourcesGrow, GrowthKeepsInv
  <2>2. CASE rows' = rows
    <3>1. UNCHANGED <<now, boot>>
      BY <1>1, SourcesGrow
    <3>2. AnswerSound(answer)'
      BY <1>1, <2>2, <3>1, SameMeaning DEF BridgeInv, AnswerSound, Grounded, Errors, Hold
    <3> QED BY <1>1, <2>2, <3>1, <3>2, SameMeaning DEF BridgeInv, Clocks, memory
  <2> QED BY <1>1, <2>1, <2>2, SourcesGrow
<1>2. CASE Refuse \/ LookUpFails
  <2>1. /\ UNCHANGED <<now, boot, rows, cache, file>> /\ last' \in Int
        /\ answer'.result \in Errors /\ answer'.at = now
    BY <1>2 DEF Refuse, LookUpFails, Return, Errors, memory, sources, BridgeInv, Mono, Clocks
  <2>2. AnswerSound(answer)'
    BY <2>1 DEF AnswerSound, Grounded, Errors, Hold, BridgeInv, Clocks
  <2> QED BY <2>1, <2>2, SameMeaning DEF BridgeInv, Clocks
<1>3. CASE ServeCached
  <2>1. /\ UNCHANGED <<now, boot, rows, cache, file>> /\ last' \in Int
        /\ answer' = [result |-> cache.result, at |-> now, boot |-> cache.boot]
    BY <1>3 DEF ServeCached, Return, sources, BridgeInv, Mono, Clocks
  <2>2. AnswerSound(answer)'
    <3>1. \E n \in 0..Len(rows) :
            /\ cache.result \in ResultsAt(n)
            /\ cache.boot = boot => NewestBefore(n, now)
      BY <1>3, ServedIsRecent DEF ServeCached
    <3> QED BY <2>1, <3>1, SameMeaning DEF AnswerSound, Grounded, BridgeInv, Clocks
  <2> QED BY <2>1, <2>2, SameMeaning DEF BridgeInv, Clocks
<1>4. CASE LookUp
  <2> PICK result \in ResultsAt(Len(rows)) :
         /\ answer' = [result |-> result, at |-> now, boot |-> boot]
         /\ cache' = [result |-> result, time |-> Mono, boot |-> boot]
    BY <1>4 DEF LookUp, Return
  <2>1. /\ UNCHANGED <<now, boot, rows>> /\ last' = Mono /\ file' \in {file, cache'}
    BY <1>4 DEF LookUp, sources
  <2>2. now \in Nat /\ boot \in Nat /\ Mono \in Nat /\ boot + Mono = now
        /\ Len(rows) \in Nat
    BY DEF BridgeInv, Clocks, Mono, RowsSound
  <2>3. EntrySound(cache)'
    BY <2>1, <2>2, SameMeaning DEF EntrySound, Filled
  <2>4. EntrySound(file)'
    BY <2>1, <2>3, SameMeaning DEF BridgeInv, EntrySound, Filled
  <2>5. AnswerSound(answer)'
    BY <2>1, <2>2, SameMeaning DEF AnswerSound, Grounded, NewestBefore
  <2> QED BY <2>1, <2>2, <2>3, <2>4, <2>5, SameMeaning DEF BridgeInv, Clocks
<1>5. CASE RestartBridge
  <2>1. /\ UNCHANGED <<now, boot, rows, file>> /\ last' = -1 /\ answer' = NoAnswer
        /\ cache' \in {NoEntry, file}
    BY <1>5 DEF RestartBridge, Construct, sources
  <2>2. EntrySound(cache)' /\ EntrySound(file)'
    BY <2>1, SameMeaning DEF BridgeInv, EntrySound, Filled
  <2> QED BY <2>1, <2>2, SameMeaning DEF BridgeInv, Clocks, AnswerSound
<1>6. CASE Reboot
  <2>1. /\ UNCHANGED <<now, rows, file>> /\ boot' = now /\ last' = -1
        /\ answer' = NoAnswer /\ cache' \in {NoEntry, file}
    BY <1>6 DEF Reboot, Construct
  <2>2. now \in Nat /\ boot \in Nat /\ boot <= now
    BY DEF BridgeInv, Clocks
  <2>3. \A n : ResultsAt(n)' = ResultsAt(n)
    BY <2>1 DEF ResultsAt
  <2>4. \A e : EntrySound(e) => EntrySound(e)'
    BY <2>1, <2>2, <2>3 DEF EntrySound, Filled
  <2>5. EntrySound(cache)' /\ EntrySound(file)'
    BY <2>1, <2>4 DEF BridgeInv, EntrySound, Filled
  <2>6. RowsSound'
    BY <2>1 DEF BridgeInv, RowsSound, GatedRow
  <2> QED BY <2>1, <2>2, <2>5, <2>6 DEF BridgeInv, Clocks, AnswerSound
<1>7. CASE Tick
  <2>1. /\ UNCHANGED <<boot, rows, last, cache, file, answer>> /\ now' = now + 1
    BY <1>7 DEF Tick, memory, sources
  <2>2. now \in Nat /\ boot \in Nat /\ boot <= now
    BY DEF BridgeInv, Clocks
  <2>3. \A n : ResultsAt(n)' = ResultsAt(n)
    BY <2>1 DEF ResultsAt
  <2>4. \A n, t : NewestBefore(n, t)' = NewestBefore(n, t)
    BY <2>1 DEF NewestBefore
  <2>5. \A e : EntrySound(e) => EntrySound(e)'
    BY <2>1, <2>2, <2>3 DEF EntrySound, Filled
  <2>6. EntrySound(cache)' /\ EntrySound(file)'
    BY <2>1, <2>5 DEF BridgeInv, EntrySound, Filled
  <2>7. AnswerSound(answer)'
    BY <2>1, <2>2, <2>3, <2>4 DEF BridgeInv, AnswerSound, Grounded, Errors, Hold
  <2>8. RowsSound'
    <3>1. \A i \in 1..Len(rows) : rows[i].stored \in Nat
      <4>1. \A i \in 1..Len(rows) : rows[i] \in Rows
        BY DEF BridgeInv, RowsSound
      <4> QED BY <4>1 DEF Rows
    <3> QED BY <2>1, <2>2, <3>1 DEF BridgeInv, RowsSound, GatedRow
  <2> QED BY <2>1, <2>2, <2>6, <2>7, <2>8 DEF BridgeInv, Clocks
<1>8. CASE UNCHANGED vars
  <2>1. UNCHANGED <<now, boot, rows, last, cache, file, answer>>
    BY <1>8 DEF vars, sources, memory
  <2>2. AnswerSound(answer)'
    BY <2>1, SameMeaning DEF BridgeInv, AnswerSound, Grounded, Errors, Hold
  <2> QED BY <2>1, <2>2, SameMeaning DEF BridgeInv, Clocks
<1> QED
  BY <1>1, <1>2, <1>3, <1>4, <1>5, <1>6, <1>7, <1>8 DEF Next, Ask

-----------------------------------------------------------------------------
\* An entry of an earlier boot was made before the machine was restarted.
Outlived(e) == e # NoEntry => e.boot = boot \/ e.time <= boot - e.boot

AnswerOutlived ==
  (answer # NoAnswer /\ answer.boot # boot) =>
    answer.at - boot < (boot - answer.boot) + CacheTtl

OutlivedInv == Outlived(cache) /\ Outlived(file) /\ AnswerOutlived

\* Boots are of the past, and so are the times of entries.
LEMMA StepOutlivedInv == BridgeInv /\ OutlivedInv /\ [Next]_vars => OutlivedInv'
<1> SUFFICES ASSUME BridgeInv, OutlivedInv, [Next]_vars PROVE OutlivedInv'
  OBVIOUS
<1>1. now \in Nat /\ boot \in Nat /\ boot <= now /\ Mono = now - boot
  BY DEF BridgeInv, Clocks, Mono
<1>2. \A e : EntrySound(e) /\ e # NoEntry =>
        e.time \in Nat /\ e.boot \in Nat /\ e.boot <= boot /\ (e.boot = boot => e.boot + e.time <= now)
  BY DEF EntrySound, Filled
<1>3. EntrySound(cache) /\ EntrySound(file)
  BY DEF BridgeInv
<1>4. CASE UNCHANGED <<boot, cache, file, answer>>
  BY <1>4 DEF OutlivedInv, Outlived, AnswerOutlived
<1>5. CASE Refuse \/ LookUpFails
  <2>1. UNCHANGED <<boot, cache, file>> /\ answer'.boot = boot
    BY <1>5 DEF Refuse, LookUpFails, Return, memory
  <2> QED BY <2>1 DEF OutlivedInv, Outlived, AnswerOutlived
<1>6. CASE ServeCached
  <2>1. /\ UNCHANGED <<boot, cache, file>> /\ Live
        /\ answer' = [result |-> cache.result, at |-> now, boot |-> cache.boot]
    BY <1>6 DEF ServeCached, Return
  <2>2. cache # NoEntry /\ Mono - cache.time < CacheTtl
    BY <2>1 DEF Live
  <2>3. ASSUME cache.boot # boot PROVE now - boot < (boot - cache.boot) + CacheTtl
    <3>1. cache.time <= boot - cache.boot
      BY <2>2, <2>3 DEF OutlivedInv, Outlived
    <3> QED BY <1>1, <1>2, <1>3, <2>2, <3>1, BridgeAssumption
  <2>4. AnswerOutlived'
    BY <2>1, <2>3 DEF AnswerOutlived
  <2> QED BY <2>1, <2>4 DEF OutlivedInv, Outlived
<1>7. CASE LookUp
  <2>1. /\ boot' = boot /\ answer'.boot = boot /\ cache'.boot = boot
        /\ file' \in {file, cache'}
    BY <1>7 DEF LookUp, Return
  <2> QED BY <2>1 DEF OutlivedInv, Outlived, AnswerOutlived
<1>8. CASE RestartBridge
  <2>1. UNCHANGED <<boot, file>> /\ cache' \in {NoEntry, file} /\ answer' = NoAnswer
    BY <1>8 DEF RestartBridge, Construct
  <2> QED BY <2>1 DEF OutlivedInv, Outlived, AnswerOutlived
<1>9. CASE Reboot
  <2>1. boot' = now /\ file' = file /\ cache' \in {NoEntry, file} /\ answer' = NoAnswer
    BY <1>9 DEF Reboot, Construct
  <2>2. Outlived(file)'
    <3> SUFFICES ASSUME file # NoEntry PROVE file.time <= now - file.boot
      BY <2>1 DEF Outlived
    <3>1. file.boot = boot \/ file.time <= boot - file.boot
      BY DEF OutlivedInv, Outlived
    <3> QED BY <1>1, <1>2, <1>3, <3>1
  <2>3. Outlived(cache)'
    BY <2>1, <2>2 DEF Outlived
  <2> QED BY <2>1, <2>2, <2>3 DEF OutlivedInv, AnswerOutlived
<1>10. CASE SourcesNext /\ UNCHANGED <<memory, file, answer>>
  BY <1>4, <1>10, SourcesGrow DEF memory
<1>11. CASE Tick \/ UNCHANGED vars
  BY <1>4, <1>11 DEF Tick, vars, memory
<1> QED
  BY <1>5, <1>6, <1>7, <1>8, <1>9, <1>10, <1>11 DEF Next, Ask

(***************************************************************************)
(* Whatever the bridge answers, but for errors and for what a file carried *)
(* over a reboot, a query less than CacheTtl ago would have given, however *)
(* often it is asked, restarted and overtaken by new signals; and what was *)
(* carried over is served no longer than the machine had been up, and      *)
(* CacheTtl.                                                               *)
(***************************************************************************)
THEOREM AnswersStayRecent == Spec => []AnswersAreRecent
<1>1. Init => OutlivedInv
  BY DEF Init, OutlivedInv, Outlived, AnswerOutlived
<1>2. BridgeInv /\ OutlivedInv => AnswersAreRecent
  BY DEF BridgeInv, OutlivedInv, AnswerOutlived, AnswerSound, Grounded,
         AnswersAreRecent, Errors, Hold
<1> QED
  BY <1>1, <1>2, InitBridgeInv, StepBridgeInv, StepOutlivedInv, PTL DEF Spec

\* Advice comes from a row that the bridge accepts.
LEMMA AdviceHasRow ==
  ASSUME BridgeInv, answer # NoAnswer, answer.result.action # "hold"
  PROVE  /\ answer.result.row \in 1..Len(rows)
         /\ LET e == rows[answer.result.row].envelope IN
              /\ Acceptable(e) /\ answer.result.confidence \in Finals(e)
              /\ answer.result.action = ActionFor(e.direction)
<1> PICK n \in 0..Len(rows) : answer.result \in ResultsAt(n)
  BY DEF BridgeInv, AnswerSound, Grounded, Errors, Hold
<1> DEFINE e == rows[n].envelope
<1>1. n # 0 /\ Acceptable(e) /\ \E f \in Finals(e) : answer.result = Advice(e, n, f)
  BY DEF ResultsAt, Hold
<1>2. answer.result.row = n /\ answer.result.confidence \in Finals(e)
      /\ answer.result.action = ActionFor(e.direction)
  BY <1>1 DEF Advice
<1>3. Len(rows) \in Nat
  BY DEF BridgeInv, RowsSound
<1> QED BY <1>1, <1>2, <1>3

(***************************************************************************)
(* With limits like the defaults no advice leaves the bridge below its     *)
(* threshold or above the confidence of its signal, and none that the gate *)
(* turned away for anything but its age or a missing direction.            *)
(***************************************************************************)
THEOREM AdviceKeepsPolicy ==
  ASSUME PolicyAssumption PROVE Spec => []AdviceWithinPolicy
<1>1. BridgeInv => AdviceWithinPolicy
  <2> SUFFICES ASSUME BridgeInv, answer # NoAnswer, answer.result.action # "hold"
               PROVE  LET row == rows[answer.result.row] IN
                      /\ Threshold <= answer.result.confidence
                      /\ answer.result.confidence <= row.envelope.confidence
                      /\ row.gate \in Approving \cup
                           {"not_asked", "stale_signal", "entry_no_direction"}
                      /\ row.gate = "entry_no_direction" => answer.result.action = "flat"
    BY DEF AdviceWithinPolicy
  <2> DEFINE row == rows[answer.result.row]
             e   == row.envelope
  <2>1. row \in Rows /\ GatedRow(row)
    BY AdviceHasRow DEF BridgeInv, RowsSound
  <2>2. e \in Envelope
    BY <2>1, SourcesAssumption, LegacyEnvelopes DEF Rows, Written
  <2>3. Acceptable(e) /\ answer.result.confidence \in Finals(e)
        /\ answer.result.action = ActionFor(e.direction)
    BY AdviceHasRow
  <2> HIDE DEF row
  <2>4. Threshold <= answer.result.confidence /\ answer.result.confidence <= e.confidence
    BY <2>2, <2>3, FinalsBetween
  <2>5. /\ row.gate \in Approving \cup {"not_asked", "stale_signal", "entry_no_direction"}
        /\ row.gate = "entry_no_direction" => e.direction = "neutral"
    BY <2>1, <2>2, <2>3, GateAgrees DEF GatedRow
  <2>6. e.direction = "neutral" => answer.result.action = "flat"
    BY <2>3 DEF ActionFor
  <2> QED BY <2>4, <2>5, <2>6 DEF row
<1> QED BY <1>1, InitBridgeInv, StepBridgeInv, PTL DEF Spec

-----------------------------------------------------------------------------
\* The last query lies no later than the last call that counted, and one that
\* succeeded is what the cache holds.
SpacedInv ==
  \/ looked = NotLooked
  \/ /\ looked.at \in Nat /\ last \in Nat
     /\ looked.at <= boot + last /\ boot + last <= now
     /\ looked.ok => cache # NoEntry /\ cache.time \in Nat
                      /\ boot + cache.time = looked.at

LEMMA StepSpacedInv == BridgeInv /\ SpacedInv /\ [Next]_vars => SpacedInv'
<1> SUFFICES ASSUME BridgeInv, SpacedInv, [Next]_vars PROVE SpacedInv'
  OBVIOUS
<1>1. now \in Nat /\ boot \in Nat /\ boot <= now /\ last \in Int
  BY DEF BridgeInv, Clocks
<1>2. CASE SourcesNext /\ UNCHANGED <<memory, file, answer>>
  BY <1>2, SourcesGrow DEF SpacedInv, memory
<1>3. CASE Refuse \/ UNCHANGED vars
  BY <1>3 DEF Refuse, SpacedInv, vars, memory
<1>4. CASE ServeCached
  <2>1. UNCHANGED <<now, boot, cache, looked>> /\ last' \in {last, Mono}
    BY <1>4 DEF ServeCached
  <2>2. Mono \in Nat /\ boot + Mono = now
    BY <1>1 DEF Mono
  <2>3. CASE looked = NotLooked
    BY <2>1, <2>3 DEF SpacedInv
  <2>4. CASE looked # NotLooked
    <3>1. /\ looked.at \in Nat /\ last \in Nat
          /\ looked.at <= boot + last /\ boot + last <= now
          /\ looked.ok => cache # NoEntry /\ cache.time \in Nat
                           /\ boot + cache.time = looked.at
      BY <2>4 DEF SpacedInv
    <3>2. last' \in Nat /\ looked.at <= boot + last' /\ boot + last' <= now
      <4>1. CASE last' = last
        BY <2>1, <3>1, <4>1
      <4>2. CASE last' = Mono
        <5>1. boot' = boot /\ now' = now
          BY <2>1
        <5>2. looked.at <= boot + Mono
          BY <1>1, <2>2, <3>1
        <5> QED BY <1>1, <2>2, <4>2, <5>1, <5>2
      <4> QED BY <2>1, <4>1, <4>2
    <3> QED BY <2>1, <3>1, <3>2 DEF SpacedInv
  <2> QED BY <2>3, <2>4
<1>5. CASE LookUpFails
  <2>1. UNCHANGED <<now, boot>> /\ last' = Mono /\ looked' = [at |-> now, ok |-> FALSE]
    BY <1>5 DEF LookUpFails
  <2> QED BY <1>1, <2>1 DEF SpacedInv, Mono
<1>6. CASE LookUp
  <2>1. /\ UNCHANGED <<now, boot>> /\ last' = Mono /\ looked' = [at |-> now, ok |-> TRUE]
        /\ cache'.time = Mono
    BY <1>6 DEF LookUp
  <2>2. Mono \in Nat /\ boot + Mono = now
    BY <1>1 DEF Mono
  <2>3. cache' # NoEntry
    <3>1. NoEntry.time = -1
      BY DEF NoEntry
    <3> QED BY <2>1, <2>2, <3>1
  <2>4. looked'.at = now
    BY <2>1
  <2>5. now' \in Nat /\ boot' + last' = now' /\ looked'.at = now' /\ last' \in Nat
        /\ boot' + cache'.time = looked'.at /\ cache'.time \in Nat
    BY <1>1, <2>1, <2>2, <2>4
  <2> QED BY <2>3, <2>5 DEF SpacedInv
<1>7. CASE RestartBridge \/ Reboot
  BY <1>7 DEF RestartBridge, Reboot, Construct, SpacedInv
<1>8. CASE Tick
  BY <1>1, <1>8 DEF Tick, SpacedInv, memory
<1> QED BY <1>2, <1>3, <1>4, <1>5, <1>6, <1>7, <1>8 DEF Next, Ask

(***************************************************************************)
(* One process leaves MinInterval between two queries of the registry, and *)
(* CacheTtl after one that succeeded, whatever happens in between.         *)
(***************************************************************************)
THEOREM LookupsStaySpaced == Spec => LookupsAreSpaced
<1>1. Init => SpacedInv
  BY DEF Init, SpacedInv
<1>2. BridgeInv /\ SpacedInv /\ [Next]_vars =>
        [looked' # looked /\ looked # NotLooked /\ looked' # NotLooked
         => /\ looked'.at - looked.at >= MinInterval
            /\ looked.ok => looked'.at - looked.at >= CacheTtl]_vars
  <2> SUFFICES ASSUME BridgeInv, SpacedInv, Next,
                      looked' # looked, looked # NotLooked, looked' # NotLooked
               PROVE  /\ looked'.at - looked.at >= MinInterval
                      /\ looked.ok => looked'.at - looked.at >= CacheTtl
    OBVIOUS
  <2>1. LookUpFails \/ LookUp
    BY DEF Next, Ask, memory, Refuse, ServeCached, RestartBridge, Reboot, Construct, Tick
  <2>2. looked'.at = now /\ ~Recent /\ ~Live
    BY <2>1 DEF LookUpFails, LookUp
  <2>3. now \in Nat /\ boot \in Nat /\ MinInterval \in Nat /\ CacheTtl \in Nat
    BY BridgeAssumption DEF BridgeInv, Clocks
  <2>4. looked.at \in Nat /\ last \in Nat /\ looked.at <= boot + last
    BY DEF SpacedInv
  <2>5. (now - boot) - last >= MinInterval
    BY <2>2, <2>3, <2>4 DEF Recent, Mono
  <2>6. looked.ok => cache.time \in Nat /\ boot + cache.time = looked.at
                     /\ (now - boot) - cache.time >= CacheTtl
    BY <2>2, <2>3 DEF SpacedInv, Live, Mono
  <2> QED BY <2>2, <2>3, <2>4, <2>5, <2>6
<1> QED
  BY <1>1, <1>2, InitBridgeInv, StepBridgeInv, StepSpacedInv, PTL
     DEF Spec, LookupsAreSpaced

-----------------------------------------------------------------------------
\* Among natural numbers there is a least one, hence induction.
LEMMA LeastNatural ==
  ASSUME NEW T, T \subseteq Nat, T # {}
  PROVE  \E n \in T : \A m \in T : ~(m < n)
<1>1. \E n \in T : \A m \in T : ~(<<m, n>> \in OpToRel(<, Nat))
  BY WFMin, NatLessThanWellFounded
<1> QED BY <1>1 DEF OpToRel

LEMMA Induction ==
  ASSUME NEW S, 0 \in S, \A n \in Nat : n \in S => n + 1 \in S
  PROVE  Nat \subseteq S
<1> SUFFICES ASSUME Nat \ S # {} PROVE FALSE
  OBVIOUS
<1>1. PICK n \in Nat \ S : \A m \in Nat \ S : ~(m < n)
  BY LeastNatural
<1>2. n # 0 /\ n - 1 \in Nat /\ n - 1 < n /\ (n - 1) + 1 = n
  BY <1>1
<1>3. n - 1 \in S
  BY <1>1, <1>2
<1> QED BY <1>1, <1>2, <1>3

-----------------------------------------------------------------------------
\* The filter of the limiter.

\* The entries later than a time, and how a list of them is made step by step.
Above(s, v) == {i \in 1..Len(s) : s[i] > v}

Sifts(f, s, cutoff, n) ==
  f = [i \in 0..n |-> IF i = 0 THEN <<>>
                      ELSE IF s[i] > cutoff THEN Append(f[i - 1], s[i])
                      ELSE f[i - 1]]

LEMMA SomethingSifts ==
  ASSUME NEW s, NEW cutoff
  PROVE  \A n \in Nat : \E f : Sifts(f, s, cutoff, n)
<1> DEFINE Done == {n \in Nat : \E f : Sifts(f, s, cutoff, n)}
<1>1. 0 \in Done
  <2>1. Sifts([i \in 0..0 |-> <<>>], s, cutoff, 0)
    BY DEF Sifts
  <2> QED BY <2>1
<1>2. ASSUME NEW n \in Nat, n \in Done PROVE n + 1 \in Done
  <2> PICK f : Sifts(f, s, cutoff, n)
    BY <1>2
  <2> DEFINE extended == IF s[n + 1] > cutoff THEN Append(f[n], s[n + 1]) ELSE f[n]
             g == [i \in 0..(n + 1) |-> IF i = n + 1 THEN extended ELSE f[i]]
  <2>1. \A i \in 0..n : f[i] = IF i = 0 THEN <<>>
                                ELSE IF s[i] > cutoff THEN Append(f[i - 1], s[i])
                                ELSE f[i - 1]
    BY DEF Sifts
  <2>2. \A i \in 0..(n + 1) : /\ i # n + 1 => i \in 0..n
                              /\ i # 0 => i - 1 \in 0..(n + 1) /\ i - 1 # n + 1
    OBVIOUS
  <2>3. \A i \in 0..(n + 1) : g[i] = IF i = 0 THEN <<>>
                                      ELSE IF s[i] > cutoff THEN Append(g[i - 1], s[i])
                                      ELSE g[i - 1]
    <3> TAKE i \in 0..(n + 1)
    <3>1. CASE i = n + 1
      <4>1. g[i] = extended /\ i - 1 = n /\ g[n] = f[n] /\ i # 0
        BY <3>1, <2>2
      <4> HIDE DEF g
      <4> QED BY <3>1, <4>1
    <3>2. CASE i # n + 1
      <4>1. g[i] = f[i] /\ i \in 0..n /\ (i # 0 => g[i - 1] = f[i - 1])
        BY <3>2, <2>2
      <4> HIDE DEF g
      <4> QED BY <2>1, <4>1
    <3> QED BY <3>1, <3>2
  <2>4. Sifts(g, s, cutoff, n + 1)
    <3>1. g = [i \in 0..(n + 1) |-> g[i]]
      OBVIOUS
    <3> HIDE DEF g
    <3> QED BY <2>3, <3>1 DEF Sifts
  <2> QED BY <2>4
<1>3. Nat \subseteq Done
  <2> HIDE DEF Done
  <2> QED BY <1>1, <1>2, Induction
<1> QED BY <1>3

LEMMA LaterSifts ==
  ASSUME NEW s, NEW cutoff, Len(s) \in Nat
  PROVE  \E f : Sifts(f, s, cutoff, Len(s)) /\ Later(s, cutoff) = f[Len(s)]
<1> DEFINE f == CHOOSE f : Sifts(f, s, cutoff, Len(s))
<1>1. Sifts(f, s, cutoff, Len(s))
  BY SomethingSifts
<1>2. Later(s, cutoff) = f[Len(s)]
  BY DEF Later, Sifts
<1> HIDE DEF f
<1> QED BY <1>1, <1>2

LEMMA AboveIsFinite ==
  ASSUME NEW s \in Seq(Int), NEW v \in Int
  PROVE  /\ IsFiniteSet(Above(s, v)) /\ Cardinality(Above(s, v)) \in Nat
         /\ Cardinality(Above(s, v)) <= Len(s)
<1>1. Len(s) \in Nat /\ Above(s, v) \subseteq 1..Len(s)
  BY DEF Above
<1>2. IsFiniteSet(1..Len(s)) /\ Cardinality(1..Len(s)) = Len(s)
  <2>1. /\ IsFiniteSet(1..Len(s))
        /\ Cardinality(1..Len(s)) = IF 1 > Len(s) THEN 0 ELSE Len(s) - 1 + 1
    <3> DEFINE m == Len(s)
    <3>1. 1 \in Int /\ m \in Int
      BY <1>1
    <3> HIDE DEF m
    <3>2. IsFiniteSet(1..m) /\ Cardinality(1..m) = IF 1 > m THEN 0 ELSE m - 1 + 1
      BY <3>1, FS_Interval
    <3> QED BY <3>2 DEF m
  <2> QED BY <1>1, <2>1
<1> QED BY <1>1, <1>2, FS_Subset, FS_CardinalityType

LEMMA AboveOfAppend ==
  ASSUME NEW s \in Seq(Int), NEW x \in Int, NEW v \in Int
  PROVE  Cardinality(Above(Append(s, x), v)) = Cardinality(Above(s, v)) + (IF x > v THEN 1 ELSE 0)
<1>1. /\ Len(s) \in Nat /\ Len(Append(s, x)) = Len(s) + 1 /\ Append(s, x)[Len(s) + 1] = x
      /\ \A i \in 1..Len(s) : Append(s, x)[i] = s[i]
  OBVIOUS
<1>2. \A i \in 1..(Len(s) + 1) : i \in 1..Len(s) \/ i = Len(s) + 1
  BY <1>1
<1>3. 1..Len(s) \subseteq 1..(Len(s) + 1) /\ Len(s) + 1 \in 1..(Len(s) + 1) /\ Len(s) + 1 \notin 1..Len(s)
  BY <1>1
<1>4. Above(Append(s, x), v) = Above(s, v) \cup (IF x > v THEN {Len(s) + 1} ELSE {})
  BY <1>1, <1>2, <1>3 DEF Above
<1>5. Len(s) + 1 \notin Above(s, v)
  BY <1>3 DEF Above
<1>6. CASE x > v
  <2>1. Above(Append(s, x), v) = Above(s, v) \cup {Len(s) + 1}
    BY <1>4, <1>6
  <2> QED BY <1>5, <1>6, <2>1, AboveIsFinite, FS_AddElement
<1>7. CASE ~(x > v)
  BY <1>4, <1>7, AboveIsFinite
<1> QED BY <1>6, <1>7

\* It keeps what is later than the cutoff, and nothing else.
LEMMA LaterKeepsLater ==
  ASSUME NEW S \in SUBSET Int, NEW s \in Seq(S), NEW cutoff \in Int
  PROVE  /\ Later(s, cutoff) \in Seq(S) /\ Len(Later(s, cutoff)) <= Len(s)
         /\ \A v \in Int : v >= cutoff =>
              Cardinality(Above(Later(s, cutoff), v)) = Cardinality(Above(s, v))
<1> PICK f : Sifts(f, s, cutoff, Len(s)) /\ Later(s, cutoff) = f[Len(s)]
  BY LaterSifts
<1> DEFINE Upto(n) == {i \in 1..n : s[i] > cutoff}
           Prefix(n) == [i \in 1..n |-> s[i]]
           Right(n) == /\ f[n] \in Seq(S) /\ Len(f[n]) <= n
                       /\ \A v \in Int : v >= cutoff =>
                            Cardinality(Above(f[n], v)) = Cardinality(Above(Prefix(n), v))
           Done == {n \in Nat : n <= Len(s) => Right(n)}
<1>1. \A i \in 0..Len(s) : f[i] = IF i = 0 THEN <<>>
                                  ELSE IF s[i] > cutoff THEN Append(f[i - 1], s[i])
                                  ELSE f[i - 1]
  BY DEF Sifts
<1>2. \A n \in Nat : n <= Len(s) => Prefix(n) \in Seq(S) /\ Len(Prefix(n)) = n
  OBVIOUS
<1>7. S \subseteq Int /\ \A q \in Seq(S) : q \in Seq(Int)
  <2>1. S \subseteq Int
    OBVIOUS
  <2> QED BY <2>1, SeqMonotonic
<1>3. 0 \in Done
  <2>1. f[0] = <<>> /\ Prefix(0) = <<>>
    BY <1>1
  <2>2. <<>> \in Seq(S) /\ Len(<<>>) = 0
    OBVIOUS
  <2> HIDE DEF Prefix
  <2>3. Right(0)
    BY <2>1, <2>2
  <2> QED BY <2>3
<1>4. ASSUME NEW n \in Nat, n \in Done PROVE n + 1 \in Done
  <2> SUFFICES ASSUME n + 1 <= Len(s) PROVE Right(n + 1)
    OBVIOUS
  <2> DEFINE x == s[n + 1]
  <2>1. Right(n) /\ x \in S
    BY <1>4
  <2>2. f[n + 1] = IF x > cutoff THEN Append(f[n], x) ELSE f[n]
    BY <1>1
  <2>3. Prefix(n + 1) = Append(Prefix(n), x)
    OBVIOUS
  <2>4. Prefix(n) \in Seq(S) /\ Prefix(n) \in Seq(Int)
    <3>1. n <= Len(s) /\ Prefix(n) \in Seq(S)
      BY <1>2
    <3> HIDE DEF Prefix
    <3> QED BY <3>1, <1>7
  <2> HIDE DEF Prefix, x
  <2>5. f[n + 1] \in Seq(S) /\ Len(f[n + 1]) <= n + 1
    BY <2>1, <2>2
  <2>6. ASSUME NEW v \in Int, v >= cutoff
        PROVE  Cardinality(Above(f[n + 1], v)) = Cardinality(Above(Prefix(n + 1), v))
    <3>1. Cardinality(Above(f[n], v)) = Cardinality(Above(Prefix(n), v))
      BY <2>1, <2>6
    <3>2. x \in Int /\ f[n] \in Seq(Int)
      <4>1. x \in S /\ f[n] \in Seq(S)
        BY <2>1
      <4> QED BY <4>1, <1>7
    <3>3. Cardinality(Above(Prefix(n + 1), v))
            = Cardinality(Above(Prefix(n), v)) + (IF x > v THEN 1 ELSE 0)
      <4> HIDE DEF Right
      <4> DEFINE p == Prefix(n)
      <4>1. p \in Seq(Int) /\ Prefix(n + 1) = Append(p, x)
        BY <2>3, <2>4
      <4> HIDE DEF p
      <4>2. Cardinality(Above(Append(p, x), v))
              = Cardinality(Above(p, v)) + (IF x > v THEN 1 ELSE 0)
        BY <2>6, <3>2, <4>1, AboveOfAppend
      <4> QED BY <4>1, <4>2 DEF p
    <3>4. CASE x > cutoff
      BY <2>2, <3>1, <3>2, <3>3, <3>4, AboveOfAppend
    <3>5. CASE ~(x > cutoff)
      <4>1. ~(x > v)
        BY <2>6, <3>2, <3>5
      <4>2. Cardinality(Above(Prefix(n), v)) \in Nat
        BY <2>4, AboveIsFinite
      <4> QED BY <2>2, <3>1, <3>3, <3>5, <4>1, <4>2
    <3> QED BY <3>4, <3>5
  <2> QED BY <2>5, <2>6
<1>5. Nat \subseteq Done
  <2> HIDE DEF Done
  <2> QED BY <1>3, <1>4, Induction
<1>6. Right(Len(s)) /\ Prefix(Len(s)) = s
  <2>1. Len(s) \in Done
    BY <1>5
  <2> QED BY <2>1
<1> QED BY <1>6

-----------------------------------------------------------------------------
\* Requests that passed lately are in the list of the limiter still.
Remembered ==
  \A c \in Callers : \A u \in Int :
    u >= now - RateWindow =>
      Cardinality(Above(taken[c], u)) <= Cardinality(Above(passed[c], u - boot))

LimiterTypes ==
  /\ passed \in [Callers -> Seq(Int)] /\ taken \in [Callers -> Seq(Int)]
  /\ \A c \in Callers : \A i \in 1..Len(taken[c]) : taken[c][i] <= now

LimiterInv == LimiterTypes /\ Remembered /\ IngestBounded

\* What the window that a request opens holds, when a request passes now.
LEMMA AllowedInv ==
  ASSUME Clocks, LimiterInv, NEW c \in Callers, Allow(c), UNCHANGED <<now, boot>>
  PROVE  LimiterInv'
<1> DEFINE counted == Later(passed[c], Cutoff)
<1>1. now \in Int /\ boot \in Int /\ RateWindow \in Nat /\ RateWindow > 0 /\ MaxPerWindow \in Nat
  BY SourcesAssumption DEF Clocks
<1>2. Mono \in Int /\ Cutoff \in Int /\ Mono = now - boot /\ Cutoff = Mono - RateWindow
  BY <1>1 DEF Mono, Cutoff
<1>3. passed[c] \in Seq(Int) /\ taken[c] \in Seq(Int)
  BY DEF LimiterInv, LimiterTypes
<1>4. /\ counted \in Seq(Int)
      /\ \A v \in Int : v >= Cutoff =>
           Cardinality(Above(counted, v)) = Cardinality(Above(passed[c], v))
  <2>1. Int \in SUBSET Int
    OBVIOUS
  <2> QED BY <1>2, <1>3, <2>1, LaterKeepsLater
<1>5. /\ Len(counted) < MaxPerWindow
      /\ passed' = [passed EXCEPT ![c] = Append(counted, Mono)]
      /\ taken' = [taken EXCEPT ![c] = Append(taken[c], now)]
  BY DEF Allow
<1> HIDE DEF counted
<1> DEFINE p == Append(counted, Mono)
           t == Append(taken[c], now)
<1>6. /\ p \in Seq(Int) /\ t \in Seq(Int) /\ Len(p) = Len(counted) + 1
      /\ Len(taken[c]) \in Nat /\ Len(t) = Len(taken[c]) + 1 /\ t[Len(taken[c]) + 1] = now
      /\ \A i \in 1..Len(taken[c]) : t[i] = taken[c][i]
  BY <1>1, <1>2, <1>3, <1>4
<1>7. /\ passed'[c] = p /\ taken'[c] = t
      /\ \A d \in Callers : d # c => passed'[d] = passed[d] /\ taken'[d] = taken[d]
      /\ passed' \in [Callers -> Seq(Int)] /\ taken' \in [Callers -> Seq(Int)]
  BY <1>5, <1>6 DEF LimiterInv, LimiterTypes
<1>8. \A i \in 1..Len(t) : t[i] <= now /\ t[i] \in Int
  <2>1. \A i \in 1..Len(t) : i \in 1..Len(taken[c]) \/ i = Len(taken[c]) + 1
    BY <1>6
  <2>2. \A i \in 1..Len(taken[c]) : taken[c][i] <= now /\ taken[c][i] \in Int
    BY <1>3 DEF LimiterInv, LimiterTypes
  <2> QED BY <1>1, <1>6, <2>1, <2>2
<1>9. LimiterTypes'
  <2> SUFFICES ASSUME NEW d \in Callers, NEW i \in 1..Len(taken'[d])
               PROVE  taken'[d][i] <= now
    BY <1>7 DEF LimiterTypes
  <2>1. CASE d = c
    BY <1>7, <1>8, <2>1
  <2>2. CASE d # c
    BY <1>7, <2>2 DEF LimiterInv, LimiterTypes
  <2> QED BY <2>1, <2>2
<1> HIDE DEF p, t
<1>10. ASSUME NEW u \in Int, u >= now - RateWindow
       PROVE  Cardinality(Above(t, u)) <= Cardinality(Above(p, u - boot))
  <2>1. u - boot \in Int /\ u - boot >= Cutoff /\ (Mono > u - boot <=> now > u)
    BY <1>1, <1>2, <1>10
  <2>2. Cardinality(Above(taken[c], u)) <= Cardinality(Above(passed[c], u - boot))
    BY <1>10 DEF LimiterInv, Remembered
  <2>3. Cardinality(Above(counted, u - boot)) = Cardinality(Above(passed[c], u - boot))
    BY <1>4, <2>1
  <2>4. Cardinality(Above(t, u)) = Cardinality(Above(taken[c], u)) + (IF now > u THEN 1 ELSE 0)
    BY <1>1, <1>3, <1>10, AboveOfAppend DEF t
  <2>5. Cardinality(Above(p, u - boot))
          = Cardinality(Above(counted, u - boot)) + (IF Mono > u - boot THEN 1 ELSE 0)
    BY <1>2, <1>4, <2>1, AboveOfAppend DEF p
  <2>6. Cardinality(Above(taken[c], u)) \in Nat /\ Cardinality(Above(counted, u - boot)) \in Nat
    BY <1>3, <1>4, <1>10, <2>1, AboveIsFinite
  <2> QED BY <2>1, <2>2, <2>3, <2>4, <2>5, <2>6
<1>11. Remembered'
  <2> SUFFICES ASSUME NEW d \in Callers, NEW u \in Int, u >= now - RateWindow
               PROVE  Cardinality(Above(taken'[d], u)) <= Cardinality(Above(passed'[d], u - boot))
    BY DEF Remembered, Above
  <2>1. CASE d = c
    BY <1>7, <1>10, <2>1
  <2>2. CASE d # c
    BY <1>7, <2>2 DEF LimiterInv, Remembered
  <2> QED BY <2>1, <2>2
<1> DEFINE Within(s, i) == {j \in DOMAIN s : s[i] <= s[j] /\ s[j] < s[i] + RateWindow}
<1>12. ASSUME NEW i \in DOMAIN t PROVE Cardinality(Within(t, i)) <= MaxPerWindow
  <2>1. DOMAIN t = 1..Len(t) /\ DOMAIN taken[c] = 1..Len(taken[c])
    BY <1>3, <1>6
  <2>2. t[i] <= now /\ t[i] \in Int
    BY <1>8, <2>1
  <2>3. CASE t[i] + RateWindow <= now
    <3>1. i \in DOMAIN taken[c]
      BY <1>1, <1>6, <2>1, <2>2, <2>3
    <3>2. Within(t, i) = Within(taken[c], i)
      <4>1. Len(taken[c]) + 1 \notin Within(t, i)
        BY <1>1, <1>6, <2>2, <2>3
      <4>2. \A j \in DOMAIN t : j \in DOMAIN taken[c] \/ j = Len(taken[c]) + 1
        BY <1>6, <2>1
      <4>3. DOMAIN taken[c] \subseteq DOMAIN t
        BY <1>6, <2>1
      <4>4. \A j \in DOMAIN taken[c] : t[j] = taken[c][j]
        BY <1>6, <2>1
      <4> QED BY <3>1, <4>1, <4>2, <4>3, <4>4
    <3> QED BY <3>1, <3>2 DEF LimiterInv, IngestBounded
  <2>4. CASE ~(t[i] + RateWindow <= now)
    <3> DEFINE u == t[i] - 1
    <3>1. u \in Int /\ u >= now - RateWindow /\ u - boot \in Int
      BY <1>1, <2>2, <2>4
    <3>2. Within(t, i) \subseteq Above(t, u)
      <4>1. \A j \in DOMAIN t : t[i] <= t[j] => t[j] > u
        BY <1>8, <2>1, <2>2
      <4> QED BY <2>1, <4>1 DEF Above
    <3> HIDE DEF u, Within
    <3>3. IsFiniteSet(Above(t, u)) /\ Cardinality(Above(t, u)) \in Nat
      BY <1>6, <3>1, AboveIsFinite
    <3>4. Cardinality(Within(t, i)) <= Cardinality(Above(t, u))
          /\ Cardinality(Within(t, i)) \in Nat
      BY <3>2, <3>3, FS_Subset, FS_CardinalityType
    <3>5. Cardinality(Above(t, u)) <= Cardinality(Above(p, u - boot))
      BY <1>10, <3>1
    <3>6. /\ Cardinality(Above(p, u - boot)) <= Len(p)
          /\ Cardinality(Above(p, u - boot)) \in Nat
      BY <1>6, <3>1, AboveIsFinite
    <3>7. Len(p) <= MaxPerWindow /\ Len(p) \in Nat
      BY <1>1, <1>4, <1>5, <1>6
    <3> QED BY <1>1, <3>3, <3>4, <3>5, <3>6, <3>7
  <2> QED BY <2>3, <2>4
<1>13. IngestBounded'
  <2> SUFFICES ASSUME NEW d \in Callers, NEW i \in DOMAIN taken'[d]
               PROVE  Cardinality(Within(taken'[d], i)) <= MaxPerWindow
    BY DEF IngestBounded
  <2>1. CASE d = c
    <3> HIDE DEF Within
    <3> QED BY <1>7, <1>12, <2>1
  <2>2. CASE d # c
    BY <1>7, <2>2 DEF LimiterInv, IngestBounded
  <2> QED BY <2>1, <2>2
<1> QED BY <1>9, <1>11, <1>13 DEF LimiterInv

\* A request that is refused leaves the list without its old entries.
LEMMA RefusedInv ==
  ASSUME Clocks, LimiterInv, NEW c \in Callers, RefuseRequest(c)
  PROVE  LimiterInv'
<1> DEFINE counted == Later(passed[c], Cutoff)
<1>1. now \in Int /\ boot \in Int /\ RateWindow \in Nat /\ Cutoff \in Int
      /\ Cutoff = (now - boot) - RateWindow
  BY SourcesAssumption DEF Clocks, Cutoff, Mono
<1>2. /\ counted \in Seq(Int)
      /\ \A v \in Int : v >= Cutoff =>
           Cardinality(Above(counted, v)) = Cardinality(Above(passed[c], v))
  <2>1. Int \in SUBSET Int /\ passed[c] \in Seq(Int)
    BY DEF LimiterInv, LimiterTypes
  <2> QED BY <1>1, <2>1, LaterKeepsLater
<1>3. passed' = [passed EXCEPT ![c] = counted] /\ UNCHANGED <<now, boot, taken>>
  BY DEF RefuseRequest
<1> HIDE DEF counted
<1>4. LimiterTypes'
  BY <1>2, <1>3 DEF LimiterInv, LimiterTypes
<1>5. Remembered'
  <2> SUFFICES ASSUME NEW d \in Callers, NEW u \in Int, u >= now - RateWindow
               PROVE  Cardinality(Above(taken[d], u)) <= Cardinality(Above(passed'[d], u - boot))
    BY <1>3 DEF Remembered, Above
  <2>1. Cardinality(Above(taken[d], u)) <= Cardinality(Above(passed[d], u - boot))
    BY DEF LimiterInv, Remembered
  <2>2. u - boot \in Int /\ u - boot >= Cutoff
    BY <1>1
  <2>3. passed'[d] = IF d = c THEN counted ELSE passed[d]
    BY <1>3 DEF LimiterInv, LimiterTypes
  <2> QED BY <1>2, <2>1, <2>2, <2>3
<1>6. IngestBounded'
  BY <1>3 DEF LimiterInv, IngestBounded
<1> QED BY <1>4, <1>5, <1>6 DEF LimiterInv

\* An empty list is right at the start of a process.
LEMMA EmptyInv ==
  ASSUME now \in Int, boot \in Int, passed = [c \in Callers |-> <<>>],
         taken = [c \in Callers |-> <<>>]
  PROVE  LimiterInv
<1>1. <<>> \in Seq(Int) /\ Len(<<>>) = 0 /\ DOMAIN <<>> = {}
  OBVIOUS
<1>2. LimiterTypes
  BY <1>1 DEF LimiterTypes
<1>3. Remembered
  <2>1. ASSUME NEW c \in Callers, NEW u \in Int
        PROVE  Cardinality(Above(taken[c], u)) <= Cardinality(Above(passed[c], u - boot))
    <3>1. Above(taken[c], u) = {} /\ Above(passed[c], u - boot) = {}
      BY <1>1 DEF Above
    <3>2. Cardinality(Above(taken[c], u)) = 0 /\ Cardinality(Above(passed[c], u - boot)) = 0
      BY ONLY <3>1, FS_EmptySet, Zenon
    <3> QED BY <3>2
  <2> QED BY <2>1 DEF Remembered
<1>4. IngestBounded
  BY <1>1 DEF IngestBounded
<1> QED BY <1>2, <1>3, <1>4 DEF LimiterInv

LEMMA StepLimiterInv == Clocks /\ Clocks' /\ LimiterInv /\ [Next]_vars => LimiterInv'
<1> SUFFICES ASSUME Clocks, Clocks', LimiterInv, [Next]_vars PROVE LimiterInv'
  OBVIOUS
<1>1. CASE UNCHANGED <<now, boot, passed, taken>>
  <2>1. LimiterTypes'
    BY <1>1 DEF LimiterInv, LimiterTypes
  <2>2. Remembered'
    BY <1>1 DEF LimiterInv, Remembered, Above
  <2>3. IngestBounded'
    BY <1>1 DEF LimiterInv, IngestBounded
  <2> QED BY <2>1, <2>2, <2>3 DEF LimiterInv
<1>2. ASSUME NEW c \in Callers, Ingest(c) \/ IngestFails(c) PROVE LimiterInv'
  BY <1>2, AllowedInv DEF Ingest, IngestFails
<1>3. ASSUME NEW c \in Callers, RefuseRequest(c) PROVE LimiterInv'
  BY <1>3, RefusedInv
<1>4. CASE LegacyAppend \/ WarnOfFeed \/ EngineAppend
  BY <1>1, <1>4 DEF LegacyAppend, WarnOfFeed, EngineAppend
<1>5. CASE RestartEngine \/ Reboot
  <2>1. /\ now' \in Int /\ boot' \in Int
        /\ passed' = [c \in Callers |-> <<>>] /\ taken' = [c \in Callers |-> <<>>]
    BY <1>5 DEF RestartEngine, Reboot, ForgetRequests, Clocks
  <2>2. <<>> \in Seq(Int) /\ Len(<<>>) = 0 /\ DOMAIN <<>> = {}
    OBVIOUS
  <2>3. LimiterTypes'
    BY <2>1, <2>2 DEF LimiterTypes
  <2>4. Remembered'
    <3> SUFFICES ASSUME NEW c \in Callers, NEW u \in Int
                 PROVE  Cardinality(Above(taken'[c], u)) <= Cardinality(Above(passed'[c], u - boot'))
      BY DEF Remembered, Above
    <3>1. Above(taken'[c], u) = {} /\ Above(passed'[c], u - boot') = {}
      BY <2>1, <2>2 DEF Above
    <3>2. Cardinality(Above(taken'[c], u)) = 0 /\ Cardinality(Above(passed'[c], u - boot')) = 0
      BY ONLY <3>1, FS_EmptySet, Zenon
    <3> QED BY <3>2
  <2>5. IngestBounded'
    BY <2>1, <2>2 DEF IngestBounded
  <2> QED BY <2>3, <2>4, <2>5 DEF LimiterInv
<1>6. CASE Tick
  <2>1. now' = now + 1 /\ UNCHANGED <<boot, passed, taken>>
    BY <1>6 DEF Tick, sources
  <2>2. now \in Nat /\ RateWindow \in Nat
    BY SourcesAssumption DEF Clocks
  <2>3. LimiterTypes'
    BY <2>1, <2>2 DEF LimiterInv, LimiterTypes
  <2>4. Remembered'
    <3> SUFFICES ASSUME NEW c \in Callers, NEW u \in Int, u >= now' - RateWindow
                 PROVE  Cardinality(Above(taken[c], u)) <= Cardinality(Above(passed[c], u - boot))
      BY <2>1 DEF Remembered, Above
    <3>1. u >= now - RateWindow
      BY <2>1, <2>2
    <3> QED BY <3>1 DEF LimiterInv, Remembered
  <2>5. IngestBounded'
    BY <2>1 DEF LimiterInv, IngestBounded
  <2> QED BY <2>3, <2>4, <2>5 DEF LimiterInv
<1>7. CASE Ask \/ RestartBridge \/ UNCHANGED vars
  BY <1>1, <1>7 DEF Ask, Refuse, ServeCached, LookUpFails, LookUp, RestartBridge, vars, sources
<1> QED BY <1>2, <1>3, <1>4, <1>5, <1>6, <1>7 DEF Next, SourcesNext

(***************************************************************************)
(* However requests, ticks and restarts interleave: no stretch of time as  *)
(* long as the window sees a caller past the limiter more often than it    *)
(* allows, within one process (_PerSourceRateLimiter.allow).               *)
(***************************************************************************)
THEOREM IngestStaysBounded == Spec => []IngestBounded
<1>1. Init => LimiterInv
  BY EmptyInv DEF Init, SourcesInit
<1>2. BridgeInv => Clocks
  BY DEF BridgeInv
<1>3. LimiterInv => IngestBounded
  BY DEF LimiterInv
<1> QED
  BY <1>1, <1>2, <1>3, InitBridgeInv, StepBridgeInv, StepLimiterInv, PTL DEF Spec

-----------------------------------------------------------------------------
\* Types.

LimiterTyped ==
  /\ passed \in [Callers -> Seq(0..Mono)] /\ taken \in [Callers -> Seq(boot..now)]
  /\ \A c \in Callers : Len(passed[c]) <= MaxPerWindow

TypeInv == TypeOK /\ LimiterTyped

\* A list that was typed stays so when time goes on or one entry is added to a
\* part of it.
LEMMA AllowedTyped ==
  ASSUME BridgeInv, TypeInv, NEW c \in Callers, Allow(c), UNCHANGED <<now, boot>>
  PROVE  LimiterTyped'
<1> DEFINE counted == Later(passed[c], Cutoff)
<1>1. now \in Nat /\ boot \in Nat /\ boot <= now /\ RateWindow \in Nat /\ MaxPerWindow \in Nat
  BY SourcesAssumption DEF BridgeInv, Clocks
<1>2. Mono \in Nat /\ Cutoff \in Int /\ Mono' = Mono
  BY <1>1 DEF Mono, Cutoff
<1>3. passed[c] \in Seq(0..Mono) /\ taken[c] \in Seq(boot..now)
  BY DEF TypeInv, LimiterTyped
<1>4. counted \in Seq(0..Mono)
  <2> DEFINE S == 0..Mono
  <2>1. S \in SUBSET Int /\ passed[c] \in Seq(S)
    BY <1>2, <1>3
  <2> HIDE DEF S
  <2>2. counted \in Seq(S)
    BY <1>2, <2>1, LaterKeepsLater
  <2> QED BY <2>2 DEF S
<1>5. /\ Len(counted) < MaxPerWindow
      /\ passed' = [passed EXCEPT ![c] = Append(counted, Mono)]
      /\ taken' = [taken EXCEPT ![c] = Append(taken[c], now)]
  BY DEF Allow
<1> HIDE DEF counted
<1>6. Append(counted, Mono) \in Seq(0..Mono) /\ Len(Append(counted, Mono)) <= MaxPerWindow
      /\ Append(taken[c], now) \in Seq(boot..now)
  <2>1. Mono \in 0..Mono /\ now \in boot..now /\ Len(counted) \in Nat
    BY <1>1, <1>2, <1>4
  <2> QED BY <1>1, <1>3, <1>4, <1>5, <2>1
<1> QED BY <1>2, <1>5, <1>6 DEF TypeInv, LimiterTyped

LEMMA RefusedTyped ==
  ASSUME BridgeInv, TypeInv, NEW c \in Callers, RefuseRequest(c)
  PROVE  LimiterTyped'
<1> DEFINE counted == Later(passed[c], Cutoff)
<1>1. Mono \in Nat /\ Cutoff \in Int /\ MaxPerWindow \in Nat
  BY SourcesAssumption DEF BridgeInv, Clocks, Mono, Cutoff
<1>2. counted \in Seq(0..Mono) /\ Len(counted) <= MaxPerWindow
  <2> DEFINE S == 0..Mono
  <2>1. S \in SUBSET Int /\ passed[c] \in Seq(S) /\ Len(passed[c]) <= MaxPerWindow
        /\ Len(passed[c]) \in Nat
    BY <1>1 DEF TypeInv, LimiterTyped
  <2> HIDE DEF S
  <2>2. counted \in Seq(S) /\ Len(counted) <= Len(passed[c])
    BY <1>1, <2>1, LaterKeepsLater
  <2>3. Len(counted) \in Nat
    BY <2>2
  <2> QED BY <1>1, <2>1, <2>2, <2>3 DEF S
<1>3. passed' = [passed EXCEPT ![c] = counted] /\ UNCHANGED <<now, boot, taken>>
  BY DEF RefuseRequest
<1> HIDE DEF counted
<1> QED BY <1>2, <1>3 DEF TypeInv, LimiterTyped, Mono

LEMMA EmptyTyped ==
  ASSUME passed = [c \in Callers |-> <<>>], taken = [c \in Callers |-> <<>>]
  PROVE  LimiterTyped
BY SourcesAssumption DEF LimiterTyped

\* What limits and steps do to the lists of the limiter.
LEMMA StepLimiterTyped ==
  BridgeInv /\ BridgeInv' /\ TypeInv /\ [Next]_vars => LimiterTyped'
<1> SUFFICES ASSUME BridgeInv, BridgeInv', TypeInv, [Next]_vars PROVE LimiterTyped'
  OBVIOUS
<1>1. CASE UNCHANGED <<now, boot, passed, taken>>
  BY <1>1 DEF TypeInv, LimiterTyped, Mono
<1>2. ASSUME NEW c \in Callers, Ingest(c) \/ IngestFails(c) PROVE LimiterTyped'
  BY <1>2, AllowedTyped DEF Ingest, IngestFails
<1>3. ASSUME NEW c \in Callers, RefuseRequest(c) PROVE LimiterTyped'
  BY <1>3, RefusedTyped
<1>4. CASE LegacyAppend \/ WarnOfFeed \/ EngineAppend
  BY <1>1, <1>4 DEF LegacyAppend, WarnOfFeed, EngineAppend
<1>5. CASE RestartEngine \/ Reboot
  <2>1. passed' = [c \in Callers |-> <<>>] /\ taken' = [c \in Callers |-> <<>>]
    BY <1>5 DEF RestartEngine, Reboot, ForgetRequests
  <2>2. \A S : <<>> \in Seq(S)
    OBVIOUS
  <2>3. Len(<<>>) <= MaxPerWindow
    BY SourcesAssumption
  <2> QED BY <2>1, <2>2, <2>3 DEF LimiterTyped
<1>6. CASE Tick
  <2>1. now' = now + 1 /\ UNCHANGED <<boot, passed, taken>>
    BY <1>6 DEF Tick, sources
  <2>2. 0..Mono \subseteq 0..Mono' /\ boot..now \subseteq boot'..now'
    BY <2>1 DEF BridgeInv, Clocks, Mono
  <2>3. ASSUME NEW c \in Callers
        PROVE  passed[c] \in Seq(0..Mono') /\ taken[c] \in Seq(boot'..now')
    <3>1. passed[c] \in Seq(0..Mono) /\ taken[c] \in Seq(boot..now)
      BY DEF TypeInv, LimiterTyped
    <3> QED BY <2>2, <3>1, SeqMonotonic
  <2> QED BY <2>1, <2>3 DEF TypeInv, LimiterTyped
<1>7. CASE Ask \/ RestartBridge \/ UNCHANGED vars
  BY <1>1, <1>7 DEF Ask, Refuse, ServeCached, LookUpFails, LookUp, RestartBridge, vars, sources
<1> QED BY <1>2, <1>3, <1>4, <1>5, <1>6, <1>7 DEF Next, SourcesNext

\* Limits of the registry and of what may go wrong.
Limits ==
  /\ now \in 0..MaxTime /\ boot \in 0..now /\ faults \in 0..MaxFaults
  /\ rows \in Seq(Rows) /\ Len(rows) <= MaxRows

LEMMA StepLimits == BridgeInv /\ BridgeInv' /\ Limits /\ [Next]_vars => Limits'
<1> SUFFICES ASSUME BridgeInv, BridgeInv', Limits, [Next]_vars PROVE Limits'
  OBVIOUS
<1> USE SourcesAssumption
<1>1. rows' \in Seq(Rows)
  BY DEF BridgeInv, RowsSound
<1>2. now' \in 0..MaxTime /\ boot' \in 0..now'
  <2>1. now' = now \/ (now < MaxTime /\ now' = now + 1)
    BY SourcesGrow DEF Next, Ask, Refuse, ServeCached, LookUpFails, LookUp, RestartBridge,
                       Reboot, Tick, vars
  <2> QED BY <2>1 DEF Limits, BridgeInv, Clocks
<1>3. faults' \in 0..MaxFaults
  <2>1. faults' = faults \/ Fault
    BY DEF Next, SourcesNext, Ingest, RefuseRequest, IngestFails, LegacyAppend, WarnOfFeed,
           EngineAppend, RestartEngine, Ask, Refuse, ServeCached, LookUpFails, LookUp,
           RestartBridge, Reboot, Tick, vars
  <2> QED BY <2>1 DEF Limits, Fault
<1>4. Len(rows') <= MaxRows
  <2>1. rows' = rows \/ \E r \in Rows : Len(rows) < MaxRows /\ rows' = Append(rows, r)
    <3>1. CASE rows' = rows
      BY <3>1
    <3>2. CASE rows' # rows
      <4>1. SourcesNext
        BY <3>2 DEF Next, Ask, Refuse, ServeCached, LookUpFails, LookUp, RestartBridge,
                    Reboot, Tick, vars, sources
      <4>2. Grown
        BY <3>2, <4>1, SourcesGrow
      <4>3. Len(rows) < MaxRows
        BY <3>2, <4>1 DEF SourcesNext, Ingest, RefuseRequest, IngestFails, LegacyAppend,
                          WarnOfFeed, EngineAppend, RestartEngine, Store
      <4> QED BY <4>2, <4>3 DEF Grown
    <3> QED BY <3>1, <3>2
  <2> QED BY <2>1 DEF Limits
<1> QED BY <1>1, <1>2, <1>3, <1>4 DEF Limits

\* The memory of the bridge.
BridgeTyped ==
  /\ last \in -1..Mono
  /\ {cache, file} \subseteq Entries \cup {NoEntry}
  /\ looked \in [at : boot..now, ok : BOOLEAN] \cup {NotLooked}

LEMMA StepBridgeTyped ==
  BridgeInv /\ BridgeInv' /\ Limits /\ Limits' /\ BridgeTyped /\ [Next]_vars => BridgeTyped'
<1> SUFFICES ASSUME BridgeInv, BridgeInv', Limits, Limits', BridgeTyped, [Next]_vars
             PROVE  BridgeTyped'
  OBVIOUS
<1>1. now \in Nat /\ boot \in Nat /\ boot <= now /\ Mono \in 0..MaxTime /\ now <= MaxTime
      /\ MaxTime \in Nat /\ Len(rows) \in Nat
  BY SourcesAssumption DEF BridgeInv, Clocks, Limits, Mono
<1>2. CASE UNCHANGED <<boot, rows, last, looked, cache, file>> /\ now' \in {now, now + 1}
  <2>1. Mono' >= Mono /\ Mono' \in Nat /\ now' >= now /\ now' \in Nat
    <3>1. boot' = boot /\ (now' = now \/ now' = now + 1)
      BY <1>2
    <3>2. Mono = now - boot /\ Mono' = now' - boot'
      BY DEF Mono
    <3> QED BY <1>1, <3>1, <3>2
  <2>2. last' \in -1..Mono' /\ looked' \in [at : boot'..now', ok : BOOLEAN] \cup {NotLooked}
    BY <1>1, <1>2, <2>1 DEF BridgeTyped
  <2>3. Entries' = Entries
    BY <1>2 DEF Entries, ResultsAt
  <2> QED BY <1>2, <2>2, <2>3 DEF BridgeTyped
<1>3. CASE SourcesNext /\ UNCHANGED <<memory, file, answer>>
  <2>1. UNCHANGED <<now, boot>> /\ (Grown \/ rows' = rows)
    BY <1>3, SourcesGrow
  <2>2. CASE rows' = rows
    BY <1>2, <1>3, <2>1, <2>2 DEF memory
  <2>3. CASE Grown
    <3>1. /\ Len(rows') = Len(rows) + 1
          /\ \A n \in 0..Len(rows) : ResultsAt(n)' = ResultsAt(n)
      BY <2>1, <2>3, GrownRows
    <3>2. UNION {ResultsAt(n) : n \in 0..Len(rows)}
            \subseteq UNION {ResultsAt(n)' : n \in 0..Len(rows')}
      BY <1>1, <3>1
    <3>3. Entries \subseteq Entries'
      BY <3>2 DEF Entries
    <3> QED BY <1>3, <2>1, <3>3 DEF BridgeTyped, Mono, memory
  <2> QED BY <2>1, <2>2, <2>3
<1>4. CASE Refuse \/ ServeCached \/ LookUpFails
  <2>1. /\ UNCHANGED <<now, boot, rows, cache, file>>
        /\ last' \in {last, Mono} /\ looked' \in {looked, [at |-> now, ok |-> FALSE]}
    BY <1>4 DEF Refuse, ServeCached, LookUpFails, sources, memory
  <2>2. Entries' = Entries /\ Mono' = Mono
    BY <2>1 DEF Entries, ResultsAt, Mono
  <2>3. last' \in -1..Mono'
    BY <1>1, <2>1, <2>2 DEF BridgeTyped
  <2>4. looked' \in [at : boot'..now', ok : BOOLEAN] \cup {NotLooked}
    <3>1. looked \in [at : boot'..now', ok : BOOLEAN] \cup {NotLooked}
      BY <2>1 DEF BridgeTyped
    <3>2. [at |-> now, ok |-> FALSE] \in [at : boot'..now', ok : BOOLEAN]
      <4>1. now \in boot'..now'
        BY <1>1, <2>1
      <4> QED BY <4>1
    <3> QED BY <2>1, <3>1, <3>2
  <2> QED BY <2>1, <2>2, <2>3, <2>4 DEF BridgeTyped
<1>5. CASE LookUp
  <2>1. /\ UNCHANGED <<now, boot, rows>> /\ last' = Mono
        /\ looked' = [at |-> now, ok |-> TRUE] /\ file' \in {file, cache'}
    BY <1>5 DEF LookUp, sources
  <2>2. Entries' = Entries /\ Mono' = Mono
    BY <2>1 DEF Entries, ResultsAt, Mono
  <2>3. cache' \in Entries
    <3>1. PICK result \in ResultsAt(Len(rows)) :
                 cache' = [result |-> result, time |-> Mono, boot |-> boot]
      BY <1>5 DEF LookUp
    <3>2. result \in UNION {ResultsAt(n) : n \in 0..Len(rows)}
      BY <1>1
    <3> QED BY <1>1, <3>1, <3>2 DEF Entries
  <2> QED BY <1>1, <2>1, <2>2, <2>3 DEF BridgeTyped
<1>6. CASE RestartBridge \/ Reboot
  <2>1. /\ UNCHANGED <<now, rows, file>> /\ boot' \in {boot, now} /\ last' = -1
        /\ cache' \in {NoEntry, file} /\ looked' = NotLooked
    BY <1>6 DEF RestartBridge, Reboot, Construct, sources
  <2>2. Entries' = Entries
    BY <2>1 DEF Entries, ResultsAt
  <2>3. Mono' \in Nat
    <3>1. Mono' = now' - boot'
      BY DEF Mono
    <3>2. now' = now /\ (boot' = boot \/ boot' = now)
      BY <2>1
    <3>3. now - boot \in Nat /\ now - now = 0
      BY <1>1
    <3> QED BY <3>1, <3>2, <3>3
  <2> QED BY <2>1, <2>2, <2>3 DEF BridgeTyped
<1>7. CASE Tick \/ UNCHANGED vars
  BY <1>2, <1>7 DEF Tick, vars, sources, memory
<1> QED BY <1>3, <1>4, <1>5, <1>6, <1>7 DEF Next, Ask

(***************************************************************************)
(* Types: no clock ahead of time, entries that hold results of rows that   *)
(* exist, and no list of the limiter longer than the limit.                *)
(***************************************************************************)
THEOREM TypeCorrect == Spec => []TypeOK
<1>1. Init => TypeInv
  <2> SUFFICES ASSUME Init PROVE TypeInv
    OBVIOUS
  <2>1. LimiterTyped
    BY EmptyTyped DEF Init, SourcesInit
  <2>2. Limits
    BY SourcesAssumption DEF Init, SourcesInit, Limits
  <2>3. BridgeTyped
    BY DEF Init, SourcesInit, BridgeTyped, Mono
  <2> QED BY <2>1, <2>2, <2>3 DEF TypeInv, TypeOK, LimiterTyped, Limits, BridgeTyped
<1>2. BridgeInv /\ BridgeInv' /\ TypeInv /\ [Next]_vars => TypeInv'
  <2> SUFFICES ASSUME BridgeInv, BridgeInv', TypeInv, [Next]_vars PROVE TypeInv'
    OBVIOUS
  <2>1. Limits /\ BridgeTyped
    BY DEF TypeInv, TypeOK, Limits, BridgeTyped
  <2>2. Limits'
    BY <2>1, StepLimits
  <2>3. LimiterTyped' /\ BridgeTyped'
    BY <2>1, <2>2, StepLimiterTyped, StepBridgeTyped
  <2> QED BY <2>2, <2>3 DEF TypeInv, TypeOK, LimiterTyped, Limits, BridgeTyped
<1>3. TypeInv => TypeOK
  BY DEF TypeInv
<1> QED
  BY <1>1, <1>2, <1>3, InitBridgeInv, StepBridgeInv, PTL DEF Spec

-----------------------------------------------------------------------------
\* The registry counts confidence as its producer does, but for one percent.
Backed(r) == r.said = r.envelope.confidence \/ r.said = Share(Unit, 1)

RowsBacked == \A i \in 1..Len(rows) : Backed(rows[i])

LEMMA LegacyBacked ==
  ASSUME NEW s \in LegacySignals
  PROVE  Share(Unit, s.confidence) \in {FromLegacy(s).confidence, Share(Unit, 1)}
<1>1. s.confidence \in 0..100 /\ Unit \in Nat
  BY SourcesAssumption, ScaleAssumption
<1>2. CASE s.confidence > 1
  BY <1>2 DEF FromLegacy
<1>3. CASE s.confidence = 0
  <2>1. FromLegacy(s).confidence = 0 /\ Share(Unit, 0) = 0
    BY <1>1, <1>3 DEF FromLegacy, Share
  <2> QED BY <1>3, <2>1
<1>4. CASE s.confidence = 1
  BY <1>4
<1> QED BY <1>1, <1>2, <1>3, <1>4

LEMMA StepRowsBacked == BridgeInv /\ RowsBacked /\ [Next]_vars => RowsBacked'
<1> SUFFICES ASSUME BridgeInv, RowsBacked, [Next]_vars PROVE RowsBacked'
  OBVIOUS
<1>1. rows \in Seq(Rows)
  BY DEF BridgeInv, RowsSound
<1>2. ASSUME NEW e, NEW said, NEW made, NEW verdict, Store(e, said, made, verdict),
             said \in {e.confidence, Share(Unit, 1)}
      PROVE  RowsBacked'
  <2> DEFINE r == [envelope |-> e, said |-> said, made |-> made, gate |-> verdict, stored |-> now]
  <2>1. Backed(r) /\ rows' = Append(rows, r)
    BY <1>2 DEF Backed, Store
  <2> HIDE DEF r
  <2>2. /\ Len(rows) \in Nat /\ Len(rows') = Len(rows) + 1 /\ rows'[Len(rows) + 1] = r
        /\ \A i \in 1..Len(rows) : rows'[i] = rows[i]
    BY <1>1, <2>1
  <2>3. \A i \in 1..Len(rows') : i \in 1..Len(rows) \/ i = Len(rows) + 1
    BY <2>2
  <2>4. ASSUME NEW i \in 1..Len(rows') PROVE Backed(rows'[i])
    BY <2>1, <2>2, <2>3 DEF RowsBacked
  <2> QED BY <2>4 DEF RowsBacked, Backed
<1>3. CASE rows' = rows
  BY <1>3 DEF RowsBacked, Backed
<1>4. ASSUME NEW c \in Callers, Ingest(c) PROVE RowsBacked'
  BY <1>2, <1>4 DEF Ingest
<1>5. CASE LegacyAppend
  BY <1>2, <1>5, LegacyBacked DEF LegacyAppend
<1>6. CASE WarnOfFeed
  BY <1>2, <1>6 DEF WarnOfFeed
<1>7. CASE EngineAppend
  BY <1>2, <1>7 DEF EngineAppend
<1>8. ASSUME NEW c \in Callers, RefuseRequest(c) \/ IngestFails(c) PROVE RowsBacked'
  BY <1>3, <1>8 DEF RefuseRequest, IngestFails
<1>9. CASE RestartEngine \/ Ask \/ RestartBridge \/ Reboot \/ Tick \/ UNCHANGED vars
  BY <1>3, <1>9 DEF RestartEngine, Ask, Refuse, ServeCached, LookUpFails, LookUp,
                    RestartBridge, Reboot, Tick, vars, sources
<1> QED BY <1>4, <1>5, <1>6, <1>7, <1>8, <1>9 DEF Next, SourcesNext

(***************************************************************************)
(* A candle is marked for a signal whose producer was less sure than the   *)
(* bridge demands only when that signal had a confidence of one percent,   *)
(* which the reading of percentages as fractions takes for all of it       *)
(* (from_legacy_signal): nothing else leaves AdviceIsBacked.               *)
(***************************************************************************)
THEOREM OnlyOnePercentIsUnbacked ==
  Spec => [](AdviceIsBacked \/ rows[answer.result.row].said = Share(Unit, 1))
<1> DEFINE Said == AdviceIsBacked \/ rows[answer.result.row].said = Share(Unit, 1)
<1>1. Init => RowsBacked
  BY DEF Init, SourcesInit, RowsBacked
<1>2. BridgeInv /\ RowsBacked => Said
  <2> SUFFICES ASSUME BridgeInv, RowsBacked, Marked,
                      rows[answer.result.row].said # Share(Unit, 1)
               PROVE  rows[answer.result.row].said >= Threshold
    BY DEF AdviceIsBacked
  <2>1. answer # NoAnswer /\ answer.result.action # "hold"
    BY DEF Marked, EnterLong, ExitLong
  <2>2. /\ answer.result.row \in 1..Len(rows)
        /\ rows[answer.result.row].envelope.confidence >= Threshold
    BY <2>1, AdviceHasRow DEF Acceptable
  <2> QED BY <2>2 DEF RowsBacked, Backed
<1> QED
  BY <1>1, <1>2, InitBridgeInv, StepBridgeInv, StepRowsBacked, PTL DEF Spec
=============================================================================
