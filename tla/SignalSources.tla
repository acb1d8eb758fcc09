---------------------------- MODULE SignalSources ----------------------------
(***************************************************************************)
(* What fills the canonical registry for one pair: the ingest API          *)
(* (rainbow/ingest), the side-writes of legacy bot and Rainbow engine.     *)
(* The engine process holds the rate limiter of the API in memory.         *)
(***************************************************************************)
EXTENDS RiskGate, Sequences, FiniteSets

CONSTANTS
  Callers,       \* sources named in ingest requests
  Offers,        \* envelopes of requests and collectors, but for their timestamp
  LegacySignals, \* what the strategy of the legacy bot decides about the pair
  MaxPerWindow,  \* rate_limit_per_minute
  RateWindow,    \* window_seconds
  Lags,          \* how far timestamps of requests lie in the past
  MaxRows, MaxTime, MaxFaults

ASSUME SourcesAssumption ==
  /\ Offers \subseteq Envelope
  /\ LegacySignals \subseteq
       [action : {"BUY", "SELL", "HOLD"}, confidence : 0..100]
  /\ MaxPerWindow \in Nat \ {0} /\ RateWindow \in Nat \ {0}
  /\ Lags \subseteq Int
  /\ MaxRows \in Nat /\ MaxTime \in Nat /\ MaxFaults \in Nat

VARIABLES
  now,      \* time
  boot,     \* when the machine was started, the zero of time.monotonic()
  rows,     \* the rows of the pair in canonical_signals, by rowid
  passed,   \* _counts of the limiter: readings of the monotonic clock
  taken,    \* history: when requests passed the limiter of this process
  faults

sources == <<rows, passed, taken>>

Mono == now - boot

\* from_legacy_signal: the context of the market has neither a risk_score nor a
\* status of the feed, so that the defaults stand.  A confidence of the signal is
\* a percentage, that of the envelope a fraction.
FromLegacy(s) ==
  [class |-> "entry",
   direction |-> CASE s.action = "BUY" -> "bullish" [] s.action = "SELL" -> "bearish"
                   [] OTHER -> "neutral",
   quality |-> "ok",
   confidence |-> IF s.confidence > 1 THEN Share(Unit, s.confidence)
                  ELSE s.confidence * Unit,
   risk |-> Share(Unit, 50)]

\* What the bot writes about a feed that is not healthy.
FeedWarning ==
  [class |-> "data_quality", direction |-> "neutral", quality |-> "degraded",
   confidence |-> Share(Unit, 90), risk |-> Share(Unit, 30)]

Written == Offers \cup {FromLegacy(s) : s \in LegacySignals} \cup {FeedWarning}

\* A row: the envelope, how sure its producer was (history), its created_at, what
\* the gate said, when it was stored.
Rows == [envelope : Written, said : Nat, made : Int,
         gate : Verdicts \cup {"not_asked"}, stored : Nat]

SourcesInit ==
  /\ now = 0
  /\ boot = 0
  /\ rows = <<>>
  /\ passed = [c \in Callers |-> <<>>]
  /\ taken = [c \in Callers |-> <<>>]
  /\ faults = 0

Fault == faults < MaxFaults /\ faults' = faults + 1

\* append: one INSERT, the newest row has the largest rowid.
Store(e, said, made, verdict) ==
  /\ Len(rows) < MaxRows
  /\ rows' = Append(rows, [envelope |-> e, said |-> said, made |-> made,
                           gate |-> verdict, stored |-> now])

-----------------------------------------------------------------------------
\* The ingest API.

\* The entries that are later than the cutoff, in their order.  (Recursion instead
\* of SelectSeq, of which the provers have no definition.)
Later(stamps, cutoff) ==
  LET kept[i \in 0..Len(stamps)] ==
        IF i = 0 THEN <<>>
        ELSE IF stamps[i] > cutoff THEN Append(kept[i - 1], stamps[i])
        ELSE kept[i - 1]
  IN  kept[Len(stamps)]

\* A mutant: an entry is dropped one tick early.
CutoffEarly == Mono - RateWindow + 1

Cutoff == Mono - RateWindow

\* A mutant: the limit is compared after the request has been counted.
AllowOneMore(c) ==
  LET counted == Later(passed[c], Cutoff) IN
    /\ Len(counted) <= MaxPerWindow
    /\ passed' = [passed EXCEPT ![c] = Append(counted, Mono)]
    /\ taken' = [taken EXCEPT ![c] = Append(@, now)]

\* allow, under its lock: old entries go, a request that is refused counts not.
Allow(c) ==
  LET counted == Later(passed[c], Cutoff) IN
    /\ Len(counted) < MaxPerWindow
    /\ passed' = [passed EXCEPT ![c] = Append(counted, Mono)]
    /\ taken' = [taken EXCEPT ![c] = Append(@, now)]

RefuseRequest(c) ==
  LET counted == Later(passed[c], Cutoff) IN
    /\ Len(counted) >= MaxPerWindow
    /\ passed' = [passed EXCEPT ![c] = counted]
    /\ UNCHANGED <<now, boot, rows, taken, faults>>

\* _request_to_envelope: risk one half, quality ok, the timestamp of the
\* request, or the present when it cannot be parsed.
Requested(e) == e.quality = "ok" /\ e.risk = Share(Unit, 50)

\* ingest: limiter, gate, append.  A signal that the gate turns away is stored
\* as well.
Ingest(c) ==
  /\ Allow(c)
  /\ \E e \in Offers, lag \in Lags \cup {0} :
       /\ Requested(e)
       /\ Store(e, e.confidence, now - lag, Gate(e, lag))
  /\ UNCHANGED <<now, boot, faults>>

\* append raises: the answer is "error", the request has been counted.
IngestFails(c) ==
  /\ Fault
  /\ Allow(c)
  /\ UNCHANGED <<now, boot, rows>>

-----------------------------------------------------------------------------
\* Side-writes.

\* The legacy bot asks the gate about each envelope and stores it regardless.
LegacyAppend ==
  /\ \E s \in LegacySignals :
       Store(FromLegacy(s), Share(Unit, s.confidence), now, Gate(FromLegacy(s), 0))
  /\ UNCHANGED <<now, boot, passed, taken, faults>>

WarnOfFeed ==
  /\ Store(FeedWarning, FeedWarning.confidence, now, Gate(FeedWarning, 0))
  /\ UNCHANGED <<now, boot, passed, taken, faults>>

\* from_rainbow_signal: macro signals tell the regime, all others are entries.
Collected(e) == Requested(e) /\ e.class \in {"entry", "regime"}

\* The engine stores what it collected without asking the gate.
EngineAppend ==
  /\ \E e \in Offers, lag \in Lags :
       Collected(e) /\ Store(e, e.confidence, now - lag, "not_asked")
  /\ UNCHANGED <<now, boot, passed, taken, faults>>

ForgetRequests ==
  /\ passed' = [c \in Callers |-> <<>>]
  /\ taken' = [c \in Callers |-> <<>>]

RestartEngine ==
  /\ Fault
  /\ ForgetRequests
  /\ UNCHANGED <<now, boot, rows>>

SourcesNext ==
  \/ \E c \in Callers : Ingest(c) \/ RefuseRequest(c) \/ IngestFails(c)
  \/ LegacyAppend \/ WarnOfFeed \/ EngineAppend \/ RestartEngine

-----------------------------------------------------------------------------
(***************************************************************************)
(* In no stretch of time as long as the window does a caller get more      *)
(* requests past the limiter than it allows, as long as the process lives  *)
(* (_PerSourceRateLimiter.allow).  A restart forgets what was counted.     *)
(***************************************************************************)
IngestBounded ==
  \A c \in Callers : \A i \in DOMAIN taken[c] :
    LET within == {j \in DOMAIN taken[c] :
                     taken[c][i] <= taken[c][j]
                     /\ taken[c][j] < taken[c][i] + RateWindow}
    IN  Cardinality(within) <= MaxPerWindow
=============================================================================
