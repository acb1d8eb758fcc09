--------------------------- MODULE FreqtradeBridge ---------------------------
(***************************************************************************)
(* The advisory bridge (integrations/freqtrade_bridge.py) which the        *)
(* Freqtrade strategy asks about a pair for every candle: rate limit,      *)
(* cache, registry, policy, modulation, and the cache file it may keep.    *)
(* Times in cache and file are readings of time.monotonic().               *)
(*                                                                         *)
(* The checks of can_execute and dry_run_only never fail, the envelope     *)
(* forces both fields; nothing in the repository sets valid_until, so that *)
(* the check of expiry does not fail either.  They are left out.           *)
(***************************************************************************)
EXTENDS SignalSources

CONSTANTS
  Threshold,      \* confidence_threshold
  RiskLimit,      \* risk_threshold
  MinInterval,    \* min_interval_seconds
  CacheTtl,       \* cache_ttl_seconds
  MaxAge,         \* invalidation.max_age_seconds, 3600 for every producer
  KeepsFile       \* whether a cache_file is configured

ASSUME BridgeAssumption ==
  /\ Threshold \in 0..Unit /\ RiskLimit \in 0..Unit
  /\ MinInterval \in Nat /\ CacheTtl \in Nat \ {0} /\ MaxAge \in Nat
  /\ KeepsFile \in BOOLEAN

VARIABLES
  last,     \* _last_call_time of the pair, -1 for none
  cache,    \* _cache of the pair
  file,     \* the entry of the pair in the cache file
  answer,   \* what get_latest_signal returned last, and when
  looked    \* history: the last query of the registry by this process

memory == <<last, cache, looked>>
vars   == <<now, boot, sources, faults, memory, file, answer>>

NoEntry   == [result |-> "none", time |-> -1, boot |-> -1]
NotLooked == [at |-> -1, ok |-> FALSE]
NoAnswer  == [result |-> "none", at |-> -1, boot |-> -1]

Hold(reason) ==
  [action |-> "hold", reason |-> reason, confidence |-> 0, row |-> 0]

Init ==
  /\ SourcesInit
  /\ last = -1
  /\ cache = NoEntry
  /\ file = NoEntry
  /\ answer = NoAnswer
  /\ looked = NotLooked

-----------------------------------------------------------------------------
\* _evaluate_envelope.

RiskLevel(risk) ==
  CASE risk >= Share(Unit, 90) -> "extreme"
    [] risk >= Share(Unit, 70) -> "high"
    [] risk >= Share(Unit, 40) -> "medium"
    [] OTHER                   -> "low"

ActionFor(direction) ==
  CASE direction = "bullish" -> "long"
    [] direction = "bearish" -> "short"
    [] OTHER                 -> "flat"

Acceptable(e) ==
  /\ e.quality = "ok"
  /\ e.confidence >= Threshold
  /\ e.risk < RiskLimit

\* What modulate makes of the data of an envelope, before it rounds.
Lowered(e) == Penalised(e.confidence, RiskLevel(e.risk), 0, 100)

\* A mutant: the rounded value is taken as it is.
FinalsUnchecked(e) == Rounded(Lowered(e))

\* Rounding may lift it above the raw confidence again, which is reverted.
Finals(e) == {Lesser(f, e.confidence) : f \in Rounded(Lowered(e))}

Advice(e, n, f) ==
  [action |-> ActionFor(e.direction), reason |-> "signal", confidence |-> f,
   row |-> n]

\* What a query gives when the newest row is the n-th.
ResultsAt(n) ==
  IF n = 0 THEN {Hold("no_signal")}
  ELSE LET e == rows[n].envelope IN
       IF ~Acceptable(e) THEN {Hold("policy")}
       ELSE IF Blocked(Lowered(e)) THEN {Hold("modulation_blocked")}
       ELSE {Advice(e, n, f) : f \in Finals(e)}

-----------------------------------------------------------------------------
\* get_latest_signal.

Recent == last # -1 /\ Mono - last < MinInterval

Live == cache # NoEntry /\ Mono - cache.time < CacheTtl

Return(result, from) ==
  answer' = [result |-> result, at |-> now, boot |-> from]

\* Called too soon, and nothing in the cache.
Refuse ==
  /\ Recent /\ ~Live
  /\ Return(Hold("rate_limited"), boot)
  /\ UNCHANGED <<now, boot, sources, faults, memory, file>>

\* A mutant: a hit renews the entry.
ServeAndRenew ==
  /\ Live
  /\ Return(cache.result, cache.boot)
  /\ last' = IF Recent THEN last ELSE Mono
  /\ cache' = [cache EXCEPT !.time = Mono]
  /\ UNCHANGED <<now, boot, sources, faults, looked, file>>

\* A call within the interval does not start it anew.
ServeCached ==
  /\ Live
  /\ Return(cache.result, cache.boot)
  /\ last' = IF Recent THEN last ELSE Mono
  /\ UNCHANGED <<now, boot, sources, faults, cache, looked, file>>

\* A mutant: only a query that succeeds counts for the interval.
LookUpFailsUncounted ==
  /\ ~Recent /\ ~Live
  /\ Fault
  /\ Return(Hold("registry_error"), boot)
  /\ looked' = [at |-> now, ok |-> FALSE]
  /\ UNCHANGED <<now, boot, sources, last, cache, file>>

\* The query raises: nothing is cached, but the call counts.
LookUpFails ==
  /\ ~Recent /\ ~Live
  /\ Fault
  /\ Return(Hold("registry_error"), boot)
  /\ last' = Mono
  /\ looked' = [at |-> now, ok |-> FALSE]
  /\ UNCHANGED <<now, boot, sources, cache, file>>

\* The query, the policy, _cache_and_return; a file that cannot be written is
\* only logged.
LookUp ==
  /\ ~Recent /\ ~Live
  /\ \E result \in ResultsAt(Len(rows)) :
       /\ Return(result, boot)
       /\ cache' = [result |-> result, time |-> Mono, boot |-> boot]
  /\ last' = Mono
  /\ looked' = [at |-> now, ok |-> TRUE]
  /\ file' \in {file} \cup {f \in {cache'} : KeepsFile}
  /\ UNCHANGED <<now, boot, sources, faults>>

Ask == Refuse \/ ServeCached \/ LookUpFails \/ LookUp

\* What the strategy writes into a dataframe: a result that is neither of the two,
\* no bridge and an exception on the way leave its columns at 0.
EnterLong(result) == result.action = "long"

ExitLong(result) == result.action = "short"

Marked == answer # NoAnswer /\ (EnterLong(answer.result) \/ ExitLong(answer.result))

-----------------------------------------------------------------------------
\* The constructor: a file that is missing or broken gives an empty cache.
Construct ==
  /\ cache' \in {NoEntry, file}
  /\ last' = -1
  /\ looked' = NotLooked
  /\ answer' = NoAnswer
  /\ UNCHANGED file

RestartBridge ==
  /\ Fault
  /\ Construct
  /\ UNCHANGED <<now, boot, sources>>

\* Machine and processes start again, the monotonic clock starts from zero.
Reboot ==
  /\ Fault
  /\ boot' = now
  /\ ForgetRequests
  /\ Construct
  /\ UNCHANGED <<now, rows>>

Tick ==
  /\ now < MaxTime
  /\ now' = now + 1
  /\ UNCHANGED <<boot, sources, faults, memory, file, answer>>

Next ==
  \/ SourcesNext /\ UNCHANGED <<memory, file, answer>>
  \/ Ask \/ RestartBridge \/ Reboot \/ Tick

Spec == Init /\ [][Next]_vars

-----------------------------------------------------------------------------
Entries == [result : UNION {ResultsAt(n) : n \in 0..Len(rows)},
            time : 0..MaxTime, boot : 0..MaxTime]

\* Types: no clock is ahead of time, entries hold results of rows that exist.
TypeOK ==
  /\ now \in 0..MaxTime /\ boot \in 0..now /\ faults \in 0..MaxFaults
  /\ rows \in Seq(Rows) /\ Len(rows) <= MaxRows
  /\ \A c \in Callers : /\ passed[c] \in Seq(0..Mono)
                        /\ taken[c] \in Seq(boot..now)
                        /\ Len(passed[c]) <= MaxPerWindow
  /\ last \in -1..Mono
  /\ {cache, file} \subseteq Entries \cup {NoEntry}
  /\ looked \in [at : boot..now, ok : BOOLEAN] \cup {NotLooked}

\* Whether the newest row was the n-th at some moment less than CacheTtl before
\* the time t.
NewestBefore(n, t) ==
  n < Len(rows) => t - rows[n + 1].stored < CacheTtl

(***************************************************************************)
(* Every answer but an error is what a query would have given at a time    *)
(* less than CacheTtl ago, also after restarts that load the file.  Of an  *)
(* entry that a file carries over a reboot this cannot be said: its time   *)
(* is from another clock, and it is served until the new one has come past *)
(* it.  But that does come: the machine serves it for less than the time   *)
(* it had been up before, and CacheTtl.                                    *)
(***************************************************************************)
AnswersAreRecent ==
  answer # NoAnswer =>
    /\ (answer.boot = boot
        /\ answer.result.reason \notin {"rate_limited", "registry_error"})
       => \E n \in 0..Len(rows) :
            answer.result \in ResultsAt(n) /\ NewestBefore(n, answer.at)
    /\ answer.boot # boot =>
         answer.at - boot < (boot - answer.boot) + CacheTtl

(***************************************************************************)
(* Advice keeps the limits of the bridge after modulation and rounding:    *)
(* its confidence lies between threshold and raw value.  And the bridge    *)
(* passes nothing on that the gate turned away, except for its age or a    *)
(* missing direction, to which the bridge does not look.                   *)
(***************************************************************************)
AdviceWithinPolicy ==
  (answer # NoAnswer /\ answer.result.action # "hold")
  => LET row == rows[answer.result.row] IN
       /\ Threshold <= answer.result.confidence
       /\ answer.result.confidence <= row.envelope.confidence
       /\ row.gate \in Approving \cup
            {"not_asked", "stale_signal", "entry_no_direction"}
       /\ row.gate = "entry_no_direction" => answer.result.action = "flat"

(***************************************************************************)
(* A process queries the registry again after MinInterval at the earliest, *)
(* also when the query failed, and after CacheTtl when it did not          *)
(* (_get_latest_signal_inner).                                             *)
(***************************************************************************)
LookupsAreSpaced ==
  [][looked' # looked /\ looked # NotLooked /\ looked' # NotLooked
     => /\ looked'.at - looked.at >= MinInterval
        /\ looked.ok => looked'.at - looked.at >= CacheTtl]_vars

(***************************************************************************)
(* The strategy marks no candle for a signal of which its producer was     *)
(* less sure than the bridge demands: confidence_threshold is the minimum  *)
(* confidence for a signal to be actionable (FreqtradeBridge), whatever    *)
(* scale the producer counts it on (core/signal_model.py, confidence: int  *)
(* # 0-100).                                                               *)
(***************************************************************************)
AdviceIsBacked == Marked => rows[answer.result.row].said >= Threshold

(***************************************************************************)
(* docs/integration/rainbow-signal-provider-contract.md section 9: a       *)
(* signal beyond its max_age_seconds is not used for current decisions, so *)
(* that no candle is marked for it.  The bridge looks at valid_until only. *)
(***************************************************************************)
StaleNeverAdvised ==
  Marked => answer.at - rows[answer.result.row].made <= MaxAge
=============================================================================
