------------------------------ MODULE Watchdog ------------------------------
(***************************************************************************)
(* Heartbeat files and the process that watches them:                      *)
(* core/heartbeat_writer.py, core/watchdog.py, core/watchdog_runner.py and *)
(* core/notifications/telegram_sink.py.                                    *)
(*                                                                         *)
(* Time passes in ticks.  Ages are counted only as far as a comparison of  *)
(* the code can tell them apart, so that time has no end.  While the       *)
(* watchdog sleeps or waits for Telegram, time runs up to the end of that  *)
(* wait; the statements between two waits take no time.                    *)
(***************************************************************************)
EXTENDS Integers, Sequences

CONSTANTS
  Watched,      \* the components in the order of the configuration
  Stale,        \* stale_threshold_seconds
  Cooldown,     \* cooldown_seconds
  Interval,     \* the runner's sleep between two checks
  MinInterval,  \* min_interval_seconds of the Telegram sink
  PostTime,     \* longest wait for Telegram, its timeout
  MaxFaults     \* deaths of the watchdog, failed sends and writes, lost files

Components == {Watched[i] : i \in DOMAIN Watched}

ASSUME WatchedAssumption ==
  /\ Watched \in Seq(Components) /\ Len(Watched) > 0
  /\ \A i, j \in DOMAIN Watched : Watched[i] = Watched[j] => i = j
ASSUME TimingAssumption ==
  /\ Stale \in Nat /\ Cooldown \in Nat /\ PostTime \in Nat /\ MaxFaults \in Nat
  /\ MinInterval \in Nat /\ Interval \in Nat \ {0} /\ MinInterval <= Interval
  /\ PostTime < Cooldown

VARIABLES
  process,     \* of each component: "down", "starting" or "up"
  file,        \* of each component: its heartbeat file
  quiet,       \* history: ticks since the process last went for a write
  lost,        \* history: that write failed or somebody removed the file
  pc,          \* the watchdog: "down", "sleep", "check" or "post"
  next,        \* position of the component to check
  timer,       \* ticks left of the sleep or of the post
  sinceAlert,  \* _last_alert_time of each component, as an age
  sinceSend,   \* _last_send_time of the sink, as an age
  unheard,     \* history: age of the present fault that no alert has named
  told,        \* history: Telegram has taken a message about this illness
  faults

world    == <<process, file, quiet, lost>>
dog      == <<pc, next, timer, sinceAlert, sinceSend>>
history  == <<unheard, told>>
vars     == <<world, dog, history, faults>>

Least(a, b) == IF a <= b THEN a ELSE b

\* A mutant: a heartbeat of exactly the threshold counts as stale.
FindingEager(f) ==
  IF ~f.readable THEN "critical"
  ELSE IF f.age >= Stale \/ ~f.well THEN "warning" ELSE "none"

(***************************************************************************)
(* What _check_component finds in a file.  A missing file, text that is    *)
(* not JSON and a missing timestamp come to the same.  A status is well    *)
(* when it is "healthy" or "running".                                      *)
(***************************************************************************)
Finding(f) ==
  IF ~f.readable THEN "critical"
  ELSE IF f.age > Stale \/ ~f.well THEN "warning" ELSE "none"

Ill(c) == Finding(file[c]) # "none"

\* A mutant: the timestamp is rounded up to the next tick.
WrittenAhead(well) == [readable |-> TRUE, age |-> -1, well |-> well]

NoFile        == [readable |-> FALSE, age |-> 0, well |-> FALSE]
Written(well) == [readable |-> TRUE, age |-> 0, well |-> well]

\* A fault waits less than this for its alert: the cooldown may end just after
\* a check, and one sleep and the posts about all others come before the next.
Posts(n) == n * PostTime
Patience == Cooldown + Interval + Posts(Len(Watched) - 1)

Init ==
  /\ process = [c \in Components |-> "down"]
  /\ file = [c \in Components |-> NoFile]
  /\ quiet = [c \in Components |-> 0]
  /\ lost = [c \in Components |-> TRUE]
  /\ pc = "down"
  /\ next = 1
  /\ timer = 0
  /\ sinceAlert = [c \in Components |-> Cooldown]
  /\ sinceSend = MinInterval
  /\ unheard = [c \in Components |-> 0]
  /\ told = [c \in Components |-> FALSE]
  /\ faults = 0

Fault == faults < MaxFaults /\ faults' = faults + 1

-----------------------------------------------------------------------------
\* The watched processes.

\* A file that tells another finding than before starts another fault.
Replace(c, f) ==
  /\ file' = [file EXCEPT ![c] = f]
  /\ unheard' = [unheard EXCEPT ![c] =
                   IF Finding(f) = Finding(file[c]) THEN @ ELSE 0]
  /\ told' = [told EXCEPT ![c] = @ /\ Finding(f) # "none"]

(***************************************************************************)
(* HeartbeatWriter.write replaces the file at one stroke.  An OSError is   *)
(* only logged: the file stays as it was and the writer carries on.        *)
(***************************************************************************)
Write(c, well) ==
  /\ quiet' = [quiet EXCEPT ![c] = 0]
  /\ \/ Replace(c, Written(well))
        /\ lost' = [lost EXCEPT ![c] = FALSE]
        /\ UNCHANGED faults
     \/ Fault
        /\ lost' = [lost EXCEPT ![c] = TRUE]
        /\ UNCHANGED <<file, history>>

\* A process starts and says "starting".
Launch(c) ==
  /\ process[c] = "down"
  /\ process' = [process EXCEPT ![c] = "starting"]
  /\ Write(c, FALSE)
  /\ UNCHANGED dog

\* The first "running" or "healthy", and each one after it.  The legacy bot
\* writes only at the end of a cycle in which nothing was raised.
Beat(c) ==
  /\ process[c] # "down"
  /\ process' = [process EXCEPT ![c] = "up"]
  /\ Write(c, TRUE)
  /\ UNCHANGED dog

\* The engine says "stopping"; a process that is killed says nothing, and
\* neither does the legacy bot.
Stop(c) ==
  /\ process[c] # "down"
  /\ process' = [process EXCEPT ![c] = "down"]
  /\ \/ Write(c, FALSE)
     \/ UNCHANGED <<file, quiet, lost, history, faults>>
  /\ UNCHANGED dog

\* A volume that is mounted anew, or somebody who cleans up.
LoseFile(c) ==
  /\ Fault
  /\ Replace(c, NoFile)
  /\ lost' = [lost EXCEPT ![c] = TRUE]
  /\ UNCHANGED <<process, quiet, dog>>

-----------------------------------------------------------------------------
\* The watchdog.

\* A mutant: the components are checked from the end of the list.
ObservedFromEnd == Watched[Len(Watched) + 1 - next]

Observed == Watched[next]

\* check_all goes on with the next component.
Proceed == pc' = "check" /\ next' = next + 1 /\ timer' = 0

\* run_watchdog: with a new process both kinds of last times are forgotten.
Start ==
  /\ pc = "down"
  /\ pc' = "check"
  /\ next' = 1
  /\ timer' = 0
  /\ sinceAlert' = [c \in Components |-> Cooldown]
  /\ sinceSend' = MinInterval
  /\ UNCHANGED <<world, history, faults>>

CheckWell ==
  /\ pc = "check" /\ next <= Len(Watched)
  /\ ~Ill(Observed)
  /\ Proceed
  /\ UNCHANGED <<world, sinceAlert, sinceSend, history, faults>>

\* TelegramSink.send: one pace for the alerts of all components.
RateLimited == sinceSend < MinInterval

\* A mutant: the cooldown starts again whenever an alert is suppressed.
SuppressAndRestart ==
  /\ pc = "check" /\ next <= Len(Watched)
  /\ Ill(Observed)
  /\ sinceAlert[Observed] < Cooldown
  /\ sinceAlert' = [sinceAlert EXCEPT ![Observed] = 0]
  /\ Proceed
  /\ UNCHANGED <<world, sinceSend, history, faults>>

\* _maybe_alert within the cooldown, whatever the severity of the last alert.
Suppress ==
  /\ pc = "check" /\ next <= Len(Watched)
  /\ Ill(Observed)
  /\ sinceAlert[Observed] < Cooldown
  /\ Proceed
  /\ UNCHANGED <<world, sinceAlert, sinceSend, history, faults>>

(***************************************************************************)
(* _maybe_alert: the cooldown starts, the log has its line, and the        *)
(* Telegram sink posts, or skips the alert when it has sent one, about any *)
(* component, less than its interval ago.                                  *)
(***************************************************************************)
Alert ==
  /\ pc = "check" /\ next <= Len(Watched)
  /\ Ill(Observed)
  /\ sinceAlert[Observed] >= Cooldown
  /\ sinceAlert' = [sinceAlert EXCEPT ![Observed] = 0]
  /\ unheard' = [unheard EXCEPT ![Observed] = 0]
  /\ IF RateLimited
       THEN Proceed
       ELSE pc' = "post" /\ timer' = PostTime /\ UNCHANGED next
  /\ UNCHANGED <<world, sinceSend, told, faults>>

\* _do_send: only a message that was taken counts for the interval.
Answer ==
  /\ pc = "post"
  /\ \/ sinceSend' = 0
        /\ told' = [told EXCEPT ![Observed] = Ill(Observed)]
        /\ UNCHANGED faults
     \/ Fault /\ UNCHANGED <<sinceSend, told>>
  /\ Proceed
  /\ UNCHANGED <<world, sinceAlert, unheard>>

FinishCheck ==
  /\ pc = "check" /\ next > Len(Watched)
  /\ pc' = "sleep"
  /\ timer' = Interval
  /\ UNCHANGED <<world, next, sinceAlert, sinceSend, history, faults>>

WakeUp ==
  /\ pc = "sleep" /\ timer = 0
  /\ pc' = "check"
  /\ next' = 1
  /\ UNCHANGED <<world, timer, sinceAlert, sinceSend, history, faults>>

\* SIGTERM, a kill, or the end of a run with --once.
Die ==
  /\ Fault
  /\ pc # "down"
  /\ pc' = "down"
  /\ next' = 1 /\ timer' = 0
  /\ unheard' = [c \in Components |-> 0]
  /\ UNCHANGED <<world, sinceAlert, sinceSend, told>>

-----------------------------------------------------------------------------

\* A file grows old by itself, which may be the beginning of a fault.
Aged(f) == [f EXCEPT !.age = IF f.readable THEN Least(@ + 1, Stale + 1) ELSE @]

Tick ==
  /\ pc = "down" \/ (pc \in {"sleep", "post"} /\ timer > 0)
  /\ timer' = IF pc = "down" THEN timer ELSE timer - 1
  /\ file' = [c \in Components |-> Aged(file[c])]
  /\ quiet' = [c \in Components |-> Least(quiet[c] + 1, Stale + 1)]
  /\ sinceAlert' = [c \in Components |-> Least(sinceAlert[c] + 1, Cooldown)]
  /\ sinceSend' = Least(sinceSend + 1, MinInterval)
  /\ unheard' = [c \in Components |->
                   IF pc # "down" /\ Ill(c) /\ Finding(Aged(file[c])) = Finding(file[c])
                     THEN Least(unheard[c] + 1, Patience) ELSE 0]
  /\ UNCHANGED <<process, lost, pc, next, told, faults>>

Watching ==
  CheckWell \/ Suppress \/ Alert \/ Answer \/ FinishCheck \/ WakeUp \/ Start
Living   == \E c \in Components : Launch(c) \/ Beat(c) \/ Stop(c) \/ LoseFile(c)

Next == Watching \/ Die \/ Living \/ Tick

Spec == Init /\ [][Next]_vars

Fairness == WF_vars(Watching) /\ WF_vars(Tick)

FairSpec == Spec /\ Fairness

-----------------------------------------------------------------------------

Files == [readable : BOOLEAN, age : 0..Stale + 1, well : BOOLEAN]

TypeOK ==
  /\ process \in [Components -> {"down", "starting", "up"}]
  /\ file \in [Components -> Files]
  /\ quiet \in [Components -> 0..Stale + 1]
  /\ lost \in [Components -> BOOLEAN]
  /\ pc \in {"down", "sleep", "check", "post"}
  /\ next \in 1..Len(Watched) + 1 /\ (pc = "post" => next <= Len(Watched))
  /\ timer \in 0..Interval + PostTime
  /\ sinceAlert \in [Components -> 0..Cooldown]
  /\ sinceSend \in 0..MinInterval
  /\ unheard \in [Components -> 0..Patience]
  /\ told \in [Components -> BOOLEAN]
  /\ faults \in 0..MaxFaults

(***************************************************************************)
(* A fault is named within a bounded time: while the watchdog lives, no    *)
(* component stays at one finding for longer than the cooldown, one sleep  *)
(* and one check, without an alert of that very severity.  One cooldown    *)
(* serves all severities (watchdog.py:151), so a file that disappears      *)
(* after a warning waits for all of it.                                    *)
(***************************************************************************)
ReportedInTime == \A c \in Components : unheard[c] < Patience

(***************************************************************************)
(* No alert without a reason in the process: it is down or starting, has   *)
(* not written for longer than the threshold, or its last write was lost.  *)
(***************************************************************************)
AlertsHaveCause ==
  [][\A c \in Components :
       (pc = "check" /\ sinceAlert'[c] < sinceAlert[c])
         => process[c] # "up" \/ quiet[c] > Stale \/ lost[c]]_vars

Position(c) == CHOOSE i \in DOMAIN Watched : Watched[i] = c

(***************************************************************************)
(* A component that stays ill is told to Telegram, unless one listed       *)
(* before it falls ill: the sink sends one alert per check, and whoever    *)
(* alerts in the same check behind another has spent its cooldown on a     *)
(* message that is skipped (telegram_sink.py:71, watchdog.py:163).         *)
(***************************************************************************)
ToldUnlessBehind ==
  \A c \in Components :
    (Ill(c) /\ ~told[c])
      ~> (told[c] \/ ~Ill(c) \/ \E i \in 1..Position(c) - 1 : Ill(Watched[i]))
=============================================================================
