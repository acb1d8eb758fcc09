----------------------------- MODULE MCWatchdog -----------------------------
(***************************************************************************)
(* An instance of Watchdog for TLC: the two components of config.json.     *)
(***************************************************************************)
EXTENDS Watchdog

CONSTANTS legacy, rainbow

Configured == <<legacy, rainbow>>
=============================================================================
