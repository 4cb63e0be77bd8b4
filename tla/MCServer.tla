------------------------------ MODULE MCServer ------------------------------
(***************************************************************************)
(* Values for the constants of Server.  One unit of time is 30 seconds, the*)
(* tick interval: a minute is 2.  leapDay is 29 February seen in 2096: it  *)
(* has a slot now, and the next one, in 2104, lies beyond the five years   *)
(* the cron library searches.                                              *)
(***************************************************************************)
EXTENDS Server, TLC

CONSTANTS everyMinute, leapDay

MCSlots == [c \in Cron |->
  CASE c = everyMinute -> {2, 4, 6, 8, 10}
    [] c = leapDay     -> {2}]

Symmetry == Permutations(Job) \union Permutations(TriggerReq)
=============================================================================
