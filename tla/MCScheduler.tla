----------------------------- MODULE MCScheduler -----------------------------
(***************************************************************************)
(* Tasks of the program with intervals small enough to meet: led and buzz  *)
(* share a priority, the led alternates between two intervals, the report  *)
(* takes longer than a tick, and a run of it or of control may take longer *)
(* than an interval: the sensor task, which buzzes for 800 ms, and the     *)
(* console, which waits.                                                   *)
(***************************************************************************)
EXTENDS Scheduler, TLC

CONSTANTS led, buzz, report, control

MCTasks     == {led, buzz, report, control}
MCAddOrder  == <<led, report, buzz, control>>
MCPriority  == led :> -3 @@ buzz :> -3 @@ report :> -4 @@ control :> 1
MCIntervals == led :> {10, 12} @@ buzz :> {12} @@ report :> {16} @@ control :> {8}
MCRunTime   == led :> 0 @@ buzz :> 0 @@ report :> 1 @@ control :> 0
MCOverruns  == led :> {0} @@ buzz :> {0} @@ report :> {0, 20} @@ control :> {0, 9}

\* The tasks use 193 of 240 parts of the processor at most.
MCShare   == led :> 48 @@ buzz :> 40 @@ report :> 45 @@ control :> 60
MCLongest == led :> 12 @@ buzz :> 12 @@ report :> 16 @@ control :> 8

ASSUME MCKeepsUp == KeepsUp(MCShare, 240, MCLongest, 5)
=============================================================================
