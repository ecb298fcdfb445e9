-------------------------- MODULE MCDailyScheduler --------------------------
(* DailyScheduler for TLC: days of five hours, from a Monday to the Thursday*)
(* of the next week, with the clock moved on the Sunday between them.      *)
EXTENDS DailyScheduler

(* Summer time ends: the one way to a second run on a day.                 *)
ClockMovedBack == -1
=============================================================================
