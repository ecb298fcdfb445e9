------------------------ MODULE MCSummaryGeneration -------------------------
(* SummaryGeneration for TLC: three calls, so that a third finds the map   *)
(* empty while the second waits for the first.                             *)
EXTENDS SummaryGeneration
=============================================================================
