------------------------- MODULE MCProcessLifecycle -------------------------
(* ProcessLifecycle for TLC: a release, a later one that brings a file     *)
(* before that of the first, and environments that differ in one value   *)
(* from one that loads.                                                    *)
EXTENDS ProcessLifecycle

ReleasesInOrder == {{2}, {1, 2}}

Default ==
  [sound |-> TRUE, update |-> 120, enrichment |-> 180, llm |-> 75, summary |-> 90,
   http |-> TRUE, wildcard |-> FALSE]

Environments ==
  {Default,
   [Default EXCEPT !.http = FALSE, !.wildcard = TRUE],
   [Default EXCEPT !.wildcard = TRUE],
   [Default EXCEPT !.sound = FALSE],
   [Default EXCEPT !.update = 45],
   [Default EXCEPT !.enrichment = 120],
   [Default EXCEPT !.summary = 85]}
=============================================================================
