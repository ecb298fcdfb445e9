-------------------------- MODULE MCNoteEnrichment --------------------------
(* Instances of NoteEnrichment for TLC: the notes and the application      *)
(* instances are model values, interchangeable where no liveness is asked. *)
EXTENDS NoteEnrichment, TLC

Interchangeable == Permutations(Notes) \union Permutations(Instances)
=============================================================================
