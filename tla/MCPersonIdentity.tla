--------------------------- MODULE MCPersonIdentity ---------------------------
(* PersonIdentity for TLC: two people, a third name that an enrichment     *)
(* mentions beside a known one, another spelling of the first, two edits.  *)
EXTENDS PersonIdentity, TLC
MCNorm == [s \in Spellings |-> IF s = 4 THEN 1 ELSE s]
MCKnown == <<1, 2>>
MCMentions == [e \in Enrichments |-> <<3, 2>>]
EditSymmetry == Permutations(Edits)
=============================================================================
