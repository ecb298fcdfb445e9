------------------------- MODULE EnrichmentContract -------------------------
(***************************************************************************)
(* What the note queue promises, with no worker, process or LLM in sight:  *)
(* README.md, "Background note enrichment".  A note that was captured is   *)
(* claimed a bounded number of times, each claim under a new number; one   *)
(* claim, the last, has its result stored, and that is the end of it.      *)
(* NoteEnrichment is shown to implement this specification.                *)
(***************************************************************************)
EXTENDS Naturals

CONSTANTS
  Notes,
  MaxAttempts

VARIABLES
  phase,   \* of each note: absent, waiting, claimed or done
  epoch,   \* the number of its last claim
  result   \* the claim whose result is stored; 0 if none

cvars == <<phase, epoch, result>>

Init ==
  /\ phase = [n \in Notes |-> "absent"]
  /\ epoch = [n \in Notes |-> 0]
  /\ result = [n \in Notes |-> 0]

Submit(n) ==
  /\ phase[n] = "absent"
  /\ phase' = [phase EXCEPT ![n] = "waiting"]
  /\ UNCHANGED <<epoch, result>>

SubmitClaimed(n) ==
  /\ phase[n] = "absent"
  /\ phase' = [phase EXCEPT ![n] = "claimed"]
  /\ epoch' = [epoch EXCEPT ![n] = 1]
  /\ UNCHANGED result

CanBeClaimed(n) ==
  /\ phase[n] \in {"waiting", "claimed"}
  /\ epoch[n] < MaxAttempts

(* A batch is claimed at once; a claim may take over from an earlier one.  *)
Claim(S) ==
  /\ \A n \in S : CanBeClaimed(n)
  /\ phase' = [n \in Notes |-> IF n \in S THEN "claimed" ELSE phase[n]]
  /\ epoch' = [n \in Notes |-> IF n \in S THEN epoch[n] + 1 ELSE epoch[n]]
  /\ UNCHANGED result

Store(n) ==
  /\ phase[n] = "claimed"
  /\ phase' = [phase EXCEPT ![n] = "done"]
  /\ result' = [result EXCEPT ![n] = epoch[n]]
  /\ UNCHANGED epoch

Release(n) ==
  /\ phase[n] = "claimed"
  /\ phase' = [phase EXCEPT ![n] = "waiting"]
  /\ UNCHANGED <<epoch, result>>

Next ==
  \/ \E S \in SUBSET Notes : Claim(S)
  \/ \E n \in Notes : Submit(n) \/ SubmitClaimed(n) \/ Store(n) \/ Release(n)

(* While a note has attempts left, something keeps happening to it.        *)
Advance(n) ==
  /\ CanBeClaimed(n)
  /\ \/ \E S \in SUBSET Notes : n \in S /\ Claim(S)
     \/ Store(n)
     \/ Release(n)

Spec == Init /\ [][Next]_cvars
FairSpec == Spec /\ \A n \in Notes : WF_cvars(Advance(n))
=============================================================================
