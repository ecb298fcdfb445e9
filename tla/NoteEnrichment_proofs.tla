----------------------- MODULE NoteEnrichment_proofs ------------------------
(***************************************************************************)
(* What NoteEnrichment keeps for every set of notes and instances and      *)
(* every configuration.  The argument goes in three layers.                *)
(*                                                                         *)
(*   1. TypeOK.                                                            *)
(*   2. Fenced: a job's claim is never newer than the row's, a claim has   *)
(*      not stored a result as long as the row says processing, and the    *)
(*      result stored is never newer than the last claim.  It needs no     *)
(*      assumption, and gives ResultMatchesStatus and NeverOverwritten.    *)
(*   3. Owned: without explicit calls a claim has one job, and no commit   *)
(*      whose acknowledgement was lost leaves a job behind on a processed  *)
(*      note.  It gives OneOwner, ProcessedIsFinal, ... and the refinement *)
(*      of EnrichmentContract.                                             *)
(***************************************************************************)
EXTENDS NoteEnrichment, TLAPS

(* The parts of a job tuple.                                               *)
LEMMA JobParts ==
  ASSUME NEW j \in Jobs
  PROVE  /\ InstanceOf(j) \in Instances
         /\ PathOf(j) \in Paths
         /\ NoteOf(j) \in Notes
BY DEF Jobs, InstanceOf, PathOf, NoteOf

LEMMA JobOfParts ==
  ASSUME NEW i \in Instances, NEW p \in Paths, NEW n \in Notes
  PROVE  /\ <<i, p, n>> \in Jobs
         /\ NoteOf(<<i, p, n>>) = n
BY DEF Jobs, NoteOf

(* Claiming keeps a row a row.                                             *)
LEMMA ClaimedRowType ==
  ASSUME NEW row \in Row
  PROVE  /\ ClaimedRow(row) \in Row
         /\ ClaimedRow(row).status = "processing"
         /\ ClaimedRow(row).startedAt = row.startedAt + 1
         /\ ClaimedRow(row).attempts = row.attempts + 1
         /\ ClaimedRow(row).nextAt = "null"
BY DEF ClaimedRow, Row, Status

LEMMA NoRowType == NoRow \in Row /\ NoJob \in JobState
BY DEF NoRow, NoJob, Row, Status, JobState

-----------------------------------------------------------------------------
(* Layer 1.                                                                *)

LEMMA InitType == Init => TypeOK
BY NoRowType DEF Init, TypeOK

LEMMA NextType ==
  ASSUME TypeOK, [Next]_vars
  PROVE  TypeOK'
<1> USE DEF TypeOK
<1>1. ASSUME NEW n \in Notes, UserStep(n) PROVE TypeOK'
  <2>1. CASE CreatePendingNote(n)
    BY <2>1 DEF CreatePendingNote, Row, Status
  <2>2. CASE CompleteAction(n) \/ ReopenAction(n)
    BY <2>2 DEF CompleteAction, ReopenAction
  <2>3. ASSUME NEW i \in Instances, CreateAndClaimNote(i, n) PROVE TypeOK'
    <3>1. <<i, "now", n>> \in Jobs
      BY JobOfParts DEF Paths
    <3>2. [NoRow EXCEPT !.status = "processing", !.startedAt = 1, !.attempts = 1] \in Row
      BY DEF NoRow, Row, Status
    <3>3. [pc |-> "llm", startedAt |-> 1, attempts |-> 1] \in JobState
      BY DEF JobState
    <3>4. QED
      BY <2>3, <3>1, <3>2, <3>3 DEF CreateAndClaimNote
  <2>4. QED
    BY <1>1, <2>1, <2>2, <2>3 DEF UserStep
<1>2. ASSUME NEW n \in Notes, ExplicitStep(n) PROVE TypeOK'
  <2>1. PICK i \in Instances : ExplicitClaim(i, n) \/ ExplicitFallback(i, n)
    BY <1>2 DEF ExplicitStep
  <2>2. <<i, "explicit", n>> \in Jobs
    BY JobOfParts DEF Paths
  <2>3. CASE ExplicitClaim(i, n)
    <3>1. note' \in [Notes -> Row]
      BY <2>3 DEF ExplicitClaim, Row, Status
    <3>2. [pc |-> "llm", startedAt |-> note'[n].startedAt,
           attempts |-> note'[n].attempts] \in JobState
      BY <3>1 DEF JobState, Row
    <3>3. QED
      BY <2>2, <2>3, <3>1, <3>2 DEF ExplicitClaim
  <2>4. CASE ExplicitFallback(i, n)
    <3>1. [pc |-> "llm", startedAt |-> note[n].startedAt,
           attempts |-> note[n].attempts] \in JobState
      BY DEF JobState, Row
    <3>2. QED
      BY <2>2, <2>4, <3>1 DEF ExplicitFallback
  <2>5. QED
    BY <2>1, <2>3, <2>4
<1>3. ASSUME NEW n \in Notes, TimeStep(n) PROVE TypeOK'
  BY <1>3 DEF TimeStep, GrowStale, BecomeDue, Row, Status
<1>4. ASSUME NEW i \in Instances, Poll(i) PROVE TypeOK'
  <2>1. PICK S \in SUBSET {n \in Notes : Claimable(n)} :
          /\ ClaimBatch(S)
          /\ \E returned \in {S, {}} :
               job' = [j \in Jobs |->
                        IF /\ InstanceOf(j) = i
                           /\ PathOf(j) = "worker"
                           /\ NoteOf(j) \in returned
                        THEN [pc |-> "queued",
                              startedAt |-> note'[NoteOf(j)].startedAt,
                              attempts |-> note'[NoteOf(j)].attempts]
                        ELSE job[j]]
    BY <1>4 DEF Poll
  <2>2. note' \in [Notes -> Row]
    BY <2>1, ClaimedRowType DEF ClaimBatch
  <2>3. \A j \in Jobs : [pc |-> "queued",
                         startedAt |-> note'[NoteOf(j)].startedAt,
                         attempts |-> note'[NoteOf(j)].attempts] \in JobState
    BY <2>2, JobParts DEF JobState, Row
  <2>4. job' \in [Jobs -> JobState]
    BY <2>1, <2>3
  <2>5. QED
    BY <1>4, <2>2, <2>4 DEF Poll
<1>5. ASSUME NEW i \in Instances, ProcessStep(i) PROVE TypeOK'
  BY <1>5, NoRowType DEF ProcessStep, Terminate, Exit, Crash, Restart, KillJobs
<1>6. ASSUME NEW j \in Jobs, JobStep(j) PROVE TypeOK'
  <2> USE JobParts DEF Moves, Ends
  <2>1. CASE StartJob(j) \/ DropJob(j) \/ JobPanics(j)
    BY <2>1, NoRowType DEF StartJob, DropJob, JobPanics, JobState
  <2>2. CASE LLMReturns(j) \/ LLMFails(j) \/ SaveFails(j)
    BY <2>2 DEF LLMReturns, LLMFails, SaveFails, JobState
  <2>3. ASSUME Commits(j)
        PROVE  /\ note' \in [Notes -> Row]
               /\ stored' \in [Notes -> Nat]
               /\ action' \in [Notes -> {"none", "open", "done"}]
               /\ UNCHANGED <<mode, stops>>
    BY <2>3 DEF Commits, Row, Status, JobState
  <2>4. CASE SaveSucceeds(j) \/ SaveAckLost(j)
    BY <2>3, <2>4, NoRowType DEF SaveSucceeds, SaveAckLost, JobState
  <2>5. CASE MarkFailed(j)
    <3>1. note' \in [Notes -> Row]
      BY <2>5 DEF MarkFailed, Row, Status
    <3>2. job' \in [Jobs -> JobState]
      BY <2>5, NoRowType DEF MarkFailed, AfterFailure, JobState
    <3>3. QED
      BY <2>5, <3>1, <3>2 DEF MarkFailed
  <2>6. CASE Reschedule(j)
    <3>1. note' \in [Notes -> Row]
      BY <2>6 DEF Reschedule, Row, Status
    <3>2. QED
      BY <2>6, <3>1, NoRowType DEF Reschedule
  <2>7. QED
    BY <1>6, <2>1, <2>2, <2>4, <2>5, <2>6 DEF JobStep
<1>7. CASE UNCHANGED vars
  BY <1>7 DEF vars
<1>8. QED
  BY <1>1, <1>2, <1>3, <1>4, <1>5, <1>6, <1>7 DEF Next

(* The rows, the jobs and the stored results keep their types.             *)
THEOREM TypeCorrect == Spec => []TypeOK
BY InitType, NextType, PTL DEF Spec

-----------------------------------------------------------------------------
(* Layer 2.                                                                *)

JobsNotAhead ==
  \A j \in Jobs :
    /\ job[j].startedAt <= note[NoteOf(j)].startedAt
    /\ ~Idle(j) => job[j].startedAt > 0

ResultsNotAhead ==
  \A n \in Notes :
    /\ note[n].status = "absent" => note[n].startedAt = 0
    /\ stored[n] <= note[n].startedAt
    /\ note[n].status = "processing" => stored[n] < note[n].startedAt
    /\ note[n].status = "processed" => stored[n] = note[n].startedAt

Fenced == JobsNotAhead /\ ResultsNotAhead

LEMMA InitFenced == Init => Fenced
BY JobParts DEF Init, Fenced, JobsNotAhead, ResultsNotAhead, NoRow, NoJob, Idle

(* A job that takes a step keeps its claim or ends.                        *)
LEMMA JobStepMoves ==
  ASSUME TypeOK, NEW j \in Jobs, JobStep(j)
  PROVE  /\ ~Idle(j)
         /\ \A k \in Jobs \ {j} : job'[k] = job[k]
         /\ \/ job'[j] = NoJob
            \/ \E pc \in {"llm", "save", "markFailed", "reschedule"} :
                 job'[j] = [job[j] EXCEPT !.pc = pc]
<1> USE DEF TypeOK, Idle, Moves, Ends
<1>1. CASE StartJob(j) \/ DropJob(j) \/ JobPanics(j)
  BY <1>1 DEF StartJob, DropJob, JobPanics, Running
<1>2. CASE LLMReturns(j) \/ LLMFails(j) \/ SaveFails(j)
  BY <1>2 DEF LLMReturns, LLMFails, SaveFails
<1>3. CASE SaveSucceeds(j) \/ SaveAckLost(j)
  BY <1>3 DEF SaveSucceeds, SaveAckLost, Commits
<1>4. CASE MarkFailed(j) \/ Reschedule(j)
  BY <1>4 DEF MarkFailed, AfterFailure, Reschedule
<1>5. QED
  BY <1>1, <1>2, <1>3, <1>4 DEF JobStep

(* A commit stores the newest claim, and it had not been stored before.    *)
LEMMA CommitAdvances ==
  ASSUME TypeOK, Fenced, NEW j \in Jobs, Commits(j)
  PROVE  /\ job[j].startedAt = note[NoteOf(j)].startedAt
         /\ note[NoteOf(j)].status = "processing"
         /\ stored[NoteOf(j)] < job[j].startedAt
         /\ note'[NoteOf(j)].status = "processed"
         /\ stored'[NoteOf(j)] = job[j].startedAt
         /\ \A n \in Notes : note'[n].startedAt = note[n].startedAt
         /\ \A n \in Notes \ {NoteOf(j)} : note'[n] = note[n] /\ stored'[n] = stored[n]
<1>1. NoteOf(j) \in Notes
  BY JobParts
<1>2. /\ job[j].startedAt = note[NoteOf(j)].startedAt
      /\ note[NoteOf(j)].status = "processing"
      /\ stored[NoteOf(j)] < job[j].startedAt
  BY <1>1 DEF Commits, HoldsClaim, NoteIsProcessing, ClaimIsCurrent, Fenced,
              ResultsNotAhead
<1>3. /\ note'[NoteOf(j)].status = "processed"
      /\ \A n \in Notes : note'[n].startedAt = note[n].startedAt
      /\ \A n \in Notes \ {NoteOf(j)} : note'[n] = note[n]
  BY <1>1 DEF Commits, TypeOK, Row
<1>4. /\ stored'[NoteOf(j)] = job[j].startedAt
      /\ \A n \in Notes \ {NoteOf(j)} : stored'[n] = stored[n]
  BY <1>1 DEF Commits, TypeOK
<1>5. QED
  BY <1>2, <1>3, <1>4

LEMMA NextFenced ==
  ASSUME TypeOK, Fenced, [Next]_vars
  PROVE  Fenced'
<1> USE DEF TypeOK, Fenced, JobsNotAhead, ResultsNotAhead, Idle
<1> USE JobParts
<1>1. ASSUME NEW n \in Notes, UserStep(n) PROVE Fenced'
  <2>1. CASE CreatePendingNote(n)
    BY <2>1 DEF CreatePendingNote, Row
  <2>2. CASE CompleteAction(n) \/ ReopenAction(n)
    BY <2>2 DEF CompleteAction, ReopenAction
  <2>3. ASSUME NEW i \in Instances, CreateAndClaimNote(i, n) PROVE Fenced'
    <3>1. /\ note'[n].status = "processing"
          /\ note'[n].startedAt = 1
          /\ \A m \in Notes \ {n} : note'[m] = note[m]
      BY <2>3 DEF CreateAndClaimNote, NoRow
    <3>2. \A k \in Jobs : \/ job'[k] = job[k]
                          \/ /\ NoteOf(k) = n
                             /\ job'[k].startedAt = 1
      <4>1. <<i, "now", n>> \in Jobs /\ NoteOf(<<i, "now", n>>) = n
        BY JobOfParts DEF Paths
      <4>2. QED
        BY <2>3, <4>1 DEF CreateAndClaimNote
    <3>3. JobsNotAhead'
      BY <2>3, <3>1, <3>2 DEF CreateAndClaimNote, JobState, Row
    <3>4. ResultsNotAhead'
      BY <2>3, <3>1 DEF CreateAndClaimNote, Row
    <3>5. QED
      BY <3>3, <3>4
  <2>4. QED
    BY <1>1, <2>1, <2>2, <2>3 DEF UserStep
<1>2. ASSUME NEW n \in Notes, ExplicitStep(n) PROVE Fenced'
  <2>1. PICK i \in Instances : ExplicitClaim(i, n) \/ ExplicitFallback(i, n)
    BY <1>2 DEF ExplicitStep
  <2>2. <<i, "explicit", n>> \in Jobs /\ NoteOf(<<i, "explicit", n>>) = n
    BY JobOfParts DEF Paths
  <2>3. CASE ExplicitClaim(i, n)
    <3>1. /\ note'[n].status = "processing"
          /\ note'[n].startedAt = note[n].startedAt + 1
          /\ \A m \in Notes \ {n} : note'[m] = note[m]
      BY <2>3 DEF ExplicitClaim, Row
    <3>2. \A k \in Jobs : \/ job'[k] = job[k]
                          \/ /\ NoteOf(k) = n
                             /\ job'[k].startedAt = note'[n].startedAt
      <4>1. CASE UNCHANGED job
        BY <4>1
      <4>2. CASE job' = [job EXCEPT ![<<i, "explicit", n>>] =
                                      [pc |-> "llm", startedAt |-> note'[n].startedAt,
                                       attempts |-> note'[n].attempts]]
        BY <2>2, <4>2
      <4>3. QED
        BY <2>3, <4>1, <4>2 DEF ExplicitClaim
    <3>3. JobsNotAhead'
      BY <3>1, <3>2 DEF JobState, Row
    <3>4. ResultsNotAhead'
      BY <2>3, <3>1 DEF ExplicitClaim, Row
    <3>5. QED
      BY <3>3, <3>4
  <2>4. CASE ExplicitFallback(i, n)
    <3>1. note' = note /\ stored' = stored
      BY <2>4 DEF ExplicitFallback
    <3>2. \A k \in Jobs : \/ job'[k] = job[k]
                          \/ /\ NoteOf(k) = n
                             /\ job'[k].startedAt = note[n].startedAt
      BY <2>2, <2>4 DEF ExplicitFallback
    <3>3. note[n].startedAt > 0
      BY <2>4 DEF ExplicitFallback, Row
    <3>4. JobsNotAhead'
      BY <3>1, <3>2, <3>3 DEF Row
    <3>5. QED
      BY <3>1, <3>4
  <2>5. QED
    BY <2>1, <2>3, <2>4
<1>3. ASSUME NEW n \in Notes, TimeStep(n) PROVE Fenced'
  BY <1>3 DEF TimeStep, GrowStale, BecomeDue, Row
<1>4. ASSUME NEW i \in Instances, Poll(i) PROVE Fenced'
  <2>1. PICK S \in SUBSET {n \in Notes : Claimable(n)} :
          /\ ClaimBatch(S)
          /\ \E returned \in {S, {}} :
               job' = [j \in Jobs |->
                        IF /\ InstanceOf(j) = i
                           /\ PathOf(j) = "worker"
                           /\ NoteOf(j) \in returned
                        THEN [pc |-> "queued",
                              startedAt |-> note'[NoteOf(j)].startedAt,
                              attempts |-> note'[NoteOf(j)].attempts]
                        ELSE job[j]]
    BY <1>4 DEF Poll
  <2>2. \A n \in S : /\ note'[n].status = "processing"
                     /\ note'[n].startedAt = note[n].startedAt + 1
    BY <2>1, ClaimedRowType DEF ClaimBatch
  <2>3. \A n \in Notes \ S : note'[n] = note[n]
    BY <2>1 DEF ClaimBatch
  <2>4. \A k \in Jobs : \/ job'[k] = job[k]
                        \/ /\ NoteOf(k) \in S
                           /\ job'[k].startedAt = note'[NoteOf(k)].startedAt
    BY <2>1
  <2>5. JobsNotAhead'
    BY <2>2, <2>3, <2>4 DEF JobState, Row
  <2>6. ResultsNotAhead'
    BY <1>4, <2>2, <2>3 DEF Poll, Row
  <2>7. QED
    BY <2>5, <2>6
<1>5. ASSUME NEW i \in Instances, ProcessStep(i) PROVE Fenced'
  BY <1>5 DEF ProcessStep, Terminate, Exit, Crash, Restart, KillJobs, NoJob,
              JobState, Row
<1>6. ASSUME NEW j \in Jobs, JobStep(j) PROVE Fenced'
  <2>1. \A k \in Jobs : \/ job'[k] = job[k]
                        \/ job'[k] = NoJob
                        \/ /\ ~Idle(k)
                           /\ job'[k].startedAt = job[k].startedAt
    BY <1>6, JobStepMoves DEF JobState
  <2>2. ASSUME \A n \in Notes : note'[n].startedAt = note[n].startedAt
        PROVE  JobsNotAhead'
    BY <2>1, <2>2 DEF NoJob, JobState, Row
  <2>3. CASE SaveSucceeds(j) \/ SaveAckLost(j)
    <3>1. Commits(j)
      BY <2>3 DEF SaveSucceeds, SaveAckLost
    <3>2. \A n \in Notes : note'[n].startedAt = note[n].startedAt
      BY <3>1, CommitAdvances
    <3>3. /\ note'[NoteOf(j)].status = "processed"
          /\ stored'[NoteOf(j)] = note'[NoteOf(j)].startedAt
          /\ \A n \in Notes \ {NoteOf(j)} : note'[n] = note[n] /\ stored'[n] = stored[n]
      BY <3>1, <3>2, CommitAdvances
    <3>4. ResultsNotAhead'
      <4> SUFFICES ASSUME NEW n \in Notes
                   PROVE  /\ note'[n].status = "absent" => note'[n].startedAt = 0
                          /\ stored'[n] <= note'[n].startedAt
                          /\ note'[n].status = "processing"
                               => stored'[n] < note'[n].startedAt
                          /\ note'[n].status = "processed"
                               => stored'[n] = note'[n].startedAt
        OBVIOUS
      <4>1. CASE n = NoteOf(j)
        BY <3>2, <3>3, <4>1 DEF Row
      <4>2. CASE n # NoteOf(j)
        BY <3>3, <4>2
      <4>3. QED
        BY <4>1, <4>2
    <3>5. QED
      BY <2>2, <3>2, <3>4
  <2>4. CASE MarkFailed(j) \/ Reschedule(j)
    <3>1. \A n \in Notes : /\ note'[n].startedAt = note[n].startedAt
                           /\ note'[n].status \in {note[n].status, "failed"}
      BY <2>4 DEF MarkFailed, Reschedule, Row
    <3>2. stored' = stored
      BY <2>4 DEF MarkFailed, Reschedule
    <3>3. ResultsNotAhead'
      BY <3>1, <3>2
    <3>4. QED
      BY <2>2, <3>1, <3>3
  <2>5. CASE UNCHANGED <<note, stored>>
    BY <2>2, <2>5
  <2>6. QED
    BY <1>6, <2>3, <2>4, <2>5
       DEF JobStep, StartJob, DropJob, JobPanics, LLMReturns, LLMFails, SaveFails
<1>7. CASE UNCHANGED vars
  BY <1>7 DEF vars
<1>8. QED
  BY <1>1, <1>2, <1>3, <1>4, <1>5, <1>6, <1>7 DEF Next

LEMMA FencedCorrect == Spec => [](TypeOK /\ Fenced)
BY InitType, InitFenced, NextType, NextFenced, PTL DEF Spec

(* A processed note and the records generated from it never come apart.    *)
THEOREM ResultMatches == Spec => []ResultMatchesStatus
<1>1. Fenced => ResultMatchesStatus
  BY DEF Fenced, ResultsNotAhead, ResultMatchesStatus
<1>2. QED
  BY <1>1, FencedCorrect, PTL

(* Only a commit writes stored, and it writes a newer claim.               *)
LEMMA StoredOnlyByCommit ==
  ASSUME TypeOK, [Next]_vars
  PROVE  \/ stored' = stored
         \/ \E j \in Jobs :
              /\ Commits(j)
              /\ stored' = [stored EXCEPT ![NoteOf(j)] = job[j].startedAt]
BY DEF Next, vars, UserStep, CreatePendingNote, CompleteAction, ReopenAction,
       CreateAndClaimNote, ExplicitStep, ExplicitClaim, ExplicitFallback, TimeStep,
       GrowStale, BecomeDue, Poll, ProcessStep, Terminate, Exit, Crash, Restart,
       JobStep, StartJob, DropJob, JobPanics, LLMReturns, LLMFails, SaveFails,
       SaveSucceeds, SaveAckLost, Commits, MarkFailed, Reschedule

(* A job that lost its claim never replaces a later claim's result, and no *)
(* claim stores twice, lost acknowledgements and explicit calls included.  *)
THEOREM NeverOverwrites == Spec => NeverOverwritten
<1>1. ASSUME TypeOK, Fenced, [Next]_vars
      PROVE  \A n \in Notes : stored'[n] # stored[n] => stored'[n] > stored[n]
  <2>1. CASE stored' = stored
    BY <2>1
  <2>2. ASSUME NEW j \in Jobs, Commits(j),
               stored' = [stored EXCEPT ![NoteOf(j)] = job[j].startedAt]
        PROVE  \A n \in Notes : stored'[n] # stored[n] => stored'[n] > stored[n]
    BY <1>1, <2>2, CommitAdvances, JobParts DEF TypeOK, JobState
  <2>3. QED
    BY <1>1, <2>1, <2>2, StoredOnlyByCommit
<1>2. QED
  BY <1>1, FencedCorrect, PTL DEF Spec, NeverOverwritten

-----------------------------------------------------------------------------
(* Layer 3: what the steps do to rows and jobs.                            *)

LEMMA CreatePendingEffect ==
  ASSUME TypeOK, NEW n \in Notes, CreatePendingNote(n)
  PROVE  /\ note[n].status = "absent"
         /\ note'[n] = [note[n] EXCEPT !.status = "pending"]
         /\ \A m \in Notes \ {n} : note'[m] = note[m]
         /\ UNCHANGED <<job, stored, action>>
BY DEF TypeOK, CreatePendingNote

LEMMA CreateAndClaimEffect ==
  ASSUME TypeOK, NEW i \in Instances, NEW n \in Notes, CreateAndClaimNote(i, n)
  PROVE  /\ note[n].status = "absent"
         /\ note'[n] = [status |-> "processing", startedAt |-> 1, attempts |-> 1,
                        nextAt |-> "null", age |-> "fresh"]
         /\ \A m \in Notes \ {n} : note'[m] = note[m]
         /\ \A k \in Jobs :
              \/ job'[k] = job[k]
              \/ /\ k = <<i, "now", n>>
                 /\ NoteOf(k) = n
                 /\ job'[k] = [pc |-> "llm", startedAt |-> 1, attempts |-> 1]
         /\ UNCHANGED <<stored, action>>
<1>1. <<i, "now", n>> \in Jobs /\ NoteOf(<<i, "now", n>>) = n
  BY JobOfParts DEF Paths
<1>2. note'[n] = [status |-> "processing", startedAt |-> 1, attempts |-> 1,
                  nextAt |-> "null", age |-> "fresh"]
  BY DEF TypeOK, CreateAndClaimNote, NoRow
<1>3. \A k \in Jobs :
        \/ job'[k] = job[k]
        \/ /\ k = <<i, "now", n>>
           /\ NoteOf(k) = n
           /\ job'[k] = [pc |-> "llm", startedAt |-> 1, attempts |-> 1]
  <2>1. CASE UNCHANGED job
    BY <2>1
  <2>2. CASE job' = [job EXCEPT ![<<i, "now", n>>] =
                                  [pc |-> "llm", startedAt |-> 1, attempts |-> 1]]
    BY <1>1, <2>2 DEF TypeOK
  <2>3. QED
    BY <2>1, <2>2 DEF CreateAndClaimNote
<1>4. QED
  BY <1>2, <1>3 DEF TypeOK, CreateAndClaimNote

LEMMA PollEffect ==
  ASSUME TypeOK, NEW i \in Instances, Poll(i)
  PROVE  \E S \in SUBSET Notes :
           /\ \A n \in S : /\ Claimable(n)
                           /\ note'[n] = ClaimedRow(note[n])
           /\ \A n \in Notes \ S : note'[n] = note[n]
           /\ \A k \in Jobs :
                \/ job'[k] = job[k]
                \/ /\ NoteOf(k) \in S
                   /\ k = <<i, "worker", NoteOf(k)>>
                   /\ job'[k] = [pc |-> "queued",
                                 startedAt |-> note'[NoteOf(k)].startedAt,
                                 attempts |-> note'[NoteOf(k)].attempts]
           /\ UNCHANGED <<stored, action>>
<1>1. PICK S \in SUBSET {n \in Notes : Claimable(n)} :
        /\ ClaimBatch(S)
        /\ \E returned \in {S, {}} :
             job' = [j \in Jobs |->
                      IF /\ InstanceOf(j) = i
                         /\ PathOf(j) = "worker"
                         /\ NoteOf(j) \in returned
                      THEN [pc |-> "queued",
                            startedAt |-> note'[NoteOf(j)].startedAt,
                            attempts |-> note'[NoteOf(j)].attempts]
                      ELSE job[j]]
  BY DEF Poll
<1>2. \A n \in S : Claimable(n) /\ note'[n] = ClaimedRow(note[n])
  BY <1>1 DEF ClaimBatch
<1>3. \A n \in Notes \ S : note'[n] = note[n]
  BY <1>1 DEF ClaimBatch
<1>4. \A k \in Jobs : /\ InstanceOf(k) = i
                      /\ PathOf(k) = "worker"
                      => k = <<i, "worker", NoteOf(k)>>
  BY DEF Jobs, InstanceOf, PathOf, NoteOf
<1>5. \A k \in Jobs :
        \/ job'[k] = job[k]
        \/ /\ NoteOf(k) \in S
           /\ k = <<i, "worker", NoteOf(k)>>
           /\ job'[k] = [pc |-> "queued",
                         startedAt |-> note'[NoteOf(k)].startedAt,
                         attempts |-> note'[NoteOf(k)].attempts]
  BY <1>1, <1>4
<1>6. S \in SUBSET Notes
  OBVIOUS
<1>7. UNCHANGED <<stored, action>>
  BY DEF Poll
<1>8. QED
  BY <1>2, <1>3, <1>5, <1>6, <1>7

(* A failure path changes at most the job's own note, and only while the   *)
(* job's claim is the current one.                                         *)
LEMMA FailureEffect ==
  ASSUME TypeOK, NEW j \in Jobs, MarkFailed(j) \/ Reschedule(j)
  PROVE  /\ \A n \in Notes :
              \/ note'[n] = note[n]
              \/ /\ n = NoteOf(j)
                 /\ ClaimIsCurrent(j)
                 /\ note'[n].status = "failed"
                 /\ note'[n].startedAt = note[n].startedAt
                 /\ note'[n].attempts = note[n].attempts
                 /\ \/ note'[n].nextAt = note[n].nextAt
                    \/ note'[n].nextAt = "null"
                    \/ job[j].attempts < MaxAttempts
         /\ UNCHANGED <<stored, action>>
<1> USE JobParts
<1>1. CASE MarkFailed(j)
  BY <1>1 DEF TypeOK, Row, MarkFailed, HoldsClaim
<1>2. CASE Reschedule(j)
  <2>1. CASE UNCHANGED note
    BY <1>2, <2>1 DEF Reschedule
  <2>2. CASE /\ ClaimIsCurrent(j)
             /\ note' = [note EXCEPT
                           ![NoteOf(j)].status = "failed",
                           ![NoteOf(j)].age = "fresh",
                           ![NoteOf(j)].nextAt =
                              IF job[j].attempts >= MaxAttempts THEN "null" ELSE "future"]
    <3>1. note'[NoteOf(j)] =
            [note[NoteOf(j)] EXCEPT
               !.status = "failed", !.age = "fresh",
               !.nextAt = IF job[j].attempts >= MaxAttempts THEN "null" ELSE "future"]
      BY <2>2 DEF TypeOK
    <3>2. job[j].attempts \in Nat /\ MaxAttempts \in Nat
      BY ConfigAssumption DEF TypeOK, JobState
    <3>3. \/ note'[NoteOf(j)].nextAt = "null"
          \/ job[j].attempts < MaxAttempts
      BY <3>1, <3>2 DEF TypeOK, Row
    <3>4. /\ note'[NoteOf(j)].status = "failed"
          /\ note'[NoteOf(j)].startedAt = note[NoteOf(j)].startedAt
          /\ note'[NoteOf(j)].attempts = note[NoteOf(j)].attempts
      BY <3>1 DEF TypeOK, Row
    <3>5. \A n \in Notes \ {NoteOf(j)} : note'[n] = note[n]
      BY <2>2 DEF TypeOK
    <3>6. QED
      BY <1>2, <2>2, <3>3, <3>4, <3>5 DEF Reschedule
  <2>3. QED
    BY <1>2, <2>1, <2>2 DEF Reschedule
<1>3. QED
  BY <1>1, <1>2

(* Time changes neither a status nor a count.                              *)
LEMMA TimeEffect ==
  ASSUME TypeOK, NEW n \in Notes, TimeStep(n)
  PROVE  /\ \A m \in Notes : /\ note'[m].status = note[m].status
                             /\ note'[m].startedAt = note[m].startedAt
                             /\ note'[m].attempts = note[m].attempts
                             /\ note'[m].nextAt = "null" <=> note[m].nextAt = "null"
         /\ UNCHANGED <<job, stored, action>>
BY DEF TypeOK, Row, TimeStep, GrowStale, BecomeDue

(* Stopping a process only ends jobs.                                      *)
LEMMA ProcessEffect ==
  ASSUME TypeOK, NEW i \in Instances, ProcessStep(i)
  PROVE  /\ \A k \in Jobs : job'[k] \in {job[k], NoJob}
         /\ UNCHANGED <<note, stored, action>>
BY DEF TypeOK, ProcessStep, Terminate, Exit, Crash, Restart, KillJobs

(* A job's step either leaves the tables alone, commits, or fails.         *)
LEMMA JobStepKinds ==
  ASSUME NEW j \in Jobs, JobStep(j)
  PROVE  \/ UNCHANGED <<note, stored, action>>
         \/ Commits(j) /\ (SaveSucceeds(j) \/ SaveAckLost(j))
         \/ MarkFailed(j) \/ Reschedule(j)
BY DEF JobStep, StartJob, DropJob, JobPanics, LLMReturns, LLMFails, SaveFails,
       SaveSucceeds, SaveAckLost

(* A commit changes the row it belongs to in its status, and no count.     *)
LEMMA CommitEffect ==
  ASSUME TypeOK, Fenced, NEW j \in Jobs, Commits(j)
  PROVE  /\ note[NoteOf(j)].status = "processing"
         /\ ClaimIsCurrent(j)
         /\ note'[NoteOf(j)].status = "processed"
         /\ \A n \in Notes : /\ note'[n].startedAt = note[n].startedAt
                             /\ note'[n].attempts = note[n].attempts
                             /\ note'[n].nextAt \in {note[n].nextAt, "null"}
         /\ \A n \in Notes \ {NoteOf(j)} : /\ note'[n] = note[n]
                                           /\ stored'[n] = stored[n]
                                           /\ action'[n] = action[n]
         /\ stored'[NoteOf(j)] = note[NoteOf(j)].startedAt
         /\ action'[NoteOf(j)] = "open"
<1>1. \A n \in Notes : /\ note'[n].attempts = note[n].attempts
                       /\ note'[n].nextAt \in {note[n].nextAt, "null"}
  BY JobParts DEF TypeOK, Row, Commits
<1>2. /\ \A n \in Notes \ {NoteOf(j)} : action'[n] = action[n]
      /\ action'[NoteOf(j)] = "open"
  BY JobParts DEF TypeOK, Commits
<1>3. ClaimIsCurrent(j)
  BY DEF Commits, HoldsClaim
<1>4. QED
  BY <1>1, <1>2, <1>3, CommitAdvances

(* A job's step changes no count, and no job's claim unless it ends it.    *)
LEMMA JobStepKeepsCounts ==
  ASSUME TypeOK, Fenced, NEW j \in Jobs, JobStep(j)
  PROVE  \A n \in Notes : /\ note'[n].attempts = note[n].attempts
                          /\ note'[n].startedAt = note[n].startedAt
<1>1. CASE UNCHANGED note
  BY <1>1
<1>2. CASE Commits(j)
  BY <1>2, CommitEffect
<1>3. CASE MarkFailed(j) \/ Reschedule(j)
  <2>1. \A n \in Notes :
          \/ note'[n] = note[n]
          \/ /\ note'[n].startedAt = note[n].startedAt
             /\ note'[n].attempts = note[n].attempts
    BY <1>3, FailureEffect
  <2>2. QED
    BY <2>1
<1>4. QED
  BY <1>1, <1>2, <1>3, JobStepKinds

LEMMA JobStepKeepsClaims ==
  ASSUME TypeOK, NEW j \in Jobs, JobStep(j)
  PROVE  \A k \in Jobs :
           \/ job'[k] = NoJob
           \/ /\ ~Idle(k)
              /\ job'[k].startedAt = job[k].startedAt
              /\ job'[k].attempts = job[k].attempts
           \/ job'[k] = job[k]
<1>1. \A k \in Jobs \ {j} : job'[k] = job[k]
  BY JobStepMoves
<1>2. ~Idle(j)
  BY JobStepMoves
<1>3. CASE job'[j] = NoJob
  BY <1>1, <1>3
<1>4. ASSUME NEW pc \in {"llm", "save", "markFailed", "reschedule"},
             job'[j] = [job[j] EXCEPT !.pc = pc]
      PROVE  /\ job'[j].startedAt = job[j].startedAt
             /\ job'[j].attempts = job[j].attempts
  BY <1>4 DEF TypeOK, JobState
<1>5. QED
  BY <1>1, <1>2, <1>3, <1>4, JobStepMoves

-----------------------------------------------------------------------------
(* Counted: an attempt is a claim.  It holds whatever the configuration.   *)

Counted ==
  /\ \A n \in Notes : note[n].attempts = note[n].startedAt
  /\ \A j \in Jobs : job[j].attempts = job[j].startedAt

LEMMA InitCounted == Init => Counted
BY DEF Init, Counted, NoRow, NoJob

LEMMA NextCounted ==
  ASSUME TypeOK, Fenced, Counted, [Next]_vars
  PROVE  Counted'
<1> USE DEF Counted
<1>1. ASSUME NEW n \in Notes, UserStep(n) PROVE Counted'
  <2>1. CASE CreatePendingNote(n)
    <3>1. /\ note'[n] = [note[n] EXCEPT !.status = "pending"]
          /\ \A m \in Notes \ {n} : note'[m] = note[m]
          /\ UNCHANGED job
      BY <2>1, CreatePendingEffect
    <3>2. note'[n].attempts = note[n].attempts /\ note'[n].startedAt = note[n].startedAt
      BY <3>1 DEF TypeOK, Row
    <3>3. QED
      BY <3>1, <3>2
  <2>2. CASE CompleteAction(n) \/ ReopenAction(n)
    BY <2>2 DEF CompleteAction, ReopenAction
  <2>3. ASSUME NEW i \in Instances, CreateAndClaimNote(i, n) PROVE Counted'
    <3>1. note'[n].attempts = 1 /\ note'[n].startedAt = 1
      BY <2>3, CreateAndClaimEffect
    <3>5. /\ \A m \in Notes \ {n} : note'[m] = note[m]
          /\ \A k \in Jobs :
               \/ job'[k] = job[k]
               \/ job'[k] = [pc |-> "llm", startedAt |-> 1, attempts |-> 1]
      BY <2>3, CreateAndClaimEffect
    <3>2. \A m \in Notes : note'[m].attempts = note'[m].startedAt
      BY <3>1, <3>5
    <3>3. \A k \in Jobs : job'[k].attempts = job'[k].startedAt
      BY <3>5
    <3>4. QED
      BY <3>2, <3>3
  <2>4. QED
    BY <1>1, <2>1, <2>2, <2>3 DEF UserStep
<1>2. ASSUME NEW n \in Notes, ExplicitStep(n) PROVE Counted'
  <2>1. PICK i \in Instances : ExplicitClaim(i, n) \/ ExplicitFallback(i, n)
    BY <1>2 DEF ExplicitStep
  <2>2. <<i, "explicit", n>> \in Jobs
    BY JobOfParts DEF Paths
  <2>3. \A m \in Notes : note'[m].attempts = note'[m].startedAt
    BY <2>1 DEF TypeOK, Row, ExplicitClaim, ExplicitFallback
  <2>4. \/ job' = job
        \/ job' = [job EXCEPT ![<<i, "explicit", n>>] =
                                [pc |-> "llm", startedAt |-> note'[n].startedAt,
                                 attempts |-> note'[n].attempts]]
    BY <2>1 DEF ExplicitClaim, ExplicitFallback
  <2>5. \A k \in Jobs :
          \/ job'[k] = job[k]
          \/ job'[k] = [pc |-> "llm", startedAt |-> note'[n].startedAt,
                        attempts |-> note'[n].attempts]
    <3>1. CASE job' = job
      BY <3>1
    <3>2. CASE job' = [job EXCEPT ![<<i, "explicit", n>>] =
                                    [pc |-> "llm", startedAt |-> note'[n].startedAt,
                                     attempts |-> note'[n].attempts]]
      BY <2>2, <3>2 DEF TypeOK
    <3>3. QED
      BY <2>4, <3>1, <3>2
  <2>6. \A k \in Jobs : job'[k].attempts = job'[k].startedAt
    BY <2>3, <2>5
  <2>7. QED
    BY <2>3, <2>6
<1>3. ASSUME NEW n \in Notes, TimeStep(n) PROVE Counted'
  BY <1>3, TimeEffect
<1>4. ASSUME NEW i \in Instances, Poll(i) PROVE Counted'
  <2>1. PICK S \in SUBSET Notes :
          /\ \A n \in S : note'[n] = ClaimedRow(note[n])
          /\ \A n \in Notes \ S : note'[n] = note[n]
          /\ \A k \in Jobs :
               \/ job'[k] = job[k]
               \/ job'[k] = [pc |-> "queued",
                             startedAt |-> note'[NoteOf(k)].startedAt,
                             attempts |-> note'[NoteOf(k)].attempts]
    BY <1>4, PollEffect
  <2>2. \A m \in Notes : note'[m].attempts = note'[m].startedAt
    BY <2>1, ClaimedRowType DEF TypeOK
  <2>3. ASSUME NEW k \in Jobs PROVE job'[k].attempts = job'[k].startedAt
    <3>1. NoteOf(k) \in Notes
      BY JobParts
    <3>2. CASE job'[k] = job[k]
      BY <3>2
    <3>3. CASE job'[k] = [pc |-> "queued",
                          startedAt |-> note'[NoteOf(k)].startedAt,
                          attempts |-> note'[NoteOf(k)].attempts]
      BY <2>2, <3>1, <3>3
    <3>4. QED
      BY <2>1, <3>2, <3>3
  <2>4. QED
    BY <2>2, <2>3
<1>5. ASSUME NEW i \in Instances, ProcessStep(i) PROVE Counted'
  BY <1>5, ProcessEffect DEF NoJob
<1>6. ASSUME NEW j \in Jobs, JobStep(j) PROVE Counted'
  <2>1. \A k \in Jobs :
          \/ job'[k] = NoJob
          \/ /\ job'[k].attempts = job[k].attempts
             /\ job'[k].startedAt = job[k].startedAt
    BY <1>6, JobStepKeepsClaims
  <2>2. \A k \in Jobs : job'[k].attempts = job'[k].startedAt
    BY <2>1 DEF NoJob
  <2>3. \A n \in Notes : /\ note'[n].attempts = note[n].attempts
                         /\ note'[n].startedAt = note[n].startedAt
    BY <1>6, JobStepKeepsCounts
  <2>4. QED
    BY <2>2, <2>3
<1>7. CASE UNCHANGED vars
  BY <1>7 DEF vars
<1>8. QED
  BY <1>1, <1>2, <1>3, <1>4, <1>5, <1>6, <1>7 DEF Next

LEMMA CountedCorrect == Spec => [](TypeOK /\ Fenced /\ Counted)
<1>1. Init => TypeOK /\ Fenced /\ Counted
  BY InitType, InitFenced, InitCounted
<1>2. TypeOK /\ Fenced /\ Counted /\ [Next]_vars => (TypeOK /\ Fenced /\ Counted)'
  BY NextType, NextFenced, NextCounted
<1>3. QED
  BY <1>1, <1>2, PTL DEF Spec

(* Without explicit calls, only the cap-respecting claims of the workers   *)
(* and the first claim of /now count an attempt.                           *)
LEMMA NextCapped ==
  ASSUME ~ExplicitCalls, TypeOK, Fenced, Counted, AttemptsBounded, [Next]_vars
  PROVE  AttemptsBounded'
<1> SUFFICES ASSUME NEW m \in Notes
             PROVE  /\ note'[m].attempts <= MaxAttempts
                    /\ note'[m].attempts = MaxAttempts => note'[m].nextAt = "null"
  BY DEF AttemptsBounded
<1>0. /\ note[m].attempts \in Nat /\ MaxAttempts \in Nat \ {0}
      /\ note[m].attempts <= MaxAttempts
      /\ note[m].attempts = MaxAttempts => note[m].nextAt = "null"
  BY ConfigAssumption DEF TypeOK, Row, AttemptsBounded
<1>1. ASSUME NEW n \in Notes, UserStep(n)
      PROVE  \/ note'[m].attempts = note[m].attempts /\ note'[m].nextAt = note[m].nextAt
             \/ note'[m].attempts = 1 /\ note'[m].nextAt = "null"
  <2>1. CASE CreatePendingNote(n)
    <3>1. /\ note'[n] = [note[n] EXCEPT !.status = "pending"]
          /\ \A k \in Notes \ {n} : note'[k] = note[k]
      BY <2>1, CreatePendingEffect
    <3>2. QED
      BY <3>1 DEF TypeOK, Row
  <2>2. CASE CompleteAction(n) \/ ReopenAction(n)
    BY <2>2 DEF CompleteAction, ReopenAction
  <2>3. ASSUME NEW i \in Instances, CreateAndClaimNote(i, n)
        PROVE  \/ note'[m] = note[m]
               \/ note'[m].attempts = 1 /\ note'[m].nextAt = "null"
    <3>1. /\ note'[n] = [status |-> "processing", startedAt |-> 1, attempts |-> 1,
                         nextAt |-> "null", age |-> "fresh"]
          /\ \A k \in Notes \ {n} : note'[k] = note[k]
      BY <2>3, CreateAndClaimEffect
    <3>2. QED
      BY <3>1
  <2>4. QED
    BY <1>1, <2>1, <2>2, <2>3 DEF UserStep
<1>2. ASSUME NEW n \in Notes, TimeStep(n)
      PROVE  /\ note'[m].attempts = note[m].attempts
             /\ note'[m].nextAt = "null" <=> note[m].nextAt = "null"
  BY <1>2, TimeEffect
<1>3. ASSUME NEW i \in Instances, Poll(i)
      PROVE  \/ note'[m] = note[m]
             \/ /\ note[m].attempts < MaxAttempts
                /\ note'[m].attempts = note[m].attempts + 1
                /\ note'[m].nextAt = "null"
  <2>1. PICK S \in SUBSET Notes :
          /\ \A n \in S : Claimable(n) /\ note'[n] = ClaimedRow(note[n])
          /\ \A n \in Notes \ S : note'[n] = note[n]
    BY <1>3, PollEffect
  <2>2. CASE m \in S
    <3>1. Claimable(m) /\ note'[m] = ClaimedRow(note[m])
      BY <2>1, <2>2
    <3>2. note[m] \in Row
      BY DEF TypeOK
    <3>3. QED
      BY <3>1, <3>2, ClaimedRowType DEF Claimable
  <2>3. CASE m \notin S
    BY <2>1, <2>3
  <2>4. QED
    BY <2>2, <2>3
<1>4. ASSUME NEW i \in Instances, ProcessStep(i) PROVE note'[m] = note[m]
  BY <1>4, ProcessEffect
<1>5. ASSUME NEW j \in Jobs, JobStep(j)
      PROVE  /\ note'[m].attempts = note[m].attempts
             /\ \/ note'[m].nextAt = note[m].nextAt
                \/ note'[m].nextAt = "null"
                \/ note[m].attempts < MaxAttempts
  <2>1. CASE UNCHANGED note
    BY <2>1
  <2>2. CASE Commits(j)
    BY <2>2, CommitEffect
  <2>3. CASE MarkFailed(j) \/ Reschedule(j)
    <3>1. \/ note'[m] = note[m]
          \/ /\ m = NoteOf(j)
             /\ ClaimIsCurrent(j)
             /\ note'[m].attempts = note[m].attempts
             /\ \/ note'[m].nextAt = note[m].nextAt
                \/ note'[m].nextAt = "null"
                \/ job[j].attempts < MaxAttempts
      BY <2>3, FailureEffect
    <3>2. m = NoteOf(j) /\ ClaimIsCurrent(j) => job[j].attempts = note[m].attempts
      BY DEF ClaimIsCurrent, Counted
    <3>3. QED
      BY <3>1, <3>2
  <2>4. QED
    BY <1>5, <2>1, <2>2, <2>3, JobStepKinds
<1>6. CASE UNCHANGED vars
  BY <1>0, <1>6 DEF vars
<1>7. ~ \E n \in Notes : ExplicitStep(n)
  BY DEF ExplicitStep, ExplicitClaim, ExplicitFallback, CallsExplicitly
<1>8. QED
  BY <1>0, <1>1, <1>2, <1>3, <1>4, <1>5, <1>6, <1>7 DEF Next

(* A note that nobody enriches by hand is claimed at most MaxAttempts      *)
(* times, and is not scheduled again once it has used them up.             *)
THEOREM AttemptsCapped ==
  ASSUME ~ExplicitCalls
  PROVE  Spec => []AttemptsBounded
<1>1. Init => AttemptsBounded
  BY ConfigAssumption DEF Init, AttemptsBounded, NoRow
<1>2. TypeOK /\ Fenced /\ Counted /\ AttemptsBounded /\ [Next]_vars => AttemptsBounded'
  BY NextCapped
<1>3. QED
  BY <1>1, <1>2, CountedCorrect, PTL DEF Spec

-----------------------------------------------------------------------------
(* Owned: without explicit calls a claim has one job.                      *)

(* Steps that make no claim make no owner.                                 *)
LEMMA ClaimsKept ==
  ASSUME OneOwner,
         \A n \in Notes : note'[n].startedAt = note[n].startedAt,
         \A k \in Jobs :
            \/ job'[k] = NoJob
            \/ ~Idle(k) /\ job'[k].startedAt = job[k].startedAt
            \/ job'[k] = job[k]
  PROVE  OneOwner'
<1> SUFFICES ASSUME NEW j \in Jobs, NEW k \in Jobs,
                    NoteOf(j) = NoteOf(k),
                    (~Idle(j))', ClaimIsCurrent(j)',
                    (~Idle(k))', ClaimIsCurrent(k)'
             PROVE  j = k
  BY DEF OneOwner
<1>1. ~Idle(j) /\ ClaimIsCurrent(j)
  <2>1. NoteOf(j) \in Notes
    BY JobParts
  <2>2. job'[j] # NoJob
    BY DEF Idle, NoJob
  <2>3. QED
    BY <2>1, <2>2 DEF Idle, ClaimIsCurrent
<1>2. ~Idle(k) /\ ClaimIsCurrent(k)
  <2>1. NoteOf(k) \in Notes
    BY JobParts
  <2>2. job'[k] # NoJob
    BY DEF Idle, NoJob
  <2>3. QED
    BY <2>1, <2>2 DEF Idle, ClaimIsCurrent
<1>3. QED
  BY <1>1, <1>2 DEF OneOwner

(* Steps that claim leave the jobs of earlier claims behind.               *)
LEMMA ClaimsMade ==
  ASSUME TypeOK, Fenced, OneOwner, NEW i \in Instances, NEW p \in Paths,
         NEW S \in SUBSET Notes,
         \A n \in S : note'[n].startedAt = note[n].startedAt + 1,
         \A n \in Notes \ S : note'[n].startedAt = note[n].startedAt,
         \A k \in Jobs :
            \/ job'[k] = job[k]
            \/ NoteOf(k) \in S /\ k = <<i, p, NoteOf(k)>>
  PROVE  OneOwner'
<1> SUFFICES ASSUME NEW j \in Jobs, NEW k \in Jobs,
                    NoteOf(j) = NoteOf(k),
                    (~Idle(j))', ClaimIsCurrent(j)',
                    (~Idle(k))', ClaimIsCurrent(k)'
             PROVE  j = k
  BY DEF OneOwner
<1>1. NoteOf(j) \in Notes
  BY JobParts
<1>2. CASE NoteOf(j) \in S
  <2>1. ASSUME NEW h \in Jobs, NoteOf(h) = NoteOf(j), ClaimIsCurrent(h)'
        PROVE  h = <<i, p, NoteOf(j)>>
    <3>1. /\ job[h].startedAt \in Nat
          /\ note[NoteOf(j)].startedAt \in Nat
          /\ job[h].startedAt <= note[NoteOf(j)].startedAt
      BY <1>1, <2>1 DEF TypeOK, JobState, Row, Fenced, JobsNotAhead
    <3>2. job'[h].startedAt = note[NoteOf(j)].startedAt + 1
      BY <1>2, <2>1 DEF ClaimIsCurrent
    <3>3. job'[h] # job[h]
      BY <3>1, <3>2
    <3>4. QED
      BY <2>1, <3>3
  <2>2. QED
    BY <2>1
<1>3. CASE NoteOf(j) \notin S
  <2>1. /\ note'[NoteOf(j)].startedAt = note[NoteOf(j)].startedAt
        /\ job'[j] = job[j]
        /\ job'[k] = job[k]
    BY <1>1, <1>3
  <2>2. /\ ~Idle(j) /\ ClaimIsCurrent(j)
        /\ ~Idle(k) /\ ClaimIsCurrent(k)
    BY <2>1 DEF Idle, ClaimIsCurrent
  <2>3. QED
    BY <2>2 DEF OneOwner
<1>4. QED
  BY <1>2, <1>3

LEMMA NextOneOwner ==
  ASSUME ~ExplicitCalls, TypeOK, Fenced, OneOwner, [Next]_vars
  PROVE  OneOwner'
<1>1. ASSUME NEW n \in Notes, UserStep(n) PROVE OneOwner'
  <2>1. CASE CreatePendingNote(n)
    <3>1. /\ note'[n] = [note[n] EXCEPT !.status = "pending"]
          /\ \A m \in Notes \ {n} : note'[m] = note[m]
          /\ job' = job
      BY <2>1, CreatePendingEffect
    <3>2. \A m \in Notes : note'[m].startedAt = note[m].startedAt
      BY <3>1 DEF TypeOK, Row
    <3>3. QED
      BY <3>1, <3>2, ClaimsKept
  <2>2. CASE CompleteAction(n) \/ ReopenAction(n)
    BY <2>2 DEF CompleteAction, ReopenAction, OneOwner, Idle, ClaimIsCurrent
  <2>3. ASSUME NEW i \in Instances, CreateAndClaimNote(i, n) PROVE OneOwner'
    <3>1. /\ note[n].status = "absent"
          /\ note'[n].startedAt = 1
          /\ \A m \in Notes \ {n} : note'[m] = note[m]
          /\ \A k \in Jobs : \/ job'[k] = job[k]
                             \/ k = <<i, "now", n>> /\ NoteOf(k) = n
      BY <2>3, CreateAndClaimEffect
    <3>2. note[n].startedAt = 0
      BY <3>1 DEF Fenced, ResultsNotAhead
    <3>3. \A m \in {n} : note'[m].startedAt = note[m].startedAt + 1
      BY <3>1, <3>2
    <3>4. /\ "now" \in Paths
          /\ {n} \in SUBSET Notes
          /\ \A m \in Notes \ {n} : note'[m].startedAt = note[m].startedAt
          /\ \A k \in Jobs : \/ job'[k] = job[k]
                             \/ NoteOf(k) \in {n} /\ k = <<i, "now", NoteOf(k)>>
      BY <3>1 DEF Paths
    <3>5. QED
      BY <3>3, <3>4, ClaimsMade
  <2>4. QED
    BY <1>1, <2>1, <2>2, <2>3 DEF UserStep
<1>2. ASSUME NEW n \in Notes, TimeStep(n) PROVE OneOwner'
  BY <1>2, TimeEffect, ClaimsKept
<1>3. ASSUME NEW i \in Instances, Poll(i) PROVE OneOwner'
  <2>1. PICK S \in SUBSET Notes :
          /\ \A n \in S : note'[n] = ClaimedRow(note[n])
          /\ \A n \in Notes \ S : note'[n] = note[n]
          /\ \A k \in Jobs : \/ job'[k] = job[k]
                             \/ NoteOf(k) \in S /\ k = <<i, "worker", NoteOf(k)>>
    BY <1>3, PollEffect
  <2>2. \A n \in S : note'[n].startedAt = note[n].startedAt + 1
    BY <2>1, ClaimedRowType DEF TypeOK
  <2>3. \A n \in Notes \ S : note'[n].startedAt = note[n].startedAt
    BY <2>1
  <2>4. "worker" \in Paths
    BY DEF Paths
  <2>5. QED
    BY <2>1, <2>2, <2>3, <2>4, ClaimsMade
<1>4. ASSUME NEW i \in Instances, ProcessStep(i) PROVE OneOwner'
  <2>1. note' = note /\ \A k \in Jobs : job'[k] \in {job[k], NoJob}
    BY <1>4, ProcessEffect
  <2>2. QED
    BY <2>1, ClaimsKept
<1>5. ASSUME NEW j \in Jobs, JobStep(j) PROVE OneOwner'
  <2>1. \A n \in Notes : note'[n].startedAt = note[n].startedAt
    BY <1>5, JobStepKeepsCounts
  <2>2. \A k \in Jobs :
          \/ job'[k] = NoJob
          \/ ~Idle(k) /\ job'[k].startedAt = job[k].startedAt
          \/ job'[k] = job[k]
    BY <1>5, JobStepKeepsClaims
  <2>3. QED
    BY <2>1, <2>2, ClaimsKept
<1>6. CASE UNCHANGED vars
  BY <1>6 DEF vars, OneOwner, Idle, ClaimIsCurrent
<1>7. ~ \E n \in Notes : ExplicitStep(n)
  BY DEF ExplicitStep, ExplicitClaim, ExplicitFallback, CallsExplicitly
<1>8. QED
  BY <1>1, <1>2, <1>3, <1>4, <1>5, <1>6, <1>7 DEF Next

LEMMA InitOneOwner == Init => OneOwner
BY DEF Init, OneOwner, Idle, NoJob

(* However many instances poll and crash, and however often commits lose   *)
(* their acknowledgement, the workers and /now never run two jobs under    *)
(* one claim.                                                              *)
THEOREM SingleOwner ==
  ASSUME ~ExplicitCalls
  PROVE  Spec => []OneOwner
<1>1. TypeOK /\ Fenced /\ OneOwner /\ [Next]_vars => OneOwner'
  BY NextOneOwner
<1>2. QED
  BY <1>1, InitOneOwner, FencedCorrect, PTL DEF Spec

-----------------------------------------------------------------------------
(* Settled: nobody holds the claim of a processed note, and only processed *)
(* notes have actions.  A lost acknowledgement breaks the first part: the  *)
(* job goes on to MarkFailed and Reschedule with the claim it committed.   *)

Settled ==
  /\ \A j \in Jobs : ~Idle(j) /\ ClaimIsCurrent(j)
                     => note[NoteOf(j)].status # "processed"
  /\ \A n \in Notes : action[n] # "none" => note[n].status = "processed"

LEMMA InitSettled == Init => Settled
BY DEF Init, Settled, Idle, NoJob

LEMMA NoExplicitStep ==
  ASSUME ~ExplicitCalls
  PROVE  ~ \E n \in Notes : ExplicitStep(n)
BY DEF ExplicitStep, ExplicitClaim, ExplicitFallback, CallsExplicitly

LEMMA ProcessedUntouched ==
  ASSUME ~ExplicitCalls, TypeOK, Fenced, Settled, [Next]_vars,
         NEW m \in Notes, note[m].status = "processed"
  PROVE  /\ note'[m].status = "processed"
         /\ stored'[m] = stored[m]
<1>1. ASSUME NEW n \in Notes, UserStep(n)
      PROVE  note'[m] = note[m] /\ stored' = stored
  <2>1. CASE CreatePendingNote(n)
    BY <2>1, CreatePendingEffect
  <2>2. CASE CompleteAction(n) \/ ReopenAction(n)
    BY <2>2 DEF CompleteAction, ReopenAction
  <2>3. ASSUME NEW i \in Instances, CreateAndClaimNote(i, n)
        PROVE  note'[m] = note[m] /\ stored' = stored
    BY <2>3, CreateAndClaimEffect
  <2>4. QED
    BY <1>1, <2>1, <2>2, <2>3 DEF UserStep
<1>2. ASSUME NEW n \in Notes, TimeStep(n)
      PROVE  note'[m].status = note[m].status /\ stored' = stored
  BY <1>2, TimeEffect
<1>3. ASSUME NEW i \in Instances, Poll(i)
      PROVE  note'[m] = note[m] /\ stored' = stored
  <2>1. PICK S \in SUBSET Notes :
          /\ \A n \in S : Claimable(n)
          /\ \A n \in Notes \ S : note'[n] = note[n]
          /\ UNCHANGED stored
    BY <1>3, PollEffect
  <2>2. ~Claimable(m)
    BY DEF Claimable, WaitsForWorker, ClaimIsStale
  <2>3. QED
    BY <2>1, <2>2
<1>4. ASSUME NEW i \in Instances, ProcessStep(i)
      PROVE  note' = note /\ stored' = stored
  BY <1>4, ProcessEffect
<1>5. ASSUME NEW j \in Jobs, JobStep(j)
      PROVE  note'[m] = note[m] /\ stored'[m] = stored[m]
  <2>1. CASE UNCHANGED <<note, stored>>
    BY <2>1
  <2>2. CASE Commits(j)
    BY <2>2, CommitEffect
  <2>3. CASE MarkFailed(j) \/ Reschedule(j)
    <3>1. ~Idle(j)
      BY <1>5, JobStepMoves
    <3>2. ~ (m = NoteOf(j) /\ ClaimIsCurrent(j))
      BY <3>1 DEF Settled
    <3>3. QED
      BY <2>3, <3>2, FailureEffect
  <2>4. QED
    BY <1>5, <2>1, <2>2, <2>3, JobStepKinds
<1>6. CASE UNCHANGED vars
  BY <1>6 DEF vars
<1>7. QED
  BY <1>1, <1>2, <1>3, <1>4, <1>5, <1>6, NoExplicitStep DEF Next

LEMMA OwnerWasOwner ==
  ASSUME NEW k \in Jobs,
         note'[NoteOf(k)].startedAt = note[NoteOf(k)].startedAt,
         \/ job'[k] = NoJob
         \/ ~Idle(k) /\ job'[k].startedAt = job[k].startedAt
         \/ job'[k] = job[k],
         (~Idle(k))', ClaimIsCurrent(k)'
  PROVE  ~Idle(k) /\ ClaimIsCurrent(k)
<1>1. job'[k] # NoJob
  BY DEF Idle, NoJob
<1>2. QED
  BY <1>1 DEF Idle, ClaimIsCurrent

(* Who holds a claim after a step does not see the note processed.         *)
LEMMA OwnersUnsettled ==
  ASSUME ~ExplicitCalls, ~LostAcks, TypeOK, Fenced, OneOwner, Settled, [Next]_vars,
         NEW k \in Jobs, (~Idle(k))', ClaimIsCurrent(k)'
  PROVE  note'[NoteOf(k)].status # "processed"
<1> DEFINE m == NoteOf(k)
<1>0. m \in Notes
  BY JobParts
<1>1. ASSUME NEW n \in Notes, UserStep(n) PROVE note'[m].status # "processed"
  <2>1. CASE CreatePendingNote(n)
    <3>1. /\ note'[n] = [note[n] EXCEPT !.status = "pending"]
          /\ \A h \in Notes \ {n} : note'[h] = note[h]
          /\ job' = job
      BY <2>1, CreatePendingEffect
    <3>2. note'[m].startedAt = note[m].startedAt
      BY <1>0, <3>1 DEF TypeOK, Row
    <3>3. ~Idle(k) /\ ClaimIsCurrent(k)
      BY <3>1, <3>2, OwnerWasOwner
    <3>4. note'[n].status = "pending"
      BY <3>1 DEF TypeOK, Row
    <3>5. QED
      BY <1>0, <3>1, <3>3, <3>4 DEF Settled
  <2>2. CASE CompleteAction(n) \/ ReopenAction(n)
    <3>1. note' = note /\ job' = job
      BY <2>2 DEF CompleteAction, ReopenAction
    <3>2. QED
      BY <3>1, OwnerWasOwner DEF Settled
  <2>3. ASSUME NEW i \in Instances, CreateAndClaimNote(i, n)
        PROVE  note'[m].status # "processed"
    <3>1. /\ note'[n].status = "processing"
          /\ \A h \in Notes \ {n} : note'[h] = note[h]
          /\ job'[k] = job[k] \/ m = n
      BY <2>3, CreateAndClaimEffect
    <3>2. CASE m = n
      BY <3>1, <3>2
    <3>3. CASE m # n
      BY <1>0, <3>1, <3>3, OwnerWasOwner DEF Settled
    <3>4. QED
      BY <3>2, <3>3
  <2>4. QED
    BY <1>1, <2>1, <2>2, <2>3 DEF UserStep
<1>2. ASSUME NEW n \in Notes, TimeStep(n) PROVE note'[m].status # "processed"
  <2>1. /\ note'[m].status = note[m].status
        /\ note'[m].startedAt = note[m].startedAt
        /\ job' = job
    BY <1>0, <1>2, TimeEffect
  <2>2. QED
    BY <2>1, OwnerWasOwner DEF Settled
<1>3. ASSUME NEW i \in Instances, Poll(i) PROVE note'[m].status # "processed"
  <2>1. PICK S \in SUBSET Notes :
          /\ \A n \in S : note'[n] = ClaimedRow(note[n])
          /\ \A n \in Notes \ S : note'[n] = note[n]
          /\ job'[k] = job[k] \/ m \in S
    BY <1>3, PollEffect
  <2>2. CASE m \in S
    <3>1. note'[m] = ClaimedRow(note[m]) /\ note[m] \in Row
      BY <1>0, <2>1, <2>2 DEF TypeOK
    <3>2. QED
      BY <3>1, ClaimedRowType
  <2>3. CASE m \notin S
    BY <1>0, <2>1, <2>3, OwnerWasOwner DEF Settled
  <2>4. QED
    BY <2>2, <2>3
<1>4. ASSUME NEW i \in Instances, ProcessStep(i) PROVE note'[m].status # "processed"
  <2>1. note' = note /\ job'[k] \in {job[k], NoJob}
    BY <1>4, ProcessEffect
  <2>2. QED
    BY <2>1, OwnerWasOwner DEF Settled
<1>5. ASSUME NEW j \in Jobs, JobStep(j) PROVE note'[m].status # "processed"
  <2>1. ~Idle(k) /\ ClaimIsCurrent(k)
    BY <1>0, <1>5, JobStepKeepsCounts, JobStepKeepsClaims, OwnerWasOwner
  <2>2. CASE UNCHANGED note
    BY <2>1, <2>2 DEF Settled
  <2>3. CASE Commits(j) /\ (SaveSucceeds(j) \/ SaveAckLost(j))
    <3>1. job'[j] = NoJob
      BY <2>3 DEF SaveSucceeds, SaveAckLost, Ends, TypeOK
    <3>2. k # j
      BY <3>1 DEF Idle, NoJob
    <3>3. ~Idle(j) /\ ClaimIsCurrent(j)
      BY <1>5, <2>3, JobStepMoves, CommitEffect
    <3>4. m # NoteOf(j)
      BY <2>1, <3>2, <3>3 DEF OneOwner
    <3>5. note'[m] = note[m]
      BY <1>0, <2>3, <3>4, CommitEffect
    <3>6. QED
      BY <2>1, <3>5 DEF Settled
  <2>4. CASE MarkFailed(j) \/ Reschedule(j)
    <3>1. note'[m] = note[m] \/ note'[m].status = "failed"
      BY <1>0, <2>4, FailureEffect
    <3>2. QED
      BY <2>1, <3>1 DEF Settled
  <2>5. QED
    BY <1>5, <2>2, <2>3, <2>4, JobStepKinds
<1>6. CASE UNCHANGED vars
  BY <1>6, OwnerWasOwner DEF vars, Settled
<1>7. QED
  BY <1>1, <1>2, <1>3, <1>4, <1>5, <1>6, NoExplicitStep DEF Next

(* Actions appear only with a commit.                                      *)
LEMMA ActionsOnlyByCommit ==
  ASSUME ~ExplicitCalls, TypeOK, Fenced, [Next]_vars, NEW m \in Notes
  PROVE  \/ action'[m] = "none"
         \/ action[m] # "none"
         \/ note'[m].status = "processed"
<1>1. ASSUME NEW n \in Notes, UserStep(n)
      PROVE  action'[m] = action[m] \/ action[m] # "none"
  BY <1>1 DEF UserStep, CreatePendingNote, CreateAndClaimNote, CompleteAction,
              ReopenAction, TypeOK
<1>2. ASSUME NEW n \in Notes, TimeStep(n) PROVE action' = action
  BY <1>2, TimeEffect
<1>3. ASSUME NEW i \in Instances, Poll(i) PROVE action' = action
  BY <1>3 DEF Poll
<1>4. ASSUME NEW i \in Instances, ProcessStep(i) PROVE action' = action
  BY <1>4, ProcessEffect
<1>5. ASSUME NEW j \in Jobs, JobStep(j)
      PROVE  action'[m] = action[m] \/ note'[m].status = "processed"
  <2>1. CASE UNCHANGED action
    BY <2>1
  <2>2. CASE Commits(j)
    BY <2>2, CommitEffect
  <2>3. CASE MarkFailed(j) \/ Reschedule(j)
    BY <2>3, FailureEffect
  <2>4. QED
    BY <1>5, <2>1, <2>2, <2>3, JobStepKinds
<1>6. CASE UNCHANGED vars
  BY <1>6 DEF vars
<1>7. QED
  BY <1>1, <1>2, <1>3, <1>4, <1>5, <1>6, NoExplicitStep DEF Next

LEMMA NextSettled ==
  ASSUME ~ExplicitCalls, ~LostAcks, TypeOK, Fenced, OneOwner, Settled, [Next]_vars
  PROVE  Settled'
<1>1. ASSUME NEW k \in Jobs, (~Idle(k))', ClaimIsCurrent(k)'
      PROVE  note'[NoteOf(k)].status # "processed"
  BY <1>1, OwnersUnsettled
<1>2. ASSUME NEW n \in Notes, action'[n] # "none"
      PROVE  note'[n].status = "processed"
  <2>1. CASE action[n] # "none"
    <3>1. note[n].status = "processed"
      BY <2>1 DEF Settled
    <3>2. QED
      BY <3>1, ProcessedUntouched
  <2>2. CASE action[n] = "none"
    BY <1>2, <2>2, ActionsOnlyByCommit
  <2>3. QED
    BY <2>1, <2>2
<1>3. QED
  BY <1>1, <1>2 DEF Settled

LEMMA SettledCorrect ==
  ASSUME ~ExplicitCalls, ~LostAcks
  PROVE  Spec => [](TypeOK /\ Fenced /\ Counted /\ AttemptsBounded /\ OneOwner /\ Settled)
<1>1. TypeOK /\ Fenced /\ OneOwner /\ Settled /\ [Next]_vars => Settled'
  BY NextSettled
<1>2. Spec => []AttemptsBounded
  BY AttemptsCapped
<1>3. Spec => []OneOwner
  BY SingleOwner
<1>4. QED
  BY <1>1, <1>2, <1>3, InitSettled, CountedCorrect, PTL DEF Spec

(* Without explicit calls and lost acknowledgements a processed note stays *)
(* processed, through every crash, panic and takeover.                     *)
THEOREM ProcessedStays ==
  ASSUME ~ExplicitCalls, ~LostAcks
  PROVE  Spec => ProcessedIsFinal
<1>1. TypeOK /\ Fenced /\ Settled /\ [Next]_vars
        => \A n \in Notes : note[n].status = "processed"
                            => note'[n].status = "processed"
  BY ProcessedUntouched
<1>2. QED
  BY <1>1, SettledCorrect, PTL DEF Spec, ProcessedIsFinal

(* And what the user completed is not deleted by a later enrichment.       *)
THEOREM CompletedSurvive ==
  ASSUME ~ExplicitCalls, ~LostAcks
  PROVE  Spec => CompletedActionsSurvive
<1>1. TypeOK /\ Fenced /\ Settled /\ [Next]_vars
        => \A n \in Notes : action[n] = "done" => stored'[n] = stored[n]
  BY ProcessedUntouched DEF Settled
<1>2. QED
  BY <1>1, SettledCorrect, PTL DEF Spec, CompletedActionsSurvive

-----------------------------------------------------------------------------
(* The queue implements its contract.                                      *)

LEMMA PhaseOf ==
  /\ \A row : row.status = "absent" => Phase(row) = "absent"
  /\ \A row : row.status \in {"pending", "failed"} => Phase(row) = "waiting"
  /\ \A row : row.status = "processing" => Phase(row) = "claimed"
  /\ \A row : row.status = "processed" => Phase(row) = "done"
BY DEF Phase

LEMMA InitImplements == Init => Contract!Init
BY PhaseOf DEF Init, Contract!Init, NoRow

(* A step that changes no status but to another of the same phase, and no  *)
(* claim, is a step the contract does not see.                             *)
LEMMA Stutters ==
  ASSUME \A n \in Notes : /\ Phase(note'[n]) = Phase(note[n])
                          /\ note'[n].startedAt = note[n].startedAt,
         stored' = stored
  PROVE  UNCHANGED Contract!cvars
<1>1. [n \in Notes |-> Phase(note[n])]' = [n \in Notes |-> Phase(note[n])]
  OBVIOUS
<1>2. [n \in Notes |-> note[n].startedAt]' = [n \in Notes |-> note[n].startedAt]
  OBVIOUS
<1>3. QED
  BY <1>1, <1>2 DEF Contract!cvars

LEMMA UserImplements ==
  ASSUME TypeOK, Fenced, NEW n \in Notes, UserStep(n)
  PROVE  [Contract!Next]_(Contract!cvars)
<1>1. CASE CreatePendingNote(n)
  <2>1. /\ note[n].status = "absent"
        /\ note'[n] = [note[n] EXCEPT !.status = "pending"]
        /\ \A m \in Notes \ {n} : note'[m] = note[m]
        /\ stored' = stored
    BY <1>1, CreatePendingEffect
  <2>2. /\ note[n].status = "absent"
        /\ note'[n].status = "pending"
        /\ note'[n].startedAt = note[n].startedAt
    BY <2>1 DEF TypeOK, Row
  <2>3. Phase(note[n]) = "absent" /\ Phase(note'[n]) = "waiting"
    BY <2>2, PhaseOf
  <2>4. Contract!Submit(n)
    BY <2>1, <2>2, <2>3 DEF Contract!Submit
  <2>5. QED
    BY <2>4 DEF Contract!Next
<1>2. CASE CompleteAction(n) \/ ReopenAction(n)
  BY <1>2, Stutters DEF CompleteAction, ReopenAction
<1>3. ASSUME NEW i \in Instances, CreateAndClaimNote(i, n)
      PROVE  Contract!Next
  <2>1. /\ note[n].status = "absent"
        /\ note'[n].status = "processing"
        /\ note'[n].startedAt = 1
        /\ \A m \in Notes \ {n} : note'[m] = note[m]
        /\ stored' = stored
    BY <1>3, CreateAndClaimEffect
  <2>2. Phase(note[n]) = "absent" /\ Phase(note'[n]) = "claimed"
    BY <2>1, PhaseOf
  <2>3. Contract!SubmitClaimed(n)
    BY <2>1, <2>2 DEF Contract!SubmitClaimed
  <2>4. QED
    BY <2>3 DEF Contract!Next
<1>4. QED
  BY <1>1, <1>2, <1>3 DEF UserStep

LEMMA PollImplements ==
  ASSUME TypeOK, Counted, NEW i \in Instances, Poll(i)
  PROVE  Contract!Next
<1>1. PICK S \in SUBSET Notes :
        /\ \A n \in S : Claimable(n) /\ note'[n] = ClaimedRow(note[n])
        /\ \A n \in Notes \ S : note'[n] = note[n]
        /\ stored' = stored
  BY PollEffect
<1>2. \A n \in S : /\ Phase(note[n]) \in {"waiting", "claimed"}
                   /\ note[n].startedAt < MaxAttempts
  BY <1>1, PhaseOf DEF Claimable, WaitsForWorker, ClaimIsStale, Counted
<1>3. \A n \in S : /\ note'[n].status = "processing"
                   /\ note'[n].startedAt = note[n].startedAt + 1
  BY <1>1, ClaimedRowType DEF TypeOK
<1>4. \A n \in S : Phase(note'[n]) = "claimed"
  BY <1>3, PhaseOf
<1>5. \A n \in S : Contract!CanBeClaimed(n)
  BY <1>2 DEF Contract!CanBeClaimed
<1>6. Contract!Claim(S)
  BY <1>1, <1>3, <1>4, <1>5 DEF Contract!Claim
<1>7. QED
  BY <1>6 DEF Contract!Next

LEMMA JobImplements ==
  ASSUME TypeOK, Fenced, Settled, NEW j \in Jobs, JobStep(j)
  PROVE  [Contract!Next]_(Contract!cvars)
<1> DEFINE m == NoteOf(j)
<1>0. m \in Notes
  BY JobParts
<1>1. CASE UNCHANGED <<note, stored>>
  BY <1>1, Stutters
<1>2. CASE Commits(j)
  <2>1. /\ note[m].status = "processing"
        /\ note'[m].status = "processed"
        /\ \A n \in Notes : note'[n].startedAt = note[n].startedAt
        /\ \A n \in Notes \ {m} : note'[n] = note[n]
    BY <1>2, CommitEffect
  <2>2. stored' = [stored EXCEPT ![m] = note[m].startedAt]
    BY <1>2, CommitEffect DEF Commits, ClaimIsCurrent
  <2>3. Phase(note[m]) = "claimed" /\ Phase(note'[m]) = "done"
    BY <2>1, PhaseOf
  <2>4. Contract!Store(m)
    BY <1>0, <2>1, <2>2, <2>3 DEF Contract!Store
  <2>5. QED
    BY <1>0, <2>4 DEF Contract!Next
<1>3. CASE MarkFailed(j) \/ Reschedule(j)
  <2>1. stored' = stored
    BY <1>3, FailureEffect
  <2>2. CASE note'[m] = note[m]
    <3>1. \A n \in Notes : note'[n] = note[n]
      BY <1>3, <2>2, FailureEffect
    <3>2. QED
      BY <2>1, <3>1, Stutters
  <2>3. CASE note'[m] # note[m]
    <3>1. /\ ClaimIsCurrent(j)
          /\ note'[m].status = "failed"
          /\ note'[m].startedAt = note[m].startedAt
          /\ \A n \in Notes \ {m} : note'[n] = note[n]
      BY <1>0, <1>3, <2>3, FailureEffect
    <3>2. ~Idle(j)
      BY JobStepMoves
    <3>3. note[m].status # "processed"
      BY <3>1, <3>2 DEF Settled
    <3>4. note[m].status # "absent"
      BY <1>0, <3>1, <3>2
         DEF ClaimIsCurrent, Fenced, JobsNotAhead, ResultsNotAhead
    <3>5. Phase(note'[m]) = "waiting"
      BY <3>1, PhaseOf
    <3>6. CASE note[m].status = "processing"
      <4>1. Phase(note[m]) = "claimed"
        BY <3>6, PhaseOf
      <4>2. Contract!Release(m)
        BY <1>0, <2>1, <3>1, <3>5, <4>1 DEF Contract!Release
      <4>3. QED
        BY <1>0, <4>2 DEF Contract!Next
    <3>7. CASE note[m].status \in {"pending", "failed"}
      <4>1. Phase(note[m]) = "waiting"
        BY <3>7, PhaseOf
      <4>2. QED
        BY <2>1, <3>1, <3>5, <4>1, Stutters
    <3>8. QED
      BY <1>0, <3>3, <3>4, <3>6, <3>7 DEF TypeOK, Row, Status
  <2>4. QED
    BY <2>2, <2>3
<1>4. QED
  BY <1>1, <1>2, <1>3, JobStepKinds

LEMMA NextImplements ==
  ASSUME ~ExplicitCalls, TypeOK, Fenced, Counted, Settled, [Next]_vars
  PROVE  [Contract!Next]_(Contract!cvars)
<1>1. ASSUME NEW n \in Notes, UserStep(n) PROVE [Contract!Next]_(Contract!cvars)
  BY <1>1, UserImplements
<1>2. ASSUME NEW n \in Notes, TimeStep(n) PROVE [Contract!Next]_(Contract!cvars)
  <2>1. \A m \in Notes : /\ note'[m].status = note[m].status
                         /\ note'[m].startedAt = note[m].startedAt
    BY <1>2, TimeEffect
  <2>2. \A m \in Notes : Phase(note'[m]) = Phase(note[m])
    BY <2>1 DEF Phase
  <2>3. stored' = stored
    BY <1>2, TimeEffect
  <2>4. QED
    BY <2>1, <2>2, <2>3, Stutters
<1>3. ASSUME NEW i \in Instances, Poll(i) PROVE [Contract!Next]_(Contract!cvars)
  BY <1>3, PollImplements
<1>4. ASSUME NEW i \in Instances, ProcessStep(i) PROVE [Contract!Next]_(Contract!cvars)
  BY <1>4, ProcessEffect, Stutters
<1>5. ASSUME NEW j \in Jobs, JobStep(j) PROVE [Contract!Next]_(Contract!cvars)
  BY <1>5, JobImplements
<1>6. CASE UNCHANGED vars
  BY <1>6, Stutters DEF vars
<1>7. QED
  BY <1>1, <1>2, <1>3, <1>4, <1>5, <1>6, NoExplicitStep DEF Next

(* The safety part of ImplementsContract, for every number of notes,       *)
(* instances, attempts and crashes: the workers, /now, the crashes and the *)
(* takeovers do to a note only what the contract allows.                   *)
THEOREM Implements ==
  ASSUME ~ExplicitCalls, ~LostAcks
  PROVE  Spec => Contract!Spec
<1>1. TypeOK /\ Fenced /\ Counted /\ Settled /\ [Next]_vars
        => [Contract!Next]_(Contract!cvars)
  BY NextImplements
<1>2. QED
  BY <1>1, InitImplements, SettledCorrect, PTL DEF Spec, Contract!Spec
=============================================================================
