--------------------------- MODULE NoteEnrichment ---------------------------
(***************************************************************************)
(* The notes table as a work queue, and the goroutines that work on it:    *)
(*                                                                         *)
(*   - internal/workers/note_enrichment.go: every application instance     *)
(*     polls, claims a batch, and runs the claimed notes under a semaphore *)
(*   - internal/services/service.go: /now creates a note that is already   *)
(*     claimed and enriches it at once; EnrichNote, RetryNoteEnrichment    *)
(*     and ReprocessNote claim one named note                              *)
(*   - internal/adapters/store/store.go: the SQL statements that claim a   *)
(*     note, save its result, mark it failed and schedule its retry        *)
(*                                                                         *)
(* Ownership of a note is its processing_started_at: a claim writes a new  *)
(* one, and a writer names the one it was given.  Here startedAt counts    *)
(* the claims of the note, which is what a microsecond clock read by       *)
(* claims that follow one another gives: never the same value twice.       *)
(* How old a claim is and whether a retry time has come are not computed   *)
(* from a clock; time passes by the actions GrowStale and BecomeDue, at    *)
(* any moment, so every ratio of the timeouts to the LLM's speed is there. *)
(***************************************************************************)
EXTENDS Naturals, FiniteSets

CONSTANTS
  Notes,          \* ids of the notes that may be created
  Instances,      \* application instances that share the database
  MaxAttempts,    \* NOTE_ENRICHMENT_MAX_ATTEMPTS
  BatchSize,      \* NOTE_ENRICHMENT_BATCH_SIZE
  Concurrency,    \* NOTE_ENRICHMENT_WORKER_CONCURRENCY
  LostAcks,       \* may a COMMIT succeed while tx.Commit returns an error?
  ExplicitCalls,  \* does anyone call EnrichNote, Retry... and ReprocessNote?
  MaxClaims,      \* bound: claims of one note beyond which none is explicit
  MaxStops        \* bound: process stops, graceful ones and crashes together

ASSUME ConfigAssumption ==
  /\ MaxAttempts \in Nat \ {0}
  /\ BatchSize \in Nat \ {0}
  /\ Concurrency \in Nat \ {0}

ASSUME EnvironmentAssumption ==
  /\ LostAcks \in BOOLEAN
  /\ ExplicitCalls \in BOOLEAN
  /\ MaxClaims \in Nat
  /\ MaxStops \in Nat

VARIABLES
  note,    \* the rows of the table notes
  job,     \* the goroutines that hold a claim, or believe they do
  mode,    \* the state of each process
  stops,   \* how many times a process has stopped
  stored,  \* the claim whose result stands in actions, people_notes, ...
  action   \* the status of the action rows generated for the note

vars == <<note, job, mode, stops, stored, action>>

(* A claim is run by the worker pool, by the bot's /now handler or by an   *)
(* explicit call; one instance runs at most one job of a kind per note.    *)
Paths == {"worker", "now", "explicit"}
Jobs == Instances \X Paths \X Notes
InstanceOf(j) == j[1]
PathOf(j) == j[2]
NoteOf(j) == j[3]

Status == {"absent", "pending", "processing", "failed", "processed"}
Row == [status: Status,
        startedAt: Nat,                     \* processing_started_at; 0 is NULL
        attempts: Nat,                      \* processing_attempts
        nextAt: {"null", "future", "due"},  \* next_processing_at
        age: {"fresh", "stale"}]            \* of a claim, while processing

JobState == [pc: {"idle", "queued", "llm", "save", "markFailed", "reschedule"},
             startedAt: Nat,                \* the claim the job was given
             attempts: Nat]                 \* ProcessingAttempts of that claim

NoRow == [status |-> "absent", startedAt |-> 0, attempts |-> 0,
          nextAt |-> "null", age |-> "fresh"]
NoJob == [pc |-> "idle", startedAt |-> 0, attempts |-> 0]

Idle(j) == job[j].pc = "idle"
Running(j) == job[j].pc \notin {"idle", "queued"}

(* WHERE user_id=$1 AND id=$2 alone: what the guards below would amount to *)
(* if they were forgotten.                                                 *)
NamesTheNote(j) == note[NoteOf(j)].status # "absent"
NoteIsProcessing(j) == note[NoteOf(j)].status = "processing"

(* WHERE ... processing_started_at=$3                                      *)
ClaimIsCurrent(j) == note[NoteOf(j)].startedAt = job[j].startedAt

(* WHERE ... processing_status='processing' AND processing_started_at=$3   *)
HoldsClaim(j) ==
  /\ NoteIsProcessing(j)
  /\ ClaimIsCurrent(j)

Moves(j, pc) == job' = [job EXCEPT ![j].pc = pc]
Ends(j) == job' = [job EXCEPT ![j] = NoJob]

Init ==
  /\ note = [n \in Notes |-> NoRow]
  /\ job = [j \in Jobs |-> NoJob]
  /\ mode = [i \in Instances |-> "up"]
  /\ stops = 0
  /\ stored = [n \in Notes |-> 0]
  /\ action = [n \in Notes |-> "none"]

-----------------------------------------------------------------------------
(* Notes come in, and the user works on the actions generated from them.   *)

(* SaveRawNote, SaveRawAPINote, SaveRawNoteAndMarkTelegramUpdateProcessed  *)
CreatePendingNote(n) ==
  /\ note[n].status = "absent"
  /\ note' = [note EXCEPT ![n].status = "pending"]
  /\ UNCHANGED <<job, mode, stops, stored, action>>

(* /now: the note is born claimed, by the handler that will call the LLM;  *)
(* the handler gives up if it cannot tell that the note was committed.     *)
CreateAndClaimNote(i, n) ==
  /\ mode[i] = "up"
  /\ note[n].status = "absent"
  /\ note' = [note EXCEPT ![n] = [NoRow EXCEPT !.status = "processing",
                                               !.startedAt = 1, !.attempts = 1]]
  /\ \/ job' = [job EXCEPT ![<<i, "now", n>>] =
                             [pc |-> "llm", startedAt |-> 1, attempts |-> 1]]
     \/ LostAcks /\ UNCHANGED job
  /\ UNCHANGED <<mode, stops, stored, action>>

(* MarkActionDone and SetActionStatus(..., "done")                         *)
CompleteAction(n) ==
  /\ action[n] = "open"
  /\ action' = [action EXCEPT ![n] = "done"]
  /\ UNCHANGED <<note, job, mode, stops, stored>>

(* SetActionStatus(..., "open")                                            *)
ReopenAction(n) ==
  /\ action[n] = "done"
  /\ action' = [action EXCEPT ![n] = "open"]
  /\ UNCHANGED <<note, job, mode, stops, stored>>

-----------------------------------------------------------------------------
(* Time passes.                                                            *)

GrowStale(n) ==
  /\ note[n].status = "processing"
  /\ note[n].age = "fresh"
  /\ note' = [note EXCEPT ![n].age = "stale"]
  /\ UNCHANGED <<job, mode, stops, stored, action>>

BecomeDue(n) ==
  /\ note[n].nextAt = "future"
  /\ note' = [note EXCEPT ![n].nextAt = "due"]
  /\ UNCHANGED <<job, mode, stops, stored, action>>

-----------------------------------------------------------------------------
(* The worker pool of one instance.                                        *)

WaitsForWorker(n) ==
  \/ note[n].status = "pending"
  \/ note[n].status = "failed" /\ note[n].nextAt # "future"

ClaimIsStale(n) == note[n].status = "processing" /\ note[n].age = "stale"

ClaimableAtAnyAttempt(n) == WaitsForWorker(n) \/ ClaimIsStale(n)
ClaimableUnlessLeft(n) == note[n].attempts < MaxAttempts /\ WaitsForWorker(n)

Claimable(n) ==
  /\ note[n].attempts < MaxAttempts
  /\ WaitsForWorker(n) \/ ClaimIsStale(n)

ClaimedRowOfNewStatus(row) ==
  [row EXCEPT !.status = "claimed", !.startedAt = @ + 1, !.attempts = @ + 1]
ClaimedRowKeepingStart(row) ==
  [status |-> "processing", startedAt |-> row.startedAt,
   attempts |-> row.attempts + 1, nextAt |-> "null", age |-> "fresh"]

ClaimedRow(row) ==
  [status |-> "processing", startedAt |-> row.startedAt + 1,
   attempts |-> row.attempts + 1, nextAt |-> "null", age |-> "fresh"]

ClaimBatch(S) ==
  note' = [n \in Notes |-> IF n \in S THEN ClaimedRow(note[n]) ELSE note[n]]

(* ClaimNextNotesForEnrichment updates up to BatchSize rows; which of the  *)
(* claimable ones is left open, as SKIP LOCKED passes over any row another *)
(* statement is writing.  The statement has taken effect even if reading   *)
(* its rows fails: then poll returns and nobody works on the batch.  The   *)
(* next poll waits for the goroutines of this one.                         *)
Poll(i) ==
  /\ mode[i] = "up"
  /\ \A n \in Notes : Idle(<<i, "worker", n>>)
  /\ \E S \in SUBSET {n \in Notes : Claimable(n)} :
       /\ S # {}
       /\ Cardinality(S) <= BatchSize
       /\ ClaimBatch(S)
       /\ \E returned \in {S, {}} :
            job' = [j \in Jobs |->
                      IF /\ InstanceOf(j) = i
                         /\ PathOf(j) = "worker"
                         /\ NoteOf(j) \in returned
                      THEN [pc |-> "queued",
                            startedAt |-> note'[NoteOf(j)].startedAt,
                            attempts |-> note'[NoteOf(j)].attempts]
                      ELSE job[j]]
  /\ UNCHANGED <<mode, stops, stored, action>>

(* A goroutine of the batch gets past the semaphore.                       *)
StartJob(j) ==
  /\ job[j].pc = "queued"
  /\ Cardinality({k \in Jobs : /\ InstanceOf(k) = InstanceOf(j)
                               /\ PathOf(k) = "worker"
                               /\ Running(k)}) < Concurrency
  /\ Moves(j, "llm")
  /\ UNCHANGED <<note, mode, stops, stored, action>>

(* The loop over the batch sees the cancelled context: the note stays as   *)
(* it was claimed.                                                         *)
DropJob(j) ==
  /\ mode[InstanceOf(j)] = "stopping"
  /\ job[j].pc = "queued"
  /\ Ends(j)
  /\ UNCHANGED <<note, mode, stops, stored, action>>

(* A panic in a worker's goroutine is recovered and only logged.           *)
JobPanics(j) ==
  /\ PathOf(j) = "worker"
  /\ Running(j)
  /\ Ends(j)
  /\ UNCHANGED <<note, mode, stops, stored, action>>

-----------------------------------------------------------------------------
(* Explicit calls of EnrichNote, RetryNoteEnrichment and ReprocessNote.    *)

ExplicitlyClaimable(n, allowProcessed) ==
  \/ note[n].status \in {"pending", "failed"}
  \/ note[n].status = "processed" /\ allowProcessed
  \/ ClaimIsStale(n)

CallsExplicitly(i, n) ==
  /\ ExplicitCalls
  /\ mode[i] = "up"
  /\ Idle(<<i, "explicit", n>>)

(* ClaimNoteForEnrichment updates the row; it looks at no attempt cap and  *)
(* leaves next_processing_at as it is.                                     *)
ExplicitClaim(i, n) ==
  /\ CallsExplicitly(i, n)
  /\ note[n].startedAt < MaxClaims
  /\ \E allowProcessed \in BOOLEAN : ExplicitlyClaimable(n, allowProcessed)
  /\ note' = [note EXCEPT ![n].status = "processing", ![n].startedAt = @ + 1,
                          ![n].attempts = @ + 1, ![n].age = "fresh"]
  /\ \/ job' = [job EXCEPT ![<<i, "explicit", n>>] =
                             [pc |-> "llm", startedAt |-> note'[n].startedAt,
                              attempts |-> note'[n].attempts]]
     \/ LostAcks /\ UNCHANGED job
  /\ UNCHANGED <<mode, stops, stored, action>>

(* The UPDATE found no row to claim, so ClaimNoteForEnrichment reads the   *)
(* row, a little later, and returns it; EnrichClaimedNote goes on if its   *)
(* status reads 'processing', with the processing_started_at of whoever    *)
(* holds the claim.                                                        *)
ExplicitFallback(i, n) ==
  /\ CallsExplicitly(i, n)
  /\ note[n].status = "processing"
  /\ job' = [job EXCEPT ![<<i, "explicit", n>>] =
                          [pc |-> "llm", startedAt |-> note[n].startedAt,
                           attempts |-> note[n].attempts]]
  /\ UNCHANGED <<note, mode, stops, stored, action>>

-----------------------------------------------------------------------------
(* EnrichClaimedNote, then what process does with its error.               *)

LLMReturns(j) ==
  /\ job[j].pc = "llm"
  /\ Moves(j, "save")
  /\ UNCHANGED <<note, mode, stops, stored, action>>

(* An error of the provider, the request timeout, or a cancelled context.  *)
LLMFails(j) ==
  /\ job[j].pc = "llm"
  /\ Moves(j, "markFailed")
  /\ UNCHANGED <<note, mode, stops, stored, action>>

(* SaveNoteEnrichmentResult: one transaction deletes what an earlier claim *)
(* generated for the note, inserts the new rows, and marks the note        *)
(* processed if this claim still holds it; if it does not, all is undone.  *)
Commits(j) ==
  /\ job[j].pc = "save"
  /\ HoldsClaim(j)
  /\ note' = [note EXCEPT ![NoteOf(j)].status = "processed",
                          ![NoteOf(j)].nextAt = "null", ![NoteOf(j)].age = "fresh"]
  /\ stored' = [stored EXCEPT ![NoteOf(j)] = job[j].startedAt]
  /\ action' = [action EXCEPT ![NoteOf(j)] = "open"]
  /\ UNCHANGED <<mode, stops>>

SaveSucceeds(j) ==
  /\ Commits(j)
  /\ Ends(j)

(* The server committed, but tx.Commit(ctx) returned an error: the context *)
(* was cancelled or the connection lost before the answer came.            *)
SaveAckLost(j) ==
  /\ LostAcks
  /\ Commits(j)
  /\ Moves(j, "markFailed")

(* Nothing was committed: the claim is no longer active, or the database   *)
(* or the context failed.                                                  *)
SaveFails(j) ==
  /\ job[j].pc = "save"
  /\ Moves(j, "markFailed")
  /\ UNCHANGED <<note, mode, stops, stored, action>>

AfterFailure(j) ==
  IF PathOf(j) = "worker" THEN Moves(j, "reschedule") ELSE Ends(j)

(* MarkNoteEnrichmentFailed; its error is ignored, so the row may also be  *)
(* left as it is.                                                          *)
MarkFailed(j) ==
  /\ job[j].pc = "markFailed"
  /\ \/ /\ HoldsClaim(j)
        /\ note' = [note EXCEPT ![NoteOf(j)].status = "failed",
                                ![NoteOf(j)].age = "fresh"]
     \/ UNCHANGED note
  /\ AfterFailure(j)
  /\ UNCHANGED <<mode, stops, stored, action>>

(* MarkNoteEnrichmentPermanentlyFailed or ScheduleNoteEnrichmentRetry,     *)
(* whose error is ignored too.  Neither looks at the note's status.        *)
Reschedule(j) ==
  /\ job[j].pc = "reschedule"
  /\ \/ /\ ClaimIsCurrent(j)
        /\ note' = [note EXCEPT
                      ![NoteOf(j)].status = "failed",
                      ![NoteOf(j)].age = "fresh",
                      ![NoteOf(j)].nextAt =
                         IF job[j].attempts >= MaxAttempts THEN "null" ELSE "future"]
     \/ UNCHANGED note
  /\ Ends(j)
  /\ UNCHANGED <<mode, stops, stored, action>>

-----------------------------------------------------------------------------
(* Processes stop and start.  SIGTERM cancels the context all jobs run     *)
(* under; main returns without waiting for them.                           *)

KillJobs(i) ==
  job' = [j \in Jobs |-> IF InstanceOf(j) = i THEN NoJob ELSE job[j]]

Terminate(i) ==
  /\ mode[i] = "up"
  /\ stops < MaxStops
  /\ mode' = [mode EXCEPT ![i] = "stopping"]
  /\ stops' = stops + 1
  /\ UNCHANGED <<note, job, stored, action>>

Exit(i) ==
  /\ mode[i] = "stopping"
  /\ mode' = [mode EXCEPT ![i] = "down"]
  /\ KillJobs(i)
  /\ UNCHANGED <<note, stops, stored, action>>

Crash(i) ==
  /\ mode[i] = "up"
  /\ stops < MaxStops
  /\ mode' = [mode EXCEPT ![i] = "down"]
  /\ stops' = stops + 1
  /\ KillJobs(i)
  /\ UNCHANGED <<note, stored, action>>

Restart(i) ==
  /\ mode[i] = "down"
  /\ mode' = [mode EXCEPT ![i] = "up"]
  /\ UNCHANGED <<note, job, stops, stored, action>>

-----------------------------------------------------------------------------

UserStep(n) ==
  \/ CreatePendingNote(n)
  \/ CompleteAction(n)
  \/ ReopenAction(n)
  \/ \E i \in Instances : CreateAndClaimNote(i, n)

ExplicitStep(n) ==
  \E i \in Instances : ExplicitClaim(i, n) \/ ExplicitFallback(i, n)

TimeStep(n) == GrowStale(n) \/ BecomeDue(n)

JobStep(j) ==
  \/ StartJob(j) \/ DropJob(j) \/ JobPanics(j)
  \/ LLMReturns(j) \/ LLMFails(j)
  \/ SaveSucceeds(j) \/ SaveAckLost(j) \/ SaveFails(j)
  \/ MarkFailed(j) \/ Reschedule(j)

ProcessStep(i) == Terminate(i) \/ Exit(i) \/ Crash(i) \/ Restart(i)

Next ==
  \/ \E n \in Notes : UserStep(n) \/ ExplicitStep(n) \/ TimeStep(n)
  \/ \E i \in Instances : Poll(i) \/ ProcessStep(i)
  \/ \E j \in Jobs : JobStep(j)

(* A ticker polls, goroutines run, the LLM client has a request timeout,   *)
(* clocks advance, a process told to stop exits, and the operator starts   *)
(* a process that is down.  Users, crashes and SIGTERM owe nothing.        *)
Fairness ==
  /\ \A n \in Notes : WF_vars(TimeStep(n))
  /\ \A i \in Instances : WF_vars(Poll(i)) /\ WF_vars(Exit(i)) /\ WF_vars(Restart(i))
  /\ \A j \in Jobs : WF_vars(JobStep(j))

Spec == Init /\ [][Next]_vars
FairSpec == Spec /\ Fairness

-----------------------------------------------------------------------------

(* The type of the rows and of the jobs (store.go NoteForEnrichment).      *)
TypeOK ==
  /\ note \in [Notes -> Row]
  /\ job \in [Jobs -> JobState]
  /\ mode \in [Instances -> {"up", "stopping", "down"}]
  /\ stops \in Nat
  /\ stored \in [Notes -> Nat]
  /\ action \in [Notes -> {"none", "open", "done"}]

(* "PostgreSQL row locks and the processing status are the ownership       *)
(* source of truth": no two goroutines, of any instances, both believe in  *)
(* the current claim of a note (README.md:183).                            *)
OneOwner ==
  \A j, k \in Jobs :
    /\ NoteOf(j) = NoteOf(k)
    /\ ~Idle(j) /\ ClaimIsCurrent(j)
    /\ ~Idle(k) /\ ClaimIsCurrent(k)
    => j = k

(* What is in the tables for a processed note was generated by its last    *)
(* claim, and nothing in them comes from a claim not yet made: the result  *)
(* of SaveNoteEnrichmentResult and the row's status never come apart.      *)
ResultMatchesStatus ==
  \A n \in Notes :
    /\ stored[n] <= note[n].startedAt
    /\ note[n].status = "processed" => stored[n] = note[n].startedAt

(* Whatever the workers, /now and the crashes do, a note costs at most     *)
(* MaxAttempts claims, hence LLM calls, and one that has used them up is   *)
(* not scheduled again (README.md:185, "preventing infinite automatic LLM  *)
(* calls").                                                                *)
AttemptsBounded ==
  \A n \in Notes :
    /\ note[n].attempts <= MaxAttempts
    /\ note[n].attempts = MaxAttempts => note[n].nextAt = "null"

(* A job whose claim was taken over never replaces what a later claim      *)
(* saved, and no claim saves twice: the fencing of SaveNoteEnrichmentResult*)
(* by processing_started_at.                                               *)
NeverOverwritten ==
  [][\A n \in Notes : stored'[n] # stored[n] => stored'[n] > stored[n]]_vars

(* "a crash after the persistence commit leaves the note processed, and    *)
(* later workers skip it" (README.md:189): no step of the system takes a   *)
(* note out of processed.                                                  *)
ProcessedIsFinal ==
  [][\A n \in Notes : note[n].status = "processed" => note'[n].status = "processed"]_vars

(* What the user has completed stays completed until the user reopens it:  *)
(* no later enrichment deletes the action.                                 *)
CompletedActionsSurvive ==
  [][\A n \in Notes : action[n] = "done" => stored'[n] = stored[n]]_vars

(* The queue does what it promises: seen through a note's status, its      *)
(* number of claims and the result stored, every step is one the contract  *)
(* allows, a processed note is left alone, and every captured note is      *)
(* worked on until it is processed or has used up its attempts, whatever   *)
(* crashes, panics, lost writes and slow LLM calls there are.              *)
Phase(row) ==
  CASE row.status = "absent" -> "absent"
    [] row.status \in {"pending", "failed"} -> "waiting"
    [] row.status = "processing" -> "claimed"
    [] row.status = "processed" -> "done"

Contract == INSTANCE EnrichmentContract WITH
  phase <- [n \in Notes |-> Phase(note[n])],
  epoch <- [n \in Notes |-> note[n].startedAt],
  result <- stored

ImplementsContract == Contract!FairSpec

(* NOTE_ENRICHMENT_MAX_ATTEMPTS is the number of attempts "before a note   *)
(* remains failed" (README.md:50), so one that has used them up does not   *)
(* stay processing.                                                        *)
ExhaustedNotesFail ==
  \A n \in Notes :
    note[n].attempts >= MaxAttempts ~> note[n].status \in {"processed", "failed"}

(* "Failed jobs use fixed backoff by active attempt" (README.md:185): a    *)
(* failed note is claimed again only when its next_processing_at is due.   *)
BackoffHonoured ==
  [][\A n \in Notes :
       note[n].status = "failed" /\ note'[n].status = "processing"
         => note[n].nextAt = "due"]_vars
=============================================================================
