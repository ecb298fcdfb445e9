--------------------------- MODULE TelegramInbox ----------------------------
(***************************************************************************)
(* The table telegram_updates, by which the bot handles an update at most  *)
(* once, and the goroutines that handle updates:                           *)
(*                                                                         *)
(*   - internal/adapters/bot/client.go: Run takes updates from Telegram,   *)
(*     handleMessageWithUpdateAndReply claims one, runs its command, marks *)
(*     it and replies                                                      *)
(*   - internal/services/service.go: the ...ForTelegramUpdate commands     *)
(*   - internal/adapters/store/store.go: the claim, the marks, and the     *)
(*     transactions that change a domain table together with the mark      *)
(*                                                                         *)
(* Telegram hands out an update until the bot asks for later ones, so a    *)
(* bot that restarts, or a second instance of it, may get it again.  As in *)
(* NoteEnrichment, processing_started_at is the number of the claim, and a *)
(* claim becomes stale at any moment.  Two updates with one message id do  *)
(* not occur: the update stands for both identities.                       *)
(***************************************************************************)
EXTENDS Naturals, FiniteSets

CONSTANTS
  Updates,      \* updates with a text message of a linked user
  Instances,    \* processes that poll the bot's updates
  MaxAttempts,  \* TelegramUpdateMaxAttempts
  Failures,     \* may the database, the LLM or the context fail?
  MaxStops      \* bound: process stops

(* A domain mutation that commits with the mark: "capture" is /note and    *)
(* plain text, "now" is /now, "done" is /done with a number.  "doneBad" is *)
(* /done with something else, "doneEmpty" is /done alone.  "query" is any  *)
(* other command: the reads, the LLM ones, and those answered by a text.   *)
Mutating == {"capture", "now", "done"}
Kinds == Mutating \union {"doneBad", "doneEmpty", "query"}

ASSUME InboxAssumption ==
  /\ MaxAttempts \in Nat \ {0}
  /\ Failures \in BOOLEAN
  /\ MaxStops \in Nat

VARIABLES
  kind,      \* what each update asks for
  telegram,  \* what Telegram does with each update
  row,       \* the rows of telegram_updates
  handler,   \* the goroutines handling the updates
  up,        \* is the process running?
  stops,     \* how many times a process has stopped
  open,      \* the action that the "done" updates name: is it open?
  effects,   \* how many times the update's domain mutation was committed
  answers,   \* how many times the command's own response was sent
  errors     \* how many times an error message was sent

vars == <<kind, telegram, row, handler, up, stops, open, effects, answers, errors>>
replies == <<answers, errors>>
process == <<up, stops>>

(* One process gets an update once: the client asks for later ones next.   *)
Handlers == Instances \X Updates
InstanceOf(h) == h[1]
UpdateOf(h) == h[2]

Row == [status: {"absent", "processing", "failed", "processed"},
        startedAt: Nat,            \* processing_started_at; 0 is no row
        attempts: Nat,             \* attempt_count
        age: {"fresh", "stale"}]   \* of the claim, while processing

PC == {"none", "received", "run", "mark", "llm", "reply", "fail", "replyError", "end"}
HandlerState == [pc: PC, startedAt: Nat]

NoRow == [status |-> "absent", startedAt |-> 0, attempts |-> 0, age |-> "fresh"]
NoHandler == [pc |-> "none", startedAt |-> 0]

KindOf(h) == kind[UpdateOf(h)]
At(h, pc) == handler[h].pc = pc
Goto(h, pc) == handler' = [handler EXCEPT ![h].pc = pc]

Init ==
  /\ kind \in [Updates -> Kinds]
  /\ telegram = [u \in Updates |-> "unsent"]
  /\ row = [u \in Updates |-> NoRow]
  /\ handler = [h \in Handlers |-> NoHandler]
  /\ up = [i \in Instances |-> TRUE]
  /\ stops = 0
  /\ open = TRUE
  /\ effects = [u \in Updates |-> 0]
  /\ answers = [u \in Updates |-> 0]
  /\ errors = [u \in Updates |-> 0]

-----------------------------------------------------------------------------
(* Telegram, and the user.                                                 *)

Send(u) ==
  /\ telegram[u] = "unsent"
  /\ telegram' = [telegram EXCEPT ![u] = "queued"]
  /\ UNCHANGED <<kind, row, handler, process, open, effects, replies>>

(* Bot.Run starts a goroutine for the update.                              *)
Deliver(h) ==
  /\ telegram[UpdateOf(h)] = "queued"
  /\ up[InstanceOf(h)]
  /\ At(h, "none")
  /\ Goto(h, "received")
  /\ UNCHANGED <<kind, telegram, row, process, open, effects, replies>>

(* The next GetUpdates of an instance that took the update confirms it,    *)
(* whatever its handler has done so far.                                   *)
Confirm(h) ==
  /\ telegram[UpdateOf(h)] = "queued"
  /\ ~At(h, "none")
  /\ telegram' = [telegram EXCEPT ![UpdateOf(h)] = "confirmed"]
  /\ UNCHANGED <<kind, row, handler, process, open, effects, replies>>

(* The action that "done" names is closed or opened from the web.          *)
SetActionStatus ==
  /\ open' = ~open
  /\ UNCHANGED <<kind, telegram, row, handler, process, effects, replies>>

GrowStale(u) ==
  /\ row[u].status = "processing"
  /\ row[u].age = "fresh"
  /\ row' = [row EXCEPT ![u].age = "stale"]
  /\ UNCHANGED <<kind, telegram, handler, process, open, effects, replies>>

-----------------------------------------------------------------------------
(* The claim.                                                              *)

FreeAtAnyAttempt(u) ==
  \/ row[u].status \in {"absent", "failed"}
  \/ row[u].status = "processing" /\ row[u].age = "stale"

(* The INSERT finds no row, or the UPDATE one it may reclaim.              *)
Free(u) ==
  \/ row[u].status = "absent"
  \/ /\ row[u].attempts < MaxAttempts
     /\ \/ row[u].status = "failed"
        \/ row[u].status = "processing" /\ row[u].age = "stale"

ClaimedRowOfNewStatus(r) ==
  [r EXCEPT !.status = "claimed", !.startedAt = @ + 1, !.attempts = @ + 1]

ClaimedRow(r) ==
  [status |-> "processing", startedAt |-> r.startedAt + 1,
   attempts |-> r.attempts + 1, age |-> "fresh"]

(* ClaimTelegramUpdate.  If its Commit takes effect but is reported as     *)
(* failed, the handler leaves the row as it is and sends an error.         *)
Claim(h) ==
  LET u == UpdateOf(h) IN
  /\ At(h, "received")
  /\ Free(u)
  /\ row' = [row EXCEPT ![u] = ClaimedRow(@)]
  /\ \/ handler' = [handler EXCEPT ![h] = [pc |-> "run",
                                           startedAt |-> row'[u].startedAt]]
     \/ Failures /\ Goto(h, "replyError")
  /\ UNCHANGED <<kind, telegram, process, open, effects, replies>>

(* Processed, being processed, or out of attempts: not a word to the user. *)
SkipDuplicate(h) ==
  /\ At(h, "received")
  /\ ~Free(UpdateOf(h))
  /\ Goto(h, "end")
  /\ UNCHANGED <<kind, telegram, row, process, open, effects, replies>>

ClaimFailsSilently(h) ==
  /\ Failures
  /\ At(h, "received")
  /\ Goto(h, "end")
  /\ UNCHANGED <<kind, telegram, row, process, open, effects, replies>>

(* ResolveTelegramUser or ClaimTelegramUpdate failed.                      *)
ClaimFails(h) ==
  /\ Failures
  /\ At(h, "received")
  /\ Goto(h, "replyError")
  /\ UNCHANGED <<kind, telegram, row, process, open, effects, replies>>

-----------------------------------------------------------------------------
(* The commands.                                                           *)

(* Weaker WHERE clauses, for comparison.                                   *)
RowExists(h) == row[UpdateOf(h)].status # "absent"
ClaimIsCurrent(h) == row[UpdateOf(h)].startedAt = handler[h].startedAt

(* WHERE ... AND status='processing' AND processing_started_at=$2          *)
HoldsClaim(h) ==
  /\ row[UpdateOf(h)].status = "processing"
  /\ row[UpdateOf(h)].startedAt = handler[h].startedAt

(* UPDATE telegram_updates SET status='processed' of the claim.  Commit, or*)
(* the answer to the statement, may be lost after it took effect.          *)
MarksProcessed(h, next) ==
  /\ HoldsClaim(h)
  /\ row' = [row EXCEPT ![UpdateOf(h)].status = "processed",
                        ![UpdateOf(h)].age = "fresh"]
  /\ Goto(h, next) \/ (Failures /\ Goto(h, "fail"))

(* SaveRawNoteAndMark..., CreateAndClaimNote...AndMark... and              *)
(* MarkActionDoneAndMark...: both changes commit or neither does.          *)
Mutate(h) ==
  /\ At(h, "run")
  /\ KindOf(h) \in Mutating
  /\ KindOf(h) = "done" => open
  /\ MarksProcessed(h, IF KindOf(h) = "now" THEN "llm" ELSE "reply")
  /\ open' = (open /\ KindOf(h) # "done")
  /\ effects' = [effects EXCEPT ![UpdateOf(h)] = @ + 1]
  /\ UNCHANGED <<kind, telegram, process, replies>>

(* /now calls the LLM when its update is already processed.                *)
EnrichNow(h) ==
  /\ At(h, "llm")
  /\ Goto(h, "reply") \/ (Failures /\ Goto(h, "fail"))
  /\ UNCHANGED <<kind, telegram, row, process, open, effects, replies>>

QueryRepliesFirst(h) ==
  /\ At(h, "run")
  /\ KindOf(h) = "query"
  /\ Goto(h, "reply")
  /\ UNCHANGED <<kind, telegram, row, process, open, effects, replies>>

Query(h) ==
  /\ At(h, "run")
  /\ KindOf(h) = "query"
  /\ Goto(h, "mark")
  /\ UNCHANGED <<kind, telegram, row, process, open, effects, replies>>

(* DoneForTelegramUpdate marks the update itself when its argument is not  *)
(* a number; the bot then marks it again unless there is an argument.      *)
RefuseDone(h) ==
  /\ At(h, "run")
  /\ KindOf(h) \in {"doneBad", "doneEmpty"}
  /\ MarksProcessed(h, IF KindOf(h) = "doneEmpty" THEN "mark" ELSE "reply")
  /\ UNCHANGED <<kind, telegram, process, open, effects, replies>>

(* MarkTelegramUpdateProcessed by the handler.                             *)
Mark(h) ==
  /\ At(h, "mark")
  /\ MarksProcessed(h, "reply")
  /\ UNCHANGED <<kind, telegram, process, open, effects, replies>>

(* What is next would write the mark.                                      *)
Marking(h) == At(h, "mark") \/ (At(h, "run") /\ KindOf(h) # "query")

(* The claim is no longer active, the action is not open, or a call failed.*)
CommandFails(h) ==
  /\ At(h, "run") \/ At(h, "mark")
  /\ \/ Failures
     \/ Marking(h) /\ ~HoldsClaim(h)
     \/ At(h, "run") /\ KindOf(h) = "done" /\ ~open
  /\ Goto(h, "fail")
  /\ UNCHANGED <<kind, telegram, row, process, open, effects, replies>>

(* MarkTelegramUpdateFailed, whose error is ignored.                       *)
MarkFailed(h) ==
  /\ At(h, "fail")
  /\ \/ /\ HoldsClaim(h)
        /\ row' = [row EXCEPT ![UpdateOf(h)].status = "failed",
                              ![UpdateOf(h)].age = "fresh"]
     \/ /\ Failures \/ ~HoldsClaim(h)
        /\ UNCHANGED row
  /\ Goto(h, "replyError")
  /\ UNCHANGED <<kind, telegram, process, open, effects, replies>>

(* Whether Telegram takes the message is only logged.                      *)
Reply(h) ==
  /\ At(h, "reply")
  /\ Goto(h, "end")
  /\ answers' = [answers EXCEPT ![UpdateOf(h)] = @ + 1]
  /\ UNCHANGED <<kind, telegram, row, process, open, effects, errors>>

ReplyError(h) ==
  /\ At(h, "replyError")
  /\ Goto(h, "end")
  /\ errors' = [errors EXCEPT ![UpdateOf(h)] = @ + 1]
  /\ UNCHANGED <<kind, telegram, row, process, open, effects, answers>>

-----------------------------------------------------------------------------
(* A crash, or SIGTERM: main does not wait for the handlers.               *)

Stop(i) ==
  /\ up[i]
  /\ stops < MaxStops
  /\ up' = [up EXCEPT ![i] = FALSE]
  /\ stops' = stops + 1
  /\ handler' = [h \in Handlers |-> IF InstanceOf(h) = i THEN NoHandler ELSE handler[h]]
  /\ UNCHANGED <<kind, telegram, row, open, effects, replies>>

Restart(i) ==
  /\ ~up[i]
  /\ up' = [up EXCEPT ![i] = TRUE]
  /\ UNCHANGED <<kind, telegram, row, handler, stops, open, effects, replies>>

-----------------------------------------------------------------------------

HandlerStep(h) ==
  \/ Claim(h) \/ SkipDuplicate(h) \/ ClaimFails(h)
  \/ Mutate(h) \/ EnrichNow(h) \/ Query(h) \/ RefuseDone(h) \/ Mark(h)
  \/ CommandFails(h) \/ MarkFailed(h)
  \/ Reply(h) \/ ReplyError(h)

Next ==
  \/ \E u \in Updates : Send(u) \/ GrowStale(u)
  \/ SetActionStatus
  \/ \E h \in Handlers : Deliver(h) \/ Confirm(h) \/ HandlerStep(h)
  \/ \E i \in Instances : Stop(i) \/ Restart(i)

(* Telegram delivers what it has to the instances that poll, goroutines    *)
(* run, the LLM client times out and a stopped process is started again.   *)
Fairness ==
  /\ \A h \in Handlers : WF_vars(Deliver(h)) /\ WF_vars(HandlerStep(h))
  /\ \A i \in Instances : WF_vars(Restart(i))

Spec == Init /\ [][Next]_vars
FairSpec == Spec /\ Fairness

-----------------------------------------------------------------------------

(* The type of the rows, the handlers and the counters.                    *)
TypeOK ==
  /\ kind \in [Updates -> Kinds]
  /\ telegram \in [Updates -> {"unsent", "queued", "confirmed"}]
  /\ row \in [Updates -> Row]
  /\ handler \in [Handlers -> HandlerState]
  /\ up \in [Instances -> BOOLEAN]
  /\ stops \in Nat
  /\ open \in BOOLEAN
  /\ effects \in [Updates -> Nat]
  /\ answers \in [Updates -> Nat]
  /\ errors \in [Updates -> Nat]

(* A note is captured, and an action closed, at most once per update,      *)
(* however often the update is delivered, taken over, or cut short; and if *)
(* it was, the update is processed (README.md:179).                        *)
AtMostOnce ==
  \A u \in Updates :
    /\ effects[u] <= 1
    /\ effects[u] = 1 => row[u].status = "processed"

(* The bot says a command was done only once, and only when it was: the    *)
(* mark of the update, and the change to the domain, are committed before  *)
(* the response is sent (README.md:179).                                   *)
AnswersAreTrue ==
  \A u \in Updates :
    /\ answers[u] <= 1
    /\ answers[u] = 1 => /\ row[u].status = "processed"
                         /\ kind[u] \in Mutating => effects[u] = 1

(* A command is run at most TelegramUpdateMaxAttempts times, whatever the  *)
(* number of deliveries (README.md:177, "until the built-in attempt cap"). *)
AttemptsBounded ==
  \A u \in Updates : row[u].attempts <= MaxAttempts

(* A processed update is left alone: no handler fails it or claims it, not *)
(* even one whose own commit was reported as failed (README.md:177).       *)
ProcessedIsFinal ==
  [][\A u \in Updates : row[u].status = "processed" => row'[u] = row[u]]_vars

(* Unless a process stops on it, an update that was sent is answered by    *)
(* something: the command's response or an error message.                  *)
NoSilence ==
  \A u \in Updates :
    telegram[u] # "unsent" ~> answers[u] + errors[u] > 0 \/ stops > 0

(* "Read-only commands and validation responses are marked processed       *)
(* before sending the Telegram response" (README.md:179): when nothing     *)
(* fails, a /done without a usable number is answered by its usage.        *)
UsageIsAnswered ==
  \A u \in Updates : kind[u] \in {"doneBad", "doneEmpty"} => errors[u] = 0
=============================================================================
