------------------------ MODULE TelegramInbox_proofs ------------------------
(***************************************************************************)
(* What TelegramInbox keeps for every set of updates and instances, every  *)
(* attempt cap, and whatever fails or stops.                               *)
(*                                                                         *)
(* AtMostOnce and AnswersAreTrue are not inductive: they say nothing of a  *)
(* handler that has committed and not answered yet.  Accounted adds that   *)
(* there is one such handler at most, that its update is processed and     *)
(* unanswered, and that before the commit there is neither an effect nor   *)
(* an answer.                                                              *)
(***************************************************************************)
EXTENDS TelegramInbox, TLAPS

LEMMA HandlerParts ==
  ASSUME NEW h \in Handlers
  PROVE  InstanceOf(h) \in Instances /\ UpdateOf(h) \in Updates
BY DEF Handlers, InstanceOf, UpdateOf

LEMMA NoRowType == NoRow \in Row /\ NoHandler \in HandlerState
BY DEF NoRow, NoHandler, Row, HandlerState, PC

LEMMA ClaimedRowType ==
  ASSUME NEW r \in Row
  PROVE  /\ ClaimedRow(r) \in Row
         /\ ClaimedRow(r).status = "processing"
         /\ ClaimedRow(r).attempts = r.attempts + 1
BY DEF ClaimedRow, Row

LEMMA MarkedRowType ==
  ASSUME row \in [Updates -> Row], NEW u \in Updates, NEW s \in {"failed", "processed"}
  PROVE  [row EXCEPT ![u].status = s, ![u].age = "fresh"] \in [Updates -> Row]
BY DEF Row

-----------------------------------------------------------------------------

LEMMA InitType == Init => TypeOK
BY NoRowType DEF Init, TypeOK

LEMMA NextType ==
  ASSUME TypeOK, [Next]_vars
  PROVE  TypeOK'
<1> USE DEF TypeOK, process, replies, Goto
<1>1. ASSUME NEW u \in Updates, Send(u) \/ GrowStale(u) PROVE TypeOK'
  <2>1. CASE Send(u)
    BY <1>1, <2>1 DEF Send
  <2>2. CASE GrowStale(u)
    <3>1. row' \in [Updates -> Row]
      BY <2>2 DEF GrowStale, Row
    <3>2. QED
      BY <2>2, <3>1 DEF GrowStale
  <2>3. QED
    BY <1>1, <2>1, <2>2
<1>2. CASE SetActionStatus
  BY <1>2 DEF SetActionStatus
<1>3. ASSUME NEW h \in Handlers, Deliver(h) \/ Confirm(h) PROVE TypeOK'
  BY <1>3, HandlerParts DEF Deliver, Confirm, HandlerState, PC
<1>4. ASSUME NEW h \in Handlers, HandlerStep(h) PROVE TypeOK'
  <2> USE HandlerParts DEF HandlerState, PC
  <2>1. CASE Claim(h)
    <3>1. row' \in [Updates -> Row]
      BY <2>1, ClaimedRowType DEF Claim
    <3>2. row'[UpdateOf(h)].startedAt \in Nat
      BY <3>1 DEF Row
    <3>3. handler' \in [Handlers -> HandlerState]
      BY <2>1, <3>2 DEF Claim
    <3>4. QED
      BY <2>1, <3>1, <3>3 DEF Claim
  <2>2. CASE SkipDuplicate(h) \/ ClaimFails(h) \/ EnrichNow(h) \/ Query(h) \/ CommandFails(h)
    BY <2>2 DEF SkipDuplicate, ClaimFails, EnrichNow, Query, CommandFails
  <2>3. ASSUME NEW next \in PC, MarksProcessed(h, next)
        PROVE  row' \in [Updates -> Row] /\ handler' \in [Handlers -> HandlerState]
    <3>1. row' \in [Updates -> Row]
      BY <2>3, MarkedRowType DEF MarksProcessed
    <3>2. handler' \in [Handlers -> HandlerState]
      BY <2>3 DEF MarksProcessed
    <3>3. QED
      BY <3>1, <3>2
  <2>4. CASE Mutate(h)
    <3>1. \E next \in PC : MarksProcessed(h, next)
      BY <2>4 DEF Mutate
    <3>2. QED
      BY <2>3, <2>4, <3>1 DEF Mutate
  <2>5. CASE RefuseDone(h)
    <3>1. \E next \in PC : MarksProcessed(h, next)
      BY <2>5 DEF RefuseDone
    <3>2. QED
      BY <2>3, <2>5, <3>1 DEF RefuseDone
  <2>6. CASE Mark(h)
    BY <2>3, <2>6 DEF Mark
  <2>7. CASE MarkFailed(h)
    <3>1. row' \in [Updates -> Row]
      BY <2>7, MarkedRowType DEF MarkFailed
    <3>2. handler' \in [Handlers -> HandlerState]
      BY <2>7 DEF MarkFailed
    <3>3. QED
      BY <2>7, <3>1, <3>2 DEF MarkFailed
  <2>8. CASE Reply(h) \/ ReplyError(h)
    <3>1. handler' \in [Handlers -> HandlerState]
      BY <2>8 DEF Reply, ReplyError
    <3>2. answers' \in [Updates -> Nat] /\ errors' \in [Updates -> Nat]
      BY <2>8 DEF Reply, ReplyError
    <3>3. QED
      BY <2>8, <3>1, <3>2 DEF Reply, ReplyError
  <2>9. QED
    BY <1>4, <2>1, <2>2, <2>4, <2>5, <2>6, <2>7, <2>8 DEF HandlerStep
<1>5. ASSUME NEW i \in Instances, Stop(i) \/ Restart(i) PROVE TypeOK'
  <2>1. up' \in [Instances -> BOOLEAN] /\ stops' \in Nat
    <3>1. CASE Stop(i)
      BY <3>1 DEF Stop
    <3>2. CASE Restart(i)
      BY <3>2 DEF Restart
    <3>3. QED
      BY <1>5, <3>1, <3>2
  <2>2. handler' \in [Handlers -> HandlerState]
    BY <1>5, NoRowType DEF Stop, Restart
  <2>3. QED
    BY <1>5, <2>1, <2>2 DEF Stop, Restart
<1>6. CASE UNCHANGED vars
  BY <1>6 DEF vars
<1>7. QED
  BY <1>1, <1>2, <1>3, <1>4, <1>5, <1>6 DEF Next

(* The rows, the handlers and the counters keep their types.               *)
THEOREM TypeCorrect == Spec => []TypeOK
BY InitType, NextType, PTL DEF Spec

-----------------------------------------------------------------------------
(* Accounted.                                                              *)

(* The handler has committed the mark, and the response is still to come.  *)
Answering(h) == handler[h].pc \in {"llm", "reply"}

BeforeCommit ==
  \A u \in Updates :
    row[u].status # "processed" => effects[u] = 0 /\ answers[u] = 0

AnswererIsRight ==
  \A h \in Handlers :
    Answering(h) => /\ row[UpdateOf(h)].status = "processed"
                    /\ answers[UpdateOf(h)] = 0
                    /\ KindOf(h) \in Mutating => effects[UpdateOf(h)] = 1

OneAnswerer ==
  \A h, k \in Handlers :
    UpdateOf(h) = UpdateOf(k) /\ Answering(h) /\ Answering(k) => h = k

MarksNoMutation ==
  \A h \in Handlers : At(h, "mark") => KindOf(h) \notin Mutating

Accounted ==
  /\ BeforeCommit
  /\ AnswererIsRight
  /\ OneAnswerer
  /\ MarksNoMutation
  /\ AtMostOnce
  /\ AnswersAreTrue

LEMMA InitAccounted == Init => Accounted
BY HandlerParts
   DEF Init, Accounted, BeforeCommit, AnswererIsRight, OneAnswerer, MarksNoMutation,
       AtMostOnce, AnswersAreTrue, Answering, At, NoRow, NoHandler

(* A step that commits nothing and answers nothing.                        *)
LEMMA QuietStep ==
  ASSUME TypeOK, Accounted,
         kind' = kind, effects' = effects, answers' = answers,
         \A u \in Updates : row'[u].status = "processed" <=> row[u].status = "processed",
         \A h \in Handlers : handler'[h].pc \in {"llm", "reply"} => Answering(h),
         \A h \in Handlers : handler'[h].pc = "mark"
                               => At(h, "mark") \/ KindOf(h) \notin Mutating
  PROVE  Accounted'
<1> USE DEF Accounted
<1>1. BeforeCommit' /\ AtMostOnce' /\ AnswersAreTrue'
  BY DEF BeforeCommit, AtMostOnce, AnswersAreTrue
<1>2. AnswererIsRight'
  BY HandlerParts DEF AnswererIsRight, Answering, KindOf
<1>3. OneAnswerer'
  BY DEF OneAnswerer, Answering
<1>4. MarksNoMutation'
  BY DEF MarksNoMutation, At, KindOf
<1>5. QED
  BY <1>1, <1>2, <1>3, <1>4

(* A step that commits the mark of an update, with its mutation if it has  *)
(* one: before it the update had no effect, no answer and no answerer.     *)
LEMMA CommitStep ==
  ASSUME TypeOK, Accounted, NEW h \in Handlers,
         kind' = kind, answers' = answers,
         row[UpdateOf(h)].status = "processing",
         row'[UpdateOf(h)].status = "processed",
         \A u \in Updates \ {UpdateOf(h)} : row'[u] = row[u],
         \A k \in Handlers \ {h} : handler'[k] = handler[k],
         handler'[h].pc = "mark" => KindOf(h) \notin Mutating,
         effects' = [effects EXCEPT ![UpdateOf(h)] = IF KindOf(h) \in Mutating THEN @ + 1 ELSE @]
  PROVE  Accounted'
<1> DEFINE u == UpdateOf(h)
<1>0. u \in Updates
  BY HandlerParts
<1>1. /\ effects[u] = 0
      /\ answers[u] = 0
  BY <1>0 DEF Accounted, BeforeCommit
<1>2. \A k \in Handlers : UpdateOf(k) = u => ~Answering(k)
  BY <1>0 DEF Accounted, AnswererIsRight
<1>3. /\ effects'[u] = IF KindOf(h) \in Mutating THEN 1 ELSE 0
      /\ \A v \in Updates \ {u} : effects'[v] = effects[v]
  BY <1>0, <1>1 DEF TypeOK
<1>4. BeforeCommit'
  BY <1>3 DEF Accounted, BeforeCommit
<1>5. AtMostOnce'
  BY <1>3 DEF Accounted, AtMostOnce
<1>6. AnswersAreTrue'
  BY <1>1, <1>3 DEF Accounted, AnswersAreTrue
<1>7. AnswererIsRight'
  <2> SUFFICES ASSUME NEW k \in Handlers, Answering(k)'
               PROVE  /\ row'[UpdateOf(k)].status = "processed"
                      /\ answers'[UpdateOf(k)] = 0
                      /\ KindOf(k) \in Mutating => effects'[UpdateOf(k)] = 1
    BY DEF AnswererIsRight, KindOf
  <2>1. CASE k = h
    BY <1>1, <1>3, <2>1
  <2>2. CASE k # h
    <3>1. Answering(k)
      BY <2>2 DEF Answering
    <3>2. UpdateOf(k) \in Updates \ {u}
      BY <1>2, <3>1, HandlerParts
    <3>3. QED
      BY <1>3, <3>1, <3>2 DEF Accounted, AnswererIsRight
  <2>3. QED
    BY <2>1, <2>2
<1>8. OneAnswerer'
  <2> SUFFICES ASSUME NEW j \in Handlers, NEW k \in Handlers,
                      UpdateOf(j) = UpdateOf(k), Answering(j)', Answering(k)', j # k
               PROVE  FALSE
    BY DEF OneAnswerer
  <2>1. CASE j = h
    BY <1>2, <2>1 DEF Answering
  <2>2. CASE k = h
    BY <1>2, <2>2 DEF Answering
  <2>3. CASE j # h /\ k # h
    BY <2>3 DEF Accounted, OneAnswerer, Answering
  <2>4. QED
    BY <2>1, <2>2, <2>3
<1>9. MarksNoMutation'
  BY DEF Accounted, MarksNoMutation, At, KindOf
<1>10. QED
  BY <1>4, <1>5, <1>6, <1>7, <1>8, <1>9 DEF Accounted

(* What MarksProcessed does to the rows and the handlers.                  *)
LEMMA MarkEffect ==
  ASSUME TypeOK, NEW h \in Handlers, NEW next \in PC, MarksProcessed(h, next)
  PROVE  /\ row[UpdateOf(h)].status = "processing"
         /\ row'[UpdateOf(h)].status = "processed"
         /\ \A u \in Updates \ {UpdateOf(h)} : row'[u] = row[u]
         /\ \A k \in Handlers \ {h} : handler'[k] = handler[k]
         /\ handler'[h].pc \in {next, "fail"}
BY HandlerParts DEF TypeOK, Row, HandlerState, MarksProcessed, HoldsClaim, Goto

(* Reply is the one answer to a committed update.                          *)
LEMMA ReplyStep ==
  ASSUME TypeOK, Accounted, NEW h \in Handlers, Reply(h)
  PROVE  Accounted'
<1> DEFINE u == UpdateOf(h)
<1>0. u \in Updates
  BY HandlerParts
<1>1. /\ Answering(h)
      /\ kind' = kind /\ row' = row /\ effects' = effects
      /\ answers' = [answers EXCEPT ![u] = @ + 1]
      /\ handler'[h].pc = "end"
      /\ \A k \in Handlers \ {h} : handler'[k] = handler[k]
  BY DEF Reply, At, Answering, Goto, TypeOK, HandlerState
<1>2. /\ row[u].status = "processed"
      /\ kind[u] \in Mutating => effects[u] = 1
      /\ answers'[u] = 1
      /\ \A v \in Updates \ {u} : answers'[v] = answers[v]
  BY <1>0, <1>1 DEF Accounted, AnswererIsRight, KindOf, TypeOK
<1>3. \A k \in Handlers : Answering(k)' => Answering(k) /\ UpdateOf(k) # u
  <2> SUFFICES ASSUME NEW k \in Handlers, Answering(k)'
               PROVE  Answering(k) /\ UpdateOf(k) # u
    OBVIOUS
  <2>1. k # h
    BY <1>1 DEF Answering
  <2>2. Answering(k)
    BY <1>1, <2>1 DEF Answering
  <2>3. QED
    BY <1>1, <2>1, <2>2 DEF Accounted, OneAnswerer
<1>4. BeforeCommit' /\ AtMostOnce' /\ AnswersAreTrue'
  BY <1>1, <1>2 DEF Accounted, BeforeCommit, AtMostOnce, AnswersAreTrue
<1>5. AnswererIsRight'
  BY <1>1, <1>2, <1>3, HandlerParts DEF Accounted, AnswererIsRight, KindOf
<1>6. OneAnswerer'
  BY <1>3 DEF Accounted, OneAnswerer
<1>7. MarksNoMutation'
  BY <1>1 DEF Accounted, MarksNoMutation, At, KindOf
<1>8. QED
  BY <1>4, <1>5, <1>6, <1>7 DEF Accounted

LEMMA NextAccounted ==
  ASSUME TypeOK, Accounted, [Next]_vars
  PROVE  Accounted'
<1> USE DEF process, replies
<1>1. ASSUME NEW u \in Updates, Send(u) \/ GrowStale(u) PROVE Accounted'
  <2>1. \A v \in Updates : row'[v].status = row[v].status
    BY <1>1 DEF Send, GrowStale, TypeOK, Row
  <2>2. UNCHANGED <<kind, handler, effects, answers>>
    BY <1>1 DEF Send, GrowStale
  <2>3. QED
    BY <2>1, <2>2, QuietStep DEF Answering, At
<1>2. CASE SetActionStatus
  BY <1>2, QuietStep DEF SetActionStatus, Answering, At
<1>3. ASSUME NEW h \in Handlers, Deliver(h) \/ Confirm(h) PROVE Accounted'
  <2>1. /\ UNCHANGED <<kind, row, effects, answers>>
        /\ \A k \in Handlers : handler'[k] = handler[k] \/ handler'[k].pc = "received"
    BY <1>3 DEF Deliver, Confirm, Goto, TypeOK, HandlerState
  <2>2. QED
    BY <2>1, QuietStep DEF Answering, At
<1>4. ASSUME NEW h \in Handlers, HandlerStep(h) PROVE Accounted'
  <2>1. CASE Claim(h)
    <3>1. \A v \in Updates : row'[v].status = "processed" <=> row[v].status = "processed"
      BY <2>1, HandlerParts, ClaimedRowType DEF Claim, Free, TypeOK
    <3>2. \A k \in Handlers : \/ handler'[k] = handler[k]
                              \/ handler'[k].pc \in {"run", "replyError"}
      BY <2>1 DEF Claim, Goto, TypeOK, HandlerState
    <3>3. UNCHANGED <<kind, effects, answers>>
      BY <2>1 DEF Claim
    <3>4. QED
      BY <3>1, <3>2, <3>3, QuietStep DEF Answering, At
  <2>2. CASE SkipDuplicate(h) \/ ClaimFails(h) \/ CommandFails(h) \/ ReplyError(h)
    <3>1. /\ UNCHANGED <<kind, row, effects, answers>>
          /\ \A k \in Handlers : \/ handler'[k] = handler[k]
                                 \/ handler'[k].pc \in {"end", "replyError", "fail"}
      BY <2>2 DEF SkipDuplicate, ClaimFails, CommandFails, ReplyError, Goto, TypeOK,
                  HandlerState
    <3>2. QED
      BY <3>1, QuietStep DEF Answering, At
  <2>3. CASE EnrichNow(h) \/ Query(h)
    <3>1. /\ UNCHANGED <<kind, row, effects, answers>>
          /\ \A k \in Handlers \ {h} : handler'[k] = handler[k]
          /\ \/ Answering(h) /\ handler'[h].pc \in {"reply", "fail"}
             \/ KindOf(h) \notin Mutating /\ handler'[h].pc = "mark"
      BY <2>3 DEF EnrichNow, Query, At, Answering, Mutating, Goto, TypeOK, HandlerState
    <3>2. QED
      BY <3>1, QuietStep DEF Answering, At
  <2>4. CASE Mutate(h)
    <3>1. PICK next \in {"llm", "reply"} : MarksProcessed(h, next)
      BY <2>4 DEF Mutate
    <3>2. next \in PC
      BY DEF PC
    <3>3. /\ row[UpdateOf(h)].status = "processing"
          /\ row'[UpdateOf(h)].status = "processed"
          /\ \A u \in Updates \ {UpdateOf(h)} : row'[u] = row[u]
          /\ \A k \in Handlers \ {h} : handler'[k] = handler[k]
          /\ handler'[h].pc # "mark"
      BY <3>1, <3>2, MarkEffect
    <3>4. /\ KindOf(h) \in Mutating
          /\ effects' = [effects EXCEPT ![UpdateOf(h)] = @ + 1]
          /\ kind' = kind /\ answers' = answers
      BY <2>4 DEF Mutate
    <3>5. QED
      BY <3>3, <3>4, CommitStep
  <2>5. CASE RefuseDone(h) \/ Mark(h)
    <3>1. PICK next \in PC : MarksProcessed(h, next)
      BY <2>5 DEF RefuseDone, Mark, PC
    <3>2. KindOf(h) \notin Mutating
      BY <2>5 DEF RefuseDone, Mark, Mutating, Accounted, MarksNoMutation
    <3>3. /\ row[UpdateOf(h)].status = "processing"
          /\ row'[UpdateOf(h)].status = "processed"
          /\ \A u \in Updates \ {UpdateOf(h)} : row'[u] = row[u]
          /\ \A k \in Handlers \ {h} : handler'[k] = handler[k]
      BY <3>1, MarkEffect
    <3>4. /\ effects' = effects
          /\ kind' = kind /\ answers' = answers
      BY <2>5 DEF RefuseDone, Mark
    <3>5. effects' = [effects EXCEPT ![UpdateOf(h)] = IF KindOf(h) \in Mutating THEN @ + 1 ELSE @]
      BY <3>2, <3>4 DEF TypeOK
    <3>6. QED
      BY <3>2, <3>3, <3>4, <3>5, CommitStep
  <2>6. CASE MarkFailed(h)
    <3>1. \A v \in Updates : row'[v].status = "processed" <=> row[v].status = "processed"
      BY <2>6, HandlerParts DEF MarkFailed, HoldsClaim, TypeOK, Row
    <3>2. /\ UNCHANGED <<kind, effects, answers>>
          /\ \A k \in Handlers : handler'[k] = handler[k] \/ handler'[k].pc = "replyError"
      BY <2>6 DEF MarkFailed, Goto, TypeOK, HandlerState
    <3>3. QED
      BY <3>1, <3>2, QuietStep DEF Answering, At
  <2>7. CASE Reply(h)
    BY <2>7, ReplyStep
  <2>8. QED
    BY <1>4, <2>1, <2>2, <2>3, <2>4, <2>5, <2>6, <2>7 DEF HandlerStep
<1>5. ASSUME NEW i \in Instances, Stop(i) \/ Restart(i) PROVE Accounted'
  <2>1. /\ UNCHANGED <<kind, row, effects, answers>>
        /\ \A k \in Handlers : handler'[k] \in {handler[k], NoHandler}
    BY <1>5 DEF Stop, Restart, TypeOK
  <2>2. QED
    BY <2>1, QuietStep DEF Answering, At, NoHandler
<1>6. CASE UNCHANGED vars
  BY <1>6, QuietStep DEF vars, Answering, At
<1>7. QED
  BY <1>1, <1>2, <1>3, <1>4, <1>5, <1>6 DEF Next

LEMMA AccountedCorrect == Spec => []Accounted
BY InitAccounted, NextAccounted, TypeCorrect, PTL DEF Spec

(* However often an update is delivered, claimed and cut short, its domain *)
(* mutation is committed once at most.                                     *)
THEOREM MutatesAtMostOnce == Spec => []AtMostOnce
<1>1. Accounted => AtMostOnce
  BY DEF Accounted
<1>2. QED
  BY <1>1, AccountedCorrect, PTL

(* The command's own response is sent once at most, and what it says was   *)
(* done has been committed.                                                *)
THEOREM RepliesAreTrue == Spec => []AnswersAreTrue
<1>1. Accounted => AnswersAreTrue
  BY DEF Accounted
<1>2. QED
  BY <1>1, AccountedCorrect, PTL

-----------------------------------------------------------------------------

(* No handler writes the row of a processed update, not even one that took *)
(* its own commit for a failure.                                           *)
THEOREM ProcessedStays == Spec => ProcessedIsFinal
<1>1. ASSUME TypeOK, [Next]_vars, NEW u \in Updates, row[u].status = "processed"
      PROVE  row'[u] = row[u]
  <2>1. ASSUME NEW v \in Updates, Send(v) \/ GrowStale(v) PROVE row'[u] = row[u]
    BY <1>1, <2>1 DEF Send, GrowStale, TypeOK
  <2>2. ASSUME NEW h \in Handlers, HandlerStep(h) PROVE row'[u] = row[u]
    <3>1. CASE row' = row
      BY <3>1
    <3>2. CASE Claim(h)
      BY <1>1, <3>2 DEF Claim, Free, TypeOK
    <3>3. CASE HoldsClaim(h) /\ \A v \in Updates \ {UpdateOf(h)} : row'[v] = row[v]
      BY <1>1, <3>3 DEF HoldsClaim
    <3>4. QED
      BY <1>1, <2>2, <3>1, <3>2, <3>3
         DEF HandlerStep, SkipDuplicate, ClaimFails, Mutate, EnrichNow, Query,
             RefuseDone, Mark, MarksProcessed, CommandFails, MarkFailed, Reply,
             ReplyError, TypeOK
  <2>3. QED
    BY <1>1, <2>1, <2>2
       DEF Next, SetActionStatus, Deliver, Confirm, Stop, Restart, vars
<1>2. TypeOK /\ [Next]_vars
        => \A u \in Updates : row[u].status = "processed" => row'[u] = row[u]
  BY <1>1
<1>3. QED
  BY <1>2, TypeCorrect, PTL DEF Spec, ProcessedIsFinal

-----------------------------------------------------------------------------

Capped ==
  \A u \in Updates :
    /\ row[u].attempts <= MaxAttempts
    /\ row[u].status = "absent" => row[u].attempts = 0

LEMMA NextCapped ==
  ASSUME TypeOK, Capped, [Next]_vars
  PROVE  Capped'
<1>1. ASSUME NEW u \in Updates
      PROVE  \/ row'[u].attempts = row[u].attempts
                  /\ (row'[u].status = "absent" => row[u].status = "absent")
             \/ Free(u) /\ row'[u] = ClaimedRow(row[u])
  <2>1. ASSUME NEW v \in Updates, Send(v) \/ GrowStale(v)
        PROVE  \/ row'[u] = row[u]
               \/ row'[u] = [row[u] EXCEPT !.age = "stale"]
    BY <2>1 DEF Send, GrowStale, TypeOK
  <2>2. ASSUME NEW h \in Handlers, HandlerStep(h)
        PROVE  \/ row'[u] = row[u]
               \/ Free(u) /\ row'[u] = ClaimedRow(row[u])
               \/ \E s \in {"processed", "failed"} :
                    row'[u] = [row[u] EXCEPT !.status = s, !.age = "fresh"]
    <3>1. CASE row' = row
      BY <3>1
    <3>2. CASE Claim(h)
      BY <3>2, HandlerParts DEF Claim, TypeOK
    <3>3. ASSUME NEW s \in {"processed", "failed"},
                 row' = [row EXCEPT ![UpdateOf(h)].status = s, ![UpdateOf(h)].age = "fresh"]
          PROVE  \/ row'[u] = row[u]
                 \/ row'[u] = [row[u] EXCEPT !.status = s, !.age = "fresh"]
      BY <3>3, HandlerParts DEF TypeOK
    <3>4. \/ row' = row
          \/ Claim(h)
          \/ \E s \in {"processed", "failed"} :
               row' = [row EXCEPT ![UpdateOf(h)].status = s, ![UpdateOf(h)].age = "fresh"]
      BY <2>2 DEF HandlerStep, SkipDuplicate, ClaimFails, Mutate, EnrichNow, Query,
                  RefuseDone, Mark, MarksProcessed, CommandFails, MarkFailed, Reply,
                  ReplyError
    <3>5. QED
      BY <3>1, <3>2, <3>3, <3>4
  <2>3. \/ row'[u] = row[u]
        \/ row'[u] = [row[u] EXCEPT !.age = "stale"]
        \/ Free(u) /\ row'[u] = ClaimedRow(row[u])
        \/ \E s \in {"processed", "failed"} :
             row'[u] = [row[u] EXCEPT !.status = s, !.age = "fresh"]
    BY <2>1, <2>2 DEF Next, SetActionStatus, Deliver, Confirm, Stop, Restart, vars
  <2>4. row[u] \in Row
    BY DEF TypeOK
  <2>5. CASE row'[u] = [row[u] EXCEPT !.age = "stale"]
    BY <2>4, <2>5 DEF Row
  <2>6. ASSUME NEW s \in {"processed", "failed"},
               row'[u] = [row[u] EXCEPT !.status = s, !.age = "fresh"]
        PROVE  row'[u].attempts = row[u].attempts /\ row'[u].status # "absent"
    BY <2>4, <2>6 DEF Row
  <2>7. CASE \E s \in {"processed", "failed"} :
               row'[u] = [row[u] EXCEPT !.status = s, !.age = "fresh"]
    BY <2>6, <2>7
  <2>8. CASE Free(u) /\ row'[u] = ClaimedRow(row[u])
    BY <2>8
  <2>9. CASE row'[u] = row[u]
    BY <2>9
  <2>10. QED
    BY <2>3, <2>5, <2>7, <2>8, <2>9
<1>2. ASSUME NEW u \in Updates
      PROVE  /\ row'[u].attempts <= MaxAttempts
             /\ row'[u].status = "absent" => row'[u].attempts = 0
  <2>1. /\ row[u] \in Row /\ row[u].attempts \in Nat /\ MaxAttempts \in Nat \ {0}
        /\ row[u].attempts <= MaxAttempts
        /\ row[u].status = "absent" => row[u].attempts = 0
    BY InboxAssumption DEF TypeOK, Row, Capped
  <2>2. CASE Free(u) /\ row'[u] = ClaimedRow(row[u])
    <3>1. /\ row'[u].status = "processing"
          /\ row'[u].attempts = row[u].attempts + 1
      BY <2>1, <2>2, ClaimedRowType
    <3>2. row[u].attempts < MaxAttempts
      BY <2>1, <2>2 DEF Free
    <3>3. QED
      BY <2>1, <3>1, <3>2
  <2>3. QED
    BY <1>1, <2>1, <2>2
<1>3. QED
  BY <1>2 DEF Capped

(* An update is claimed at most MaxAttempts times.                         *)
THEOREM AttemptsCapped == Spec => []AttemptsBounded
<1>1. Init => Capped
  BY InboxAssumption DEF Init, Capped, NoRow
<1>2. Capped => AttemptsBounded
  BY DEF Capped, AttemptsBounded
<1>3. QED
  BY <1>1, <1>2, NextCapped, TypeCorrect, PTL DEF Spec
=============================================================================
