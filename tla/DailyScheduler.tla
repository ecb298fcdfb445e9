--------------------------- MODULE DailyScheduler ---------------------------
(***************************************************************************)
(* The scheduler of the daily recap, internal/scheduler/daily.go: it plans *)
(* the next run in local time, waits for it, and for one allowed user      *)
(* after another looks whether the recap of the source day was sent,       *)
(* generates it, sends it to Telegram and records it in the table          *)
(* daily_summary_sends.                                                    *)
(*                                                                         *)
(* A timer fires when it is due and a run is over within the hour: time    *)
(* waits for both.  A process may be down for as long as it likes.         *)
(***************************************************************************)
EXTENDS LocalCalendar, FiniteSets

CONSTANTS
  Instances,   \* processes with DAILY_SUMMARY_ENABLED
  LastUser,    \* the allowed users are 1 .. LastUser, in this order
  RunAt,       \* DAILY_SUMMARY_TIME
  Mode,        \* DAILY_SUMMARY_MODE
  Failures,    \* may the database, the LLM or Telegram fail?
  NoteDays,    \* bound: the days on which notes are captured
  MaxStops     \* bound: process stops

(* The clock time of the runs exists on every day, and only once.          *)
ASSUME SchedulerAssumption ==
  /\ LastUser \in Nat \ {0}
  /\ RunAt \in (ShiftHour + 2)..(DayLength - 2)
  /\ Mode \in {"previous_workday", "current_day"}
  /\ Failures \in BOOLEAN
  /\ NoteDays \subseteq Days
  /\ MaxStops \in Nat

Users == 1..LastUser

VARIABLES
  now,        \* the current instant
  captured,   \* user and day of the notes there are
  recorded,   \* the rows of daily_summary_sends
  sent,       \* how many times each recap has reached the user
  failed,     \* the recaps, of days with notes, that a run gave up
  pc,         \* what the scheduler of each process does next,
  next,       \*   the run it waits for or carries out,
  source,     \*   the day this run recaps,
  user,       \*   and the user whose turn it is
  stops       \* how many times a process has stopped

vars == <<now, captured, recorded, sent, failed, pc, next, source, user, stops>>
tables == <<captured, recorded>>
sched == <<pc, next, source, user>>

(* A run on day 0 recaps the Friday before.                                *)
SourceDays == -3..LastDay
Recaps == Users \X SourceDays

InARun == {"check", "generate", "send", "record"}

At(i, label) == pc[i] = label
Goto(i, label) == pc' = [pc EXCEPT ![i] = label]
RecapOf(i) == <<user[i], source[i]>>
InRun(i) == pc[i] \in InARun

Init ==
  /\ now = 0
  /\ captured = {}
  /\ recorded = {}
  /\ sent = [r \in Recaps |-> 0]
  /\ failed = {}
  /\ pc = [i \in Instances |-> "plan"]
  /\ next = [i \in Instances |-> 0]
  /\ source = [i \in Instances |-> 0]
  /\ user = [i \in Instances |-> 1]
  /\ stops = 0

-----------------------------------------------------------------------------
(* The local time of the runs.                                             *)

BaseRun(t) == Midnight(DayOf[t]) + RunAt

FirstRunAfter(t) == IF BaseRun(t) > t THEN BaseRun(t) ELSE AddDate(BaseRun(t), 1)

(* nextRun: past the weekend, if the mode has it so.                       *)
NextRun(t) ==
  LET first == FirstRunAfter(t)
      ahead == IF Mode = "current_day" THEN 0
               ELSE CHOOSE n \in 0..2 :
                      /\ ~IsWeekend(DayOf[first] + n)
                      /\ \A m \in 0..(n - 1) : IsWeekend(DayOf[first] + m)
  IN  AddDate(first, ahead)

(* Bug: on a Monday, too, the day before.                                  *)
SourceDateOfYesterday(t) == IF Mode = "current_day" THEN DayOf[t] ELSE DayOf[t] - 1

(* sourceDateForRun                                                        *)
SourceDate(t) ==
  CASE Mode = "current_day" -> DayOf[t]
    [] Mode # "current_day" /\ Weekday(DayOf[t]) = Monday -> DayOf[t] - 3
    [] OTHER -> DayOf[t] - 1

-----------------------------------------------------------------------------

(* The calendar ends; the last run must still have a day to be planned for.*)
InTime == DayOf[now] <= LastDay - 3

Tick ==
  /\ InTime
  /\ \A i \in Instances : At(i, "down") \/ (At(i, "wait") /\ next[i] > now)
  /\ now' = now + 1
  /\ UNCHANGED <<tables, sent, failed, sched, stops>>

Capture(u) ==
  /\ DayOf[now] \in NoteDays
  /\ captured' = captured \union {<<u, DayOf[now]>>}
  /\ UNCHANGED <<now, recorded, sent, failed, sched, stops>>

(* The head of the loop of Run.                                            *)
Plan(i) ==
  /\ At(i, "plan")
  /\ InTime
  /\ next' = [next EXCEPT ![i] = NextRun(now)]
  /\ Goto(i, "wait")
  /\ UNCHANGED <<now, tables, sent, failed, source, user, stops>>

SkipsWeekend(t) == Mode = "previous_workday" /\ IsWeekend(DayOf[t])

(* The timer, and the head of sendForAll.                                  *)
Fire(i) ==
  /\ At(i, "wait")
  /\ next[i] <= now
  /\ IF SkipsWeekend(next[i])
     THEN Goto(i, "plan") /\ UNCHANGED <<source, user>>
     ELSE /\ source' = [source EXCEPT ![i] = SourceDate(next[i])]
          /\ user' = [user EXCEPT ![i] = 1]
          /\ Goto(i, "check")
  /\ UNCHANGED <<now, tables, sent, failed, next, stops>>

(* Bug: the bound of the loop is off by one.                               *)
NextUserBeyondTheLast(i) ==
  user' = [user EXCEPT ![i] = @ + 1] /\ Goto(i, "check")

(* Bug: return for continue.                                               *)
NextUserNever(i) == Goto(i, "plan") /\ UNCHANGED user

(* The loop over the users goes on.                                        *)
NextUser(i) ==
  IF user[i] = LastUser
  THEN Goto(i, "plan") /\ UNCHANGED user
  ELSE user' = [user EXCEPT ![i] = @ + 1] /\ Goto(i, "check")

(* Bug: the recap is not looked up.                                        *)
CheckNothing(i) ==
  /\ At(i, "check")
  /\ Goto(i, "generate")
  /\ UNCHANGED <<now, tables, sent, failed, next, source, user, stops>>

(* HasDailySummarySend                                                     *)
CheckSent(i) ==
  /\ At(i, "check")
  /\ IF RecapOf(i) \in recorded
     THEN NextUser(i)
     ELSE Goto(i, "generate") /\ UNCHANGED user
  /\ UNCHANGED <<now, tables, sent, failed, next, source, stops>>

(* DailyAtDate; without notes there is nothing to send.                    *)
Generate(i) ==
  /\ At(i, "generate")
  /\ IF RecapOf(i) \in captured
     THEN Goto(i, "send") /\ UNCHANGED user
     ELSE NextUser(i)
  /\ UNCHANGED <<now, tables, sent, failed, next, source, stops>>

SendRecap(i) ==
  /\ At(i, "send")
  /\ sent' = [sent EXCEPT ![RecapOf(i)] = @ + 1]
  /\ Goto(i, "record")
  /\ UNCHANGED <<now, tables, failed, next, source, user, stops>>

(* RecordDailySummarySend                                                  *)
RecordSend(i) ==
  /\ At(i, "record")
  /\ recorded' = recorded \union {RecapOf(i)}
  /\ NextUser(i)
  /\ UNCHANGED <<now, captured, sent, failed, next, source, stops>>

(* Any of these calls, and EnsureUser before them, may fail: it is logged, *)
(* and the next user's turn.  A failed call may have taken effect.         *)
CallFails(i) ==
  /\ Failures
  /\ InRun(i)
  /\ NextUser(i)
  /\ failed' = failed \union ({RecapOf(i)} \intersect captured)
  /\ sent' \in {sent, [sent EXCEPT ![RecapOf(i)] = IF At(i, "send") THEN @ + 1 ELSE @]}
  /\ recorded' \in {recorded, IF At(i, "record") THEN recorded \union {RecapOf(i)}
                              ELSE recorded}
  /\ UNCHANGED <<now, captured, next, source, stops>>

Stop(i) ==
  /\ ~At(i, "down")
  /\ stops < MaxStops
  /\ Goto(i, "down")
  /\ stops' = stops + 1
  /\ UNCHANGED <<now, tables, sent, failed, next, source, user>>

Restart(i) ==
  /\ At(i, "down")
  /\ Goto(i, "plan")
  /\ UNCHANGED <<now, tables, sent, failed, next, source, user, stops>>

-----------------------------------------------------------------------------

RunStep(i) ==
  \/ CheckSent(i) \/ Generate(i) \/ SendRecap(i) \/ RecordSend(i) \/ CallFails(i)

Next ==
  \/ Tick
  \/ \E u \in Users : Capture(u)
  \/ \E i \in Instances : \/ Plan(i) \/ Fire(i) \/ RunStep(i)
                          \/ Stop(i) \/ Restart(i)

(* Time passes, timers fire and goroutines run.                            *)
Fairness ==
  /\ WF_vars(Tick)
  /\ \A i \in Instances : WF_vars(Plan(i)) /\ WF_vars(Fire(i)) /\ WF_vars(RunStep(i))

Spec == Init /\ [][Next]_vars
FairSpec == Spec /\ Fairness

-----------------------------------------------------------------------------

(* The type of the tables and of the schedulers.                           *)
TypeOK ==
  /\ now \in Instants
  /\ captured \subseteq Users \X Days
  /\ recorded \subseteq Recaps
  /\ sent \in [Recaps -> Nat]
  /\ failed \subseteq Recaps
  /\ pc \in [Instances -> {"down", "plan", "wait"} \union InARun]
  /\ next \in [Instances -> Instants]
  /\ source \in [Instances -> SourceDays]
  /\ user \in [Instances -> Users]
  /\ stops \in Nat

(* "Scheduled-send idempotency is keyed by user and source workday"        *)
(* (README.md:149): what was recorded is not sent again, whatever restarts,*)
(* failures and second runs of a day there are.                            *)
NeverResentOnceRecorded ==
  [][\A r \in Recaps : sent'[r] # sent[r] => r \notin recorded]_vars

(* "Tuesday through Friday recap the previous calendar day, while Monday   *)
(* recaps the previous Friday" (README.md:147): a recap reaches its user   *)
(* on the first workday after its day, and that is a workday too, whenever *)
(* the process was started and the clock moved.                            *)
RecapsThePreviousWorkday ==
  [][\A u \in Users, d \in SourceDays :
       Mode = "previous_workday" /\ sent'[<<u, d>>] # sent[<<u, d>>] =>
         /\ ~IsWeekend(d) /\ ~IsWeekend(DayOf[now])
         /\ d < DayOf[now]
         /\ \A between \in (d + 1)..(DayOf[now] - 1) : IsWeekend(between)]_vars

(* The notes of a workday are recapped, unless the run logs an error for   *)
(* that very user and day, or the process was stopped: no run is skipped   *)
(* and no user's failure costs another the recap (sendForAll's continue).  *)
WorkdaysAreRecapped ==
  \A r \in Users \X {d \in NoteDays : ~IsWeekend(d)} :
    Mode = "previous_workday" /\ r \in captured
      ~> sent[r] > 0 \/ r \in failed \/ stops > 0

(* DAILY_SUMMARY_TIME is the "local time for scheduled daily summaries"    *)
(* (README.md:53), also in the mode current_day, "still using the          *)
(* configured morning time" (README.md:149).                               *)
RunsAtLocalTime ==
  \A i \in Instances : At(i, "wait") => WallClock[next[i]] = RunAt
=============================================================================
