----------------------- MODULE DailyScheduler_proofs ------------------------
(***************************************************************************)
(* Proofs about DailyScheduler, for any calendar and change of the clock,  *)
(* any run time, mode and number of users, failures, stops and restarts.   *)
(*                                                                         *)
(*   - With one scheduling process a recap that was recorded is never sent *)
(*     again.                                                              *)
(*   - The calendar: every instant is on one day, every clock time has a   *)
(*     first instant on each.  A run is planned for a later instant that   *)
(*     exists, its timer is not overtaken, and the day it recaps is the    *)
(*     workday before; in any number of processes.                         *)
(***************************************************************************)
EXTENDS DailyScheduler, WellFoundedInduction, TLAPS

(* The scheduler runs in one process: nothing in the table or the code     *)
(* excludes a second one between the look-up and the send.                 *)
OneInstance == \A i, j \in Instances : i = j

(* What the steps below need of the types.                                 *)
Shape ==
  /\ DOMAIN sent = Recaps
  /\ DOMAIN pc = Instances

(* From the look-up to the send nobody records the recap.                  *)
UnsentIsUnrecorded ==
  \A i \in Instances : pc[i] \in {"generate", "send"} => RecapOf(i) \notin recorded

IInv == Shape /\ UnsentIsUnrecorded

-----------------------------------------------------------------------------

(* Initially no run is under way.                                          *)
LEMMA InitIInv == Init => IInv
BY DEF Init, IInv, Shape, UnsentIsUnrecorded

(* After a turn the only scheduler is at the next look-up or at the plan.  *)
LEMMA NextUserLeaves ==
  ASSUME OneInstance, Shape, NEW i \in Instances, NextUser(i)
  PROVE  /\ DOMAIN pc' = Instances
         /\ \A j \in Instances : pc'[j] \notin {"generate", "send"}
BY DEF NextUser, Goto, Shape, OneInstance

(* Every step keeps the invariant.                                         *)
LEMMA NextIInv ==
  ASSUME OneInstance, IInv, [Next]_vars
  PROVE  IInv'
<1> USE DEF IInv
<1>1. CASE UNCHANGED vars
  BY <1>1 DEF vars, Shape, UnsentIsUnrecorded, RecapOf
<1>2. CASE Tick \/ \E u \in Users : Capture(u)
  BY <1>2 DEF Tick, Capture, tables, sched, Shape, UnsentIsUnrecorded, RecapOf
<1>3. ASSUME NEW i \in Instances, Plan(i) \/ Fire(i) \/ Stop(i) \/ Restart(i)
      PROVE  IInv'
  BY <1>3 DEF Plan, Fire, Stop, Restart, Goto, OneInstance, Shape, UnsentIsUnrecorded
<1>4. ASSUME NEW i \in Instances, NextUser(i), DOMAIN sent' = Recaps
      PROVE  IInv'
  BY <1>4, NextUserLeaves DEF Shape, UnsentIsUnrecorded
<1>5. ASSUME NEW i \in Instances, CheckSent(i) PROVE IInv'
  <2>1. CASE RecapOf(i) \in recorded
    BY <1>4, <1>5, <2>1 DEF CheckSent, Shape
  <2>2. CASE RecapOf(i) \notin recorded
    BY <1>5, <2>2 DEF CheckSent, Goto, tables, OneInstance, Shape,
                      UnsentIsUnrecorded, RecapOf
  <2> QED BY <2>1, <2>2
<1>6. ASSUME NEW i \in Instances, Generate(i) PROVE IInv'
  <2>1. CASE RecapOf(i) \in captured
    BY <1>6, <2>1 DEF Generate, At, Goto, tables, OneInstance, Shape,
                      UnsentIsUnrecorded, RecapOf
  <2>2. CASE RecapOf(i) \notin captured
    BY <1>4, <1>6, <2>2 DEF Generate, Shape
  <2> QED BY <2>1, <2>2
<1>7. ASSUME NEW i \in Instances, SendRecap(i) PROVE IInv'
  BY <1>7 DEF SendRecap, Goto, OneInstance, Shape, UnsentIsUnrecorded
<1>8. ASSUME NEW i \in Instances, RecordSend(i) PROVE IInv'
  BY <1>4, <1>8 DEF RecordSend, Shape
<1>9. ASSUME NEW i \in Instances, CallFails(i) PROVE IInv'
  BY <1>4, <1>9 DEF CallFails, Shape
<1> QED
  BY <1>1, <1>2, <1>3, <1>5, <1>6, <1>7, <1>8, <1>9 DEF Next, RunStep

(* A step sends a recap only when it is not recorded.                      *)
LEMMA SendsUnrecorded ==
  ASSUME IInv, Next, NEW r \in Recaps, sent'[r] # sent[r]
  PROVE  r \notin recorded
<1> USE DEF IInv
<1>1. ASSUME NEW i \in Instances, At(i, "send"), r = RecapOf(i) PROVE r \notin recorded
  BY <1>1 DEF At, UnsentIsUnrecorded
<1>2. ASSUME NEW i \in Instances, SendRecap(i) PROVE r \notin recorded
  <2>1. r = RecapOf(i) BY <1>2 DEF SendRecap, Shape
  <2> QED BY <1>1, <1>2, <2>1 DEF SendRecap
<1>3. ASSUME NEW i \in Instances, CallFails(i) PROVE r \notin recorded
  <2>1. sent' = [sent EXCEPT ![RecapOf(i)] = IF At(i, "send") THEN @ + 1 ELSE @]
    BY <1>3 DEF CallFails
  <2>2. r = RecapOf(i) /\ At(i, "send") BY <2>1 DEF Shape
  <2> QED BY <1>1, <2>2
<1> QED
  BY <1>2, <1>3 DEF Next, RunStep, Tick, Capture, Plan, Fire, CheckSent, Generate,
                    RecordSend, Stop, Restart

(* With one scheduling process, what daily_summary_sends records is never  *)
(* sent again: NeverResentOnceRecorded.                                    *)
THEOREM NeverResent ==
  ASSUME OneInstance
  PROVE  Spec => NeverResentOnceRecorded
<1> DEFINE Unrecorded == \A r \in Recaps : sent'[r] # sent[r] => r \notin recorded
<1>1. IInv /\ [Next]_vars => IInv' BY NextIInv
<1>2. IInv /\ [Next]_vars => [Unrecorded]_vars BY SendsUnrecorded
<1> QED
  BY InitIInv, <1>1, <1>2, PTL DEF Spec, NeverResentOnceRecorded

-----------------------------------------------------------------------------
LEMMA LeastNat ==
  ASSUME NEW T, T \subseteq Nat, T # {}
  PROVE  \E x \in T : \A y \in T : x <= y
<1> DEFINE R == {ss \in Nat \X Nat : ss[1] < ss[2]}
<1>1. PICK x \in T : \A y \in T : ~(<<y, x>> \in R)
  <2>1. IsWellFoundedOn(R, Nat) BY NatLessThanWellFounded, Zenon DEF OpToRel
  <2> HIDE DEF R
  <2> QED BY <2>1, WFMin
<1>2. ASSUME NEW y \in T PROVE x <= y
  <2>1. <<y, x>> \in Nat \X Nat => ~(<<y, x>>[1] < <<y, x>>[2]) BY <1>1 DEF R
  <2> QED BY <2>1
<1> QED BY <1>2

-----------------------------------------------------------------------------
(* Days follow each other and have as many hours as the calendar says.     *)
LEMMA Midnights ==
  /\ Midnight(0) = 0
  /\ \A d \in Int : /\ Midnight(d) \in Int
                    /\ Midnight(d + 1) = Midnight(d) + DayLength
                                           - (IF d = ShiftDay THEN Shift ELSE 0)
<1>1. Midnight(0) = 0 BY CalendarAssumption DEF Midnight
<1>2. ASSUME NEW d \in Int
      PROVE  /\ Midnight(d) \in Int
             /\ Midnight(d + 1) = Midnight(d) + DayLength - (IF d = ShiftDay THEN Shift ELSE 0)
  <2>1. d * DayLength \in Int /\ (d + 1) * DayLength = d * DayLength + DayLength
    BY CalendarAssumption
  <2> QED BY <2>1, CalendarAssumption DEF Midnight
<1> QED BY <1>1, <1>2

LEMMA MidnightsGrow ==
  ASSUME NEW d \in Int, NEW e \in Int, d < e
  PROVE  Midnight(d + 1) <= Midnight(e)
<1>1. (d + 1) * DayLength \in Int /\ e * DayLength \in Int BY CalendarAssumption
<1>2. CASE e = d + 1 BY <1>1, <1>2, CalendarAssumption DEF Midnight
<1>3. CASE d + 2 <= e
  <2>1. (d + 2) * DayLength <= e * DayLength BY <1>3, CalendarAssumption
  <2>2. (d + 2) * DayLength = (d + 1) * DayLength + DayLength BY CalendarAssumption
  <2> QED BY <1>1, <2>1, <2>2, CalendarAssumption DEF Midnight
<1> QED BY <1>2, <1>3

LEMMA Hours ==
  ASSUME NEW d \in Days
  PROVE  /\ HoursOf(d) \subseteq Instants
         /\ \A e \in Days : \A t \in HoursOf(d) : t \in HoursOf(e) => d = e
<1>1. d \in Nat /\ LastDay \in Nat BY CalendarAssumption DEF Days
<1>2. /\ \A e \in Int : Midnight(e) \in Int
      /\ 0 <= Midnight(d) /\ Midnight(d + 1) <= Midnight(LastDay + 1)
  <2>1. CASE d = 0 BY <2>1, <1>1, Midnights, MidnightsGrow DEF Days
  <2>2. CASE d > 0
    <3>1. Midnight(0 + 1) <= Midnight(d) BY <1>1, <2>2, MidnightsGrow
    <3>2. 0 <= Midnight(0 + 1) BY Midnights, CalendarAssumption
    <3> QED BY <1>1, <3>1, <3>2, Midnights, MidnightsGrow DEF Days
  <2> QED BY <1>1, <2>1, <2>2, Midnights
<1>3. HoursOf(d) \subseteq Instants BY <1>1, <1>2 DEF HoursOf, Instants, Horizon
<1>4. ASSUME NEW e \in Days, NEW t \in HoursOf(d), t \in HoursOf(e) PROVE d = e
  <2>1. d \in Int /\ e \in Int BY DEF Days
  <2>2. d < e => Midnight(d + 1) <= Midnight(e) BY <2>1, MidnightsGrow
  <2>3. e < d => Midnight(e + 1) <= Midnight(d) BY <2>1, MidnightsGrow
  <2>4. /\ Midnight(d) \in Int /\ Midnight(d + 1) \in Int
        /\ Midnight(e) \in Int /\ Midnight(e + 1) \in Int BY <2>1, Midnights
  <2> QED BY <1>4, <2>1, <2>2, <2>3, <2>4 DEF HoursOf
<1> QED BY <1>3, <1>4

(* Every instant is on a day.                                              *)
LEMMA DayOfInstant ==
  ASSUME NEW t \in Instants
  PROVE  DayOf[t] \in Days /\ t \in HoursOf(DayOf[t])
<1> DEFINE Later == {d \in Nat : t < Midnight(d + 1)}
<1>0. LastDay \in Nat /\ t \in Int /\ 0 <= t /\ t < Midnight(LastDay + 1)
  <2>1. LastDay \in Nat BY CalendarAssumption
  <2>2. Midnight(LastDay + 1) \in Int BY <2>1, Midnights
  <2> QED BY <2>1, <2>2 DEF Instants, Horizon
<1>1. PICK d \in Later : \A e \in Later : d <= e
  <2>1. LastDay \in Later BY <1>0
  <2>2. Later \subseteq Nat OBVIOUS
  <2> HIDE DEF Later
  <2> QED BY <2>1, <2>2, LeastNat
<1>2. d \in Days BY <1>0, <1>1 DEF Days
<1>3. Midnight(d) <= t
  <2>1. CASE d = 0 BY <1>0, <2>1, Midnights
  <2>2. CASE d > 0
    <3>1. d - 1 \in Nat /\ (d - 1) + 1 = d BY <1>1, <2>2
    <3>2. d - 1 \notin Later BY <1>1, <3>1
    <3>3. ~(t < Midnight(d)) BY <3>1, <3>2
    <3> QED BY <1>0, <3>1, <3>3, Midnights
  <2> QED BY <1>1, <2>1, <2>2
<1>4. t \in HoursOf(d)
  <2>1. t < Midnight(d + 1) /\ d \in Int BY <1>1
  <2>2. Midnight(d) \in Int /\ Midnight(d + 1) \in Int BY <2>1, Midnights
  <2> QED BY <1>0, <1>3, <2>1, <2>2 DEF HoursOf
<1>5. DayOf[t] = CHOOSE e \in Days : t \in HoursOf(e) BY DEF DayOf
<1> QED BY <1>2, <1>4, <1>5

LEMMA DayOfHour ==
  ASSUME NEW d \in Days, NEW t \in HoursOf(d)
  PROVE  t \in Instants /\ DayOf[t] = d
<1>1. t \in Instants BY Hours
<1> QED BY <1>1, DayOfInstant, Hours

(* What the clock shows.                                                   *)
LEMMA Clock ==
  ASSUME NEW d \in Days, NEW t \in HoursOf(d)
  PROVE  /\ WallClock[t] = t - Midnight(d)
              + (IF d = ShiftDay /\ t - Midnight(d) >= ShiftHour THEN Shift ELSE 0)
         /\ WallClock[t] \in 0..(DayLength - 1)
<1>1. t \in Instants /\ DayOf[t] = d BY DayOfHour
<1>2. WallClock[t] = t - Midnight(d)
         + (IF d = ShiftDay /\ t - Midnight(d) >= ShiftHour THEN Shift ELSE 0)
  BY <1>1 DEF WallClock
<1>3. d \in Int BY DEF Days
<1>4. /\ Midnight(d) \in Int
      /\ Midnight(d + 1) = Midnight(d) + DayLength - (IF d = ShiftDay THEN Shift ELSE 0)
  BY <1>3, Midnights
<1>5. t \in Int /\ Midnight(d) <= t /\ t < Midnight(d + 1)
  <2>1. Midnight(d + 1) \in Int BY <1>3, Midnights
  <2> QED BY <1>4, <2>1 DEF HoursOf
<1> QED BY <1>2, <1>4, <1>5, CalendarAssumption

(* Every clock time, or a later one, is shown on every day; TimeOn is the  *)
(* first instant at which it is.                                           *)
LEMMA TimeOnDay ==
  ASSUME NEW d \in Days, NEW clock \in 0..(DayLength - 1)
  PROVE  /\ TimeOn[d][clock] \in HoursOf(d)
         /\ WallClock[TimeOn[d][clock]] >= clock
         /\ \A t \in HoursOf(d) : t < TimeOn[d][clock] => WallClock[t] < clock
<1> DEFINE Shown == {t \in HoursOf(d) : WallClock[t] >= clock}
           First(t) == /\ WallClock[t] >= clock
                       /\ \A earlier \in Midnight(d)..(t - 1) : WallClock[earlier] < clock
<1>1. d \in Int BY DEF Days
<1>2. /\ Midnight(d) \in Int /\ Midnight(d + 1) \in Int /\ 0 <= Midnight(d)
      /\ Midnight(d + 1) = Midnight(d) + DayLength - (IF d = ShiftDay THEN Shift ELSE 0)
  <2>1. Midnight(d + 1) \in Int BY <1>1, Midnights
  <2>2. Midnight(d) \in HoursOf(d)
    BY <1>1, <2>1, Midnights, CalendarAssumption DEF HoursOf
  <2>3. Midnight(d) \in Instants BY <2>2, Hours
  <2> QED BY <1>1, <2>1, <2>3, Midnights DEF Instants
<1>3. HoursOf(d) \subseteq Nat BY <1>2 DEF HoursOf
<1>4. Midnight(d + 1) - 1 \in Shown
  <2>1. Midnight(d + 1) - 1 \in HoursOf(d) BY <1>2, CalendarAssumption DEF HoursOf
  <2>2. WallClock[Midnight(d + 1) - 1] = DayLength - 1
    BY <1>2, <2>1, Clock, CalendarAssumption
  <2> QED BY <2>1, <2>2, CalendarAssumption
<1>5. PICK t \in Shown : \A s \in Shown : t <= s
  <2>1. Shown \subseteq Nat /\ Shown # {} BY <1>3, <1>4
  <2> HIDE DEF Shown
  <2> QED BY <2>1, LeastNat
<1>6. \A s \in HoursOf(d) : s < t => WallClock[s] < clock
  <2> SUFFICES ASSUME NEW s \in HoursOf(d), s < t PROVE WallClock[s] < clock OBVIOUS
  <2>1. ~(WallClock[s] >= clock) BY <1>3, <1>5
  <2>2. WallClock[s] \in Int /\ clock \in Int BY Clock, CalendarAssumption
  <2> QED BY <2>1, <2>2
<1>7. \A s \in HoursOf(d) : \A r \in Midnight(d)..(s - 1) : r \in HoursOf(d) /\ r < s
  BY <1>2 DEF HoursOf
<1>8. First(t) BY <1>5, <1>6, <1>7
<1>9. TimeOn[d][clock] = CHOOSE s \in HoursOf(d) : First(s) BY DEF TimeOn
<1>10. TimeOn[d][clock] \in HoursOf(d) /\ First(TimeOn[d][clock])
  <2> HIDE DEF First
  <2> QED BY <1>5, <1>8, <1>9
<1>11. \A s \in HoursOf(d) : s < TimeOn[d][clock] => s \in Midnight(d)..(TimeOn[d][clock] - 1)
  BY <1>2, <1>10 DEF HoursOf
<1> QED BY <1>10, <1>11

(* The same clock time some days on is on that day.                        *)
LEMMA AddDateDay ==
  ASSUME NEW t \in Instants, NEW n \in Nat, DayOf[t] + n <= LastDay
  PROVE  AddDate(t, n) \in Instants /\ DayOf[AddDate(t, n)] = DayOf[t] + n
<1>1. DayOf[t] + n \in Days BY DayOfInstant, CalendarAssumption DEF Days
<1>2. WallClock[t] \in 0..(DayLength - 1) BY DayOfInstant, Clock
<1>3. AddDate(t, n) \in HoursOf(DayOf[t] + n) BY <1>1, <1>2, TimeOnDay DEF AddDate
<1> QED BY <1>1, <1>3, DayOfHour

(* A later day is later.                                                   *)
LEMMA LaterDay ==
  ASSUME NEW s \in Instants, NEW t \in Instants, DayOf[s] < DayOf[t]
  PROVE  s < t
<1>1. /\ DayOf[s] \in Int /\ DayOf[t] \in Int
      /\ s \in HoursOf(DayOf[s]) /\ t \in HoursOf(DayOf[t])
  BY DayOfInstant DEF Days
<1>2. Midnight(DayOf[s] + 1) <= Midnight(DayOf[t]) BY <1>1, MidnightsGrow
<1>3. /\ Midnight(DayOf[s]) \in Int /\ Midnight(DayOf[s] + 1) \in Int
      /\ Midnight(DayOf[t]) \in Int /\ Midnight(DayOf[t] + 1) \in Int
  BY <1>1, Midnights
<1> QED BY <1>1, <1>2, <1>3 DEF HoursOf

-----------------------------------------------------------------------------
(* The run of a day is on it, after the clock was moved: its clock time is *)
(* not shown before.                                                       *)
LEMMA BaseRunOfDay ==
  ASSUME NEW t \in Instants
  PROVE  /\ BaseRun(t) \in Instants /\ DayOf[BaseRun(t)] = DayOf[t]
         /\ AddDate(BaseRun(t), 0) = BaseRun(t)
<1> DEFINE d == DayOf[t]
           b == BaseRun(t)
<1>1. d \in Days /\ d \in Int BY DayOfInstant DEF Days
<1>2. /\ Midnight(d) \in Int /\ Midnight(d + 1) \in Int
      /\ Midnight(d + 1) = Midnight(d) + DayLength - (IF d = ShiftDay THEN Shift ELSE 0)
  BY <1>1, Midnights
<1>3. b = Midnight(d) + RunAt BY DEF BaseRun
<1>4. b \in HoursOf(d)
  BY <1>2, <1>3, CalendarAssumption, SchedulerAssumption DEF HoursOf
<1> HIDE DEF b, d
<1>5. b \in Instants /\ DayOf[b] = d BY <1>1, <1>4, DayOfHour
<1>6. /\ WallClock[b] = RunAt + (IF d = ShiftDay THEN Shift ELSE 0)
      /\ WallClock[b] \in 0..(DayLength - 1)
  BY <1>1, <1>2, <1>3, <1>4, Clock, CalendarAssumption, SchedulerAssumption
<1> DEFINE f == TimeOn[d][WallClock[b]]
<1>7. /\ f \in HoursOf(d) /\ WallClock[f] >= WallClock[b]
      /\ \A s \in HoursOf(d) : s < f => WallClock[s] < WallClock[b]
  BY <1>1, <1>6, TimeOnDay
<1> HIDE DEF f
<1>8. f \in Int /\ b \in Int BY <1>2, <1>4, <1>7 DEF HoursOf
<1>9. ~(b < f) BY <1>4, <1>6, <1>7
<1>10. ~(f < b)
  <2>1. WallClock[f] = f - Midnight(d)
          + (IF d = ShiftDay /\ f - Midnight(d) >= ShiftHour THEN Shift ELSE 0)
    BY <1>1, <1>7, Clock
  <2> QED BY <2>1, <1>2, <1>3, <1>6, <1>7, <1>8, CalendarAssumption, SchedulerAssumption
<1>11. f = b BY <1>8, <1>9, <1>10
<1>12. AddDate(b, 0) = f
  <2>1. DayOf[b] + 0 = d BY <1>1, <1>5
  <2> QED BY <2>1 DEF AddDate, f
<1> QED BY <1>5, <1>11, <1>12 DEF b, d

LEMMA FirstRun ==
  ASSUME NEW t \in Instants, DayOf[t] <= LastDay - 3
  PROVE  /\ FirstRunAfter(t) \in Instants
         /\ FirstRunAfter(t) > t /\ AddDate(FirstRunAfter(t), 0) >= t
         /\ DayOf[FirstRunAfter(t)] \in {DayOf[t], DayOf[t] + 1}
<1>1. /\ BaseRun(t) \in Instants /\ DayOf[BaseRun(t)] = DayOf[t]
      /\ AddDate(BaseRun(t), 0) = BaseRun(t)
  BY BaseRunOfDay
<1>2. DayOf[t] \in Nat /\ LastDay \in Nat BY DayOfInstant, CalendarAssumption DEF Days
<1>3. t \in Int /\ BaseRun(t) \in Int BY <1>1 DEF Instants
<1>4. CASE BaseRun(t) > t BY <1>1, <1>3, <1>4 DEF FirstRunAfter
<1>5. CASE ~(BaseRun(t) > t)
  <2> DEFINE f == AddDate(BaseRun(t), 1)
             g == AddDate(f, 0)
  <2>1. f = FirstRunAfter(t) BY <1>5 DEF FirstRunAfter
  <2>2. f \in Instants /\ DayOf[f] = DayOf[t] + 1 BY <1>1, <1>2, AddDateDay
  <2> HIDE DEF f
  <2>3. g \in Instants /\ DayOf[g] = DayOf[t] + 1
    <3>1. DayOf[f] + 0 <= LastDay /\ DayOf[f] + 0 = DayOf[t] + 1 BY <1>2, <2>2
    <3> QED BY <2>2, <3>1, AddDateDay
  <2>4. f > t /\ g > t
    <3>1. t < f BY <1>2, <2>2, LaterDay
    <3> HIDE DEF g
    <3>2. t < g BY <1>2, <2>3, LaterDay
    <3>3. f \in Int /\ g \in Int BY <2>2, <2>3 DEF Instants
    <3> QED BY <1>3, <3>1, <3>2, <3>3
  <2>5. g \in Int /\ f \in Int BY <2>2, <2>3 DEF Instants
  <2> HIDE DEF g
  <2>6. g >= t BY <1>3, <2>4, <2>5
  <2> QED BY <2>1, <2>2, <2>4, <2>6 DEF g
<1> QED BY <1>4, <1>5

(* The weekend is two days long.                                           *)
LEMMA Weekends ==
  ASSUME NEW d \in Int
  PROVE  \E n \in 0..2 : /\ ~IsWeekend(d + n)
                         /\ \A m \in 0..(n - 1) : IsWeekend(d + m)
<1>1. d % 7 \in 0..6 OBVIOUS
<1>2. CASE d % 7 = 5
  <2>1. (d + 1) % 7 = 6 /\ (d + 2) % 7 = 0 /\ (d + 0) % 7 = 5 BY <1>2
  <2>2. \A m \in 0..(2 - 1) : m = 0 \/ m = 1 OBVIOUS
  <2> WITNESS 2 \in 0..2
  <2> QED BY <2>1, <2>2 DEF IsWeekend, Weekday
<1>3. CASE d % 7 = 6
  <2>1. (d + 1) % 7 = 0 /\ (d + 0) % 7 = 6 BY <1>3
  <2>2. \A m \in 0..(1 - 1) : m = 0 OBVIOUS
  <2> WITNESS 1 \in 0..2
  <2> QED BY <2>1, <2>2 DEF IsWeekend, Weekday
<1>4. CASE d % 7 \notin {5, 6}
  <2>1. (d + 0) % 7 = d % 7 OBVIOUS
  <2>2. \A m \in 0..(0 - 1) : FALSE OBVIOUS
  <2> WITNESS 0 \in 0..2
  <2> QED BY <1>4, <2>1, <2>2 DEF IsWeekend, Weekday
<1> QED BY <1>2, <1>3, <1>4

(* A run is planned on the calendar, not in the past, and, but for the     *)
(* other mode, on a workday.                                               *)
LEMMA NextRunPlanned ==
  ASSUME NEW t \in Instants, DayOf[t] <= LastDay - 3
  PROVE  /\ NextRun(t) \in Instants /\ NextRun(t) >= t
         /\ Mode = "previous_workday" => ~IsWeekend(DayOf[NextRun(t)])
<1> DEFINE f == FirstRunAfter(t)
           Ahead(n) == /\ ~IsWeekend(DayOf[f] + n)
                       /\ \A m \in 0..(n - 1) : IsWeekend(DayOf[f] + m)
           a == IF Mode = "current_day" THEN 0 ELSE CHOOSE n \in 0..2 : Ahead(n)
<1>1. /\ f \in Instants /\ f > t /\ AddDate(f, 0) >= t
      /\ DayOf[f] \in {DayOf[t], DayOf[t] + 1}
  BY FirstRun
<1>2. NextRun(t) = AddDate(f, a) BY DEF NextRun
<1> HIDE DEF f
<1>3. DayOf[t] \in Nat /\ DayOf[f] \in Nat /\ LastDay \in Nat
  BY <1>1, DayOfInstant, CalendarAssumption DEF Days
<1>4. a \in 0..2 /\ (Mode = "previous_workday" => Ahead(a))
  <2>1. \E n \in 0..2 : Ahead(n) BY <1>3, Weekends
  <2> HIDE DEF Ahead
  <2> QED BY <2>1, SchedulerAssumption
<1> HIDE DEF a
<1>5. DayOf[f] + a <= LastDay BY <1>1, <1>3, <1>4
<1>6. NextRun(t) \in Instants /\ DayOf[NextRun(t)] = DayOf[f] + a
  BY <1>1, <1>2, <1>4, <1>5, AddDateDay
<1>7. NextRun(t) >= t
  <2>1. CASE a = 0 BY <1>1, <1>2, <2>1
  <2>2. CASE a > 0
    <3>1. t < NextRun(t) BY <1>1, <1>3, <1>4, <1>6, <2>2, LaterDay
    <3> QED BY <1>6, <3>1 DEF Instants
  <2> QED BY <1>4, <2>1, <2>2
<1> QED BY <1>4, <1>6, <1>7

(* What a run on a workday recaps.                                         *)
LEMMA SourceOfRun ==
  ASSUME NEW t \in Instants
  PROVE  /\ SourceDate(t) \in SourceDays
         /\ Mode = "previous_workday" /\ ~IsWeekend(DayOf[t]) =>
              /\ ~IsWeekend(SourceDate(t)) /\ SourceDate(t) < DayOf[t]
              /\ \A between \in (SourceDate(t) + 1)..(DayOf[t] - 1) : IsWeekend(between)
<1> DEFINE d == DayOf[t]
           s == SourceDate(t)
<1>1. d \in Nat /\ d <= LastDay /\ LastDay \in Nat
  BY DayOfInstant, CalendarAssumption DEF Days
<1>2. /\ Mode = "current_day" => s = d
      /\ Mode # "current_day" /\ d % 7 = 0 => s = d - 3
      /\ Mode # "current_day" /\ d % 7 # 0 => s = d - 1
  BY DEF SourceDate, Weekday, Monday
<1> HIDE DEF d, s
<1>3. s \in {d, d - 1, d - 3} BY <1>2
<1>4. s \in SourceDays BY <1>1, <1>3 DEF SourceDays
<1>5. ASSUME Mode = "previous_workday", ~IsWeekend(d)
      PROVE  ~IsWeekend(s) /\ s < d /\ \A b \in (s + 1)..(d - 1) : IsWeekend(b)
  <2>1. d % 7 \in 0..4 BY <1>1, <1>5 DEF IsWeekend, Weekday
  <2>2. CASE d % 7 = 0
    <3>1. s = d - 3 BY <1>2, <1>5, <2>2
    <3>2. (d - 3) % 7 = 4 /\ (d - 2) % 7 = 5 /\ (d - 1) % 7 = 6 BY <1>1, <2>2
    <3>3. \A b \in (s + 1)..(d - 1) : b = d - 2 \/ b = d - 1 BY <1>1, <3>1
    <3> QED BY <1>1, <3>1, <3>2, <3>3 DEF IsWeekend, Weekday
  <2>3. CASE d % 7 # 0
    <3>1. s = d - 1 BY <1>2, <1>5, <2>3
    <3>2. (d - 1) % 7 \in 0..3 BY <1>1, <2>1, <2>3
    <3>3. \A b \in (s + 1)..(d - 1) : FALSE BY <1>1, <3>1
    <3> QED BY <1>1, <3>1, <3>2, <3>3 DEF IsWeekend, Weekday
  <2> QED BY <2>2, <2>3
<1> QED BY <1>4, <1>5 DEF d, s

-----------------------------------------------------------------------------
(* Types.                                                                  *)
LEMMA InitTyped == Init => TypeOK
<1> SUFFICES ASSUME Init PROVE TypeOK OBVIOUS
<1>1. 0 \in Instants
  <2>1. 0 \in Days BY CalendarAssumption DEF Days
  <2>2. 0 \in HoursOf(0)
    <3>1. Midnight(0) = 0 /\ Midnight(0 + 1) \in Int /\ Midnight(0 + 1) > 0
      BY Midnights, CalendarAssumption
    <3> QED BY <3>1 DEF HoursOf
  <2> QED BY <2>1, <2>2, Hours
<1>2. 0 \in SourceDays /\ 1 \in Users
  BY CalendarAssumption, SchedulerAssumption DEF SourceDays, Users
<1> QED BY <1>1, <1>2 DEF Init, TypeOK

LEMMA NextUserTyped ==
  ASSUME TypeOK, NEW i \in Instances, NextUser(i)
  PROVE  /\ pc' \in [Instances -> {"down", "plan", "wait"} \union InARun]
         /\ user' \in [Instances -> Users]
<1>1. LastUser \in Nat BY SchedulerAssumption
<1>2. user[i] # LastUser => user[i] + 1 \in Users BY <1>1 DEF TypeOK, Users
<1> QED BY <1>2 DEF NextUser, Goto, TypeOK, InARun

LEMMA NextTyped == TypeOK /\ [Next]_vars => TypeOK'
<1> SUFFICES ASSUME TypeOK, [Next]_vars PROVE TypeOK' OBVIOUS
<1>1. CASE UNCHANGED vars BY <1>1 DEF vars, TypeOK
<1>2. CASE Tick
  <2>1. now' \in Instants
    <3>1. DayOf[now] \in Days /\ now \in HoursOf(DayOf[now]) /\ now \in Nat
      BY DayOfInstant DEF TypeOK, Instants
    <3>2. DayOf[now] < LastDay BY <1>2, <3>1, CalendarAssumption DEF Tick, InTime, Days
    <3>3. Midnight(DayOf[now] + 1) <= Midnight(LastDay)
      BY <3>1, <3>2, CalendarAssumption, MidnightsGrow DEF Days
    <3>4. LastDay \in Int /\ DayOf[now] \in Int /\ DayOf[now] + 1 \in Int
      BY <3>1, CalendarAssumption DEF Days
    <3>5. /\ Midnight(DayOf[now]) \in Int /\ Midnight(DayOf[now] + 1) \in Int
          /\ Midnight(LastDay) \in Int
          /\ Midnight(LastDay + 1) \in Int /\ Midnight(LastDay + 1) >= Midnight(LastDay) + 2
      BY <3>4, Midnights, CalendarAssumption
    <3>6. now < Midnight(DayOf[now] + 1) BY <3>1, <3>5 DEF HoursOf
    <3>7. now + 1 \in Instants BY <3>1, <3>3, <3>5, <3>6 DEF Instants, Horizon
    <3> QED BY <1>2, <3>7 DEF Tick
  <2> QED BY <1>2, <2>1 DEF Tick, tables, sched, TypeOK
<1>3. ASSUME NEW u \in Users, Capture(u) PROVE TypeOK'
  <2>1. DayOf[now] \in Days BY DayOfInstant DEF TypeOK
  <2> QED BY <1>3, <2>1 DEF Capture, sched, TypeOK
<1>4. ASSUME NEW i \in Instances, Plan(i) PROVE TypeOK'
  <2>1. NextRun(now) \in Instants BY <1>4, NextRunPlanned DEF Plan, InTime, TypeOK
  <2> QED BY <1>4, <2>1 DEF Plan, Goto, tables, TypeOK
<1>5. ASSUME NEW i \in Instances, Fire(i) PROVE TypeOK'
  <2>1. SourceDate(next[i]) \in SourceDays BY SourceOfRun DEF TypeOK
  <2>2. 1 \in Users BY SchedulerAssumption DEF Users
  <2>3. CASE SkipsWeekend(next[i]) BY <1>5, <2>3 DEF Fire, Goto, tables, TypeOK
  <2>4. CASE ~SkipsWeekend(next[i])
    BY <1>5, <2>1, <2>2, <2>4 DEF Fire, Goto, tables, TypeOK, InARun
  <2> QED BY <2>3, <2>4
<1>6. ASSUME NEW i \in Instances, RunStep(i) PROVE TypeOK'
  <2>1. RecapOf(i) \in Recaps BY DEF RecapOf, Recaps, TypeOK
  <2>2. /\ UNCHANGED <<now, captured, next, source, stops>>
        /\ \/ NextUser(i)
           \/ UNCHANGED user /\ \E l \in InARun : Goto(i, l)
    BY <1>6 DEF RunStep, CheckSent, Generate, SendRecap, RecordSend, CallFails, tables, InARun
  <2>3. /\ pc' \in [Instances -> {"down", "plan", "wait"} \union InARun]
        /\ user' \in [Instances -> Users]
    <3>1. CASE NextUser(i) BY <3>1, NextUserTyped
    <3>2. CASE UNCHANGED user /\ \E l \in InARun : Goto(i, l) BY <3>2 DEF Goto, TypeOK
    <3> QED BY <2>2, <3>1, <3>2
  <2>4. recorded' \subseteq Recaps /\ failed' \subseteq Recaps
    BY <1>6, <2>1 DEF RunStep, CheckSent, Generate, SendRecap, RecordSend, CallFails, tables,
                      TypeOK
  <2>5. sent' \in [Recaps -> Nat]
    BY <1>6, <2>1 DEF RunStep, CheckSent, Generate, SendRecap, RecordSend, CallFails, TypeOK
  <2> QED BY <2>2, <2>3, <2>4, <2>5 DEF TypeOK
<1>7. ASSUME NEW i \in Instances, Stop(i) \/ Restart(i) PROVE TypeOK'
  BY <1>7 DEF Stop, Restart, Goto, tables, TypeOK
<1> QED BY <1>1, <1>2, <1>3, <1>4, <1>5, <1>6, <1>7 DEF Next

(* Tables and schedulers keep their types; in particular the days and      *)
(* instants that time.Date and AddDate are asked for exist.                *)
THEOREM TypeCorrect == Spec => []TypeOK
BY InitTyped, NextTyped, PTL DEF Spec

-----------------------------------------------------------------------------
(* A timer is not overtaken by the time; a run that goes on is the present *)
(* one, and on a workday if the mode has it so.                            *)
OnTime(i) ==
  /\ At(i, "wait") => /\ next[i] >= now
                      /\ Mode = "previous_workday" => ~IsWeekend(DayOf[next[i]])
  /\ InRun(i) => /\ next[i] = now /\ source[i] = SourceDate(now)
                 /\ ~SkipsWeekend(now)

AllOnTime == TypeOK /\ \A i \in Instances : OnTime(i)

LEMMA NextOnTime == AllOnTime /\ [Next]_vars => AllOnTime'
<1> SUFFICES ASSUME AllOnTime, [Next]_vars PROVE \A j \in Instances : OnTime(j)'
  BY NextTyped DEF AllOnTime
<1> USE DEF AllOnTime
<1>1. CASE UNCHANGED vars BY <1>1 DEF vars, OnTime, At, InRun
<1>2. CASE Tick
  <2>1. now \in Int /\ \A j \in Instances : next[j] \in Int BY DEF TypeOK, Instants
  <2> QED BY <1>2, <2>1 DEF Tick, OnTime, At, InRun, InARun, sched
<1>3. ASSUME NEW u \in Users, Capture(u) PROVE \A j \in Instances : OnTime(j)'
  BY <1>3 DEF Capture, OnTime, At, InRun, sched
<1>4. ASSUME NEW i \in Instances, Plan(i) PROVE \A j \in Instances : OnTime(j)'
  <2>1. /\ NextRun(now) >= now
        /\ Mode = "previous_workday" => ~IsWeekend(DayOf[NextRun(now)])
    BY <1>4, NextRunPlanned DEF Plan, InTime, TypeOK
  <2> QED BY <1>4, <2>1 DEF Plan, Goto, OnTime, At, InRun, InARun, tables, TypeOK
<1>5. ASSUME NEW i \in Instances, Fire(i) PROVE \A j \in Instances : OnTime(j)'
  <2>1. next[i] = now BY <1>5 DEF Fire, OnTime, TypeOK, Instants
  <2>2. CASE SkipsWeekend(next[i])
    BY <1>5, <2>2 DEF Fire, Goto, OnTime, At, InRun, InARun, tables, TypeOK
  <2>3. CASE ~SkipsWeekend(next[i])
    BY <1>5, <2>1, <2>3 DEF Fire, Goto, OnTime, At, InRun, InARun, tables, TypeOK
  <2> QED BY <2>2, <2>3
<1>6. ASSUME NEW i \in Instances, RunStep(i) PROVE \A j \in Instances : OnTime(j)'
  <2>1. /\ UNCHANGED <<now, next, source>> /\ InRun(i)
        /\ \E l \in InARun \union {"plan"} : Goto(i, l)
    BY <1>6 DEF RunStep, CheckSent, Generate, SendRecap, RecordSend, CallFails, NextUser,
                tables, InARun, InRun, At
  <2> QED BY <2>1 DEF Goto, OnTime, At, InRun, InARun, TypeOK
<1>7. ASSUME NEW i \in Instances, Stop(i) \/ Restart(i) PROVE \A j \in Instances : OnTime(j)'
  BY <1>7 DEF Stop, Restart, Goto, OnTime, At, InRun, InARun, tables, TypeOK
<1> QED BY <1>1, <1>2, <1>3, <1>4, <1>5, <1>6, <1>7 DEF Next

(* Only a run sends, and the recap whose turn it is.                       *)
LEMMA SendsTheSource ==
  ASSUME AllOnTime, Next, NEW u \in Users, NEW d \in SourceDays,
         sent'[<<u, d>>] # sent[<<u, d>>]
  PROVE  \E i \in Instances : InRun(i) /\ d = source[i]
<1>1. PICK i \in Instances :
        InRun(i) /\ sent' \in {sent, [sent EXCEPT ![RecapOf(i)] = sent'[RecapOf(i)]]}
  <2>1. ASSUME NEW i \in Instances, SendRecap(i) \/ CallFails(i)
        PROVE  InRun(i) /\ sent' \in {sent, [sent EXCEPT ![RecapOf(i)] = sent'[RecapOf(i)]]}
    <3>1. RecapOf(i) \in Recaps /\ sent \in [Recaps -> Nat]
      BY DEF AllOnTime, TypeOK, RecapOf, Recaps
    <3> QED BY <2>1, <3>1 DEF SendRecap, CallFails, InRun, InARun, At
  <2> QED
    BY <2>1 DEF Next, RunStep, Tick, Capture, Plan, Fire, CheckSent, Generate, RecordSend,
                Stop, Restart
<1>2. <<u, d>> \in Recaps /\ sent \in [Recaps -> Nat] BY DEF AllOnTime, TypeOK, Recaps
<1>3. <<u, d>> = RecapOf(i) BY <1>1, <1>2
<1> QED BY <1>1, <1>3 DEF RecapOf

(* In the mode previous_workday a recap goes out on a workday and is of    *)
(* the workday before, in any process, whatever the clock does:            *)
(* RecapsThePreviousWorkday.                                               *)
THEOREM RecapsTheWorkdayBefore == Spec => RecapsThePreviousWorkday
<1> DEFINE Rightly == \A u \in Users, d \in SourceDays :
       Mode = "previous_workday" /\ sent'[<<u, d>>] # sent[<<u, d>>] =>
         /\ ~IsWeekend(d) /\ ~IsWeekend(DayOf[now])
         /\ d < DayOf[now]
         /\ \A between \in (d + 1)..(DayOf[now] - 1) : IsWeekend(between)
<1>1. Init => AllOnTime
  BY InitTyped DEF AllOnTime, Init, OnTime, At, InRun, InARun
<1>2. ASSUME AllOnTime, [Next]_vars PROVE [Rightly]_vars
  <2> SUFFICES ASSUME Next, Mode = "previous_workday", NEW u \in Users, NEW d \in SourceDays,
                      sent'[<<u, d>>] # sent[<<u, d>>]
               PROVE  /\ ~IsWeekend(d) /\ ~IsWeekend(DayOf[now])
                      /\ d < DayOf[now]
                      /\ \A between \in (d + 1)..(DayOf[now] - 1) : IsWeekend(between)
    BY <1>2
  <2>1. PICK i \in Instances : InRun(i) /\ d = source[i] BY <1>2, SendsTheSource
  <2>2. d = SourceDate(now) /\ ~IsWeekend(DayOf[now]) /\ now \in Instants
    BY <1>2, <2>1 DEF AllOnTime, OnTime, SkipsWeekend, TypeOK
  <2> QED BY <2>2, SourceOfRun
<1> QED BY <1>1, <1>2, NextOnTime, PTL DEF Spec, RecapsThePreviousWorkday
=============================================================================
