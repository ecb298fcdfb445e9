--------------------------- MODULE LocalCalendar ----------------------------
(***************************************************************************)
(* Instants, local days and local clock times of one time zone, as Go's    *)
(* package time gives them to internal/scheduler and                       *)
(* internal/domain/periods.  An instant is a number of hours since the     *)
(* first midnight, a Monday's.  Once, the local clock is moved: by Shift   *)
(* hours on ShiftDay, ShiftHour hours after its midnight.                  *)
(***************************************************************************)
EXTENDS Integers

CONSTANTS
  LastDay,     \* the days are 0 .. LastDay
  DayLength,   \* hours of an ordinary day: fewer than 24 serve as well
  Shift,       \* +1: summer time begins; -1: it ends; 0: neither
  ShiftDay,
  ShiftHour

ASSUME CalendarAssumption ==
  /\ LastDay \in Nat
  /\ DayLength \in Nat \ {0, 1, 2}
  /\ Shift \in {-1, 0, 1}
  /\ ShiftDay \in Nat
  /\ ShiftHour \in 1..(DayLength - 2)

Days == 0..LastDay

(* time.Date(y, m, d, 0, 0, 0, 0, loc)                                     *)
Midnight(d) == d * DayLength - (IF d > ShiftDay THEN Shift ELSE 0)

Horizon == Midnight(LastDay + 1) - 1
Instants == 0..Horizon

HoursOf(d) == Midnight(d)..(Midnight(d + 1) - 1)

(* t.In(loc): the day and the clock time of an instant.                    *)
DayOf == [t \in Instants |-> CHOOSE d \in Days : t \in HoursOf(d)]

WallClock ==
  [t \in Instants |->
     LET hour == t - Midnight(DayOf[t]) IN
     hour + (IF DayOf[t] = ShiftDay /\ hour >= ShiftHour THEN Shift ELSE 0)]

(* time.Date(y, m, d, clock, ...): if the clock shows this time twice, the *)
(* first of the two, and if it leaves it out, what it would have been.     *)
TimeOn ==
  [d \in Days |-> [clock \in 0..(DayLength - 1) |->
     CHOOSE t \in HoursOf(d) :
       /\ WallClock[t] >= clock
       /\ \A earlier \in Midnight(d)..(t - 1) : WallClock[earlier] < clock]]

(* t.AddDate(0, 0, n): the same clock time on another day.                 *)
AddDate(t, n) == TimeOn[DayOf[t] + n][WallClock[t]]

(* Day 0 is a Monday.                                                      *)
Weekday(d) == d % 7
Monday == 0
IsWeekend(d) == Weekday(d) \in {5, 6}
=============================================================================
