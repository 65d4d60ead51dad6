---------------------------- MODULE CronCalendar ----------------------------
(***************************************************************************)
(* The arithmetic of cron tasks: which minutes the fields of a task name   *)
(* (ParseField), and when a task of type 0 is due next (processTimeTask).  *)
(*                                                                         *)
(* Time is counted in ticks.  The calendar has the shape of the real one,  *)
(* with lengths that are parameters, and no leap days; year 0 begins at 0. *)
(***************************************************************************)
EXTENDS Integers, Sequences, FiniteSets

CONSTANTS
    TicksPerMinute, MinutesPerHour, HoursPerDay, DaysPerWeek,
    MonthLength     \* the days of each month of a year

Positive == Nat \ {0}

ASSUME CalendarAssumption ==
    /\ {TicksPerMinute, MinutesPerHour, HoursPerDay, DaysPerWeek} \subseteq Positive
    /\ MonthLength \in Seq(Positive) /\ Len(MonthLength) > 0

Months == Len(MonthLength)
LongestMonth == CHOOSE d \in {MonthLength[m] : m \in 1..Months} :
                    \A m \in 1..Months : MonthLength[m] =< d

TicksPerDay == TicksPerMinute * MinutesPerHour * HoursPerDay

\* The days of a year before its month m.
DaysBefore[m \in 1..(Months + 1)] ==
    IF m = 1 THEN 0 ELSE DaysBefore[m - 1] + MonthLength[m - 1]

DaysPerYear == DaysBefore[Months + 1]

Minute(t) == t \div TicksPerMinute

Date(t) ==
    LET day   == t \div TicksPerDay
        ofYear == day % DaysPerYear
        month == CHOOSE m \in 1..Months : DaysBefore[m] =< ofYear /\ ofYear < DaysBefore[m + 1]
    IN  [year |-> day \div DaysPerYear, month |-> month,
         day |-> ofYear - DaysBefore[month] + 1, tick |-> t % TicksPerDay]

Ticks(date) ==
    (date.year * DaysPerYear + DaysBefore[date.month] + date.day - 1) * TicksPerDay + date.tick

------------------------------------------------------------------------------
(* Fields *)

Units == {"month", "week", "day", "hour", "minute"}

\* The second argument of ParseField, from processTimeTask.
Modulo == [u \in Units |->
    CASE u = "minute" -> MinutesPerHour
      [] u = "hour"   -> HoursPerDay
      [] u = "day"    -> LongestMonth + 1
      [] u = "month"  -> Months + 1
      [] u = "week"   -> DaysPerWeek]

\* Where a moment is in each unit.
At(t) == [u \in Units |->
    CASE u = "minute" -> Minute(t) % MinutesPerHour
      [] u = "hour"   -> (Minute(t) \div MinutesPerHour) % HoursPerDay
      [] u = "day"    -> Date(t).day
      [] u = "month"  -> Date(t).month
      [] u = "week"   -> (t \div TicksPerDay) % DaysPerWeek]

\* An item of a field is written lo, lo-hi, lo/step, lo-hi/step, * or */step.
ItemType == [lo : Nat, hi : Nat, step : Nat]

FailSafe == 1024

ASSUME FieldAssumption == \A u \in Units : Modulo[u] =< FailSafe

(***************************************************************************)
(* The loop of ParseField over one item counts up from lo, modulo modvalue,*)
(* until it meets hi, which one that is too large never does: then it is   *)
(* given up after FailSafe numbers.  The number of its last turn, from 0.  *)
(***************************************************************************)
Walk(modvalue, item) ==
    CHOOSE j \in 0..(FailSafe - 1) :
        /\ (item.lo + j) % modvalue = item.hi \/ j = FailSafe - 1
        /\ \A k \in 0..(j - 1) : (item.lo + k) % modvalue # item.hi

\* Every step-th turn marks its number; a step of 0 only the first.
ParseItem(modvalue, item) ==
    {(item.lo + j) % modvalue :
        j \in {k \in 0..Walk(modvalue, item) :
                  IF item.step = 0 THEN k = 0 ELSE k % item.step = 0}}

\* After an item that was given up, the rest of the field is not looked at.
ParseField(modvalue, items) ==
    UNION {ParseItem(modvalue, items[i]) :
              i \in {k \in 1..Len(items) : \A j \in 1..(k - 1) : items[j].hi < modvalue}}

(***************************************************************************)
(* What a field is meant to name: the numbers from lo to hi, in steps, a   *)
(* range that ends before it begins going round.                           *)
(***************************************************************************)
InItem(modvalue, item, v) ==
    LET length == (item.hi - item.lo) % modvalue
        offset == (v - item.lo) % modvalue
    IN  offset =< length /\ offset % item.step = 0

Named(modvalue, items) ==
    {v \in 0..(modvalue - 1) : \E i \in 1..Len(items) : InItem(modvalue, items[i], v)}

WellFormed(modvalue, items) ==
    \A i \in 1..Len(items) :
        items[i].lo < modvalue /\ items[i].hi < modvalue /\ items[i].step > 0

------------------------------------------------------------------------------
(* Intervals *)

Invalid == -1

(***************************************************************************)
(* One turn of the loop that adds months: a sum that is a multiple of the  *)
(* months of a year gives month 0 (and a year too many), and a day the new *)
(* month does not have is no date; LocalDateTime::assign throws on both.   *)
(***************************************************************************)
AddMonths(t, months) ==
    LET date == Date(t)
        sum  == months + date.month
        year == IF sum > Months THEN date.year + sum \div Months ELSE date.year
        month == IF sum > Months THEN sum % Months ELSE sum
    IN  IF month = 0 THEN Invalid
        ELSE IF date.day > MonthLength[month] THEN Invalid
        ELSE Ticks([date EXCEPT !.year = year, !.month = month])

\* The period of a task: months, and the ticks of its weeks, days, hours and minutes.
PeriodType == [months : Nat, ticks : Nat]

(***************************************************************************)
(* The loop of processTimeTask that looks for the next run: from the last  *)
(* one it goes on, one period a turn, until it is past now.  Its result is *)
(* the number of turns and the moment it found, Invalid if it threw.       *)
(***************************************************************************)
Advance(base, period, now) ==
    LET after[k \in Nat] ==
            IF k = 0 THEN base
            ELSE LET moved == AddMonths(after[k - 1], period.months)
                 IN  IF moved = Invalid THEN Invalid ELSE moved + period.ticks
        Ends(k) == after[k] = Invalid \/ after[k] > now
        turns == CHOOSE k \in {1} \cup 1..(now - base + 1) :
                    Ends(k) /\ \A j \in 1..(k - 1) : ~Ends(j)
    IN  [cycles |-> turns, next |-> after[turns]]

==============================================================================
