-------------------------------- MODULE Dates --------------------------------
(***************************************************************************)
(* The date data.lock records (timestamp, project/lock.rs), made from the  *)
(* days since 1970 without a table of months, beside a calendar that turns *)
(* its pages day by day.                                                   *)
(***************************************************************************)
EXTENDS Integers

CONSTANT Spans  \* of days that are turned: the first one, its date on the calendar, and the last

VARIABLES day, calendar

vars == <<day, calendar>>

Date(year, month, of) == [year |-> year, month |-> month, day |-> of]

\* timestamp: years begin in March, so that a leap day is the last of its year
DayOfEra(days) == (days + 719468) % 146097
YearOfEra(d) == (d - d \div 1460 + d \div 36524 - d \div 146096) \div 365
DayOfYear(d) == d - (365 * YearOfEra(d) + YearOfEra(d) \div 4 - YearOfEra(d) \div 100)
timestamp(days) ==
    LET d == DayOfEra(days)
        index == (5 * DayOfYear(d) + 2) \div 153
        month == IF index < 10 THEN index + 3 ELSE index - 9
        era == (days + 719468) \div 146097
    IN  Date(YearOfEra(d) + era * 400 + IF month <= 2 THEN 1 ELSE 0, month,
             DayOfYear(d) - (153 * index + 2) \div 5 + 1)

-----------------------------------------------------------------------------
Leap(year) == year % 4 = 0 /\ (year % 100 # 0 \/ year % 400 = 0)
LengthOf(month, year) ==
    CASE month = 2 -> IF Leap(year) THEN 29 ELSE 28
      [] month \in {4, 6, 9, 11} -> 30
      [] OTHER -> 31

NextDay(date) ==
    IF date.day < LengthOf(date.month, date.year) THEN [date EXCEPT !.day = @ + 1]
    ELSE IF date.month < 12 THEN Date(date.year, date.month + 1, 1)
    ELSE Date(date.year + 1, 1, 1)

Init == \E span \in Spans : day = span.first /\ calendar = span.date

Next ==
    /\ \E span \in Spans : span.first <= day /\ day < span.last
    /\ day' = day + 1 /\ calendar' = NextDay(calendar)

Spec == Init /\ [][Next]_vars

\* The recorded date is the one on the calendar, through leap years and centuries.
DatesAreRight == timestamp(day) = calendar
=============================================================================
