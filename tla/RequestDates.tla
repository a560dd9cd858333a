---------------------------- MODULE RequestDates ----------------------------
(***************************************************************************)
(* The date rules of RequestService.submitRequest.  Time is counted in     *)
(* hours since some midnight UTC, dates in days since then.  The change of *)
(* clocks is left out: it moves local midnight, and only that.             *)
(***************************************************************************)
EXTENDS Integers

CONSTANT Zone   \* hours by which the process's local time is ahead of UTC

ASSUME ZoneAssumption == Zone \in -12..14

\* new Date("YYYY-MM-DD") is midnight UTC, wherever the process runs.
NewDate(date) == 24 * date

\* new Date() with setHours(0, 0, 0, 0): the last local midnight.
\* Mutant: the last midnight UTC.
MidnightUTC(now) == 24 * (now \div 24)
Today(now) == 24 * ((now + Zone) \div 24) - Zone

\* Math.round(hours / 24)
RoundToDays(hours) == (2 * hours + 24) \div 48

\* calculateDaysRequested counts both ends.
\* Mutant: the last day is not counted.
LastDayForgotten(start, end) == RoundToDays(NewDate(end) - NewDate(start))
DaysRequested(start, end) == RoundToDays(NewDate(end) - NewDate(start)) + 1

\* The checks of submitRequest.
DatesAccepted(start, end, now) ==
  /\ NewDate(start) >= Today(now)
  /\ NewDate(end) >= NewDate(start)
  /\ DaysRequested(start, end) > 0

-----------------------------------------------------------------------------
\* What they should come to: the date on the wall, and the days of a calendar.
LocalDate(now) == (now + Zone) \div 24
CalendarDays(start, end) == start..end

=============================================================================
