---------------------------- MODULE NyseCalendar ----------------------------
(***************************************************************************)
(* The NYSE calendar, written twice: on datetime dates, a set of holidays   *)
(* a year, by daily_termsheet.py, and on day serials, one day at a time,   *)
(* by nyse_calendar.hpp.  A day is its serial: days since 1970-01-01 plus  *)
(* 25569 (Excel's).  The library's dates are the proleptic Gregorian       *)
(* calendar by its rules; the native ones come from day arithmetic.        *)
(***************************************************************************)
EXTENDS Ascending, Sequences, SequencesExt

\* Floor division is the code's: from year 1 on it divides no negative number,
\* and C++'s remainder of one is made positive by the 10 that WeekdayMon0 adds.
IsLeap(y) == y % 4 = 0 /\ (y % 100 # 0 \/ y % 400 = 0)
DaysBefore == <<0, 31, 59, 90, 120, 151, 181, 212, 243, 273, 304, 334>>
\* The library's date(y, m, d), as a serial.
Date(y, m, d) ==
  365 * (y - 1) + (y - 1) \div 4 - (y - 1) \div 100 + (y - 1) \div 400
    + DaysBefore[m] + (IF m > 2 /\ IsLeap(y) THEN 1 ELSE 0) + d - 693594
Weekday(serial) == (serial + 5) % 7  \* Monday is 0

\* The n-th, or with n = -1 the last, such weekday of a month.
NthWeekday(y, m, n, target) ==
  LET first == Date(y, m, 1)
      last == (IF m = 12 THEN Date(y + 1, 1, 1) ELSE Date(y, m + 1, 1)) - 1
  IN IF n > 0 THEN first + ((target - Weekday(first)) % 7) + (n - 1) * 7
     ELSE last - ((Weekday(last) - target) % 7)

\* The computus both calendars share: month and day of Easter Sunday.
Easter(y) ==
  LET a == y % 19
      b == y \div 100
      c == y % 100
      g == (b - (b + 8) \div 25 + 1) \div 3
      h == (19 * a + b - b \div 4 - g + 15) % 30
      l == (32 + 2 * (b % 4) + 2 * (c \div 4) - h - (c % 4)) % 7
      m == (a + 11 * h + 22 * l) \div 451
      z == h + l - 7 * m + 114
  IN [month |-> z \div 31, day |-> (z % 31) + 1]

Observed(day) == day + (CASE Weekday(day) = 5 -> -1
                          [] Weekday(day) = 6 -> 1
                          [] OTHER -> 0)

\* The next year's New Year's Day may be observed on this year's last day.
UsMarketHolidays(y) ==
  {Observed(Date(y, 1, 1)), Observed(Date(y + 1, 1, 1)),
   NthWeekday(y, 1, 3, 0), NthWeekday(y, 2, 3, 0),
   Date(y, Easter(y).month, Easter(y).day) - 2,
   NthWeekday(y, 5, -1, 0), Observed(Date(y, 7, 4)),
   NthWeekday(y, 9, 1, 0), NthWeekday(y, 11, 4, 3),
   Observed(Date(y, 12, 25))}
  \cup (IF y >= 2022 THEN {Observed(Date(y, 6, 19))} ELSE {})

\* nyse_serials over the days of the years first .. last.
TradingDays(days, first, last) ==
  LET holidays == UNION {UsMarketHolidays(y) : y \in first .. last}
  IN {d \in days : Weekday(d) < 5 /\ d \notin holidays}

\* The trading days of a range, in order.
Year(serial) == CHOOSE y \in 1900 .. 1900 + serial \div 365 :
                  serial \in Date(y, 1, 1) .. Date(y, 12, 31)
NyseSerials(start, end) ==
  Ascending(TradingDays(start .. end, Year(start), Year(end)))

-----------------------------------------------------------------------------
(* nyse_calendar.hpp *)

\* The year, month and day of a serial, by eras of 400 years from March.
CivilFromSerial(serial) ==
  LET z == serial - 25569 + 719468
      era == z \div 146097
      doe == z - era * 146097
      yoe == (doe - doe \div 1460 + doe \div 36524 - doe \div 146096)
               \div 365
      doy == doe - (365 * yoe + yoe \div 4 - yoe \div 100)
      mp == (5 * doy + 2) \div 153
      month == IF mp < 10 THEN mp + 3 ELSE mp - 9
  IN [year |-> yoe + era * 400 + (IF month <= 2 THEN 1 ELSE 0),
      month |-> month, day |-> doy - (153 * mp + 2) \div 5 + 1]

SerialFromYmd(year, month, day) ==
  LET y == IF month <= 2 THEN year - 1 ELSE year
      era == y \div 400
      yoe == y - era * 400
      mp == IF month > 2 THEN month - 3 ELSE month + 9
      doy == (153 * mp + 2) \div 5 + day - 1
      doe == yoe * 365 + yoe \div 4 - yoe \div 100 + doy
  IN era * 146097 + doe - 719468 + 25569

WeekdayMon0(serial) == (((serial - 25569) % 7) + 10) % 7
\* Mutant: a Saturday's holiday is kept on the Monday.
ObservedWeekdayMonday(y, m, d) ==
  LET serial == SerialFromYmd(y, m, d)
      w == WeekdayMon0(serial)
  IN serial + (CASE w = 5 -> 2 [] w = 6 -> 1 [] OTHER -> 0)
\* A weekend's holiday is kept on the Friday or the Monday.
ObservedWeekday(y, m, d) ==
  LET serial == SerialFromYmd(y, m, d)
      w == WeekdayMon0(serial)
  IN serial + (CASE w = 5 -> -1 [] w = 6 -> 1 [] OTHER -> 0)
NthWeekdayOfMonth(y, m, n, target) ==
  LET first == SerialFromYmd(y, m, 1)
  IN first + ((target - WeekdayMon0(first) + 7) % 7) + (n - 1) * 7
LastWeekdayOfMonth(y, m, target) ==
  LET last == (IF m = 12 THEN SerialFromYmd(y + 1, 1, 1)
               ELSE SerialFromYmd(y, m + 1, 1)) - 1
  IN last - ((WeekdayMon0(last) - target + 7) % 7)

IsUsMarketHoliday(serial) ==
  LET y == CivilFromSerial(serial).year
  IN \/ serial \in {ObservedWeekday(y, 1, 1), ObservedWeekday(y + 1, 1, 1),
                    ObservedWeekday(y, 7, 4), ObservedWeekday(y, 12, 25)}
     \/ y >= 2022 /\ serial = ObservedWeekday(y, 6, 19)
     \/ serial \in {NthWeekdayOfMonth(y, 1, 3, 0),
                    NthWeekdayOfMonth(y, 2, 3, 0),
                    NthWeekdayOfMonth(y, 9, 1, 0),
                    NthWeekdayOfMonth(y, 11, 4, 3)}
     \/ serial = LastWeekdayOfMonth(y, 5, 0)
     \/ serial = SerialFromYmd(y, Easter(y).month, Easter(y).day) - 2

NyseSchedule(days) ==
  {d \in days : WeekdayMon0(d) <= 4 /\ ~IsUsMarketHoliday(d)}
=============================================================================
