---------------------------- MODULE NtpCalendar ----------------------------
(***************************************************************************)
(* The date NTP_get_time makes of a timestamp, against a calendar that goes    *)
(* from one day to the next. Timestamps are days and seconds of the day here:  *)
(* those of the second era, from February 2036 on, come out right as well,     *)
(* because NTP.c:153 wraps as they do.                                       *)
(***************************************************************************)
EXTENDS Integers, Sequences

CONSTANTS
    Years,         \* looked at
    Zones,         \* GMT, in hours
    Seconds        \* of the local day

ASSUME NtpCalendarAssumption ==
    /\ \A y \in Years : y \in Nat /\ 1970 <= y /\ y <= 2105
    /\ Zones \subseteq -12..14
    /\ \A s \in Seconds : s \in Nat /\ s < 86400

VARIABLES
    counted,       \* days since 1 January 1970
    date           \* the date they come to

calendar_vars == <<counted, date>>

-----------------------------------------------------------------------------
\* The calendar

Leap(y) == y % 400 = 0 \/ (y % 4 = 0 /\ y % 100 # 0)
MonthLength(y, m) ==
    IF m = 2 THEN IF Leap(y) THEN 29 ELSE 28 ELSE IF m \in {4, 6, 9, 11} THEN 30 ELSE 31
YearBegins(y) ==
    LET past(n) == (y - 1) \div n - 1969 \div n
    IN 365 * (y - 1970) + past(4) - past(100) + past(400)

Tomorrow(d) ==
    IF d.day < MonthLength(d.year, d.month) THEN [d EXCEPT !.day = @ + 1]
    ELSE IF d.month < 12 THEN [d EXCEPT !.day = 1, !.month = @ + 1]
    ELSE [year |-> d.year + 1, month |-> 1, day |-> 1]
LastOfLeapYear(d) == Leap(d.year) /\ d.month = 12 /\ d.day = 31

-----------------------------------------------------------------------------
\* NTP_get_time

\* Variant: every fourth year.
FourthYears(y) == IF y % 4 = 0 THEN 366 ELSE 365
YearLength(y) == IF (y % 4 = 0 /\ y % 100 # 0) \/ y % 400 = 0 THEN 366 ELSE 365

\* The years that are gone, and what is left of the count.
Year(counter) ==
    LET from[left \in (0..counter) \X Nat] ==
            IF left[1] > 365 THEN from[<<left[1] - YearLength(left[2]), left[2] + 1>>] ELSE left
    IN from[<<counter, 1970>>]

m_d_table(y) == <<31, YearLength(y) - 337, 31, 30, 31, 30, 31, 31, 30, 31, 30, 31>>

\* The months that are gone, and the day.
DateOf(days) ==
    LET left == Year(days + 1)
        after[n \in 0..11] ==
            IF n = 0 THEN [year |-> left[2], month |-> 1, day |-> left[1]]
            ELSE LET d == after[n - 1]
                     m == m_d_table(d.year)[d.month]
                 IN IF d.day > m THEN [d EXCEPT !.day = @ - m, !.month = @ + 1] ELSE d
    IN after[11]

\* (GMT) * 60 * 60 in the 16 bits of an int.
GmtOffset(gmt) == ((gmt * 3600 + 32768) % 65536) - 32768

TimeOf(days, seconds, gmt) ==
    LET local == seconds + GmtOffset(gmt)
    IN [date |-> DateOf(days + local \div 86400), hour |-> (local % 86400) \div 3600,
        minute |-> ((local % 86400) \div 60) % 60, second |-> local % 60]

-----------------------------------------------------------------------------
NoDate == [year |-> 0, month |-> 0, day |-> 0]

CalendarInit(on) ==
    IF on THEN \E y \in Years : /\ counted = YearBegins(y)
                                /\ date = [year |-> y, month |-> 1, day |-> 1]
    ELSE counted = -1 /\ date = NoDate

CalendarNext ==
    /\ counted >= 0 /\ Tomorrow(date).year = date.year
    /\ counted' = counted + 1
    /\ date' = Tomorrow(date)

-----------------------------------------------------------------------------
\* Each day has its date, but for the last of a leap year: the loop over the years
\* goes on to day 0 of the next.
DatesRight ==
    counted >= 0 =>
        DateOf(counted) = IF LastOfLeapYear(date)
                          THEN [year |-> date.year + 1, month |-> 1, day |-> 0] ELSE date

\* The time is that of the zone, before midnight and after it, for the offsets that an
\* int holds: beyond 9 hours it does not.
TimesRight ==
    counted > 0 =>
        \A gmt \in Zones, s \in Seconds :
            gmt \in -9..9 =>
                LET utc == s - gmt * 3600
                    got == TimeOf(counted + utc \div 86400, utc % 86400, gmt)
                IN /\ got.date = DateOf(counted)
                   /\ got.hour * 3600 + got.minute * 60 + got.second = s

\* What NTP_get_time makes of a timestamp is right, but for these two.
CalendarRight == DatesRight /\ TimesRight
=============================================================================
