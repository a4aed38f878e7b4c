----------------------------- MODULE Calendar -----------------------------
(***************************************************************************)
(* The conversions of TimeZone and LogStream, walked along the calendar:   *)
(* one variable counts the days by the rules of the calendar, and next to  *)
(* it a clock goes through the transitions of a time zone, a thread logs   *)
(* at every tick of it, and a line that holds any number of characters is  *)
(* given one more number.                                                  *)
(***************************************************************************)
EXTENDS TimeZone, LogStream

CONSTANTS
  FirstYear, LastYear,  \* bound: the days that are walked
  DaysBefore,           \* the clock begins so many days before 1970
  Step,                 \* how far it goes at a time
  Negative              \* the first number is minus this

ASSUME CalendarAssumption ==
  /\ FirstYear \in Nat /\ LastYear \in Nat /\ FirstYear <= LastYear
  /\ DaysBefore \in Nat /\ Step \in Nat \ {0}
  /\ Negative \in Nat

VARIABLES
  civil,     \* the day as a date
  days,      \* how many days have gone by
  zone,      \* the file of a time zone
  now,       \* a time, in seconds since 1970
  cache      \* the stamp of the last line that the thread has logged

vars == <<civil, days, zone, now, cache>>

Standard(hours) == [gmtOffset |-> hours * 3600, isDst |-> FALSE]
Daylight(hours) == [gmtOffset |-> hours * 3600, isDst |-> TRUE]

\* Day n of 1970, at an hour of UTC.
At(n, hour) == n * kSecondsPerDay + hour * 3600

\* Zones west and east of Greenwich, north and south, before and after 1970; one
\* without transitions, and one whose standard time is put forward.  Where standard
\* time is put back no tm tells the two hours apart.
Zones ==
  {[trans |-> <<>>, locals |-> <<>>, types |-> <<Standard(8)>>],
   [trans |-> <<At(-248, 7), At(-66, 6), At(115, 7), At(297, 6)>>,
    locals |-> <<2, 1, 2, 1>>, types |-> <<Standard(-5), Daylight(-4)>>],
   [trans |-> <<At(-70, 16), At(66, 16), At(300, 16)>>,
    locals |-> <<1, 2, 1>>, types |-> <<Daylight(11), Standard(10)>>],
   [trans |-> <<At(115, 1), At(297, 1), At(480, 0)>>, locals |-> <<2, 1, 3>>,
    types |-> <<Standard(0), Daylight(1), Standard(3)>>]}

LeapYear(y) == y % 4 = 0 /\ (y % 100 # 0 \/ y % 400 = 0)

LastDay(y, m) ==
  IF m = 2 THEN (IF LeapYear(y) THEN 29 ELSE 28)
  ELSE IF m \in {4, 6, 9, 11} THEN 30 ELSE 31

NextDay(d) ==
  IF d.day < LastDay(d.year, d.month) THEN [d EXCEPT !.day = @ + 1]
  ELSE IF d.month < 12 THEN [d EXCEPT !.month = @ + 1, !.day = 1]
  ELSE [year |-> d.year + 1, month |-> 1, day |-> 1]

Init ==
  /\ civil = [year |-> FirstYear, month |-> 1, day |-> 1]
  /\ days = 0
  /\ zone \in Zones
  /\ now = -(DaysBefore * kSecondsPerDay)
  /\ cache = NewCache

Next ==
  /\ civil.year <= LastYear
  /\ civil' = NextDay(civil)
  /\ days' = days + 1
  /\ now' = now + Step
  /\ cache' = IF now > 0 THEN formatTime(cache, now) ELSE cache
  /\ UNCHANGED zone

Spec == Init /\ [][Next]_vars

-----------------------------------------------------------------------------
(* Properties.                                                             *)

\* A Date is the day of the Gregorian calendar: the day number goes up by one with
\* every day, and year, month and day come back from it.
DatesAgree ==
  LET first == getJulianDayNumber(FirstYear, 1, 1)
  IN  /\ getJulianDayNumber(civil.year, civil.month, civil.day) = first + days
      /\ getYearMonthDay(first + days) = civil

\* toUtcTime is the time of the day, before and after 1970, and fromUtcTime gives
\* back the seconds.
UtcRoundTrip(t) ==
  LET utc == toUtcTime(t)
  IN  /\ fromUtcTime(utc) = t
      /\ utc.tm_hour \in 0..23 /\ utc.tm_min \in 0..59 /\ utc.tm_sec \in 0..59
      /\ utc.tm_mon \in 0..11 /\ utc.tm_mday \in 1..LastDay(utc.tm_year + 1900, utc.tm_mon + 1)
      /\ utc.tm_wday = (t \div kSecondsPerDay + 4) % 7
      /\ utc.tm_yday \in 0..365

\* The local time tells which second it was, also in the hour that comes twice when
\* daylight saving time ends; and it is ahead of UTC by the offset in force.  Before
\* the first transition that is the first standard time, except that the code takes
\* the first local time, whichever it is ("should be first non dst time zone", the
\* FIXME of line 224): where that is a daylight saving time nothing is said of it.
LocalRoundTrip(t) ==
  LET data == readTimeZoneFile(zone)
      local == toLocalTime(data, t)
      begun == {i \in 1..Len(zone.trans) : zone.trans[i] <= t}
      standard == {i \in 1..Len(zone.types) : ~zone.types[i].isDst}
      inForce ==
        zone.types[IF begun = {} THEN Min(standard) ELSE zone.locals[Max(begun)]]
  IN  /\ fromLocalTime(data, local) = t
      /\ begun # {} \/ ~zone.types[1].isDst =>
           /\ fromUtcTime(local) = t + inForce.gmtOffset
           /\ local.tm_isdst = inForce.isDst

\* No second is lost or doubled between a time and a struct tm, in UTC or locally:
\* at each tick of the clock and at the second before it, and in UTC also at any
\* second of the minutes after it.
TimesRoundTrip ==
  /\ \A t \in {now - 1, now, now + (days % Step)} : UtcRoundTrip(t)
  /\ \A t \in {now - 1, now} : LocalRoundTrip(t)

\* The number that the characters stand for.
Numeral(chars, base) == FoldLeft(LAMBDA n, digit : base * n + digit, 0, chars)

\* A number that is put into a line is written whole, with its sign and without
\* leading zeros, or not at all, and neither it nor its NUL goes past the end of
\* the buffer, however full the line is.
NumbersWhole ==
  LET fill == days % (kSmallBuffer + 1)
      line == [text |-> [i \in 1..fill |-> Letter], top |-> fill]
      v == days - Negative
      decimal == formatInteger(line, v)
      pointer == formatPointer(line, days)
      Added(buffer) == SubSeq(buffer.text, fill + 1, Len(buffer.text))
      unsigned == IF v < 0 THEN Tail(Added(decimal)) ELSE Added(decimal)
      Plain(chars) ==
        /\ chars # <<>> /\ \A i \in 1..Len(chars) : chars[i] < Minus
        /\ chars[1] = 0 => Len(chars) = 1
  IN  /\ decimal.top <= kSmallBuffer /\ pointer.top <= kSmallBuffer
      /\ decimal # line =>
           /\ v < 0 => Added(decimal)[1] = Minus
           /\ Plain(unsigned)
           /\ Numeral(unsigned, 10) = (IF v < 0 THEN -v ELSE v)
      /\ pointer # line =>
           /\ SubSeq(Added(pointer), 1, 2) = <<0, X>>
           /\ Plain(SubSeq(Added(pointer), 3, Len(Added(pointer))))
           /\ Numeral(SubSeq(Added(pointer), 3, Len(Added(pointer))), 16) = days
      /\ avail(line) >= kMaxNumericSize => decimal # line /\ pointer # line

\* The stamp of a line is its time, whether it is made or taken from the cache.
StampsCurrent ==
  now > 0 => \A second \in {now - Step, now - Step + 1, now} :
    second > 0 => formatTime(cache, second).t_time = <<toUtcTime(second)>>

\* What a Logger writes into its line is the number and the time it was given.
LinesRendered == NumbersWhole /\ StampsCurrent

===========================================================================
