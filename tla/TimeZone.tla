----------------------------- MODULE TimeZone -----------------------------
(***************************************************************************)
(* The conversions of time: Date (src/base/Date.cc), UTC and the time of a *)
(* zone (src/base/TimeZone.cc).  A tm has the fields that the code uses;   *)
(* tm_mon counts from 0 and tm_year from 1900.  Integers are wide enough   *)
(* for the years the comments of the code allow.                           *)
(***************************************************************************)
EXTENDS CIntegers, Sequences, FiniteSetsExt

-----------------------------------------------------------------------------
(* Date.                                                                   *)

\* Mutant of getJulianDayNumber: every fourth year is a leap year.
getJulianDayNumberJulian(year, month, day) ==
  LET a == (14 - month) \div 12
      y == year + 4800 - a
      m == month + 12 * a - 3
  IN  day + (153 * m + 2) \div 5 + y * 365 + y \div 4 - 32045 - 38

getJulianDayNumber(year, month, day) ==
  LET a == (14 - month) \div 12
      y == year + 4800 - a
      m == month + 12 * a - 3
  IN  day + (153 * m + 2) \div 5 + y * 365 + y \div 4 - y \div 100 + y \div 400 - 32045

getYearMonthDay(julianDayNumber) ==
  LET a == julianDayNumber + 32044
      b == (4 * a + 3) \div 146097
      c == a - (b * 146097) \div 4
      d == (4 * c + 3) \div 1461
      e == c - (1461 * d) \div 4
      m == (5 * e + 2) \div 153
  IN  [year  |-> b * 100 + d - 4800 + m \div 10,
       month |-> m + 3 - 12 * (m \div 10),
       day   |-> e - (153 * m + 2) \div 5 + 1]

kJulianDayOf1970_01_01 == getJulianDayNumber(1970, 1, 1)

weekDay(julianDayNumber) == (julianDayNumber + 1) % 7

-----------------------------------------------------------------------------
(* UTC.                                                                    *)

kSecondsPerDay == 24 * 60 * 60

\* Mutant of HMS: the seconds are left at zero.
HMSWhole(seconds) ==
  [hour |-> (seconds \div 60) \div 60, min |-> (seconds \div 60) % 60, sec |-> 0]

\* The fields of fillHMS, 71-77.
HMS(seconds) ==
  [hour |-> (seconds \div 60) \div 60, min |-> (seconds \div 60) % 60,
   sec  |-> seconds % 60]

\* The time that is seconds after the start of the day.
DayTime(days, seconds) ==
  LET day == days + kJulianDayOf1970_01_01
      ymd == getYearMonthDay(day)
      hms == HMS(seconds)
  IN  [tm_year |-> ymd.year - 1900, tm_mon |-> ymd.month - 1, tm_mday |-> ymd.day,
       tm_hour |-> hms.hour, tm_min |-> hms.min, tm_sec |-> hms.sec,
       tm_wday |-> weekDay(day),
       tm_yday |-> day - getJulianDayNumber(ymd.year, 1, 1),
       tm_isdst |-> FALSE]

\* Mutant of toUtcTime: no step back to the day before.
toUtcTimePositive(t) ==
  DayTime(CDiv(t, kSecondsPerDay),
          LET s == CMod(t, kSecondsPerDay) IN IF s < 0 THEN s + kSecondsPerDay ELSE s)

\* toUtcTime, 310-336, with yday.
toUtcTime(t) ==
  LET seconds == CMod(t, kSecondsPerDay)
      days == CDiv(t, kSecondsPerDay)
  IN  IF seconds < 0
      THEN DayTime(days - 1, seconds + kSecondsPerDay)
      ELSE DayTime(days, seconds)

fromUtcTime(utc) ==
  LET days == getJulianDayNumber(utc.tm_year + 1900, utc.tm_mon + 1, utc.tm_mday)
                - kJulianDayOf1970_01_01
  IN  days * kSecondsPerDay + utc.tm_hour * 3600 + utc.tm_min * 60 + utc.tm_sec

-----------------------------------------------------------------------------
(* A time zone.  A file has the times of the transitions, the index of the *)
(* local time each begins, and the local times with their offset.          *)

\* readTimeZoneFile, 168-196: the local time of a transition is the new one.
readTimeZoneFile(file) ==
  [localtimes |-> file.types,
   transitions |->
     [i \in 1..Len(file.trans) |->
        [gmttime |-> file.trans[i],
         localtime |-> file.trans[i] + file.types[file.locals[i]].gmtOffset,
         localtimeIdx |-> file.locals[i]]]]

\* Comp: the time that is compared.
Key(transition, gmt) == IF gmt THEN transition.gmttime ELSE transition.localtime

\* Mutant of findLocaltime: the second of a transition belongs to the time before.
findLocaltimeLate(data, time, gmt) ==
  LET upTo == {i \in 1..Len(data.transitions) : Key(data.transitions[i], gmt) < time}
  IN  IF upTo = {} THEN data.localtimes[1]
      ELSE data.localtimes[data.transitions[Max(upTo)].localtimeIdx]

\* findLocaltime, 218-250: lower_bound finds the first transition that is not
\* before the time.
findLocaltime(data, time, gmt) ==
  LET n == Len(data.transitions)
      notBefore == {i \in 1..n : Key(data.transitions[i], gmt) >= time}
      transI == Min(notBefore)
      Of(i) == data.localtimes[data.transitions[i].localtimeIdx]
  IN  IF n = 0 \/ time < Key(data.transitions[1], gmt) THEN data.localtimes[1]
      ELSE IF notBefore = {} THEN Of(n)
      ELSE IF Key(data.transitions[transI], gmt) = time THEN Of(transI)
      ELSE Of(transI - 1)

\* toLocalTime, 265-285; gmtime_r is what toUtcTime is for.
toLocalTime(data, seconds) ==
  LET local == findLocaltime(data, seconds, TRUE)
  IN  [toUtcTime(seconds + local.gmtOffset) EXCEPT !.tm_isdst = local.isDst]

\* Mutant of fromLocalTime: an hour that comes twice is always the second one.
fromLocalTimeOnce(data, localTm) ==
  fromUtcTime(localTm) - findLocaltime(data, fromUtcTime(localTm), FALSE).gmtOffset

\* fromLocalTime, 287-308; timegm is what fromUtcTime is for.
fromLocalTime(data, localTm) ==
  LET seconds == fromUtcTime(localTm)
      local == findLocaltime(data, seconds, FALSE)
      tryTm == toLocalTime(data, seconds - local.gmtOffset)
      hack == /\ localTm.tm_isdst /\ ~tryTm.tm_isdst
              /\ tryTm.tm_hour = localTm.tm_hour /\ tryTm.tm_min = localTm.tm_min
  IN  seconds - (IF hack THEN 3600 ELSE 0) - local.gmtOffset

===========================================================================
