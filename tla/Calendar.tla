------------------------------ MODULE Calendar ------------------------------
(***************************************************************************)
(* The conversions between milliseconds since 1970 and dates of wow_time.c.*)
(* A number of milliseconds is a pair: whole days, milliseconds of the     *)
(* day; every division of the code is exact on that pair.                  *)
(***************************************************************************)
LOCAL INSTANCE Integers
LOCAL INSTANCE Sequences
LOCAL INSTANCE FiniteSets

DayMsec == 86400000
gs_mon_days ==
  << <<0, 31, 59, 90, 120, 151, 181, 212, 243, 273, 304, 334>>,
     <<0, 31, 60, 91, 121, 152, 182, 213, 244, 274, 305, 335>> >>
rtc_data_leap(year) == year % 4 = 0 /\ (year % 100 # 0 \/ year % 400 = 0)
Row(leap) == gs_mon_days[IF leap THEN 2 ELSE 1]

\* The turns of the loop that takes off whole years, a leap year every four.
RECURSIVE Years(_, _)
Years(year, days) ==
  LET n == IF year % 4 = 0 THEN 366 ELSE 365
  IN  IF days < n THEN [year |-> year, days |-> days] ELSE Years(year + 1, days - n)

\* Variant: the fourth year of a block starts a day early.
DateEarly(days) ==
  LET y == Years((days \div 1461) * 4 + 1970, days % 1461)
      row == Row(y.year % 4 = 0)
      mon == CHOOSE m \in 1 .. 12 : row[m] <= y.days /\ (m = 12 \/ row[m + 1] >= y.days)
  IN  [year |-> y.year, mon |-> mon, day |-> y.days + 1 - row[mon]]

\* The date of a day: blocks of four years, then years, then the month that
\* started last.
Date(days) ==
  LET y == Years((days \div 1461) * 4 + 1970, days % 1461)
      row == Row(y.year % 4 = 0)
      mon == CHOOSE m \in 1 .. 12 : row[m] < y.days + 1 /\ (m = 12 \/ row[m + 1] >= y.days + 1)
  IN  [year |-> y.year, mon |-> mon, day |-> y.days + 1 - row[mon]]

Clock(ms) == [hour |-> ms \div 3600000, min |-> (ms \div 60000) % 60]

wow_time_msec_to_rtc(t) ==
  LET d == Date(t[1])  c == Clock(t[2])
  IN  [year |-> d.year % 65536, mon |-> d.mon, day |-> d.day, hour |-> c.hour, min |-> c.min,
       sec |-> (t[2] \div 1000) % 60, msec |-> t[2] % 1000]

\* The year is kept in 7 bits, counted from 2000.
wow_time_msec_to_cp56(t) ==
  LET d == Date(t[1])  c == Clock(t[2])
  IN  [year |-> (d.year - 2000) % 128, mon |-> d.mon, mon_day |-> d.day, hour |-> c.hour, min |-> c.min,
       milli_sec_l |-> (t[2] % 60000) % 256, milli_sec_h |-> ((t[2] % 60000) \div 256) % 256]

\* (year - 1970) * 365 * 24 * 3600 is computed in a signed 32-bit int, which
\* is undefined from 2039 on.
YearOverflows(year) == (year - 1970) * 365 > 2147483647 \div 86400
Undefined == <<"undefined">>
LeapsBefore(year) == Cardinality({y \in 1970 .. year - 1 : rtc_data_leap(y)})

wow_time_rtc_to_msec(r) ==
  IF YearOverflows(r.year) THEN Undefined
  ELSE <<(r.year - 1970) * 365 + LeapsBefore(r.year) + Row(rtc_data_leap(r.year))[r.mon] + r.day - 1,
         r.hour * 3600000 + r.min * 60000 + r.sec * 1000 + r.msec>>

\* The leap year is looked up under the year without its century.
wow_time_cp56_to_msec(c) ==
  LET year == c.year + 2000
  IN  IF YearOverflows(year) THEN Undefined
      ELSE <<(year - 1970) * 365 + LeapsBefore(year) + Row(rtc_data_leap(c.year))[c.mon] + c.mon_day - 1,
             c.hour * 3600000 + c.min * 60000 + c.milli_sec_h * 256 + c.milli_sec_l>>

\* wow_time_get_cp56 / wow_time_set_cp56: the clock of the system as a date
\* and back; setting it drops the milliseconds.
wow_time_get_cp56(d, ms) ==
  LET in == ms % 60000 IN
  [year |-> (d.year - 2000) % 128, mon |-> d.mon, mon_day |-> d.day,
   hour |-> ms \div 3600000, min |-> (ms \div 60000) % 60,
   milli_sec_h |-> (in \div 256) % 256, milli_sec_l |-> in % 256]
wow_time_set_cp56(c) ==
  [year |-> c.year + 2000, mon |-> c.mon, day |-> c.mon_day, hour |-> c.hour, min |-> c.min,
   sec |-> (c.milli_sec_h * 256 + c.milli_sec_l) \div 1000]
wow_time_get_info(d, ms) ==
  [year |-> d.year, mon |-> d.mon, day |-> d.day, hour |-> ms \div 3600000,
   min |-> (ms \div 60000) % 60, sec |-> (ms \div 1000) % 60, msec |-> ms % 1000]
wow_time_set_info(i) ==
  [year |-> i.year, mon |-> i.mon, day |-> i.day, hour |-> i.hour, min |-> i.min, sec |-> i.sec]
=============================================================================
