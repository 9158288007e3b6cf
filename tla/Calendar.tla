------------------------------ MODULE Calendar ------------------------------
(***************************************************************************)
(* The wall clock (kernel/time.c) and the two conversions between seconds  *)
(* and dates, kernel/time.c's own and the one of kernel/time/timeconv.c.   *)
(*                                                                         *)
(* The conversions are operators, checked for every day of some windows of *)
(* the calendar.  A number of seconds since 1970 is kept as a pair of days *)
(* and seconds of the day, so that no number here exceeds 2^31; the code's *)
(* u32 ends on day 49710 (in the year 2106), which no window reaches.      *)
(*                                                                         *)
(* The clock is set by a thread and advanced by the timer interrupt, which *)
(* may come between any two stores of the thread.  There a date is known   *)
(* by the number of seconds it was computed from.                          *)
(***************************************************************************)
EXTENDS Integers, FiniteSets

CONSTANTS
  DayWindows,        \* the windows, as <<first day, last day>>
  Hz,             \* GALIO_HZ
  Epochs,         \* seconds the clock is set to
  Offsets,        \* timezone offsets, in seconds
  MaxEpoch        \* bound: the clock is stopped here

ASSUME CalendarAssumption ==
  /\ \A w \in DayWindows : w[1] \in Nat /\ w[2] \in Nat /\ w[1] <= w[2] /\ w[2] < 49710
  /\ Hz \in Nat \ {0} /\ Epochs \subseteq 0..MaxEpoch /\ Offsets \subseteq Int

-----------------------------------------------------------------------------
(* kernel/time.c: dates as records of the DateTime structure. *)

kernel_time_is_leap_year(year) == year % 4 = 0 /\ (year % 100 # 0 \/ year % 400 = 0)

DaysPerMonth == <<31, 28, 31, 30, 31, 30, 31, 31, 30, 31, 30, 31>>

kernel_time_days_in_month(month, year) ==
  IF month \notin 1..12 THEN 31
  ELSE IF month = 2 /\ kernel_time_is_leap_year(year) THEN 29
  ELSE DaysPerMonth[month]

DaysInYear(year) == 365 + IF kernel_time_is_leap_year(year) THEN 1 ELSE 0

kernel_time_is_valid_datetime(dt) ==
  /\ dt.year >= 1970 /\ dt.month \in 1..12 /\ dt.day \in 1..31
  /\ dt.hour <= 23 /\ dt.minute <= 59 /\ dt.second <= 59

\* A mutant of NextDate: the last day of a month is left out.
BugNextDate(dt) ==
  IF dt.day + 1 < kernel_time_days_in_month(dt.month, dt.year)
  THEN [dt EXCEPT !.day = @ + 1]
  ELSE IF dt.month + 1 <= 12 THEN [dt EXCEPT !.day = 1, !.month = @ + 1]
  ELSE [dt EXCEPT !.day = 1, !.month = 1, !.year = @ + 1]

\* One second later; each field carries into the next.
NextDate(dt) ==
  IF dt.day + 1 <= kernel_time_days_in_month(dt.month, dt.year)
  THEN [dt EXCEPT !.day = @ + 1]
  ELSE IF dt.month + 1 <= 12 THEN [dt EXCEPT !.day = 1, !.month = @ + 1]
  ELSE [dt EXCEPT !.day = 1, !.month = 1, !.year = @ + 1]

kernel_time_advance_one_second(dt) ==
  IF dt.second + 1 < 60 THEN [dt EXCEPT !.second = @ + 1]
  ELSE IF dt.minute + 1 < 60 THEN [dt EXCEPT !.second = 0, !.minute = @ + 1]
  ELSE IF dt.hour + 1 < 24 THEN [dt EXCEPT !.second = 0, !.minute = 0, !.hour = @ + 1]
  ELSE NextDate([dt EXCEPT !.second = 0, !.minute = 0, !.hour = 0])

\* The loops over the years since 1970 (none before it) and over the months of the year.
DaysBeforeYear(year) ==
  LET years == 1970..(year - 1) IN
  365 * Cardinality(years) + Cardinality({y \in years : kernel_time_is_leap_year(y)})

DaysBeforeMonth(month, year) ==
  LET before[m \in 1..12] ==
        IF m = 1 THEN 0 ELSE before[m - 1] + kernel_time_days_in_month(m - 1, year)
  IN  before[month]

SecondsOf(dt) == dt.hour * 3600 + dt.minute * 60 + dt.second

kernel_time_datetime_to_epoch(dt) ==
  IF ~kernel_time_is_valid_datetime(dt) THEN <<0, 0>>
  ELSE <<DaysBeforeYear(dt.year) + DaysBeforeMonth(dt.month, dt.year) + dt.day - 1,
         SecondsOf(dt)>>

\* kernel_time_parse_yyyy_mm_dd_to_epoch of well-formed text with these fields; 0 is
\* its answer for a date that is none.
Parsed(y, m, d, hour, minute, second) ==
  IF m \in 1..12 /\ d \in 1..kernel_time_days_in_month(m, y)
     /\ hour <= 23 /\ minute <= 59 /\ second <= 59
  THEN <<DaysBeforeYear(y) + DaysBeforeMonth(m, y) + d - 1, hour * 3600 + minute * 60 + second>>
  ELSE <<0, 0>>

\* The loop that takes off whole years, and the one that takes off whole months.
YearAndRest(days) ==
  LET year == CHOOSE y \in (1970 + days \div 366)..(1970 + days \div 365) :
                DaysBeforeYear(y) <= days /\ days - DaysBeforeYear(y) < DaysInYear(y)
  IN  <<year, days - DaysBeforeYear(year)>>

MonthAndRest(rest, year) ==
  LET loop[month \in 1..13] ==
        IF rest - DaysBeforeMonth(month, year) < kernel_time_days_in_month(month, year)
        THEN <<month, rest - DaysBeforeMonth(month, year)>> ELSE loop[month + 1]
  IN  loop[1]

DateOf(year, monthAndRest, seconds) ==
  [year |-> year, month |-> monthAndRest[1], day |-> monthAndRest[2] + 1,
   hour |-> (seconds \div 3600) % 24, minute |-> (seconds \div 60) % 60, second |-> seconds % 60]

FromYear(y, seconds) == DateOf(y[1], MonthAndRest(y[2], y[1]), seconds)
kernel_time_datetime_from_epoch(days, seconds) == FromYear(YearAndRest(days), seconds)

-----------------------------------------------------------------------------
(* kernel/time/timeconv.c: the same by multiplication instead of loops. *)

\* The code adds 719468 days and a number of 400-year cycles that keeps the sum
\* positive, and takes their years off again; the cycles are left out on both sides.
CenturyNumber(days) == 4 * (days + 719468) + 3
Century(days) == CenturyNumber(days) \div 146097
DayOfCentury(days) == (CenturyNumber(days) % 146097) \div 4

\* 2939745 * x = 512 * High(x) + Low(x), for the 64-bit product of which the code takes
\* the upper and the lower 32 bits.
High(x) == 2939745 * (x \div 512) + (2939745 * (x % 512)) \div 512
Low(x) == (2939745 * (x % 512)) % 512
YearOfCentury(doc) == High(4 * doc + 3) \div 2^23
DayOfYearIn(doc) ==
  (128 * (High(4 * doc + 3) % 2^23) + Low(4 * doc + 3) \div 4) \div 2939745

\* The year begins in March; January and February are days 306 and later of it.
MonthDay(doy) == 2141 * doy + 132377
TmOf(century, yoc, doy, seconds, wday) ==
  LET late == doy >= 306
      leap == IF yoc # 0 THEN yoc % 4 = 0 ELSE century % 4 = 0
      month == MonthDay(doy) \div 2^16
  IN
  [tm_year |-> 100 * century + yoc + (IF late THEN 1 ELSE 0) - 1900,
   tm_mon |-> IF late THEN month - 12 ELSE month,
   tm_mday |-> (MonthDay(doy) % 2^16) \div 2141 + 1,
   tm_yday |-> IF late THEN doy - 306 ELSE doy + 59 + (IF leap THEN 1 ELSE 0),
   tm_wday |-> wday,
   tm_hour |-> seconds \div 3600, tm_min |-> (seconds % 3600) \div 60, tm_sec |-> seconds % 60]

FromCentury(century, doc, seconds, wday) ==
  TmOf(century, YearOfCentury(doc), DayOfYearIn(doc), seconds, wday)

\* The loops that carry the offset into the days.
Carried(days, seconds) == <<days + (seconds \div 86400), seconds % 86400>>

ToTm(d) == FromCentury(Century(d[1]), DayOfCentury(d[1]), d[2], (4 + d[1]) % 7)
galio_time64_to_tm(days, seconds, offset) == ToTm(Carried(days, seconds + offset))

-----------------------------------------------------------------------------
(* The clock. *)

NoDate == -1        \* current_datetime is all zero
NoDay == -1         \* the conversions are not being compared

VARIABLES
  day,          \* the day at which the conversions are compared
  clock,        \* base, wall, shown (current_datetime), ticks, offset; whether it runs
  setter,       \* the thread's place in a setter, and the wall clock it has computed
  unsettled     \* the clock was never right yet, or a second passed during the last set

calendarVars == <<day, clock, setter, unsettled>>

Clamped(seconds) == IF seconds < 0 THEN 0 ELSE seconds
AtRestSetter == [at |-> "rest", wall |-> 0]

CalendarInit ==
  /\ day = NoDay
  /\ clock = [base |-> 0, wall |-> 0, shown |-> NoDate, ticks |-> 0,
              offset |-> 6 * 3600, running |-> FALSE]
  /\ setter = AtRestSetter
  /\ unsettled = TRUE

\* The comparison begins at the first day of a window and goes on to the last.
FirstDay ==
  /\ day = NoDay
  /\ \E w \in DayWindows : day' = w[1]
  /\ UNCHANGED <<clock, setter, unsettled>>

NextDay ==
  /\ \E w \in DayWindows : day \in w[1]..(w[2] - 1)
  /\ day' = day + 1
  /\ UNCHANGED <<clock, setter, unsettled>>

\* A clock that has the base and the offset right: kernel_time_apply_offset.
Applied(c) == [c EXCEPT !.wall = Clamped(c.base + c.offset), !.shown = Clamped(c.base + c.offset)]

\* At boot, from the real time clock; its date may be no valid one.  Ticks come after.
kernel_time_initialize ==
  /\ ~clock.running /\ setter.at = "rest"
  /\ \/ /\ clock' = [clock EXCEPT !.base = 0, !.wall = 0, !.shown = NoDate, !.ticks = 0,
                                  !.running = TRUE]
        /\ UNCHANGED unsettled
     \/ \E s \in Epochs :
          /\ clock' = [Applied([clock EXCEPT !.base = s]) EXCEPT !.ticks = 0, !.running = TRUE]
          /\ unsettled' = FALSE
  /\ UNCHANGED <<day, setter>>

SecondPassed(c) == Applied([c EXCEPT !.base = @ + 1])

\* The tick: every Hz of them are a second.
kernel_time_update ==
  LET c == [clock EXCEPT !.ticks = (@ + 1) % Hz] IN
  /\ clock.running /\ clock.base < MaxEpoch
  /\ IF c.ticks = 0
     THEN clock' = SecondPassed(c) /\ unsettled' = (setter.at # "rest")
     ELSE clock' = c /\ UNCHANGED unsettled
  /\ UNCHANGED <<day, setter>>

BeginSet(c) ==
  /\ clock' = c
  /\ setter' = [at |-> "wall", wall |-> Clamped(c.base + c.offset)]
  /\ unsettled' = FALSE
  /\ UNCHANGED day

\* kernel_time_set_epoch_seconds, set_boot_seconds, set_datetime of a valid date and
\* sync_with_rtc: the base is stored and the wall clock computed from it.
SetClock == \E s \in Epochs :
  /\ clock.running /\ setter.at = "rest"
  /\ BeginSet([clock EXCEPT !.base = s])

\* Before the clock runs only the offset is stored.
kernel_time_set_timezone_offset_seconds == \E o \in Offsets :
  /\ setter.at = "rest"
  /\ IF clock.running THEN BeginSet([clock EXCEPT !.offset = o])
     ELSE clock' = [clock EXCEPT !.offset = o] /\ UNCHANGED <<day, setter, unsettled>>

StoreWall ==
  /\ setter.at = "wall"
  /\ clock' = [clock EXCEPT !.wall = setter.wall]
  /\ setter' = [setter EXCEPT !.at = "date"]
  /\ UNCHANGED <<day, unsettled>>

StoreDate ==
  /\ setter.at = "date"
  /\ clock' = [clock EXCEPT !.shown = setter.wall]
  /\ setter' = AtRestSetter
  /\ UNCHANGED <<day, unsettled>>

ClockNext ==
  \/ kernel_time_initialize \/ kernel_time_update \/ SetClock
  \/ kernel_time_set_timezone_offset_seconds \/ StoreWall \/ StoreDate

-----------------------------------------------------------------------------
(* Properties. *)

CalendarTypeOK ==
  /\ day \in 0..49709 \cup {NoDay}
  /\ clock.base \in 0..MaxEpoch /\ clock.wall \in Nat /\ clock.ticks \in 0..(Hz - 1)
  /\ clock.shown \in Nat \cup {NoDate}
  /\ setter.at \in {"rest", "wall", "date"}

Moments == {0, 59, 3599, 43200, 86399}

\* A date computed from a number of seconds is valid and gives that number back, by the
\* conversion and by the parser of the date in the configuration file.
DatesRoundTrip == day # NoDay => \A s \in Moments :
  LET dt == kernel_time_datetime_from_epoch(day, s) IN
  /\ kernel_time_is_valid_datetime(dt)
  /\ kernel_time_datetime_to_epoch(dt) = <<day, s>>
  /\ Parsed(dt.year, dt.month, dt.day, dt.hour, dt.minute, dt.second) = <<day, s>>

\* Advancing a date by a second is the date of the next second, at the ends of minutes,
\* hours, days, months and years.
AdvanceAgrees == day # NoDay => \A s \in Moments :
  kernel_time_advance_one_second(kernel_time_datetime_from_epoch(day, s))
    = kernel_time_datetime_from_epoch(day + ((s + 1) \div 86400), (s + 1) % 86400)

\* The conversion by multiplication gives the date the loops give, its day of the year is
\* the one the months add up to, and its weekday moves on by one each day.
TimeconvAgrees == day # NoDay => \A s \in Moments :
  LET dt == kernel_time_datetime_from_epoch(day, s)
      tm == galio_time64_to_tm(day, s, 0)
  IN
  /\ <<tm.tm_year + 1900, tm.tm_mon + 1, tm.tm_mday>> = <<dt.year, dt.month, dt.day>>
  /\ <<tm.tm_hour, tm.tm_min, tm.tm_sec>> = <<dt.hour, dt.minute, dt.second>>
  /\ tm.tm_yday = DaysBeforeMonth(dt.month, dt.year) + dt.day - 1
  /\ galio_time64_to_tm(day, s, 86400).tm_wday = (tm.tm_wday + 1) % 7

\* Whatever order the stores of a setter and the ticks come in, the wall clock and the
\* date shown are the base plus the offset, unless a second passed while the clock was
\* being set; the next second puts that right.
ClockRight ==
  setter.at = "rest" /\ ~unsettled
    => clock.wall = Clamped(clock.base + clock.offset) /\ clock.shown = clock.wall

\* The conversions between dates and seconds agree with each other (time.c:38-132,
\* 289-352, timeconv.c:64-120).
DatesAgree == CalendarTypeOK /\ DatesRoundTrip /\ AdvanceAgrees /\ TimeconvAgrees
=============================================================================
