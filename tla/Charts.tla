------------------------------- MODULE Charts --------------------------------
(***************************************************************************)
(* The buckets of the charts (src/src/common/utils/time-bucket.util.ts):   *)
(* a range is divided into hours, days or months of UTC ending now, the    *)
(* database groups rows by the key of the unit they fall in, and the two   *)
(* are put together by the key (analytics.service.ts, admin-finance        *)
(* topupTrend).  The cards beside the charts count from midnight           *)
(* (startOfUtcDay) by themselves.                                          *)
(*                                                                         *)
(* An instant is a number of hours since January 1st of BaseYear; a key is *)
(* the number of the hour, day or month since then; labels are left out.   *)
(***************************************************************************)
EXTENDS Integers, Sequences, FiniteSets, FiniteSetsExt

CONSTANTS
    BaseYear,       \* a year before any that is charted
    Years,          \* how many there are
    Starts,         \* the days, since BaseYear, a behaviour may start on
    Ticks,          \* the hours that may pass at once
    MaxTicks, MaxRows

VARIABLES
    now,
    rows,       \* when something happened
    ticks

vars == <<now, rows, ticks>>

Openings == {24 * d : d \in Starts}
Init == now \in Openings /\ rows = {} /\ ticks = 0

Pass(hours) ==
    /\ ticks < MaxTicks
    /\ now' = now + hours /\ ticks' = ticks + 1
    /\ UNCHANGED rows

Happen ==
    /\ Cardinality(rows) < MaxRows
    /\ rows' = rows \cup {now}
    /\ UNCHANGED <<now, ticks>>

Next == Happen \/ \E hours \in Ticks : Pass(hours)

-----------------------------------------------------------------------------
(* The calendar.                                                           *)

Leap(year) == year % 4 = 0 /\ (year % 100 # 0 \/ year % 400 = 0)
BeforeMonth == <<0, 31, 59, 90, 120, 151, 181, 212, 243, 273, 304, 334>>

\* The first day of a month since BaseYear.
FirstDay(month) ==
    LET year == month \div 12
        leaps == {y \in 0 .. year : Leap(BaseYear + y) /\ (y < year \/ month % 12 > 1)}
    IN  365 * year + BeforeMonth[(month % 12) + 1] + Cardinality(leaps)

\* A behaviour starts after the base year and ends before the years do.
ChartsAssumption ==
    /\ {BaseYear, Years, MaxTicks, MaxRows} \subseteq Nat
    /\ Starts \subseteq Nat /\ Ticks \subseteq Nat
    /\ \E longest \in Ticks : \A hours \in Ticks, d \in Starts :
          hours <= longest /\ FirstDay(12) <= d
              /\ 24 * d + MaxTicks * longest < 24 * FirstDay(12 * Years)

DayOf(h) == h \div 24
MonthOf(h) ==
    CHOOSE m \in 0 .. 12 * Years - 1 : FirstDay(m) <= DayOf(h) /\ DayOf(h) < FirstDay(m + 1)

\* startOfUtcDay, of now.
StartOfDay == 24 * DayOf(now)

-----------------------------------------------------------------------------
(* The buckets.                                                            *)

Ranges == {"day", "7days", "month", "6months", "year"}
Unit(range) == CASE range = "day" -> "hour" [] range \in {"7days", "month"} -> "day" [] OTHER -> "month"
Count(range) ==
    CASE range = "day" -> 24 [] range = "7days" -> 7 [] range = "month" -> 30
      [] range = "6months" -> 6 [] range = "year" -> 12

\* date_trunc of the rows (truncExpr), keyFor of the buckets.
KeyOf(unit, h) == CASE unit = "hour" -> h [] unit = "day" -> DayOf(h) [] OTHER -> MonthOf(h)

\* Mutant of BuildBuckets: months are walked back from the last one.
BuildBucketsShifted(range) ==
    LET n == Count(range)
        step == IF Unit(range) = "hour" THEN 1 ELSE 24
        anchor == IF Unit(range) = "hour" THEN StartOfDay ELSE StartOfDay - (n - 1) * step
        first == MonthOf(now) - n
    IN  [i \in 1 .. n |->
            IF Unit(range) = "month"
            THEN [start |-> 24 * FirstDay(first + i - 1), end |-> 24 * FirstDay(first + i)]
            ELSE [start |-> anchor + (i - 1) * step, end |-> anchor + i * step]]

\* buildBuckets: the hours of today, or the last days or months.
BuildBuckets(range) ==
    LET n == Count(range)
        step == IF Unit(range) = "hour" THEN 1 ELSE 24
        anchor == IF Unit(range) = "hour" THEN StartOfDay ELSE StartOfDay - (n - 1) * step
        first == MonthOf(now) - (n - 1)
    IN  [i \in 1 .. n |->
            IF Unit(range) = "month"
            THEN [start |-> 24 * FirstDay(first + i - 1), end |-> 24 * FirstDay(first + i)]
            ELSE [start |-> anchor + (i - 1) * step, end |-> anchor + i * step]]

\* rangeWindow.
InWindow(range, S) ==
    LET b == BuildBuckets(range)
        from == b[1].start
        to == b[Count(range)].end
    IN  {h \in S : from <= h /\ h < to}

\* foldSeries over the grouped rows of the window.
Series(range) ==
    LET unit == Unit(range)
        b == BuildBuckets(range)
        found == InWindow(range, rows)
    IN  [i \in 1 .. Count(range) |->
            Cardinality({h \in found : KeyOf(unit, h) = KeyOf(unit, b[i].start)})]

-----------------------------------------------------------------------------
(* Properties.                                                             *)

Sum(s) == MapThenSumSet(LAMBDA i : s[i], DOMAIN s)

\* A chart is a division of its window: its buckets follow each other, now is
\* in the window, the key of a row is that of the bucket it falls in and so
\* nothing of the window is lost or counted twice, on any day of any year; and
\* charts and cards show the same: today by hours, in a week, in a month and
\* on the card, this month in both charts by months
\* (time-bucket.util.ts:55-145, admin-finance.service.ts:48-66, 412-430).
ChartsAgree ==
    LET series == [range \in Ranges |-> Series(range)]
        last(range) == series[range][Count(range)]
        today == Cardinality({h \in rows : h >= StartOfDay})
    IN  /\ \A range \in Ranges :
              LET b == BuildBuckets(range)
              IN  /\ \A i \in 1 .. Count(range) - 1 : b[i].end = b[i + 1].start
                  /\ InWindow(range, {now}) = {now}
                  /\ \A i \in 1 .. Count(range) :
                        /\ b[i].start < b[i].end
                        /\ series[range][i] = Cardinality({h \in rows : b[i].start <= h /\ h < b[i].end})
                  /\ Sum(series[range]) = Cardinality(InWindow(range, rows))
        /\ Sum(series["day"]) = today /\ last("7days") = today /\ last("month") = today
        /\ \A i \in 1 .. 7 : series["7days"][i] = series["month"][23 + i]
        /\ \A i \in 1 .. 6 : series["6months"][i] = series["year"][6 + i]
=============================================================================
