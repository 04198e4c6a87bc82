------------------------------- MODULE Dates -------------------------------
(***************************************************************************)
(* The calendar, the zones and the formats of dates (datetime.rs, tz.rs).  *)
(* Seconds and days count from 1970; a zone is the table of its offsets.   *)
(* "UTC" is a zone with one offset here, where the code has no zone at all. *)
(***************************************************************************)
EXTENDS CharText, FiniteSets

Quotient(n, k) == IF n < 0 THEN -((-n) \div k) ELSE n \div k

DaysFromCivil(y, m, d) ==
  LET year == IF m <= 2 THEN y - 1 ELSE y        \* of a year that begins in March
      era == year \div 400
      yoe == year - era * 400
      mp == IF m > 2 THEN m - 3 ELSE m + 9
      doy == Quotient(153 * mp + 2, 5) + d - 1
  IN era * 146097 + yoe * 365 + yoe \div 4 - yoe \div 100 + doy - 719468

CivilFromDays(days) ==
  LET z == days + 719468
      era == z \div 146097
      doe == z - era * 146097
      yoe == (doe - doe \div 1460 + doe \div 36524 - doe \div 146096) \div 365
      doy == doe - (365 * yoe + yoe \div 4 - yoe \div 100)
      mp == (5 * doy + 2) \div 153
      m == IF mp < 10 THEN mp + 3 ELSE mp - 9
      y == yoe + era * 400
  IN <<IF m <= 2 THEN y + 1 ELSE y, m, doy - (153 * mp + 2) \div 5 + 1>>

IsLeap(y) == (y % 4 = 0 /\ y % 100 # 0) \/ y % 400 = 0
DaysInMonth(y, m) ==
  CASE m \in {1, 3, 5, 7, 8, 10, 12} -> 31
    [] m = 2 -> IF IsLeap(y) THEN 29 ELSE 28
    [] OTHER -> 30

DaySeconds == 86400
MakeTs(h, mi, s, mon, day, year) == DaysFromCivil(year, mon, day) * DaySeconds + h * 3600 + mi * 60 + s

\* The week, and the year it is counted in: its Thursday's.
IsoWeek(days) ==
  LET thursday == days + 3 - (((days % 7) + 3) % 7)
      year == CivilFromDays(thursday)[1]
  IN <<(thursday - DaysFromCivil(year, 1, 1)) \div 7 + 1, year>>

----------------------------------------------------------------------------
(* Zones.  types are <<seconds east, summer time, abbreviation>>; idx counts *)
(* them from 1.                                                             *)

FixedZone(name, off) == [name |-> name, trans |-> <<>>, idx |-> <<>>, types |-> << <<off, FALSE, name>> >>]
Utc == FixedZone(Chars("UTC"), 0)

Zone(name, trans, idx, types) ==
  [name |-> Chars(name), trans |-> trans, idx |-> idx,
   types |-> [k \in DOMAIN types |-> <<types[k][1], types[k][2], Chars(types[k][3])>>]]

\* The files of /usr/share/zoneinfo, some years of four of them.
ZoneFiles ==
  {Zone("America/New_York", <<1112511600, 1130652000, 1143961200>>, <<2, 1, 2>>,
        << <<-18000, FALSE, "EST">>, <<-14400, TRUE, "EDT">> >>),
   Zone("Europe/Paris", <<1111885200, 1130634000>>, <<2, 1>>,
        << <<3600, FALSE, "CET">>, <<7200, TRUE, "CEST">> >>),
   Zone("Pacific/Apia", <<1316872800, 1325239200, 1333202400>>, <<2, 3, 4>>,
        << <<-39600, FALSE, "-11">>, <<-36000, TRUE, "-10">>, <<50400, TRUE, "+14">>, <<46800, FALSE, "+13">> >>),
   Zone("Asia/Kolkata", <<>>, <<>>, << <<19800, FALSE, "IST">> >>)}

Standard(zone) ==
  LET winter == {k \in DOMAIN zone.types : ~zone.types[k][2]}
  IN IF winter = {} THEN 1 ELSE CHOOSE k \in winter : \A j \in winter : k <= j
TypeAfter(zone, changes) == zone.types[IF changes = 0 THEN Standard(zone) ELSE zone.idx[changes]]
ChangesUntil(zone, ts) == Cardinality({k \in DOMAIN zone.trans : zone.trans[k] <= ts})
TypeAt(zone, ts) == TypeAfter(zone, ChangesUntil(zone, ts))
OffsetAt(zone, ts) == TypeAt(zone, ts)[1]

\* A mutant: the offset taken at the wall clock, not at the instant it is first taken for.
TsFromLocalOnce(wall, zone) == wall - OffsetAt(zone, wall)
TsFromLocal(wall, zone) == wall - OffsetAt(zone, wall - OffsetAt(zone, wall))

\* Entries <<ts, type>>: the state at `begin`, and every change up to `end`.
Transitions(zone, begin, end) ==
  << <<begin, TypeAt(zone, begin)>> >>
  \o [k \in 1..(ChangesUntil(zone, end) - ChangesUntil(zone, begin)) |->
        LET n == ChangesUntil(zone, begin) + k IN <<zone.trans[n], zone.types[zone.idx[n]]>>]

----------------------------------------------------------------------------
(* A moment on the clocks of a zone. *)

MomentOn(ts, type, name, days, secs, date) ==
  [ts |-> ts, y |-> date[1], m |-> date[2], d |-> date[3],
   h |-> secs \div 3600, mi |-> (secs % 3600) \div 60, s |-> secs % 60,
   days |-> days, wday |-> ((days % 7) + 4) % 7, yday |-> days - DaysFromCivil(date[1], 1, 1),
   off |-> type[1], dst |-> type[2], abbr |-> type[3], zone |-> name]
MomentAt(ts, type, name, days, secs) == MomentOn(ts, type, name, days, secs, CivilFromDays(days))
MomentIn(ts, type, name) ==
  MomentAt(ts, type, name, (ts + type[1]) \div DaySeconds, (ts + type[1]) % DaySeconds)
Moment(ts, zone) == MomentIn(ts, TypeAt(zone, ts), zone.name)

MonthNames ==
  <<Chars("January"), Chars("February"), Chars("March"), Chars("April"), Chars("May"), Chars("June"),
    Chars("July"), Chars("August"), Chars("September"), Chars("October"), Chars("November"), Chars("December")>>
DayNames ==
  <<Chars("Sunday"), Chars("Monday"), Chars("Tuesday"), Chars("Wednesday"), Chars("Thursday"),
    Chars("Friday"), Chars("Saturday")>>
Abbreviated(name) == SubSeq(name, 1, 3)
DayName(t) == DayNames[t.wday + 1]
MonthName(t) == MonthNames[t.m]

Dec(n) == Chars(ToString(n))
Padded(n, width, fill) ==
  LET digits == Dec(n) IN [k \in 1..(width - Len(digits)) |-> fill] \o digits
Pad(n, width) == Padded(n, width, "0")
Hour12(h) == IF h % 12 = 0 THEN 12 ELSE h % 12
Half(h) == IF h < 12 THEN "am" ELSE "pm"
HalfUpper(h) == IF h < 12 THEN Chars("AM") ELSE Chars("PM")
Distance(off) == IF off < 0 THEN -off ELSE off
OffsetText(off, sep) ==
  <<IF off < 0 THEN "-" ELSE "+">> \o Pad(Distance(off) \div 3600, 2) \o sep
  \o Pad((Distance(off) % 3600) \div 60, 2)
Clock(t) == Pad(t.h, 2) \o <<":">> \o Pad(t.mi, 2) \o <<":">> \o Pad(t.s, 2)
YearText(y) == IF y < 0 THEN <<"-">> \o Pad(-y, 4) ELSE Pad(y, 4)
Ordinal(d) ==
  CASE d \in 11..13 -> Chars("th")
    [] d % 10 = 1 -> Chars("st") [] d % 10 = 2 -> Chars("nd") [] d % 10 = 3 -> Chars("rd")
    [] OTHER -> Chars("th")
SundayLast(wday) == IF wday = 0 THEN 7 ELSE wday

DateCode(c, t) ==
  CASE c = "Y" -> YearText(t.y)
    [] c = "y" -> Pad(t.y % 100, 2)
    [] c = "m" -> Pad(t.m, 2)
    [] c = "n" -> Dec(t.m)
    [] c = "d" -> Pad(t.d, 2)
    [] c = "j" -> Dec(t.d)
    [] c = "H" -> Pad(t.h, 2)
    [] c = "G" -> Dec(t.h)
    [] c = "h" -> Pad(Hour12(t.h), 2)
    [] c = "g" -> Dec(Hour12(t.h))
    [] c = "i" -> Pad(t.mi, 2)
    [] c = "s" -> Pad(t.s, 2)
    [] c = "A" -> HalfUpper(t.h)
    [] c = "a" -> Chars(Half(t.h))
    [] c = "D" -> Abbreviated(DayName(t))
    [] c = "l" -> DayName(t)
    [] c = "N" -> Dec(SundayLast(t.wday))
    [] c = "w" -> Dec(t.wday)
    [] c = "F" -> MonthName(t)
    [] c = "M" -> Abbreviated(MonthName(t))
    [] c = "t" -> Dec(DaysInMonth(t.y, t.m))
    [] c = "L" -> Dec(IF IsLeap(t.y) THEN 1 ELSE 0)
    [] c = "z" -> Dec(t.yday)
    [] c = "U" -> Dec(t.ts)
    [] c = "u" -> Pad(0, 6)
    [] c = "v" -> Pad(0, 3)
    [] c = "W" -> Pad(IsoWeek(t.days)[1], 2)
    [] c = "o" -> Dec(IsoWeek(t.days)[2])
    [] c = "B" -> Pad((((t.ts + 3600) % DaySeconds) * 1000) \div DaySeconds, 3)
    [] c = "e" -> t.zone
    [] c = "T" -> t.abbr
    [] c = "O" -> OffsetText(t.off, <<>>)
    [] c = "P" -> OffsetText(t.off, <<":">>)
    [] c = "p" -> IF t.off = 0 THEN <<"Z">> ELSE OffsetText(t.off, <<":">>)
    [] c = "Z" -> Dec(t.off)
    [] c = "I" -> Dec(IF t.dst THEN 1 ELSE 0)
    [] c = "c" -> Pad(t.y, 4) \o <<"-">> \o Pad(t.m, 2) \o <<"-">> \o Pad(t.d, 2) \o <<"T">> \o Clock(t)
                  \o OffsetText(t.off, <<":">>)
    [] c = "r" -> Abbreviated(DayName(t)) \o Chars(", ") \o Pad(t.d, 2) \o <<" ">> \o Abbreviated(MonthName(t))
                  \o <<" ">> \o Dec(t.y) \o <<" ">> \o Clock(t) \o <<" ">> \o OffsetText(t.off, <<>>)
    [] c = "S" -> Ordinal(t.d)
    [] OTHER -> <<c>>

RECURSIVE DateFrom(_, _, _)
DateFrom(fmt, i, t) ==
  CASE i > Len(fmt) -> <<>>
    [] i = Len(fmt) /\ fmt[i] = "\\" -> <<>>
    [] i < Len(fmt) /\ fmt[i] = "\\" -> <<fmt[i + 1]>> \o DateFrom(fmt, i + 2, t)
    [] OTHER -> DateCode(fmt[i], t) \o DateFrom(fmt, i + 1, t)
DateText(fmt, ts, zone) == DateFrom(fmt, 1, Moment(ts, zone))

StrftimeCode(c, t) ==
  CASE c = "a" -> Abbreviated(DayName(t))
    [] c = "A" -> DayName(t)
    [] c \in {"b", "h"} -> Abbreviated(MonthName(t))
    [] c = "B" -> MonthName(t)
    [] c = "d" -> Pad(t.d, 2)
    [] c = "e" -> Padded(t.d, 2, " ")
    [] c = "j" -> Pad(t.yday + 1, 3)
    [] c = "m" -> Pad(t.m, 2)
    [] c = "u" -> Dec(SundayLast(t.wday))
    [] c = "w" -> Dec(t.wday)
    [] c = "y" -> Pad(t.y % 100, 2)
    [] c = "Y" -> Dec(t.y)
    [] c = "C" -> Pad(t.y \div 100, 2)
    [] c = "H" -> Pad(t.h, 2)
    [] c = "k" -> Padded(t.h, 2, " ")
    [] c = "I" -> Pad(Hour12(t.h), 2)
    [] c = "l" -> Padded(Hour12(t.h), 2, " ")
    [] c = "M" -> Pad(t.mi, 2)
    [] c = "S" -> Pad(t.s, 2)
    [] c = "p" -> HalfUpper(t.h)
    [] c = "P" -> Chars(Half(t.h))
    [] c \in {"D", "x"} -> Pad(t.m, 2) \o <<"/">> \o Pad(t.d, 2) \o <<"/">> \o Pad(t.y % 100, 2)
    [] c = "F" -> Dec(t.y) \o <<"-">> \o Pad(t.m, 2) \o <<"-">> \o Pad(t.d, 2)
    [] c \in {"T", "X"} -> Clock(t)
    [] c = "R" -> Pad(t.h, 2) \o <<":">> \o Pad(t.mi, 2)
    [] c = "r" -> Clock([t EXCEPT !.h = Hour12(t.h)]) \o <<" ">> \o HalfUpper(t.h)
    [] c = "z" -> Chars("+0000")
    [] c = "Z" -> Chars("UTC")
    [] c = "s" -> Dec(t.ts)
    [] c = "n" -> <<"\n">>
    [] c = "t" -> <<"\t">>
    [] c = "%" -> <<"%">>
    [] OTHER -> <<"%", c>>

RECURSIVE StrftimeFrom(_, _, _)
StrftimeFrom(fmt, i, t) ==
  CASE i > Len(fmt) -> <<>>
    [] i < Len(fmt) /\ fmt[i] = "%" -> StrftimeCode(fmt[i + 1], t) \o StrftimeFrom(fmt, i + 2, t)
    [] OTHER -> <<fmt[i]>> \o StrftimeFrom(fmt, i + 1, t)
Strftime(fmt, ts) == StrftimeFrom(fmt, 1, Moment(ts, Utc))

----------------------------------------------------------------------------
(* Calendar arithmetic, on the clocks of a zone. *)

\* `by` counts years, months, days, hours, minutes and seconds.
ShiftedDate(t, by, month) ==
  LET y == month \div 12
      m == (month % 12) + 1
      limit == DaysInMonth(y, m)
  IN MakeTs(t.h + by.h, t.mi + by.i, t.s + by.s, m, (IF t.d < limit THEN t.d ELSE limit) + by.d, y)
ShiftedFrom(t, by) == ShiftedDate(t, by, (t.y + by.y) * 12 + t.m - 1 + by.m)
CivilAdd(ts, by, zone) == TsFromLocal(ShiftedFrom(Moment(ts, zone), by), zone)

\* What is below zero borrows from the next larger unit.
BorrowDays(diff, hi) ==
  IF diff.d >= 0 THEN diff
  ELSE [diff EXCEPT !.m = @ - 1,
          !.d = @ + DaysInMonth(IF hi.m = 1 THEN hi.y - 1 ELSE hi.y, IF hi.m = 1 THEN 12 ELSE hi.m - 1)]
Borrow(diff, small, large, base) ==
  IF diff[small] >= 0 THEN diff ELSE [diff EXCEPT ![small] = @ + base, ![large] = @ - 1]
DiffOf(lo, hi) ==
  LET raw == [y |-> hi.y - lo.y, m |-> hi.m - lo.m, d |-> hi.d - lo.d,
              h |-> hi.h - lo.h, i |-> hi.mi - lo.mi, s |-> hi.s - lo.s]
      clock == Borrow(Borrow(Borrow(raw, "s", "i", 60), "i", "h", 60), "h", "d", 24)
  IN Borrow(BorrowDays(clock, hi), "m", "y", 12)
DiffBetween(lo, hi, invert) == [by |-> DiffOf(lo, hi), days |-> hi.days - lo.days, invert |-> invert]
DateDiff(t1, t2) ==
  DiffBetween(Moment(IF t1 <= t2 THEN t1 ELSE t2, Utc), Moment(IF t1 <= t2 THEN t2 ELSE t1, Utc), t1 > t2)

Mktime(h, mi, s, mon, day, year, zone) == TsFromLocal(MakeTs(h, mi, s, mon, day, year), zone)
CheckDate(m, d, y) == m \in 1..12 /\ d >= 1 /\ y \in 1..32767 /\ d <= DaysInMonth(y, m)
DateParts(t) == <<t.s, t.mi, t.h, t.d, t.wday, t.m, t.y, t.yday, DayName(t), MonthName(t), t.ts>>
GetDate(ts, zone) == DateParts(Moment(ts, zone))
============================================================================
