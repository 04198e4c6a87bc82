----------------------------- MODULE DateTests -----------------------------
(***************************************************************************)
(* Questions about dates, and what the answers are by the calendar itself: *)
(* days counted one by one, months with their lengths, weeks that begin on *)
(* Monday, and clocks that are put forward and back.                       *)
(***************************************************************************)
EXTENDS DateReading

ZoneNames == {"UTC", "+05:30", "America/New_York", "Europe/Paris", "Pacific/Apia", "Asia/Kolkata"}
ZoneNamed == [name \in ZoneNames |-> ZoneOf(Chars(name))]

LastStamp == 2051222400
\* Moments around the ends of days, months, leap years and summers.
Stamps ==
  {-1, 0, 951782400, 951868799, 1078012799, 1104537599, 1104537600, 1110987909, 1111885199, 1111885200,
   1112511599, 1112511600, 1121373041, 1130630400, 1130634000, 1130652000, 1130655600, 1141171199,
   1141171200, 1143961199, 1325239199, 1325239200, 1333202400, LastStamp}

\* Texts for createFromFormat: whether the moment is whole.
ReadFormats ==
  {<<"Y-m-d H:i:s", TRUE>>, <<"D, d M Y h:i:s A", TRUE>>, <<"l jS F Y g:i:s a", TRUE>>, <<"Y z H:i:s", TRUE>>,
   <<"U", TRUE>>, <<"Y-m-d\\TH:i:sP", TRUE>>, <<"N w j-n-Y G:i:s.u O", TRUE>>, <<"Y-m-d H:i:s e", TRUE>>,
   <<"YmdHis", TRUE>>, <<"i \\m s H\\h, M d Y", TRUE>>, <<"Y-m-d", FALSE>>, <<"H:i:s", FALSE>>, <<"F Y", FALSE>>}
\* Texts for strtotime, all of them whole.
TimeFormats ==
  {"Y-m-d H:i:s", "c", "r", "j F Y H:i:s", "d-M-Y H:i:s", "m/d/Y H:i:s", "F jS, Y H:i:s O", "@U", "Y-m-d g:i:sa",
   "l, d M Y H:i:s", "Y-m-d"}
StampedFormats == {"c", "r", "F jS, Y H:i:s O", "@U", "U", "Y-m-d\\TH:i:sP", "N w j-n-Y G:i:s.u O"}
StrftimePairs ==
  {<<"%Y-%m-%d %H:%M:%S", "Y-m-d H:i:s">>, <<"%a %A %b %B %u %w %%", "D l M F N w %">>, <<"%D %I:%M %p%n", "m/d/y h:i A\n">>,
   <<"%r|%R|%T|%F", "h:i:s A|H:i|H:i:s|Y-m-d">>, <<"%s %y %h %P%q", "U y M a%q">>}

Ask(what, ts, zone) == [ask |-> what, ts |-> ts, zone |-> zone]
Days == (-800..1200) \cup (10950..11700) \cup (47480..47600) \cup (-719600..-719400)
EdgeWalls == {z + k * 900 : z \in {1112511600 - 18000, 1130652000 - 14400, 1111885200 + 3600, 1130634000 + 7200}, k \in -12..12}
             \cup {1325239200 - 36000 + k * 7200 : k \in -15..15}
Shifted == {-13, -1, 1, 2, 11}
Units == {"year", "month", "week", "day", "hour", "min", "sec"}
DiffStamps == {t + k : t \in {951782400, 1078012799, 1104537600, 1109635200, 1110987909, 1121373041}, k \in {-86400, 0, 86399}}

DateTests ==
  {[ask |-> "day", zone |-> "UTC", day |-> n] : n \in Days}
  \cup {Ask("read", ts, zone) @@ [fmt |-> f[1], whole |-> f[2], reset |-> r]
         : ts \in Stamps, zone \in ZoneNames, f \in ReadFormats, r \in BOOLEAN}
  \cup {Ask("getdate", ts, zone) : ts \in Stamps, zone \in ZoneNames}
  \cup {Ask("strtotime", ts, zone) @@ [fmt |-> f] : ts \in Stamps, zone \in ZoneNames, f \in TimeFormats}
  \cup {[ask |-> "wall", wall |-> w, zone |-> zone] : w \in EdgeWalls, zone \in ZoneNames}
  \cup {Ask("changes", ts, zone) @@ [until |-> u] : ts \in Stamps, u \in Stamps, zone \in ZoneNames}
  \cup {[ask |-> "diff", zone |-> "UTC", from |-> t1, to |-> t2] : t1 \in DiffStamps, t2 \in DiffStamps}
  \cup {Ask("shift", ts, zone) @@ [by |-> n, unit |-> u, way |-> w]
         : ts \in Stamps \ {LastStamp}, zone \in ZoneNames, n \in Shifted, u \in Units, w \in {"add", "modify", "strtotime"}}
  \cup {Ask("weekday", ts, zone) @@ [day |-> k, word |-> w]
         : ts \in Stamps, zone \in ZoneNames, k \in 1..7, w \in {"", "next ", "last "}}
  \cup {Ask("strftime", ts, "UTC") @@ [pair |-> p] : ts \in Stamps, p \in StrftimePairs}
  \cup {[ask |-> "mktime", zone |-> "UTC", h |-> h, mi |-> mi, m |-> m, d |-> d, y |-> y]
         : h \in {-1, 0, 24}, mi \in {-1, 60}, m \in -9..14, d \in {0, 1, 29, 31, 32}, y \in {1970, 2000, 2005}}
  \cup {[ask |-> "parts", zone |-> "UTC", m |-> m, d |-> d, y |-> y, time |-> time, mark |-> mark]
         : m \in {0, 2, 4, 12, 13}, d \in {0, 28, 29, 30, 31, 32}, y \in {2000, 2005}, time \in {"", " 00:09:59", "T23:59", " 24:00:00"},
           mark \in {"", "+02:00", " EST", " UTC", "?"}}

----------------------------------------------------------------------------
(* The answers. *)

Now == 1121373041
WrittenIn(test, fmt, zone) == DateText(Chars(fmt), test.ts, zone)

\* What is read from a text: with `format`, after it and a character more,
\* and after that when the format allows it.
ReadAgain(test, fmt, text) ==
  [text |-> text,
   parts |-> DateParseFromFormat(fmt, text),
   read |-> [extra \in {"", "~", "+"} |->
               CreateFromFormat(IF extra = "+" THEN Append(fmt, "+") ELSE fmt,
                                IF extra = "" THEN text ELSE Append(text, "~"), Chars(test.zone), Now)]]

RelativeText(n, unit, ago) ==
  Dec(IF ago THEN -n ELSE n) \o Chars(" ") \o Chars(unit) \o Chars("s") \o Chars(IF ago THEN " ago" ELSE "")
ShiftField == [year |-> "y", month |-> "m", week |-> "d", day |-> "d", hour |-> "h", min |-> "i", sec |-> "s"]
ShiftBy(n, unit) == [NoShift EXCEPT ![ShiftField[unit]] = IF unit = "week" THEN 7 * n ELSE n]
\* The text for strtotime, and the moment it is relative to.
TimeText(test, zone) ==
  CASE test.ask = "strtotime" -> WrittenIn(test, test.fmt, zone)
    [] test.ask = "weekday" -> Chars(test.word) \o DayNames[test.day]
    [] test.ask = "shift" -> RelativeText(test.by, test.unit, test.by < 0)
Base(test) == IF test.ask = "strtotime" THEN 0 ELSE test.ts
PartsText(test) ==
  Pad(test.y, 4) \o Chars("-") \o Pad(test.m, 2) \o Chars("-") \o Pad(test.d, 2) \o Chars(test.time) \o Chars(test.mark)

DayAnswer(day, date, next) ==
  [date |-> date, next |-> next, week |-> IsoWeek(day), back |-> DaysFromCivil(date[1], date[2], date[3])]
ByText(test) == test.ask \in {"strtotime", "weekday"} \/ (test.ask = "shift" /\ test.way = "strtotime")
AnswerIn(test, zone) ==
  CASE ByText(test) -> StrToTime(TimeText(test, zone), Base(test), zone)
    [] test.ask = "shift" /\ test.way = "add" -> <<CivilAdd(test.ts, ShiftBy(test.by, test.unit), zone)>>
    [] test.ask = "shift" /\ test.way = "modify" -> <<Modify(test.ts, RelativeText(test.by, test.unit, FALSE), zone)>>
    [] test.ask = "day" -> DayAnswer(test.day, CivilFromDays(test.day), CivilFromDays(test.day + 1))
    [] test.ask = "read" ->
         ReadAgain(test, IF test.reset THEN <<"!">> \o Chars(test.fmt) ELSE Chars(test.fmt), WrittenIn(test, test.fmt, zone))
    [] test.ask = "getdate" -> GetDate(test.ts, zone)
    [] test.ask = "wall" -> TsFromLocal(test.wall, zone)
    [] test.ask = "changes" -> Transitions(zone, test.ts, test.until)
    [] test.ask = "diff" -> DateDiff(test.from, test.to)
    [] test.ask = "strftime" -> <<Strftime(Chars(test.pair[1]), test.ts), WrittenIn(test, test.pair[2], zone)>>
    [] test.ask = "mktime" ->
         [ts |-> Mktime(test.h, test.mi, 0, test.m, test.d, test.y, zone), valid |-> CheckDate(test.m, test.d, test.y)]
    [] test.ask = "parts" -> DateParse(PartsText(test))
DateAnswer(test) == AnswerIn(test, ZoneNamed[test.zone])

----------------------------------------------------------------------------
(* The calendar itself. *)

LeapYears(y) == y \div 4 - y \div 100 + y \div 400
Leap(y) == LeapYears(y) > LeapYears(y - 1)
MonthLengths(y) == <<31, IF Leap(y) THEN 29 ELSE 28, 31, 30, 31, 30, 31, 31, 30, 31, 30, 31>>
RECURSIVE DaysBefore(_, _)
DaysBefore(y, m) == IF m = 1 THEN 0 ELSE MonthLengths(y)[m - 1] + DaysBefore(y, m - 1)
DayNumber(y, m, d) == 365 * (y - 1970) + LeapYears(y - 1) - LeapYears(1969) + DaysBefore(y, m) + d - 1
IsDate(y, m, d) == m \in 1..12 /\ d \in 1..MonthLengths(y)[m]
Successor(date) ==
  LET last == date[3] = MonthLengths(date[1])[date[2]]
  IN CASE ~last -> <<date[1], date[2], date[3] + 1>>
       [] last /\ date[2] < 12 -> <<date[1], date[2] + 1, 1>>
       [] OTHER -> <<date[1] + 1, 1, 1>>
\* Week one has the fourth of January in it, and begins on a Monday, as the
\* fifth of January 1970 did.
WeekOne(y) == LET fourth == DayNumber(y, 1, 4) IN fourth - ((fourth - 4) % 7)
WeekOf(n, y) ==
  LET year == IF WeekOne(y + 1) <= n THEN y + 1 ELSE IF WeekOne(y) <= n THEN y ELSE y - 1
  IN <<(n - WeekOne(year)) \div 7 + 1, year>>
DayIsCivil(n, a) ==
  /\ IsDate(a.date[1], a.date[2], a.date[3]) /\ DayNumber(a.date[1], a.date[2], a.date[3]) = n
  /\ a.next = Successor(a.date) /\ a.back = n
  /\ a.week = WeekOf(n, a.date[1])

(* The instants at which the clocks of a zone show `wall`: two when they are *)
(* put back, none when they are put forward past it.                        *)
Readings(wall, zone) ==
  {ts \in {wall - zone.types[k][1] : k \in DOMAIN zone.types} : ts + OffsetAt(zone, ts) = wall}
ClockBefore(zone, k) == zone.trans[k] + OffsetAt(zone, zone.trans[k] - 1)
ClockAfter(zone, k) == zone.trans[k] + OffsetAt(zone, zone.trans[k])
IsLocal(ts, wall, zone) ==
  \/ ts \in Readings(wall, zone)
  \/ /\ Readings(wall, zone) = {}
     /\ \E k \in DOMAIN zone.trans :
          /\ wall \in ClockBefore(zone, k)..(ClockAfter(zone, k) - 1)
          /\ ts + OffsetAt(zone, ts) - wall \in {n * (ClockAfter(zone, k) - ClockBefore(zone, k)) : n \in {-1, 1}}
WallTime(ts, zone) == ts + OffsetAt(zone, ts)

PartsMakeUp(wall, a) ==
  /\ DayNumber(a[7], a[6], a[4]) * DaySeconds + a[3] * 3600 + a[2] * 60 + a[1] = wall
  /\ IsDate(a[7], a[6], a[4]) /\ a[3] \in 0..23 /\ a[2] \in 0..59 /\ a[1] \in 0..59
  /\ a[5] = (wall \div DaySeconds + 4) % 7 /\ a[8] = DayNumber(a[7], a[6], a[4]) - DayNumber(a[7], 1, 1)
  /\ a[9] = DayNames[a[5] + 1] /\ a[10] = MonthNames[a[6]]

\* The parts that createFromFormat and date_parse_from_format find.
FoundInDay == {"Y-m-d H:i:s", "Y z H:i:s", "Y-m-d\\TH:i:sP", "YmdHis", "Y-m-d H:i:s e"}
PartsFound(test, zone, p) ==
  LET t == Moment(test.ts, zone)
  IN test.fmt \in FoundInDay =>
       <<p.y, p.mo, p.d, p.h, p.mi, p.s, p.errors>> = << <<t.y>>, <<t.m>>, <<t.d>>, <<t.h>>, <<t.mi>>, <<t.s>>, <<>> >>
ReadIsWritten(test, zone, a) ==
  LET read == a.read[""]
  IN /\ PartsFound(test, zone, a.parts)
     /\ read # <<>> /\ a.read["~"] = <<>> /\ a.read["+"] = read
     /\ test.whole /\ test.fmt \in StampedFormats => read[1].ts = test.ts
     /\ test.whole => IsLocal(read[1].ts, WallTime(test.ts, zone), zone)
     /\ (test.whole \/ test.reset) /\ zone.trans = <<>> => DateText(Chars(test.fmt), read[1].ts, zone) = a.text
TimeIsRead(test, zone, a) ==
  LET wall == WallTime(test.ts, zone)
  IN /\ a # <<>>
     /\ IF test.fmt \in StampedFormats THEN a[1] = test.ts
        ELSE IsLocal(a[1], IF test.fmt = "Y-m-d" THEN wall - (wall % DaySeconds) ELSE wall, zone)

ChangesAreComplete(test, zone, a) ==
  /\ a[1][1] = test.ts
  /\ \A k \in DOMAIN a : a[k][2] = TypeAt(zone, a[k][1])
  /\ \A k \in 2..Len(a) : a[k - 1][1] < a[k][1] /\ TypeAt(zone, a[k][1] - 1) = a[k - 1][2] /\ a[k][1] <= test.until
  /\ test.until >= test.ts => TypeAt(zone, test.until) = a[Len(a)][2]

\* Years, months and days after a moment of a month's first 28 days.
DiffLeadsThere(test, a) ==
  LET lo == IF test.from <= test.to THEN test.from ELSE test.to
      hi == IF test.from <= test.to THEN test.to ELSE test.from
  IN /\ a.invert = (test.from > test.to)
     /\ a.days = hi \div DaySeconds - lo \div DaySeconds
     /\ CivilFromDays(lo \div DaySeconds)[3] <= 28 =>
          /\ CivilAdd(lo, a.by, Utc) = hi
          /\ a.by.m \in 0..11 /\ a.by.d \in 0..30 /\ a.by.h \in 0..23 /\ a.by.i \in 0..59 /\ a.by.s \in 0..59

\* A month later is the same day, or the month's last.
MonthLater(wall, n) ==
  LET date == CivilFromDays(wall \div DaySeconds)
      month == date[1] * 12 + date[2] - 1 + n
      y == month \div 12
      m == (month % 12) + 1
      length == MonthLengths(y)[m]
  IN DayNumber(y, m, IF date[3] < length THEN date[3] ELSE length) * DaySeconds + (wall % DaySeconds)
WallShifted(wall, n, unit) ==
  CASE unit = "year" -> MonthLater(wall, 12 * n)
    [] unit = "month" -> MonthLater(wall, n)
    [] unit = "week" -> wall + n * 7 * 86400
    [] unit = "day" -> wall + n * 86400
    [] unit = "hour" -> wall + n * 3600
    [] unit = "min" -> wall + n * 60
    [] unit = "sec" -> wall + n
ShiftKeepsClock(test, zone, a) ==
  a # <<>> /\ IsLocal(a[1], WallShifted(WallTime(test.ts, zone), test.by, test.unit), zone)

\* The next such day after this one, or the last one before it, at midnight.
IsThatDay(test, zone, a) ==
  LET today == WallTime(test.ts, zone) \div DaySeconds
      day(n) == (n + 4) % 7 = test.day - 1
      near == IF test.word = "last " THEN {n \in (today - 7)..(today - 1) : day(n)} ELSE {n \in (today + 1)..(today + 7) : day(n)}
  IN a # <<>> /\ \E n \in near : IsLocal(a[1], n * DaySeconds, zone)

MadeUp(test, a) ==
  LET month == test.y * 12 + test.m - 1
  IN /\ a.ts = (DayNumber(month \div 12, (month % 12) + 1, 1) + test.d - 1) * DaySeconds + test.h * 3600 + test.mi * 60
     /\ a.valid = IsDate(test.y, test.m, test.d)

\* The parts are those written; a date or a time that there is not is warned
\* of, and what is no part of a date is an error.
PartsAreWritten(test, a) ==
  LET odd == test.mark = "?"
      timed == test.time # ""
  IN /\ a.y = <<test.y>> /\ a.mo = <<test.m>> /\ a.d = <<test.d>>
     /\ (a.h # <<>>) = timed /\ (a.mi # <<>>) = timed
     /\ (a.errors # <<>>) = odd
     /\ (a.zone # <<>>) = (test.mark \notin {"", "?"})
     /\ ~odd => (a.warnings # <<>>) = (~IsDate(test.y, test.m, test.d) \/ test.time = " 24:00:00")

IsRightIn(test, zone, a) ==
  CASE test.ask = "day" -> DayIsCivil(test.day, a)
    [] test.ask = "read" -> ReadIsWritten(test, zone, a)
    [] test.ask = "strtotime" -> TimeIsRead(test, zone, a)
    [] test.ask = "getdate" -> PartsMakeUp(WallTime(test.ts, zone), a)
    [] test.ask = "wall" -> IsLocal(a, test.wall, zone)
    [] test.ask = "changes" -> ChangesAreComplete(test, zone, a)
    [] test.ask = "diff" -> DiffLeadsThere(test, a)
    [] test.ask = "shift" -> ShiftKeepsClock(test, zone, a)
    [] test.ask = "weekday" -> IsThatDay(test, zone, a)
    [] test.ask = "strftime" -> a[1] = a[2]
    [] test.ask = "mktime" -> MadeUp(test, a)
    [] test.ask = "parts" -> PartsAreWritten(test, a)
DateIsRight(test, a) == IsRightIn(test, ZoneNamed[test.zone], a)
============================================================================
