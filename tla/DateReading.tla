---------------------------- MODULE DateReading ----------------------------
(***************************************************************************)
(* Dates out of texts: createFromFormat, strtotime, modify and date_parse. *)
(* A result that may be missing is <<>> or <<result>>.                      *)
(***************************************************************************)
EXTENDS Dates

FirstOf(option, other) == IF option = <<>> THEN other ELSE option
Least(S) == IF S = {} THEN <<>> ELSE <<CHOOSE k \in S : \A j \in S : k <= j>>
OrElse(option, default) == IF option = <<>> THEN default ELSE option[1]
LowerText(s) == [k \in DOMAIN s |-> Lower(s[k])]
UpperText(s) == [k \in DOMAIN s |-> Upper(s[k])]

Signs == {"+", "-"}
AllDigits(s) == s # <<>> /\ \A k \in DOMAIN s : s[k] \in Digits
Unsigned(s) == IF s # <<>> /\ s[1] \in Signs THEN Tail(s) ELSE s
Signed(s, n) == IF s # <<>> /\ s[1] = "-" THEN -n ELSE n
NumberWith(s, digits) == IF AllDigits(digits) THEN <<Signed(s, NumberOf(digits))>> ELSE <<>>
Number(s) == NumberWith(s, Unsigned(s))

TrimEnd(s, C) ==
  LET kept == {0} \cup {k \in DOMAIN s : s[k] \notin C}
  IN SubSeq(s, 1, CHOOSE k \in kept : \A j \in kept : j <= k)
Trim(s) == LET t == TrimEnd(s, Blanks) IN SubSeq(t, SpanEnd(t, 1, Blanks), Len(t))
RECURSIVE Pieces(_, _)
Pieces(s, C) ==
  LET cut == Until(s, 1, C)
  IN IF cut > Len(s) THEN <<s>> ELSE <<SubSeq(s, 1, cut - 1)>> \o Pieces(SubSeq(s, cut + 1, Len(s)), C)
Words(s) == SelectSeq(Pieces(s, Blanks), LAMBDA w : w # <<>>)

NormYear(y) == IF y < 70 THEN 2000 + y ELSE IF y < 100 THEN 1900 + y ELSE y
Meridian(h, pm) == IF pm /\ h < 12 THEN h + 12 ELSE IF ~pm /\ h = 12 THEN 0 ELSE h

(* A zone by its name. *)
Hours(digits, cut) ==
  (NumberOf(SubSeq(digits, 1, cut)) * 60 + NumberOf(SubSeq(digits, cut + 1, Len(digits)))) * 60
OffsetName(sign, rest) ==
  IF ~AllDigits(rest) \/ Len(rest) > 4 THEN <<>>
  ELSE <<Signed(sign, Hours(rest, IF Len(rest) <= 2 THEN Len(rest) ELSE Len(rest) - 2))>>
WithoutColons(s) == SelectSeq(s, LAMBDA c : c # ":")
NamedOffset(name) ==
  IF CharAt(name, 1) \in Signs /\ CharAt(name, 2) \in Digits
  THEN OffsetName(name, WithoutColons(Tail(name))) ELSE <<>>
FileOf(name) ==
  IF \E z \in ZoneFiles : z.name = name THEN <<CHOOSE z \in ZoneFiles : z.name = name>> ELSE <<>>
ZoneAt(off) == IF off = <<>> THEN <<>> ELSE <<FixedZone(OffsetText(off[1], <<":">>), off[1])>>
Lookup(name) == FirstOf(ZoneAt(NamedOffset(name)), FileOf(name))
UtcNames == {Chars("UTC"), Chars("GMT"), Chars("Z"), Chars("GMT+0"), Chars("GMT-0"), Chars("GMT0"), Chars("+00:00")}
ZoneOf(name) == IF UpperText(name) \in UtcNames THEN Utc ELSE OrElse(Lookup(name), Utc)

----------------------------------------------------------------------------
(* createFromFormat *)

Fields ==
  [y |-> <<>>, mo |-> <<>>, d |-> <<>>, h |-> <<>>, mi |-> <<>>, s |-> <<>>, pm |-> <<>>,
   epoch |-> <<>>, off |-> <<>>, tzname |-> <<>>, doy |-> <<>>, defaultEpoch |-> FALSE]

\* The position after at most max digits, or after the first of the words.
DigitsEnd(s, j, max) ==
  LET stop == SpanEnd(s, j, Digits) IN IF stop < j + max THEN stop ELSE j + max
WordAt(s, j, w) ==
  j + Len(w) <= Len(s) + 1 /\ LowerText(SubSeq(s, j, j + Len(w) - 1)) = LowerText(w)
WordsAt(s, j, words) == {k \in DOMAIN words : WordAt(s, j, words[k])}
FirstAt(s, j, words) == Least(WordsAt(s, j, words))

MonthWords == [k \in 1..24 |-> IF k % 2 = 1 THEN MonthNames[(k + 1) \div 2] ELSE Abbreviated(MonthNames[k \div 2])]
DayWords == [k \in 1..14 |-> IF k % 2 = 1 THEN DayNames[(k + 1) \div 2] ELSE Abbreviated(DayNames[k \div 2])]
HalfWords == <<Chars("am"), Chars("a.m."), Chars("pm"), Chars("p.m.")>>
OrdinalWords == <<Chars("st"), Chars("nd"), Chars("rd"), Chars("th")>>
GmtWords == <<Chars("GMT"), Chars("UTC")>>

\* What a code reads: the fields after it and the position after it.
Reads(out, j) == <<[out |-> out, at |-> j]>>
PastWord(j, words, k, out) == IF k = <<>> THEN <<>> ELSE Reads(out, j + Len(words[k[1]]))
ReadWord(s, j, words, out) == PastWord(j, words, FirstAt(s, j, words), out)
Past(j, stop, out) == IF stop = j THEN <<>> ELSE Reads(out, stop)
ReadDigits(s, j, max, out) == Past(j, DigitsEnd(s, j, max), out)
DigitsAt(s, j, max) == NumberOf(SubSeq(s, j, DigitsEnd(s, j, max) - 1))
ReadField(s, j, field, max, out) == ReadDigits(s, j, max, [out EXCEPT ![field] = <<DigitsAt(s, j, max)>>])

Minutes(s, j, hours, colon) ==
  IF hours = j + 1 THEN [off |-> <<>>, at |-> j + 1]
  ELSE [off |-> <<Signed(<<s[j]>>, (DigitsAt(s, j + 1, 2) * 60 + DigitsAt(s, colon, 2)) * 60)>>,
        at |-> DigitsEnd(s, colon, 2)]
PastHours(s, j, hours) == Minutes(s, j, hours, IF CharAt(s, hours) = ":" THEN hours + 1 ELSE hours)
OffsetAfter(s, j, after) ==
  CASE CharAt(s, after) \in Signs -> PastHours(s, after, DigitsEnd(s, after + 1, 2))
    [] CharAt(s, after) \notin Signs /\ after # j -> [off |-> <<0>>, at |-> after]
    [] OTHER -> [off |-> <<>>, at |-> j]
TzOffset(s, j) == OffsetAfter(s, j, IF WordsAt(s, j, GmtWords) = {} THEN j ELSE j + 3)
ReadOffset(r, out) == IF r.off = <<>> THEN <<>> ELSE Reads([out EXCEPT !.off = r.off], r.at)
ReadName(s, j, stop, out) == Past(j, stop, [out EXCEPT !.tzname = <<SubSeq(s, j, stop - 1)>>])
ReadZone(s, r, out) ==
  FirstOf(ReadOffset(r, out), ReadName(s, r.at, SpanEnd(s, r.at, Letters \cup Digits \cup {"/", "_", "-", "+"}), out))
EpochAt(s, j, sign, out) == ReadDigits(s, j, 19, [out EXCEPT !.epoch = <<sign * DigitsAt(s, j, 19)>>])
ReadEpoch(s, j, out) == IF CharAt(s, j) = "-" THEN EpochAt(s, j + 1, -1, out) ELSE EpochAt(s, j, 1, out)

ReadHalf(j, k, out) == PastWord(j, HalfWords, k, [out EXCEPT !.pm = <<k[1] > 2>>])
ReadMonth(j, k, out) == PastWord(j, MonthWords, k, [out EXCEPT !.mo = <<(k[1] + 1) \div 2>>])
Separators == {";", ":", "/", ".", ",", "-"}
ReadCode(c, s, j, out) ==
  CASE c \in {"d", "j"} -> ReadField(s, j, "d", 2, out)
    [] c \in {"m", "n"} -> ReadField(s, j, "mo", 2, out)
    [] c = "Y" -> ReadField(s, j, "y", 4, out)
    [] c = "y" -> ReadDigits(s, j, 2, [out EXCEPT !.y = <<NormYear(DigitsAt(s, j, 2))>>])
    [] c \in {"H", "G", "h", "g"} -> ReadField(s, j, "h", 2, out)
    [] c = "i" -> ReadField(s, j, "mi", 2, out)
    [] c = "s" -> ReadField(s, j, "s", 2, out)
    [] c \in {"u", "v"} -> ReadDigits(s, j, 6, out)
    [] c = "z" -> ReadField(s, j, "doy", 3, out)
    [] c \in {"a", "A"} -> ReadHalf(j, FirstAt(s, j, HalfWords), out)
    [] c \in {"F", "M"} -> ReadMonth(j, FirstAt(s, j, MonthWords), out)
    [] c \in {"D", "l"} -> ReadWord(s, j, DayWords, out)
    [] c = "S" -> ReadWord(s, j, OrdinalWords, out)
    [] c \in {"N", "w"} -> ReadDigits(s, j, 1, out)
    [] c = "U" -> ReadEpoch(s, j, out)
    [] c \in {"O", "P", "p"} -> ReadOffset(TzOffset(s, j), out)
    [] c \in {"e", "T"} -> ReadZone(s, TzOffset(s, j), out)
    [] c = "!" -> Reads([Fields EXCEPT !.defaultEpoch = TRUE], j)
    [] c = "|" -> Reads([out EXCEPT !.defaultEpoch = TRUE], j)
    [] c = "?" -> IF j > Len(s) THEN <<>> ELSE Reads(out, j + 1)
    [] c = "*" -> Reads(out, Until(s, j, Separators \cup {"(", ")", " "}))
    [] c = "+" -> Reads(out, j)
    [] c = "#" -> IF CharAt(s, j) \in Separators THEN Reads(out, j + 1) ELSE <<>>
    [] c = " " -> Reads(out, IF CharAt(s, j) \in {" ", "\t"} THEN j + 1 ELSE j)
    [] OTHER -> IF CharAt(s, j) = c THEN Reads(out, j + 1) ELSE <<>>

\* A day of the year is a month and a day.
WithDate(out, date) == [out EXCEPT !.y = <<date[1]>>, !.mo = <<date[2]>>, !.d = <<date[3]>>]
WithDayOfYear(out) ==
  IF out.doy = <<>> THEN out
  ELSE WithDate(out, CivilFromDays(DaysFromCivil(OrElse(out.y, 1970), 1, 1) + out.doy[1]))

RECURSIVE ReadFrom(_, _, _, _, _), ReadOn(_, _, _, _, _)
ReadOn(f, i, s, read, trailing) == IF read = <<>> THEN <<>> ELSE ReadFrom(f, i, s, read[1], trailing)
ReadFrom(f, i, s, r, trailing) ==
  CASE i > Len(f) -> IF r.at <= Len(s) /\ ~trailing THEN <<>> ELSE <<WithDayOfYear(r.out)>>
    [] i <= Len(f) /\ f[i] = "\\" /\ i < Len(f) ->
         IF CharAt(s, r.at) = f[i + 1] THEN ReadFrom(f, i + 2, s, [r EXCEPT !.at = @ + 1], trailing) ELSE <<>>
    [] i = Len(f) /\ f[i] = "\\" -> ReadFrom(f, i + 1, s, r, trailing)
    [] OTHER -> ReadOn(f, i + 1, s, ReadCode(f[i], s, r.at, r.out), trailing \/ f[i] = "+")
ParseFromFormat(fmt, input) == ReadFrom(fmt, 1, input, [out |-> Fields, at |-> 1], FALSE)

HourOf(h, pm) == IF pm = <<>> THEN h ELSE Meridian(h, pm[1])
WallOf(p, default) ==
  MakeTs(HourOf(OrElse(p.h, default.h), p.pm),
         OrElse(p.mi, default.mi), OrElse(p.s, default.s),
         OrElse(p.mo, default.m), OrElse(p.d, default.d), OrElse(p.y, default.y))
Created(p, name, zone, wall) ==
  CASE p.epoch # <<>> -> [ts |-> p.epoch[1], tz |-> name]
    [] p.epoch = <<>> /\ p.off # <<>> ->
         [ts |-> wall - p.off[1], tz |-> IF p.tzname = <<>> THEN OffsetText(p.off[1], <<":">>) ELSE name]
    [] OTHER -> [ts |-> TsFromLocal(wall, zone), tz |-> name]
CreatedIn(p, name, zone, now) ==
  Created(p, name, zone, WallOf(p, IF p.defaultEpoch THEN Moment(0, Utc) ELSE Moment(now, zone)))
CreatedBy(parsed, tzname, now) ==
  IF parsed = <<>> THEN <<>>
  ELSE LET name == OrElse(parsed[1].tzname, tzname) IN <<CreatedIn(parsed[1], name, ZoneOf(name), now)>>
CreateFromFormat(fmt, input, tzname, now) == CreatedBy(ParseFromFormat(fmt, input), tzname, now)

----------------------------------------------------------------------------
(* strtotime.  Its parts give <<wall seconds, FALSE>>, or <<ts, TRUE>> when the *)
(* text has an offset of its own.                                           *)

MonthNamed(l) == Least({m \in 1..12 : Len(l) >= 3 /\ IsPrefix(l, LowerText(MonthNames[m]))})
MonthFromName(w) == MonthNamed(LowerText(w))
\* Counted from 1, Sunday.
WeekdayFromName(w) == Least({k \in 1..7 : Len(w) >= 3 /\ IsPrefix(w, LowerText(DayNames[k]))})

TimePart(parts, k) ==
  IF k > Len(parts) THEN 0 ELSE OrElse(Number(Pieces(parts[k], IF k = 3 THEN {"."} ELSE {})[1]), 0)
TimeParts(parts, half) ==
  IF ~AllDigits(parts[1]) \/ (Len(parts) < 2 /\ half = <<>>) THEN <<>>
  ELSE <<HourOf(NumberOf(parts[1]), half) * 3600 + TimePart(parts, 2) * 60 + TimePart(parts, 3)>>
HalfOf(suffix) ==
  CASE suffix = Chars("am") -> <<FALSE>> [] suffix = Chars("pm") -> <<TRUE>> [] OTHER -> <<>>
TimeBody(w, half) ==
  TimeParts(Pieces(IF half = <<>> THEN w ELSE Trim(SubSeq(w, 1, Len(w) - 2)), {":"}), half)
TimeLower(w) == TimeBody(w, IF Len(w) < 2 THEN <<>> ELSE HalfOf(SubSeq(w, Len(w) - 1, Len(w))))
\* The seconds of a clock time; what follows its minutes may be lost.
ParseTime(w) == TimeLower(LowerText(w))

OffsetDigits(sign, rest) ==
  IF ~AllDigits(rest) \/ Len(rest) \notin {2, 4} THEN <<>> ELSE <<Signed(sign, Hours(rest, 2))>>
ParseOffset(w) ==
  CASE w \in {<<"z">>, <<"Z">>} -> <<0>>
    [] CharAt(w, 1) \in Signs -> OffsetDigits(w, WithoutColons(Tail(w)))
    [] OTHER -> <<>>
AbbreviationHours ==
  {<<"GMT", 0>>, <<"UT", 0>>, <<"UTC", 0>>, <<"Z", 0>>, <<"EST", -5>>, <<"EDT", -4>>, <<"CST", -6>>, <<"CDT", -5>>,
   <<"MST", -7>>, <<"MDT", -6>>, <<"PST", -8>>, <<"PDT", -7>>, <<"AKST", -9>>, <<"AKDT", -8>>, <<"HST", -10>>,
   <<"CET", 1>>, <<"CEST", 2>>, <<"WET", 0>>, <<"WEST", 1>>, <<"BST", 1>>, <<"EET", 2>>, <<"EEST", 3>>,
   <<"MSK", 3>>, <<"SAST", 2>>, <<"JST", 9>>, <<"KST", 9>>, <<"AEST", 10>>, <<"AEDT", 11>>, <<"NZST", 12>>, <<"NZDT", 13>>}
AbbrevOffset(w) ==
  LET named(e) == Chars(e[1]) = UpperText(w)
  IN IF \E e \in AbbreviationHours : named(e)
     THEN <<(CHOOSE e \in AbbreviationHours : named(e))[2] * 3600>> ELSE <<>>
ZoneMark(w) == FirstOf(ParseOffset(w), AbbrevOffset(w))

\* A clock time and the offset after it, apart or attached.
LastBlank(s) == CHOOSE k \in 0..Len(s) : (k = 0 \/ s[k] = " ") /\ \A j \in (k + 1)..Len(s) : s[j] # " "
TimeAndOffset(time, off) == [time |-> time, off |-> off]
Attached(s, at) ==
  IF at = <<>> THEN TimeAndOffset(s, <<>>)
  ELSE TimeAndOffset(SubSeq(s, 1, at[1] - 1), ParseOffset(SubSeq(s, at[1], Len(s))))
StripAfter(s, blank, mark) ==
  IF blank # 0 /\ mark # <<>> THEN TimeAndOffset(Trim(SubSeq(s, 1, blank)), mark)
  ELSE Attached(s, Least({k \in 2..Len(s) : s[k] \in Signs /\ ParseOffset(SubSeq(s, k, Len(s))) # <<>>}))
StripAt(s, blank) == StripAfter(s, blank, ZoneMark(SubSeq(s, blank + 1, Len(s))))
StripZone(s) == StripAt(s, LastBlank(s))

\* Wall seconds, and the instant they are at an offset.
AtOffset(wall, off) == <<wall - OrElse(off, 0), off # <<>> >>
NumericParts(n, month, sep) ==
  CASE Len(n) # 3 \/ n[1] = <<>> \/ n[3] = <<>> -> <<>>
    [] Len(n) = 3 /\ n[1] # <<>> /\ n[3] # <<>> /\ month # <<>> ->
         <<MakeTs(0, 0, 0, month[1], n[1][1], NormYear(n[3][1]))>>
    [] Len(n) = 3 /\ n[1] # <<>> /\ n[3] # <<>> /\ month = <<>> /\ n[2] = <<>> -> <<>>
    [] OTHER -> <<IF sep = "-" THEN MakeTs(0, 0, 0, n[2][1], n[3][1], n[1][1])
                  ELSE MakeTs(0, 0, 0, n[1][1], n[2][1], NormYear(n[3][1]))>>
NumericPieces(p, sep) ==
  NumericParts([k \in DOMAIN p |-> Number(p[k])], IF sep = "-" THEN MonthFromName(p[2]) ELSE <<>>, sep)
NumericDate(text, sep) == NumericPieces(Pieces(text, {sep}), sep)
FirstTime(words) == IF words = <<>> THEN 0 ELSE OrElse(ParseTime(words[1]), 0)
AbsoluteOn(date, zoned) ==
  IF date = <<>> THEN <<>> ELSE <<AtOffset(date[1] + FirstTime(Words(zoned.time)), zoned.off)>>
AbsoluteIn(date, rest) ==
  LET has(c) == \E k \in DOMAIN date : date[k] = c
  IN IF ~has("-") /\ ~has("/") THEN <<>>
     ELSE AbsoluteOn(NumericDate(date, IF has("-") THEN "-" ELSE "/"), StripZone(rest))
AbsoluteCut(t, cut) == AbsoluteIn(SubSeq(t, 1, cut - 1), Trim(SubSeq(t, cut + 1, Len(t))))
ParseAbsolute(t) == AbsoluteCut(t, Until(t, 1, {"T", " "}))

\* "14 july 2005 10:30 +0200": the first of each that is there.
LeadingNumber(w) ==
  IF w[1] \notin Digits \/ MonthFromName(w) # <<>> THEN <<>> ELSE Number(TrimEnd(w, DOMAIN Code \ Digits))
Found(options) == SelectSeq(options, LAMBDA o : o # <<>>)
FirstIn(numbers, S, default) ==
  IF \E k \in DOMAIN numbers : numbers[k][1] \in S THEN SelectSeq(numbers, LAMBDA n : n[1] \in S)[1][1] ELSE default
TextualOn(month, numbers, times, base, last) ==
  AtOffset(OrElse(times, <<0>>)[1]
             + MakeTs(0, 0, 0, month, FirstIn(numbers, 1..31, 1),
                      NormYear(FirstIn(numbers, Nat \ 0..31, CivilFromDays(base \div DaySeconds)[1]))),
           ZoneMark(last))
Textual(words, months, base) ==
  TextualOn(months[Len(months)][1], Found([k \in DOMAIN words |-> LeadingNumber(words[k])]),
            Found([k \in DOMAIN words |-> ParseTime(words[k])]), base, words[Len(words)])

\* The first such weekday after the base day, or the last one before it.
DaysTo(ahead, backwards) == IF backwards THEN ahead - 7 ELSE IF ahead = 0 THEN 7 ELSE ahead
WeekdayAt(words, k, today) ==
  (today + DaysTo((WeekdayFromName(words[k])[1] - 1 - ((today + 4) % 7)) % 7,
                  k > 1 /\ words[k - 1] \in {Chars("last"), Chars("previous")})) * DaySeconds

UnitSeconds(unit) ==
  CASE unit \in {Chars("sec"), Chars("second")} -> 1
    [] unit \in {Chars("min"), Chars("minute")} -> 60
    [] unit = Chars("hour") -> 3600
    [] unit = Chars("day") -> DaySeconds
    [] unit = Chars("week") -> 7 * DaySeconds
    [] unit = Chars("fortnight") -> 14 * DaySeconds
    [] OTHER -> 0
NoShift == [y |-> 0, m |-> 0, d |-> 0, h |-> 0, i |-> 0, s |-> 0]
ApplyUnit(ts, n, word) ==
  LET unit == TrimEnd(word, {"s"})
  IN CASE UnitSeconds(unit) # 0 -> <<ts + n * UnitSeconds(unit)>>
       [] unit = Chars("month") -> <<CivilAdd(ts, [NoShift EXCEPT !.m = n], Utc)>>
       [] unit = Chars("year") -> <<CivilAdd(ts, [NoShift EXCEPT !.y = n], Utc)>>
       [] OTHER -> <<>>
SignedNumber(w) == IF CharAt(w, 1) \in Signs THEN Number(Tail(w)) ELSE Number(w)
RECURSIVE Relative(_, _, _, _), RelativeStep(_, _, _, _, _, _)
RelativeMoved(words, k, ts, matched, ago, moved) ==
  IF moved = <<>> THEN Relative(words, k + 1, ts, matched)
  ELSE Relative(words, IF ago THEN k + 3 ELSE k + 2, moved[1], TRUE)
RelativeStep(words, k, ts, matched, number, ago) ==
  RelativeMoved(words, k, ts, matched, ago,
    IF number = <<>> \/ k = Len(words) THEN <<>>
    ELSE ApplyUnit(ts, (IF ago THEN -1 ELSE 1) * Signed(words[k], number[1]), words[k + 1]))
Relative(words, k, ts, matched) ==
  IF k > Len(words) THEN (IF matched THEN << <<ts, FALSE>> >> ELSE <<>>)
  ELSE RelativeStep(words, k, ts, matched, SignedNumber(words[k]),
                    k + 2 <= Len(words) /\ words[k + 2] = Chars("ago"))

RelativeOrDay(words, day, base) ==
  IF day = <<>> THEN Relative(words, 1, base, FALSE)
  ELSE << <<WeekdayAt(words, day[1], base \div DaySeconds), FALSE>> >>
RelativeOrTextual(words, months, base) ==
  IF months # <<>> THEN <<Textual(words, months, base)>>
  ELSE RelativeOrDay(words, Least({k \in DOMAIN words : WeekdayFromName(words[k]) # <<>>}), base)
InWords(words, base) ==
  IF words = <<>> THEN <<>>
  ELSE RelativeOrTextual(words, Found([k \in DOMAIN words |-> MonthFromName(words[k])]), base)
Keywords ==
  {<<"today", 0>>, <<"midnight", 0>>, <<"noon", 43200>>, <<"tomorrow", DaySeconds>>, <<"yesterday", -DaySeconds>>}
Midnight(base) == base - (base % DaySeconds)
AtKeyword(lower, base) ==
  IF \E e \in Keywords : Chars(e[1]) = lower
  THEN << <<Midnight(base) + (CHOOSE e \in Keywords : Chars(e[1]) = lower)[2], FALSE>> >> ELSE <<>>
AtTime(time, base) == IF time = <<>> THEN <<>> ELSE << <<Midnight(base) + time[1], FALSE>> >>
Instant(number) == IF number = <<>> THEN <<>> ELSE << <<number[1], TRUE>> >>
StrToTime2(t, base) ==
  LET lower == LowerText(t)
  IN IF lower \in {<<>>, Chars("now")} THEN << <<base, FALSE>> >>
     ELSE IF t[1] = "@" THEN Instant(Number(Trim(Tail(t))))
     ELSE FirstOf(AtKeyword(lower, base),
            FirstOf(ParseAbsolute(t),
              FirstOf(AtTime(ParseTime(t), base),
                InWords(Words([k \in DOMAIN lower |-> IF lower[k] = "," THEN " " ELSE lower[k]]), base))))
InZone(found, zone) ==
  IF found = <<>> THEN <<>> ELSE <<IF found[1][2] THEN found[1][1] ELSE TsFromLocal(found[1][1], zone)>>
StrToTimeOf(t, base, zone) ==
  IF CharAt(t, 1) = "@" THEN Number(Pieces(Trim(Tail(t)), {"."})[1])
  ELSE InZone(StrToTime2(t, base + OffsetAt(zone, base)), zone)
StrToTime(text, base, zone) == StrToTimeOf(Trim(text), base, zone)

----------------------------------------------------------------------------
(* DateTime::modify: every signed number with a unit after it counts, and so *)
(* do the words tomorrow and yesterday; the rest is skipped.                 *)

UnitField(unit) ==
  CASE IsPrefix(Chars("year"), unit) -> <<"y", 1>>
    [] IsPrefix(Chars("month"), unit) -> <<"m", 1>>
    [] IsPrefix(Chars("week"), unit) -> <<"d", 7>>
    [] IsPrefix(Chars("day"), unit) -> <<"d", 1>>
    [] IsPrefix(Chars("hour"), unit) -> <<"h", 1>>
    [] IsPrefix(Chars("min"), unit) -> <<"i", 1>>
    [] IsPrefix(Chars("sec"), unit) -> <<"s", 1>>
    [] OTHER -> <<"s", 0>>
Counted(by, n, field) == [by EXCEPT ![field[1]] = @ + n * field[2]]
Amount(s, i, number, unit, rest, by) ==
  Counted(by, OrElse(Number(SubSeq(s, i, number - 1)), 0), UnitField(SubSeq(s, unit, rest - 1)))
RECURSIVE Shifts(_, _, _), ShiftsUnit(_, _, _, _, _), ShiftsPast(_, _, _, _, _, _)
ShiftsPast(s, i, number, unit, rest, by) == Shifts(s, rest, Amount(s, i, number, unit, rest, by))
ShiftsUnit(s, i, number, unit, by) == ShiftsPast(s, i, number, unit, SpanEnd(s, unit, Letters), by)
ShiftsNumber(s, i, number, by) == ShiftsUnit(s, i, number, SpanEnd(s, number, Blanks), by)
Shifts(s, i, by) ==
  CASE i > Len(s) -> by
    [] WordAt(s, i, Chars("tomorrow")) -> Shifts(s, i + 8, Counted(by, 1, <<"d", 1>>))
    [] WordAt(s, i, Chars("yesterday")) -> Shifts(s, i + 9, Counted(by, -1, <<"d", 1>>))
    [] CharAt(s, i) \in Signs \cup Digits ->
         ShiftsNumber(s, i, SpanEnd(s, IF s[i] \in Signs THEN i + 1 ELSE i, Digits), by)
    [] OTHER -> Shifts(s, i + 1, by)
Modify(ts, text, zone) == CivilAdd(ts, Shifts(LowerText(text), 1, NoShift), zone)

----------------------------------------------------------------------------
(* date_parse: the fields the text itself has.  at is the position after    *)
(* what was read; the fractions of a second are read and dropped.           *)

NoParts == [y |-> <<>>, mo |-> <<>>, d |-> <<>>, h |-> <<>>, mi |-> <<>>, s |-> <<>>, zone |-> <<>>,
            errors |-> <<>>, warnings |-> <<>>]

ClockEnd(s, minutes) ==
  LET seconds == DigitsEnd(s, minutes + 1, 2)
  IN CASE CharAt(s, minutes) # ":" -> minutes
       [] CharAt(s, minutes) = ":" /\ CharAt(s, seconds) = "." /\ seconds > minutes + 1 -> DigitsEnd(s, seconds + 1, 9)
       [] OTHER -> seconds
ClockOf(p, s, i, hours, minutes) ==
  IF hours = i \/ CharAt(s, hours) # ":" \/ minutes = hours + 1 THEN <<>>
  ELSE <<[p |-> [p EXCEPT !.h = <<DigitsAt(s, i, 2)>>, !.mi = <<DigitsAt(s, hours + 1, 2)>>,
                         !.s = <<IF CharAt(s, minutes) = ":" THEN DigitsAt(s, minutes + 1, 2) ELSE 0>>],
          at |-> ClockEnd(s, minutes)]>>
ReadClock(p, s, i) ==
  LET hours == DigitsEnd(s, i, 2) IN ClockOf(p, s, i, hours, DigitsEnd(s, hours + 1, 2))

BadTime(p) == OrElse(p.h, 0) > 23 \/ OrElse(p.mi, 0) > 59 \/ OrElse(p.s, 0) > 59
BadDate(p) ==
  \/ OrElse(p.mo, 1) \notin 1..12
  \/ p.d = <<0>>
  \/ p.mo # <<>> /\ p.d # <<>> /\ OrElse(p.mo, 1) \in 1..12 /\ p.d[1] \notin 1..DaysInMonth(p.y[1], p.mo[1])
Warned(p, bad, what) == IF bad /\ p.errors = <<>> THEN [p EXCEPT !.warnings = Append(@, what)] ELSE p
Unread(p, s, at) == IF at <= Len(s) /\ p.errors = <<>> THEN [p EXCEPT !.errors = <<at - 1>>] ELSE p
TimeOnly(r, s) == Warned(Unread(r.p, s, r.at), BadTime(r.p), "time")

ZoneKind(rest, offset, abbreviation) ==
  CASE offset # <<>> -> << <<offset[1], 1>> >>
    [] offset = <<>> /\ abbreviation # <<>> -> << <<abbreviation[1], 2>> >>
    [] OTHER -> IF Lookup(rest) # <<>> \/ UpperText(rest) \in UtcNames THEN << <<0, 3>> >> ELSE <<>>
ZoneAfter(rest) == IF rest = <<>> THEN <<>> ELSE ZoneKind(rest, ParseOffset(rest), AbbrevOffset(rest))
ZonedParts(p, s, at, zone) == IF zone = <<>> THEN Unread(p, s, at) ELSE [p EXCEPT !.zone = zone]
Checked(p) == Warned(Warned(p, BadDate(p), "date"), BadTime(p), "time")
AfterClock(r, s) == Checked(ZonedParts(r.p, s, r.at, ZoneAfter(Trim(SubSeq(s, r.at, Len(s))))))
WithClock(r, s) ==
  AfterClock(OrElse(IF CharAt(s, r.at) \in {" ", "T"} THEN ReadClock(r.p, s, r.at + 1) ELSE <<>>, r), s)

\* Year, month and day, the day left out or bad.
DatedAt(p, s, month, day) ==
  CASE CharAt(s, month) # "-" -> [p |-> [p EXCEPT !.d = IF month = 6 THEN <<>> ELSE <<1>>], at |-> month]
    [] CharAt(s, month) = "-" /\ day = month + 1 -> [p |-> [p EXCEPT !.errors = <<month>>], at |-> month + 1]
    [] OTHER -> [p |-> [p EXCEPT !.d = <<DigitsAt(s, month + 1, 2)>>], at |-> day]
DatedParts(s, month) ==
  DatedAt([NoParts EXCEPT !.y = <<DigitsAt(s, 1, 4)>>, !.mo = IF month = 6 THEN <<>> ELSE <<DigitsAt(s, 6, 2)>>],
          s, month, DigitsEnd(s, month + 1, 2))
PartsAt(p, t) ==
  [p EXCEPT !.y = <<t.y>>, !.mo = <<t.m>>, !.d = <<t.d>>, !.h = <<t.h>>, !.mi = <<t.mi>>, !.s = <<t.s>>]
WholeParts(found, p) ==
  IF found = <<>> THEN [p EXCEPT !.errors = Append(@, 0)] ELSE PartsAt(p, Moment(found[1], Utc))
StartsClock(s) ==
  Len(s) >= 4 /\ s[1] \in Digits /\ (s[2] = ":" \/ (s[2] \in Digits /\ s[3] = ":"))
StartsDate(s) == Len(s) >= 7 /\ AllDigits(SubSeq(s, 1, 4)) /\ s[5] = "-"
DateOrWhole(s, dated) ==
  IF dated.p.mo # <<>> THEN WithClock(dated, s) ELSE WholeParts(InZone(StrToTime2(Trim(s), 0), Utc), dated.p)
ClockOrDate(s, clock) ==
  IF clock # <<>> THEN TimeOnly(clock[1], s)
  ELSE DateOrWhole(s, IF StartsDate(s) THEN DatedParts(s, DigitsEnd(s, 6, 2)) ELSE [p |-> NoParts, at |-> 1])
DateParse(s) == ClockOrDate(s, IF StartsClock(s) THEN ReadClock(NoParts, s, 1) ELSE <<>>)

\* date_parse_from_format: a time of day is whole once it has an hour.
PartsFrom(f) ==
  LET or0(v, yes, default) == IF v = <<>> /\ yes THEN <<default>> ELSE v
      timed == f.h # <<>> \/ f.defaultEpoch
  IN [NoParts EXCEPT !.y = or0(f.y, f.defaultEpoch, 1970), !.mo = or0(f.mo, f.defaultEpoch, 1),
        !.d = or0(f.d, f.defaultEpoch, 1), !.h = or0(f.h, f.defaultEpoch, 0),
        !.mi = or0(f.mi, timed, 0), !.s = or0(f.s, timed, 0),
        !.zone = IF f.off = <<>> THEN <<>> ELSE << <<f.off[1], 1>> >>]
PartsOf(parsed) == IF parsed = <<>> THEN [NoParts EXCEPT !.errors = <<0>>] ELSE PartsFrom(parsed[1])
DateParseFromFormat(fmt, input) == PartsOf(ParseFromFormat(fmt, input))
============================================================================
