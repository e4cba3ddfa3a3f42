---- MODULE Temps ----
(***************************************************************************)
(* The pure part of Temps (interpreter/stdlib/temps.cpp): calendar fields, *)
(* formats, ISO 8601 and the offsets of a time zone.  A 64-bit count of    *)
(* milliseconds is out of TLC's range: an instant is a day since 1970 and  *)
(* a millisecond of that day.  The arithmetic of instants is in Numerics.  *)
(***************************************************************************)
EXTENDS Integers, Sequences, FiniteSets, TLC
LOCAL INSTANCE FiniteSetsExt
LOCAL INSTANCE SequencesExt

-----------------------------------------------------------------------------
(* std::chrono: days and civil dates.                                       *)
Leap(y) == y % 4 = 0 /\ (y % 100 # 0 \/ y % 400 = 0)
MonthLength(y, m) == CASE m = 2 -> IF Leap(y) THEN 29 ELSE 28
                       [] m \in {4, 6, 9, 11} -> 30
                       [] OTHER -> 31
DaysBeforeYear(y) == 365 * (y - 1970) + ((y - 1) \div 4 - 492) - ((y - 1) \div 100 - 19) + ((y - 1) \div 400 - 4)
DayNumber(y, m, d) == DaysBeforeYear(y) + FoldSet(LAMBDA k, n : n + MonthLength(y, k), 0, 1..(m - 1)) + d - 1
YearOf(day) == LET guess == 1970 + (day * 400) \div 146097 IN
               CHOOSE y \in (guess - 1)..(guess + 1) : DaysBeforeYear(y) <= day /\ day < DaysBeforeYear(y + 1)
Civil(day) == LET y == YearOf(day)
                  m == CHOOSE k \in 1..12 : DayNumber(y, k, 1) <= day /\ day < DayNumber(y, k, 1) + MonthLength(y, k)
              IN [year |-> y, month |-> m, day |-> day - DayNumber(y, m, 1) + 1]
IsDate(y, m, d) == m \in 1..12 /\ d >= 1 /\ d <= MonthLength(y, m)
Weekday(day) == (day + 4) % 7   \* 0 is Sunday

Instant(day, ms) == [day |-> day + ms \div 86400000, ms |-> ms % 86400000]
\* split_time_point.
Parts(i) == Civil(i.day) @@ [hour |-> i.ms \div 3600000, minute |-> (i.ms \div 60000) % 60,
                             second |-> (i.ms \div 1000) % 60, millisecond |-> i.ms % 1000]

-----------------------------------------------------------------------------
(* Formats.  A text is a string; a position past its end holds "".          *)
Piece(s, i, n) == IF i + n - 1 <= Len(s) THEN SubSeq(s, i, i + n - 1) ELSE ""
Figure == [c \in {SubSeq("0123456789", k, k) : k \in 1..10} |->
              (CHOOSE k \in 1..10 : SubSeq("0123456789", k, k) = c) - 1]
IsFigure(s, i) == Piece(s, i, 1) \in DOMAIN Figure
ZeroPad(n, width) == LET t == ToString(n) IN SubSeq("0000", 1, width - Len(t)) \o t
\* parse_fixed_int: -1 where the code throws.
NotANumber == -1
FixedInt(s, i, width) ==
    IF i + width - 1 <= Len(s) /\ \A k \in i..(i + width - 1) : IsFigure(s, k)
    THEN FoldLeft(LAMBDA n, k : 10 * n + Figure[SubSeq(s, k, k)], 0, [k \in 1..width |-> i + k - 1])
    ELSE NotANumber

\* The marks in the order in which the code tries them.
Marks == <<[text |-> "AAAA", part |-> "year"], [text |-> "MM", part |-> "month"], [text |-> "JJ", part |-> "day"],
           [text |-> "HH", part |-> "hour"], [text |-> "mm", part |-> "minute"], [text |-> "ss", part |-> "second"],
           [text |-> "SSS", part |-> "millisecond"]>>
MarkAt(format, i) == {k \in DOMAIN Marks : Piece(format, i, Len(Marks[k].text)) = Marks[k].text}
RECURSIVE FormatFrom(_, _, _), ParseFrom(_, _, _, _, _)
FormatFrom(parts, format, i) ==
    IF i > Len(format) THEN ""
    ELSE IF MarkAt(format, i) = {} THEN SubSeq(format, i, i) \o FormatFrom(parts, format, i + 1)
    ELSE LET m == Marks[Min(MarkAt(format, i))] IN
         ZeroPad(parts[m.part], Len(m.text)) \o FormatFrom(parts, format, i + Len(m.text))
FormatInstant(i, format) == FormatFrom(Parts(i), format, 1)

NoInstant == [ok |-> FALSE]
Known(i) == [ok |-> TRUE, instant |-> i]
\* What both parsers ask of the fields before they make an instant of them.
InRange(p) == /\ IsDate(p.year, p.month, p.day)
              /\ p.hour <= 23 /\ p.minute <= 59 /\ p.second <= 59
InstantOf(p) == Instant(DayNumber(p.year, p.month, p.day),
                        ((p.hour * 60 + p.minute) * 60 + p.second) * 1000 + p.millisecond)
NoParts == [year |-> 0, month |-> 0, day |-> 0, hour |-> 0, minute |-> 0, second |-> 0, millisecond |-> 0]
ParseFrom(text, at, format, i, parts) ==
    IF i > Len(format)
    THEN IF at = Len(text) + 1 /\ {"year", "month", "day"} \subseteq parts.seen /\ InRange(parts.of)
         THEN Known(InstantOf(parts.of)) ELSE NoInstant
    ELSE IF MarkAt(format, i) = {}
         THEN IF Piece(text, at, 1) = SubSeq(format, i, i) THEN ParseFrom(text, at + 1, format, i + 1, parts) ELSE NoInstant
    ELSE LET m == Marks[Min(MarkAt(format, i))]
             n == FixedInt(text, at, Len(m.text))
         IN IF n = NotANumber THEN NoInstant
            ELSE ParseFrom(text, at + Len(m.text), format, i + Len(m.text),
                           [of |-> [parts.of EXCEPT ![m.part] = n], seen |-> parts.seen \cup {m.part}])
ParseInstant(text, format) == ParseFrom(text, 1, format, 1, [of |-> NoParts, seen |-> {}])

-----------------------------------------------------------------------------
(* ISO 8601.                                                                *)
FormatIso(i) ==
    LET p == Parts(i) IN
    ZeroPad(p.year, 4) \o "-" \o ZeroPad(p.month, 2) \o "-" \o ZeroPad(p.day, 2) \o "T" \o ZeroPad(p.hour, 2) \o ":"
    \o ZeroPad(p.minute, 2) \o ":" \o ZeroPad(p.second, 2) \o "." \o ZeroPad(p.millisecond, 3) \o "Z"

EndOfFigures(s, i) == Min({k \in i..(Len(s) + 1) : ~IsFigure(s, k)})
\* Of a fraction only its first three figures count.
Fraction(s, i) ==
    IF Piece(s, i, 1) # "." THEN [ok |-> TRUE, end |-> i, ms |-> 0]
    ELSE LET end  == EndOfFigures(s, i + 1)
             kept == Min({end - (i + 1), 3})
             n    == FixedInt(s, i + 1, kept)
         IN [ok |-> kept > 0, end |-> end, ms |-> CASE kept = 3 -> n [] kept = 2 -> 10 * n [] OTHER -> 100 * n]
\* The zone that must follow: Z, or a sign with HH, HHMM or HH:MM.
Zone(s, i) ==
    LET mark  == Piece(s, i, 1)
        sign  == IF mark = "-" THEN -1 ELSE 1
        hours == FixedInt(s, i + 1, 2)
        colon == Piece(s, i + 3, 1) = ":"
        at    == IF colon THEN i + 4 ELSE i + 3
        mins  == FixedInt(s, at, 2)
    IN CASE mark \in {"Z", "z"} -> [ok |-> TRUE, end |-> i + 1, seconds |-> 0]
         [] mark \in {"+", "-"} /\ hours # NotANumber /\ mins # NotANumber ->
                [ok |-> TRUE, end |-> at + 2, seconds |-> sign * (hours * 3600 + mins * 60)]
         [] mark \in {"+", "-"} /\ hours # NotANumber /\ mins = NotANumber /\ ~colon ->
                [ok |-> TRUE, end |-> i + 3, seconds |-> sign * hours * 3600]
         [] OTHER -> [ok |-> FALSE]
ParseIso(s) ==
    LET p == [year |-> FixedInt(s, 1, 4), month |-> FixedInt(s, 6, 2), day |-> FixedInt(s, 9, 2),
              hour |-> FixedInt(s, 12, 2), minute |-> FixedInt(s, 15, 2), second |-> FixedInt(s, 18, 2)]
        fraction == Fraction(s, 20)
        zone == Zone(s, fraction.end)
    IN IF /\ NotANumber \notin {p[k] : k \in DOMAIN p}
          /\ Piece(s, 5, 1) = "-" /\ Piece(s, 8, 1) = "-" /\ Piece(s, 11, 1) = "T"
          /\ Piece(s, 14, 1) = ":" /\ Piece(s, 17, 1) = ":"
          /\ fraction.ok /\ zone.ok /\ zone.end = Len(s) + 1 /\ InRange(p)
       THEN LET local == InstantOf(p @@ [millisecond |-> fraction.ms]) IN
            Known(Instant(local.day, local.ms - zone.seconds * 1000))
       ELSE NoInstant

-----------------------------------------------------------------------------
(* Time zones.  Instants are seconds here, offsets count east of Greenwich. *)
Letters == {SubSeq("abcdefghijklmnopqrstuvwxyzABCDEFGHIJKLMNOPQRSTUVWXYZ", k, k) : k \in 1..52}
EndOf(s, i, set) == Min({k \in i..(Len(s) + 1) : Piece(s, k, 1) \notin set})
\* A reading of the footer goes on at `at`; a number that is not there is 0 where the code does not ask.
Integer(s, i) == LET end == EndOfFigures(s, i) IN [at |-> end, n |-> FixedInt(s, i, end - i), ok |-> end > i]
Name(s, i) ==
    IF Piece(s, i, 1) = "<" THEN LET close == Min({k \in (i + 1)..(Len(s) + 1) : Piece(s, k, 1) \in {">", ""}}) IN
                                 [at |-> Min({close + 1, Len(s) + 1}), ok |-> close > i + 1]
    ELSE [at |-> EndOf(s, i, Letters), ok |-> EndOf(s, i, Letters) > i]
\* [+-]h[:m[:s]] in seconds, as both the offsets and the times of rules are written; that
\* an offset, unlike a time, is refused when no figure follows a colon is left out.
With(reading, Continue(_)) == Continue(reading)
Sixtieths(s, at) == IF Piece(s, at, 1) = ":" THEN Integer(s, at + 1) ELSE [at |-> at, n |-> 0, ok |-> FALSE]
Clock(s, i) ==
    With(Integer(s, IF Piece(s, i, 1) \in {"+", "-"} THEN i + 1 ELSE i), LAMBDA h :
    With(Sixtieths(s, h.at), LAMBDA m :
    With(Sixtieths(s, m.at), LAMBDA sec :
        [at |-> sec.at, ok |-> h.ok,
         seconds |-> (IF Piece(s, i, 1) = "-" THEN -1 ELSE 1) * (h.n * 3600 + m.n * 60 + sec.n)])))
\* tz_parse_mrule: Mm.n.d[/time], at two o'clock when no time is given.
Rule(s, i) ==
    With(Integer(s, i + 1), LAMBDA month :
    With(Integer(s, month.at + 1), LAMBDA week :
    With(Integer(s, week.at + 1), LAMBDA day :
    With(IF Piece(s, day.at, 1) = "/" THEN Clock(s, day.at + 1) ELSE [at |-> day.at, ok |-> TRUE, seconds |-> 7200], LAMBDA time :
        IF Piece(s, i, 1) = "M" /\ month.ok /\ Piece(s, month.at, 1) = "." /\ week.ok
           /\ Piece(s, week.at, 1) = "." /\ day.ok /\ time.ok
        THEN [ok |-> TRUE, at |-> time.at,
              rule |-> [month |-> month.n, week |-> week.n, day |-> day.n, time |-> time.seconds]]
        ELSE [ok |-> FALSE]))))
NoRule == [month |-> 0, week |-> 0, day |-> 0, time |-> 7200]
NoFooter == [present |-> FALSE, hasDst |-> FALSE, hasRule |-> FALSE, std |-> 0, dst |-> 0, start |-> NoRule, end |-> NoRule]
\* tz_parse_posix_footer: what it understood before the first field it cannot read is kept.
FooterRules(s, at, f) ==
    IF Piece(s, at, 1) # "," THEN f
    ELSE With(Rule(s, at + 1), LAMBDA first :
        IF ~first.ok THEN f
        ELSE IF Piece(s, first.at, 1) # "," THEN [f EXCEPT !.start = first.rule]
        ELSE With(Rule(s, first.at + 1), LAMBDA second :
            IF second.ok THEN [f EXCEPT !.hasRule = TRUE, !.start = first.rule, !.end = second.rule]
            ELSE [f EXCEPT !.start = first.rule]))
FooterDst(s, dst, f) ==
    IF ~dst.ok THEN f
    ELSE IF Piece(s, dst.at, 1) \in {"", ","} THEN FooterRules(s, dst.at, [f EXCEPT !.hasDst = TRUE, !.dst = f.std + 3600])
    ELSE With(Clock(s, dst.at), LAMBDA shift :
              FooterRules(s, shift.at, [f EXCEPT !.hasDst = TRUE, !.dst = -shift.seconds]))
Footer(s) ==
    With(Clock(s, Name(s, 1).at), LAMBDA std :
        IF Name(s, 1).ok /\ std.ok
        THEN FooterDst(s, Name(s, std.at), [NoFooter EXCEPT !.present = TRUE, !.std = -std.seconds])
        ELSE NoFooter)

\* Mutant: the fifth week is counted from the first of the month like the others.
RuleInstantByCount(rule, year, before) ==
    LET first == DayNumber(year, rule.month, 1)
        day   == first + ((rule.day - Weekday(first)) % 7) + (rule.week - 1) * 7
    IN day * 86400 + rule.time - before
\* tz_rule_instant_millis, in seconds: when rule fires in year, under the offset before it.
RuleInstant(rule, year, before) ==
    LET first == DayNumber(year, rule.month, 1)
        last  == first + MonthLength(year, rule.month) - 1
        day   == IF rule.week = 5 THEN last - ((Weekday(last) - rule.day) % 7)
                 ELSE first + ((rule.day - Weekday(first)) % 7) + (rule.week - 1) * 7
    IN day * 86400 + rule.time - before

FooterOffset(f, seconds) ==
    LET year  == YearOf(seconds \div 86400)
        start == RuleInstant(f.start, year, f.std)
        end   == RuleInstant(f.end, year, f.dst)
        inDst == IF start <= end THEN start <= seconds /\ seconds < end ELSE start <= seconds \/ seconds < end
    IN IF f.hasDst /\ f.hasRule /\ inDst THEN f.dst ELSE f.std
\* tz_offset_for_instant of a zone: its transitions, ascending, its types and its footer.
ZoneOffset(zone, seconds) ==
    LET standard == {k \in DOMAIN zone.types : ~zone.types[k].dst}
        past     == {k \in DOMAIN zone.transitions : zone.transitions[k].at <= seconds}
    IN CASE past = {} -> IF zone.types = <<>> THEN 0
                         ELSE zone.types[IF standard = {} THEN 1 ELSE Min(standard)].offset
         [] past # {} /\ Max(past) = Len(zone.transitions) /\ zone.footer.present -> FooterOffset(zone.footer, seconds)
         [] OTHER -> zone.types[zone.transitions[Max(past)].type].offset

\* tz_is_safe_zone_name.
NameCharacters == Letters \cup DOMAIN Figure \cup {"_", "+", "-", "."}
RECURSIVE SafeSegments(_, _)
SafeSegments(name, i) ==
    LET end == EndOf(name, i, NameCharacters) IN
    /\ Piece(name, end, 1) \in {"", "/"}
    /\ SubSeq(name, i, end - 1) \notin {"", ".", ".."}
    /\ end <= Len(name) => SafeSegments(name, end + 1)
SafeZoneName(name) == SafeSegments(name, 1)

====
