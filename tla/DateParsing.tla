------------------------------ MODULE DateParsing ------------------------------
(***************************************************************************)
(* The moment a phrase such as "tomorrow at 10 am" names                   *)
(* (app/utils/datetime_utils.py).  A text is the sequence of its words     *)
(* that matter: [kind |-> "in", days |-> 3], [kind |-> "weekday",          *)
(* day |-> 0], [kind |-> "clock", h |-> 10, m |-> 0, mer |-> "am"],        *)
(* [kind |-> "today"] ...; "next" changes nothing.  A moment counts        *)
(* half minutes from the Monday before, ref may fall between two minutes.  *)
(***************************************************************************)
EXTENDS Integers, Sequences, SequencesExt, FiniteSetsExt

CONSTANT LastDay      \* the last day a datetime can have, 9999-12-31 in the code

ASSUME LastDayAssumption == LastDay \in Nat

DayLength == 24 * 120
DayOf(t) == t \div DayLength
weekday(t) == DayOf(t) % 7

\* What it raises for minute 60 and above or a day after LastDay, and returns for no date.
Error == -2
NoDate == -1

Kinds(text) == {text[i].kind : i \in DOMAIN text}
First(text, Test(_)) == text[CHOOSE i \in DOMAIN text :
  Test(text[i]) /\ \A j \in 1 .. i - 1 : ~Test(text[j])]

\* days from ref to the day that is named
NamedIn(text, ref) ==
  IF "day after tomorrow" \in Kinds(text) THEN {2}
  ELSE IF "tomorrow" \in Kinds(text) THEN {1}
  ELSE IF "today" \in Kinds(text) THEN {0}
  ELSE IF "in" \in Kinds(text) THEN {First(text, LAMBDA w : w.kind = "in").days}
  ELSE IF "weekday" \in Kinds(text)
  THEN LET day   == Min({w.day : w \in {x \in ToSet(text) : x.kind = "weekday"}})
           delta == (day - weekday(ref)) % 7
       IN {IF delta = 0 THEN 7 ELSE delta}
  ELSE {}

\* The pattern ends in \b, which does not hold after a dot: it matches without the "p.m.".
Meridiem(mer) == IF mer \in {"a.m.", "p.m."} THEN "none" ELSE mer

\* The number of "in 3 days" is read as an hour, too.
AsClock(w) ==
  IF w.kind = "in" THEN [h |-> w.days, m |-> 0, mer |-> "none"]
  ELSE [h |-> w.h, m |-> w.m, mer |-> Meridiem(w.mer)]

HourOf(w) ==
  LET c == AsClock(w) IN
  IF c.mer = "pm" /\ c.h < 12 THEN c.h + 12
  ELSE IF c.mer = "am" /\ c.h = 12 THEN 0
  ELSE IF c.mer = "none" /\ c.h <= 7 THEN c.h + 12
  ELSE c.h

IsClock(w) == w.kind \in {"clock", "in"} /\ HourOf(w) <= 23

_apply_time(day, hour, minute) == day * DayLength + hour * 120 + minute * 2

\* Mutant: a time of today that has passed stays today's.
KeepToday(base, ref) == base

NextDayIfPast(base, ref) == IF base < ref THEN base + DayLength ELSE base

InCalendar(t) == IF DayOf(t) > LastDay THEN Error ELSE t

parse_relative_datetime(text, ref) ==
  LET named  == NamedIn(text, ref)
      clocks == {i \in DOMAIN text : IsClock(text[i])}
      day    == DayOf(ref) + IF named = {} THEN 0 ELSE CHOOSE d \in named : TRUE
      clock  == First(text, IsClock)
  IN
  IF clocks = {} THEN (IF named = {} THEN NoDate ELSE InCalendar(_apply_time(day, 9, 0)))
  ELSE IF AsClock(clock).m >= 60 THEN Error
  ELSE LET base == _apply_time(day, HourOf(clock), AsClock(clock).m) IN
       InCalendar(IF named = {} THEN NextDayIfPast(base, ref) ELSE base)
=============================================================================
