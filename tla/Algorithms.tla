------------------------------ MODULE Algorithms ------------------------------
(***************************************************************************)
(* The pure algorithms, each compared with what it is for over all inputs  *)
(* of a small instance.  A state is one input.                             *)
(***************************************************************************)
EXTENDS SecretSharing, FixedPoint, DateParsing

CONSTANTS
  MaxShares, MaxUpdates,   \* shares of a secret; updates in a sum
  Hours, Days, Refs        \* numbers in texts and reference moments

\* Shares stand at different elements of the field, none at 0.
ASSUME SharesAssumption == MaxShares \in Nat /\ MaxShares < PRIME

\* The levels and the modulus leave room for the sum of all updates.
ASSUME RoomAssumption == MaxUpdates \in Nat /\ Fits(MaxUpdates)

ASSUME NumbersAssumption ==
  /\ Hours \subseteq Nat /\ Days \subseteq Nat
  /\ Refs \subseteq {t \in Nat : DayOf(t) <= LastDay}

VARIABLE input

Ordered(S, t) == {s \in [1 .. t -> S] : \A i, j \in 1 .. t : s[i] = s[j] => i = j}

\* A sharing and the order in which t shares came.
ShareInputs ==
  UNION {[of : {"shares"}, t : {t}, sharing : Sharing(t), order : Ordered(1 .. MaxShares, t)]
         : t \in 1 .. MaxShares}

\* Updates, some beyond the clip, with any error of float32.
Update == [value : -UNIT - 1 .. UNIT + 1, error : -SLACK .. SLACK]

SumInputs ==
  UNION {[of : {"sum"}, updates : [1 .. n -> Update]] : n \in 0 .. MaxUpdates}

Word ==
  [kind : {"today", "tomorrow", "day after tomorrow"}]
    \cup [kind : {"in"}, days : Days]
    \cup [kind : {"weekday"}, day : 0 .. 6]
    \cup [kind : {"clock"}, h : Hours, m : {0, 30, 75},
          mer : {"none", "am", "pm", "a.m.", "p.m."}]

TextInputs ==
  UNION {[of : {"text"}, text : [1 .. n -> Word], ref : Refs] : n \in 0 .. 2}

Init == input \in ShareInputs \cup SumInputs \cup TextInputs
Next == UNCHANGED input
Spec == Init /\ [][Next]_input

-----------------------------------------------------------------------------
(* Any t shares, in any order, give the secret back; fewer than t fit      *)
(* every secret of the field.                                              *)
SharesRevealExactly ==
  input.of = "shares" =>
    LET all    == split(input.sharing.secret, input.sharing.random, MaxShares)
        values == [i \in {input.order[k] : k \in 1 .. input.t - 1} |-> all[i][2]]
    IN
    /\ RevealedBy(input.sharing, [k \in 1 .. input.t |-> all[input.order[k]]])
    /\ Fitting(input.t, values) = Field

(* The sum mod the modulus of quantised updates is, dequantised, the sum   *)
(* of the clipped updates up to half a level and the error of float32 per  *)
(* client: whatever float32 does to each, the sum neither wraps nor drifts.*)
SumWithinRounding ==
  input.of = "sum" =>
    WithinRounding(aggregate(input.updates), ExactSum(input.updates), Len(input.updates))

\* On a clock of 12 hours; from 1 to 7 it is the afternoon, and 0 is noon, unless the
\* text says am or pm without dots.
Says(w, minutes) ==
  LET c == AsClock(w)
      h == minutes \div 60
      mer == IF w.kind = "in" THEN "none" ELSE w.mer
  IN
  /\ minutes % 60 = c.m
  /\ IF c.h > 12 THEN h = c.h
     ELSE /\ h % 12 = c.h % 12
          /\ mer = "am" => h < 12
          /\ mer = "pm" => h >= 12
          /\ mer \notin {"am", "pm"} => (h >= 12 <=> c.h <= 7 \/ c.h = 12)

Clocks(text) == {i \in DOMAIN text : IsClock(text[i])}

AtTimeSaid(text, t) ==
  /\ t % 2 = 0
  /\ IF Clocks(text) = {} THEN t % DayLength = 9 * 120
     ELSE Says(text[Min(Clocks(text))], (t % DayLength) \div 2)

OnDaySaid(text, ref, t) ==
  LET ahead == DayOf(t) - DayOf(ref)
      kinds == Kinds(text)
  IN
  IF "day after tomorrow" \in kinds THEN ahead = 2
  ELSE IF "tomorrow" \in kinds THEN ahead = 1
  ELSE IF "today" \in kinds THEN ahead = 0
  ELSE IF "in" \in kinds THEN \E i \in DOMAIN text : text[i] = [kind |-> "in", days |-> ahead]
  ELSE IF "weekday" \in kinds
  THEN ahead \in 1 .. 7 /\ \E i \in DOMAIN text :
         text[i] = [kind |-> "weekday", day |-> weekday(t)]
  ELSE t >= ref /\ t < ref + DayLength

Described(text, ref, t) == AtTimeSaid(text, t) /\ OnDaySaid(text, ref, t)

BadMinute(text) == Clocks(text) # {} /\ AsClock(text[Min(Clocks(text))]).m >= 60

\* A moment after the end of the calendar is one the text describes.
TooFar(text, ref) ==
  \E ahead \in 0 .. 7 \cup Days, hour \in 0 .. 23, minute \in {0, 30} :
    LET t == _apply_time(DayOf(ref) + ahead, hour, minute) IN
    DayOf(ref) + ahead > LastDay /\ Described(text, ref, t)

NamesMoment(text, ref) ==
  LET result == parse_relative_datetime(text, ref) IN
  CASE result = NoDate -> Kinds(text) \subseteq {"clock"} /\ Clocks(text) = {}
    [] result = Error -> BadMinute(text) \/ TooFar(text, ref)
    [] OTHER -> DayOf(result) <= LastDay /\ Described(text, ref, result)

(* The result is the first moment after ref that the text describes: on    *)
(* the first day after today of a weekday, at the first number that can be *)
(* an hour, or at nine; only a text that says today, or in 0 days, may     *)
(* name the past.  There is an error exactly when the minute or the day is *)
(* none, and no moment when the text says neither a day nor an hour.  What *)
(* "9 p.m." says is nine in the morning, as the code reads it.             *)
NamesFirstSuchMoment == input.of = "text" => NamesMoment(input.text, input.ref)
=============================================================================
