--------------------------- MODULE AlgorithmsProofs ---------------------------
(***************************************************************************)
(* Fixed-point coding for every clip, number of levels and modulus: each   *)
(* update is coded up to half a level and the error of float32, and a sum   *)
(* that fits the modulus is off by that much per client at most.  Date     *)
(* parsing for texts of any length, read at any moment.  Secret sharing    *)
(* over every prime field: any t shares give the secret, fewer fit all.    *)
(***************************************************************************)
EXTENDS Algorithms, FiniteSetTheorems, SequenceTheorems, WellFoundedInduction, TLAPS

(* The nearest integer to a / b is off by a half at most.                  *)
LEMMA RoundedIs ==
  ASSUME NEW a \in Nat, NEW b \in Nat \ {0}
  PROVE  /\ Rounded(a, b) \in Nat
         /\ 2 * Distance(b * Rounded(a, b), a) <= b
<1> DEFINE down == a \div b
           rest == a - b * down
<1>1. down \in Nat /\ a = b * down + (a % b) /\ a % b \in 0 .. b - 1
  BY SMT
<1>2. rest \in 0 .. b - 1
  BY <1>1
<1>3. Rounded(a, b) = IF 2 * rest < b \/ (2 * rest = b /\ down % 2 = 0) THEN down ELSE down + 1
  BY DEF Rounded
<1> HIDE DEF down
<1>4. CASE Rounded(a, b) = down /\ 2 * rest <= b
  BY <1>1, <1>2, <1>4 DEF Distance
<1>5. CASE Rounded(a, b) = down + 1 /\ 2 * rest >= b
  <2>1. b * (down + 1) = b * down + b
    BY <1>1
  <2>2. b * (down + 1) = a + (b - rest)
    BY <1>1, <1>2, <2>1
  <2> QED BY <1>1, <1>2, <1>5, <2>2 DEF Distance
<1> QED
  BY <1>1, <1>2, <1>3, <1>4, <1>5

(* What the proofs need to know of an update.                              *)
AnyUpdate == [value : Int, error : -SLACK .. SLACK]

(* A quantised value is a level, and at most half a level and the error of *)
(* float32 from its value: nothing is below 0 or above LEVELS, whatever    *)
(* the update and whatever float32 makes of it.                            *)
THEOREM QuantizeWithinRounding ==
  ASSUME NEW u \in AnyUpdate
  PROVE  /\ Clipped(u.value) \in -UNIT .. UNIT
         /\ quantize(u) \in 0 .. LEVELS
         /\ Distance(2 * UNIT * quantize(u), (Clipped(u.value) + UNIT) * LEVELS) <= UNIT + SLACK
<1> DEFINE a == (Clipped(u.value) + UNIT) * LEVELS
           p == InParts(u)
           b == 2 * UNIT
           q == quantize(u)
<1>1. /\ UNIT \in Nat \ {0} /\ LEVELS \in Nat \ {0} /\ b \in Nat \ {0}
      /\ SLACK \in Nat /\ SLACK < UNIT
  BY FixedPointAssumption
<1>0. u.value \in Int /\ u.error \in -SLACK .. SLACK
  BY DEF AnyUpdate
<1>2. Clipped(u.value) \in -UNIT .. UNIT
  BY <1>0, <1>1 DEF Clipped
<1>3. a \in Nat /\ a <= b * LEVELS
  <2> DEFINE c == Clipped(u.value) + UNIT
  <2>1. c \in Nat /\ c <= b
    BY <1>1, <1>2
  <2> HIDE DEF c
  <2>2. c * LEVELS \in Nat /\ c * LEVELS <= b * LEVELS
    <3> HIDE DEF b
    <3>1. PICK d \in Nat : b = c + d
      <4>1. b - c \in Nat /\ b = c + (b - c)
        BY <1>1, <2>1
      <4> QED BY <4>1
    <3>2. b * LEVELS = c * LEVELS + d * LEVELS /\ d * LEVELS \in Nat /\ c * LEVELS \in Nat
      BY <1>1, <2>1, <3>1
    <3> QED BY <3>2
  <2> QED BY <2>2 DEF c
<1>4. p = IF a + u.error < 0 THEN 0 ELSE a + u.error
  BY DEF InParts
<1>b. b = 2 * UNIT
  OBVIOUS
<1> HIDE DEF a, b, p
<1>5. PICK e \in -SLACK .. SLACK : u.error = e
  BY <1>0
<1>6. p \in Nat /\ Distance(p, a) <= SLACK
  BY <1>1, <1>3, <1>4, <1>5 DEF Distance
<1>7. q \in Nat /\ 2 * Distance(b * q, p) <= b
  <2>1. q = Rounded(p, b)
    BY DEF quantize, p, b
  <2> HIDE DEF q
  <2> QED BY <1>1, <1>6, <2>1, RoundedIs
<1> HIDE DEF q
<1>8. Distance(b * q, a) <= UNIT + SLACK
  <2>1. b * q \in Nat
    BY <1>1, <1>7
  <2> PICK y \in Nat : y = b * q
    BY <2>1
  <2> QED BY <1>1, <1>3, <1>6, <1>7, <1>b DEF Distance
<1>9. q <= LEVELS
  <2> SUFFICES ASSUME q >= LEVELS + 1 PROVE FALSE
    BY <1>1, <1>7
  <2>1. PICK d \in Nat : q = LEVELS + 1 + d
    <3>1. q - (LEVELS + 1) \in Nat
      BY <1>1, <1>7
    <3> QED BY <1>1, <1>7, <3>1
  <2>2. b * q = b * LEVELS + b + b * d /\ b * d \in Nat /\ b * LEVELS \in Nat
    BY <1>1, <2>1
  <2>3. b * q >= a + b
    BY <1>1, <1>3, <2>2
  <2>4. b * q \in Nat
    BY <1>1, <1>7
  <2> QED BY <1>1, <1>3, <1>8, <1>b, <2>3, <2>4 DEF Distance
<1> QED
  BY <1>1, <1>2, <1>7, <1>8, <1>9, <1>b DEF a, q

(* One update more: while the sum fits, addition mod MODULUS loses nothing *)
(* and the sum stays within rounding, per client, of the exact one.        *)
THEOREM AddWithinRounding ==
  ASSUME NEW n \in Nat, Fits(n + 1),
         NEW total \in 0 .. n * LEVELS, NEW exact \in Int, WithinRounding(total, exact, n),
         NEW u \in AnyUpdate
  PROVE  /\ Add(total, quantize(u)) = total + quantize(u)
         /\ Add(total, quantize(u)) \in 0 .. (n + 1) * LEVELS
         /\ WithinRounding(Add(total, quantize(u)), exact + Clipped(u.value), n + 1)
<1> DEFINE q == quantize(u)
           c == Clipped(u.value)
           r == UNIT + SLACK
<1>1. UNIT \in Nat \ {0} /\ LEVELS \in Nat \ {0} /\ MODULUS \in Nat \ {0} /\ r \in Nat
  BY FixedPointAssumption
<1>2. /\ c \in -UNIT .. UNIT /\ q \in 0 .. LEVELS
      /\ Distance(2 * UNIT * q, (c + UNIT) * LEVELS) <= r
  BY QuantizeWithinRounding
<1>r. WithinRounding(total, exact, n)
        = (Distance(dequantize_sum(total, n), LEVELS * exact) <= n * r)
  BY DEF WithinRounding
<1>s. WithinRounding(total + q, exact + c, n + 1)
        = (Distance(dequantize_sum(total + q, n + 1), LEVELS * (exact + c)) <= (n + 1) * r)
  BY DEF WithinRounding
<1> HIDE DEF r
<1> HIDE DEF q, c
<1>3. n * LEVELS \in Nat /\ (n + 1) * LEVELS = n * LEVELS + LEVELS
  BY <1>1
<1>4. total \in Nat /\ total + q \in 0 .. (n + 1) * LEVELS
  BY <1>1, <1>2, <1>3
<1>5. total + q < MODULUS
  BY <1>1, <1>2, <1>3, <1>4 DEF Fits
<1>6. Add(total, q) = total + q
  BY <1>1, <1>2, <1>4, <1>5 DEF Add
<1>7. WithinRounding(total + q, exact + c, n + 1)
  <2> DEFINE s == dequantize_sum(total, n)
             x == LEVELS * exact
             y == 2 * UNIT * q
             z == (c + UNIT) * LEVELS
             w == LEVELS * UNIT
  <2>1. /\ s \in Int /\ x \in Int /\ y \in Int /\ z \in Int /\ w \in Int
        /\ n * r \in Int
    BY <1>1, <1>2, <1>3, <1>4 DEF dequantize_sum
  <2>2. Distance(s, x) <= n * r
    BY <1>r
  <2>3. dequantize_sum(total + q, n + 1) = s + (y - w)
    <3>1. 2 * UNIT * (total + q) = 2 * UNIT * total + y
      BY <1>1, <1>2, <1>4
    <3>2. LEVELS * UNIT * (n + 1) = LEVELS * UNIT * n + w
      BY <1>1
    <3>3. 2 * UNIT * total \in Int /\ LEVELS * UNIT * n \in Int
      BY <1>1, <1>4
    <3> HIDE DEF y, w
    <3> QED BY <2>1, <3>1, <3>2, <3>3 DEF dequantize_sum
  <2>4. LEVELS * (exact + c) = x + (z - w)
    BY <1>1, <1>2
  <2>5. (n + 1) * r = n * r + r
    BY <1>1
  <2>6. Distance(y, z) <= r
    BY <1>2
  <2>7. Distance(s + (y - w), x + (z - w)) <= n * r + r
    <3> HIDE DEF s, x, y, z, w
    <3> QED BY <1>1, <2>1, <2>2, <2>6 DEF Distance
  <2> QED BY <1>s, <2>3, <2>4, <2>5, <2>7
<1> QED
  BY <1>4, <1>6, <1>7 DEF q, c

(* A set of numbers has a least one.                                       *)
LEMMA LeastNumber ==
  ASSUME NEW S \in SUBSET Nat, S # {}
  PROVE  \E m \in S : \A k \in S : m <= k
<1> DEFINE R == OpToRel(<, Nat)
<1>1. IsWellFoundedOn(R, Nat)
  BY NatLessThanWellFounded
<1>2. R = {ss \in Nat \X Nat : ss[1] < ss[2]}
  BY DEF OpToRel
<1> HIDE DEF R
<1>3. PICK m \in S : \A k \in S : <<k, m>> \notin R
  <2> HIDE <1>2
  <2> QED BY <1>1, WFMin
<1>4. \A k \in S : ~(k < m)
  <2> TAKE k \in S
  <2>1. k \in Nat /\ m \in Nat
    OBVIOUS
  <2>2. <<k, m>> \notin {ss \in Nat \X Nat : ss[1] < ss[2]}
    BY <1>2, <1>3
  <2> QED BY <2>1, <2>2
<1> QED
  BY <1>4

(* Induction, about a set of numbers.                                      *)
LEMMA EveryNumber ==
  ASSUME NEW S, 0 \in S, \A n \in Nat : n \in S => n + 1 \in S
  PROVE  \A n \in Nat : n \in S
<1> SUFFICES ASSUME Nat \ S # {} PROVE FALSE
  OBVIOUS
<1>1. PICK m \in Nat \ S : \A k \in Nat \ S : m <= k
  BY LeastNumber
<1>2. m - 1 \in Nat /\ m = (m - 1) + 1 /\ ~(m <= m - 1)
  BY <1>1
<1> QED
  BY <1>1, <1>2

\* The results of adding up 0 .. m updates, mod MODULUS and exactly.
Sums(F, updates, m) ==
  F = [n \in 0 .. m |-> IF n = 0 THEN 0 ELSE Add(F[n - 1], quantize(updates[n]))]
ExactSums(F, updates, m) ==
  F = [n \in 0 .. m |-> IF n = 0 THEN 0 ELSE F[n - 1] + Clipped(updates[n].value)]

(* They exist for any updates.                                             *)
LEMMA SumsExist ==
  ASSUME NEW updates, NEW m \in Nat
  PROVE  (\E F : Sums(F, updates, m)) /\ (\E F : ExactSums(F, updates, m))
<1> DEFINE S == {n \in Nat : (\E F : Sums(F, updates, n)) /\ (\E F : ExactSums(F, updates, n))}
<1>1. 0 \in S
  <2> DEFINE F == [n \in 0 .. 0 |-> 0]
  <2>1. Sums(F, updates, 0) /\ ExactSums(F, updates, 0)
    BY DEF Sums, ExactSums
  <2> QED BY <2>1
<1>2. ASSUME NEW n \in Nat, n \in S PROVE n + 1 \in S
  <2>1. PICK F : Sums(F, updates, n)
    BY <1>2
  <2>2. PICK E : ExactSums(E, updates, n)
    BY <1>2
  <2> DEFINE G == [k \in 0 .. n + 1 |-> IF k = n + 1 THEN Add(F[n], quantize(updates[n + 1])) ELSE F[k]]
             H == [k \in 0 .. n + 1 |-> IF k = n + 1 THEN E[n] + Clipped(updates[n + 1].value) ELSE E[k]]
  <2>3. ASSUME NEW k \in 0 .. n + 1
        PROVE  /\ G[k] = IF k = 0 THEN 0 ELSE Add(G[k - 1], quantize(updates[k]))
               /\ H[k] = IF k = 0 THEN 0 ELSE H[k - 1] + Clipped(updates[k].value)
    <3>1. CASE k = 0
      BY <2>1, <2>2, <3>1 DEF Sums, ExactSums
    <3>2. CASE k \in 1 .. n
      <4>1. k - 1 \in 0 .. n /\ k - 1 # n + 1 /\ k # n + 1 /\ k # 0 /\ k \in 0 .. n
        BY <3>2
      <4>2. G[k] = F[k] /\ G[k - 1] = F[k - 1] /\ H[k] = E[k] /\ H[k - 1] = E[k - 1]
        BY <4>1
      <4>3. F[k] = Add(F[k - 1], quantize(updates[k])) /\ E[k] = E[k - 1] + Clipped(updates[k].value)
        BY <2>1, <2>2, <4>1 DEF Sums, ExactSums
      <4> QED BY <4>1, <4>2, <4>3
    <3>3. CASE k = n + 1
      <4>1. n \in 0 .. n + 1 /\ n # n + 1 /\ k # 0 /\ k - 1 = n
        BY <3>3
      <4>2. /\ G[k] = Add(F[n], quantize(updates[k])) /\ G[k - 1] = F[n]
            /\ H[k] = E[n] + Clipped(updates[k].value) /\ H[k - 1] = E[n]
        BY <3>3, <4>1
      <4> QED BY <4>1, <4>2
    <3> QED BY <3>1, <3>2, <3>3
  <2>4. G = [k \in 0 .. n + 1 |-> G[k]] /\ H = [k \in 0 .. n + 1 |-> H[k]]
    OBVIOUS
  <2> HIDE DEF G, H
  <2>5. G = [k \in 0 .. n + 1 |-> IF k = 0 THEN 0 ELSE Add(G[k - 1], quantize(updates[k]))]
    BY <2>3, <2>4
  <2>6. H = [k \in 0 .. n + 1 |-> IF k = 0 THEN 0 ELSE H[k - 1] + Clipped(updates[k].value)]
    BY <2>3, <2>4
  <2> QED BY <2>5, <2>6 DEF Sums, ExactSums
<1> HIDE DEF S
<1>3. m \in S
  BY <1>1, <1>2, EveryNumber
<1> QED
  BY <1>3 DEF S

(* The server's sum and the exact one are the last of the results.         *)
LEMMA SumsAre ==
  ASSUME NEW updates, Len(updates) \in Nat
  PROVE  \E F, E : /\ Sums(F, updates, Len(updates)) /\ ExactSums(E, updates, Len(updates))
                   /\ aggregate(updates) = F[Len(updates)] /\ ExactSum(updates) = E[Len(updates)]
<1> DEFINE F == CHOOSE f : Sums(f, updates, Len(updates))
           E == CHOOSE e : ExactSums(e, updates, Len(updates))
<1>1. Sums(F, updates, Len(updates)) /\ ExactSums(E, updates, Len(updates))
  BY SumsExist
<1>2. aggregate(updates) = F[Len(updates)]
  BY DEF aggregate, Sums
<1>3. ExactSum(updates) = E[Len(updates)]
  BY DEF ExactSum, ExactSums
<1> QED
  BY <1>1, <1>2, <1>3

(* As long as it fits the modulus, a sum of any number of updates is exact *)
(* up to half a level and the error of float32 per client, and never wraps *)
(* around.                                                                 *)
THEOREM SumsWithinRounding ==
  ASSUME NEW updates, Len(updates) \in Nat, Fits(Len(updates)),
         \A i \in 1 .. Len(updates) : updates[i] \in AnyUpdate
  PROVE  /\ aggregate(updates) \in 0 .. Len(updates) * LEVELS
         /\ WithinRounding(aggregate(updates), ExactSum(updates), Len(updates))
<1> DEFINE l == Len(updates)
<1>0. UNIT \in Nat \ {0} /\ LEVELS \in Nat \ {0} /\ MODULUS \in Nat \ {0}
  BY FixedPointAssumption
<1>1. PICK F, E : /\ Sums(F, updates, l) /\ ExactSums(E, updates, l)
                  /\ aggregate(updates) = F[l] /\ ExactSum(updates) = E[l]
  BY SumsAre
<1> DEFINE S == {n \in Nat : n <= l =>
                   F[n] \in 0 .. n * LEVELS /\ E[n] \in Int /\ WithinRounding(F[n], E[n], n)}
<1> HIDE DEF l
<1>2. 0 \in S
  <2>1. F[0] = 0 /\ E[0] = 0
    BY <1>1 DEF Sums, ExactSums, l
  <2>2. 0 \in 0 .. 0 * LEVELS
    BY <1>0
  <2>3. WithinRounding(0, 0, 0)
    BY <1>0, FixedPointAssumption DEF WithinRounding, Distance, dequantize_sum
  <2> QED BY <2>1, <2>2, <2>3
<1>3. ASSUME NEW n \in Nat, n \in S PROVE n + 1 \in S
  <2>1. SUFFICES ASSUME n + 1 <= l
                 PROVE  /\ F[n + 1] \in 0 .. (n + 1) * LEVELS /\ E[n + 1] \in Int
                        /\ WithinRounding(F[n + 1], E[n + 1], n + 1)
    OBVIOUS
  <2>2. l \in Nat /\ n <= l /\ n + 1 \in 0 .. l /\ n + 1 \in 1 .. l /\ n + 1 # 0 /\ (n + 1) - 1 = n
    BY <2>1 DEF l
  <2>3. F[n] \in 0 .. n * LEVELS /\ E[n] \in Int /\ WithinRounding(F[n], E[n], n)
    BY <1>3, <2>2
  <2>4. Fits(n + 1)
    <3>1. l * LEVELS < MODULUS
      BY DEF Fits, l
    <3>2. PICK d \in Nat : l = (n + 1) + d
      <4>1. l - (n + 1) \in Nat /\ l = (n + 1) + (l - (n + 1))
        BY <2>1, <2>2
      <4> QED BY <4>1
    <3>3. /\ l * LEVELS = (n + 1) * LEVELS + d * LEVELS /\ d * LEVELS \in Nat
          /\ (n + 1) * LEVELS \in Nat
      BY <1>0, <3>2
    <3>4. (n + 1) * LEVELS < MODULUS
      BY <1>0, <3>1, <3>3
    <3> QED BY <3>4 DEF Fits
  <2>5. updates[n + 1] \in AnyUpdate
    BY <2>2 DEF l
  <2>6. F[n + 1] = Add(F[n], quantize(updates[n + 1]))
    BY <1>1, <2>2 DEF Sums
  <2>7. E[n + 1] = E[n] + Clipped(updates[n + 1].value)
    BY <1>1, <2>2 DEF ExactSums
  <2>8. Clipped(updates[n + 1].value) \in Int
    <3>1. updates[n + 1].value \in Int
      BY <2>5 DEF AnyUpdate
    <3> QED BY <1>0, <3>1 DEF Clipped
  <2>9. /\ Add(F[n], quantize(updates[n + 1])) \in 0 .. (n + 1) * LEVELS
        /\ WithinRounding(Add(F[n], quantize(updates[n + 1])), E[n] + Clipped(updates[n + 1].value), n + 1)
    BY <2>3, <2>4, <2>5, AddWithinRounding
  <2> QED BY <2>3, <2>6, <2>7, <2>8, <2>9
<1> HIDE DEF S
<1>4. l \in S
  <2>1. l \in Nat
    BY DEF l
  <2> QED BY <1>2, <1>3, <2>1, EveryNumber
<1>5. l <= l
  BY DEF l
<1> QED
  BY <1>1, <1>4, <1>5 DEF S, l

(* SumWithinRounding: every sum of updates the runs go through, at any     *)
(* clip, levels and modulus that leave room for it.                        *)
THEOREM SumWithinRoundingHolds == Spec => []SumWithinRounding
<1>1. Init => SumWithinRounding
  <2> SUFFICES ASSUME Init, input.of = "sum"
               PROVE  WithinRounding(aggregate(input.updates), ExactSum(input.updates),
                                     Len(input.updates))
    BY DEF SumWithinRounding
  <2>0. /\ UNIT \in Nat /\ LEVELS \in Nat \ {0} /\ MODULUS \in Nat /\ MaxUpdates \in Nat
        /\ MaxUpdates * LEVELS < MODULUS
    BY FixedPointAssumption, RoomAssumption DEF Fits
  <2>1. input \in SumInputs
    BY DEF Init, ShareInputs, TextInputs
  <2>2. PICK n \in 0 .. MaxUpdates : input \in [of : {"sum"}, updates : [1 .. n -> Update]]
    BY <2>1 DEF SumInputs
  <2>3. input.updates \in [1 .. n -> Update] /\ n \in Nat
    BY <2>0, <2>2
  <2>4. input.updates \in Seq(AnyUpdate) /\ Len(input.updates) = n
    <3>1. input.updates \in [1 .. n -> AnyUpdate]
      <4>1. Update \subseteq AnyUpdate
        BY <2>0 DEF Update, AnyUpdate
      <4> QED BY <2>3, <4>1
    <3> QED BY <2>3, <3>1, SeqDef
  <2>5. Fits(n)
    <3>1. PICK d \in Nat : MaxUpdates = n + d
      <4>1. MaxUpdates - n \in Nat /\ MaxUpdates = n + (MaxUpdates - n)
        BY <2>0
      <4> QED BY <4>1
    <3>2. MaxUpdates * LEVELS = n * LEVELS + d * LEVELS /\ d * LEVELS \in Nat /\ n * LEVELS \in Nat
      BY <2>0, <2>3, <3>1
    <3> QED BY <2>0, <3>2 DEF Fits
  <2>6. \A i \in 1 .. n : input.updates[i] \in AnyUpdate
    <3>1. Update \subseteq AnyUpdate
      BY <2>0 DEF Update, AnyUpdate
    <3> QED BY <2>3, <3>1
  <2> QED BY <2>3, <2>4, <2>5, <2>6, SumsWithinRounding
<1>2. SumWithinRounding /\ [Next]_input => SumWithinRounding'
  BY DEF Next, SumWithinRounding
<1> QED
  BY <1>1, <1>2, PTL DEF Spec

-----------------------------------------------------------------------------
AnyMeridiem == {"none", "am", "pm", "a.m.", "p.m."}

(* Which words there are.                                                  *)
LEMMA WordIs ==
  ASSUME NEW w \in Word
  PROVE  /\ w.kind \in {"today", "tomorrow", "day after tomorrow", "in", "weekday", "clock"}
         /\ w.kind = "in" => w = [kind |-> "in", days |-> w.days] /\ w.days \in Days /\ w.days \in Nat
         /\ w.kind = "weekday" => w = [kind |-> "weekday", day |-> w.day] /\ w.day \in 0 .. 6
         /\ w.kind = "clock" => w.h \in Nat /\ w.m \in {0, 30, 75} /\ w.mer \in AnyMeridiem
<1>1. CASE w \in [kind : {"today", "tomorrow", "day after tomorrow"}]
  BY <1>1
<1>2. CASE w \in [kind : {"in"}, days : Days]
  BY <1>2, NumbersAssumption
<1>3. CASE w \in [kind : {"weekday"}, day : 0 .. 6]
  BY <1>3
<1>4. CASE w \in [kind : {"clock"}, h : Hours, m : {0, 30, 75}, mer : AnyMeridiem]
  <2>1. w.kind = "clock" /\ w.h \in Hours /\ w.m \in {0, 30, 75} /\ w.mer \in AnyMeridiem
    BY <1>4
  <2>2. w.h \in Nat
    BY <2>1, NumbersAssumption
  <2> QED BY <2>1, <2>2
<1> QED
  BY <1>1, <1>2, <1>3, <1>4 DEF Word, AnyMeridiem

LEMMA HourAndMinute ==
  ASSUME NEW hour \in 0 .. 23, NEW minute \in Nat, minute < 60
  PROVE  (hour * 60 + minute) \div 60 = hour /\ (hour * 60 + minute) % 60 = minute
OBVIOUS

(* The next day of the week after today's, and how far ahead it is.        *)
Ahead(today, day) ==
  IF (day - (today % 7)) % 7 = 0 THEN 7 ELSE (day - (today % 7)) % 7

LEMMA NextWeekday ==
  ASSUME NEW today \in Nat, NEW day \in 0 .. 6
  PROVE  Ahead(today, day) \in 1 .. 7 /\ (today + Ahead(today, day)) % 7 = day
<1> DEFINE delta == (day - (today % 7)) % 7
           ahead == Ahead(today, day)
<1>0. ahead = IF delta = 0 THEN 7 ELSE delta
  BY DEF Ahead
<1> HIDE DEF ahead
<1>1. today % 7 \in 0 .. 6 /\ today \div 7 \in Nat /\ today = 7 * (today \div 7) + (today % 7)
  OBVIOUS
<1>2. PICK q \in Nat, m \in 0 .. 6 : today = 7 * q + m /\ today % 7 = m
  BY <1>1
<1>3. delta = IF day >= m THEN day - m ELSE day - m + 7
  BY <1>2
<1> HIDE DEF delta
<1>4. ahead = IF day > m THEN day - m ELSE day - m + 7
  BY <1>0, <1>2, <1>3
<1>5. today + ahead = 7 * q + day \/ today + ahead = 7 * (q + 1) + day
  BY <1>2, <1>4
<1>6. \A k \in Nat : (7 * k + day) % 7 = day
  OBVIOUS
<1>7. q + 1 \in Nat
  BY <1>2
<1> QED
  BY <1>2, <1>4, <1>5, <1>6, <1>7 DEF ahead

(* The hour a clock is read as is one it says.                             *)
LEMMA HourSaid ==
  ASSUME NEW w \in Word, IsClock(w)
  PROVE  /\ HourOf(w) \in 0 .. 23 /\ AsClock(w).m \in {0, 30, 75}
         /\ AsClock(w).m < 60 => Says(w, HourOf(w) * 60 + AsClock(w).m)
<1> DEFINE c == AsClock(w)
           hour == HourOf(w)
           spelled == IF w.kind = "in" THEN "none" ELSE w.mer
<1>1. /\ c.h \in Nat /\ c.m \in {0, 30, 75} /\ c.mer \in {"none", "am", "pm"}
      /\ c.mer = IF spelled \in {"am", "pm"} THEN spelled ELSE "none"
  <2>1. CASE w.kind = "in"
    <3>1. c = [h |-> w.days, m |-> 0, mer |-> "none"] /\ w.days \in Nat
      BY <2>1, WordIs DEF AsClock
    <3>2. c.h = w.days /\ c.m = 0 /\ c.mer = "none"
      BY <3>1
    <3>3. spelled = "none"
      BY <2>1
    <3> HIDE DEF c, spelled
    <3> QED BY <3>1, <3>2, <3>3
  <2>2. CASE w.kind = "clock"
    <3>1. c = [h |-> w.h, m |-> w.m, mer |-> Meridiem(w.mer)]
      BY <2>2 DEF AsClock
    <3>2. c.h = w.h /\ c.m = w.m /\ c.mer = Meridiem(w.mer) /\ spelled = w.mer
      BY <2>2, <3>1
    <3>3. w.h \in Nat /\ w.m \in {0, 30, 75} /\ w.mer \in AnyMeridiem
      BY <2>2, WordIs
    <3> HIDE DEF c, spelled
    <3> QED BY <3>2, <3>3 DEF Meridiem, AnyMeridiem
  <2> QED BY <2>1, <2>2 DEF IsClock
<1>2. hour = IF c.mer = "pm" /\ c.h < 12 THEN c.h + 12
             ELSE IF c.mer = "am" /\ c.h = 12 THEN 0
             ELSE IF c.mer = "none" /\ c.h <= 7 THEN c.h + 12 ELSE c.h
  BY DEF HourOf
<1>3. hour <= 23
  BY DEF IsClock
<1> HIDE DEF hour, c, spelled
<1>0. PICK h \in Nat, m \in Nat, mer \in {"none", "am", "pm"} : c.h = h /\ c.m = m /\ c.mer = mer
  BY <1>1
<1>4. hour \in 0 .. 23
  <2>1. hour \in Nat
    BY <1>0, <1>2
  <2> QED BY <1>3, <2>1
<1>5. ASSUME c.m < 60
      PROVE  (hour * 60 + c.m) \div 60 = hour /\ (hour * 60 + c.m) % 60 = c.m
  BY <1>0, <1>4, <1>5, HourAndMinute
<1>6. IF c.h > 12 THEN hour = c.h
      ELSE /\ hour % 12 = c.h % 12
           /\ spelled = "am" => hour < 12
           /\ spelled = "pm" => hour >= 12
           /\ spelled \notin {"am", "pm"} => (hour >= 12 <=> c.h <= 7 \/ c.h = 12)
  <2>1. CASE c.mer = "pm"
    BY <1>0, <1>1, <1>2, <1>4, <2>1
  <2>2. CASE c.mer = "am"
    BY <1>0, <1>1, <1>2, <1>4, <2>2
  <2>3. CASE c.mer = "none"
    <3>1. hour = IF h <= 7 THEN h + 12 ELSE h
      BY <1>0, <1>2, <2>3
    <3>2. ASSUME h <= 12
          PROVE  hour % 12 = h % 12 /\ (hour >= 12 <=> h <= 7 \/ h = 12)
      <4> PICK k \in 0 .. 12 : k = h
        BY <1>0, <3>2
      <4>1. CASE k <= 7
        BY <1>4, <3>1, <4>1
      <4>2. CASE k > 7
        BY <1>4, <3>1, <4>2
      <4> QED BY <4>1, <4>2
    <3>3. h > 12 => hour = h
      BY <1>0, <3>1
    <3>4. c.h <= 12 \/ c.h > 12
      BY <1>0
    <3> QED BY <1>0, <1>1, <2>3, <3>2, <3>3, <3>4
  <2> QED BY <1>1, <2>1, <2>2, <2>3
<1> QED
  BY <1>1, <1>4, <1>5, <1>6 DEF Says, hour, c, spelled

(* The least of a set of numbers.                                          *)
LEMMA MinIs ==
  ASSUME NEW S \in SUBSET Nat, S # {}
  PROVE  Min(S) \in S /\ \A k \in S : Min(S) <= k
<1>1. \E m \in S : \A k \in S : m <= k
  BY LeastNumber
<1> QED
  BY <1>1 DEF Min

(* The first clock of a text is the one at the least position.             *)
LEMMA FirstClock ==
  ASSUME NEW text \in Seq(Word), Clocks(text) # {}
  PROVE  Min(Clocks(text)) \in Clocks(text) /\ First(text, IsClock) = text[Min(Clocks(text))]
<1> DEFINE least == Min(Clocks(text))
           IsFirst(i) == IsClock(text[i]) /\ \A j \in 1 .. i - 1 : ~IsClock(text[j])
<1>1. Clocks(text) \subseteq DOMAIN text /\ DOMAIN text = 1 .. Len(text) /\ Len(text) \in Nat
  BY LenProperties DEF Clocks
<1>2. Clocks(text) \in SUBSET Nat
  BY <1>1
<1>3. least \in Clocks(text) /\ \A k \in Clocks(text) : least <= k
  BY <1>2, MinIs
<1> HIDE DEF least
<1>4. least \in DOMAIN text /\ IsFirst(least)
  <2>1. ASSUME NEW j \in 1 .. least - 1 PROVE ~IsClock(text[j])
    <3>1. j \in DOMAIN text /\ ~(least <= j)
      BY <1>1, <1>3
    <3> QED BY <1>3, <3>1 DEF Clocks
  <2> QED BY <1>3, <2>1 DEF Clocks
<1>5. ASSUME NEW i \in DOMAIN text, IsFirst(i) PROVE i = least
  <2>1. i \in Clocks(text) /\ least \in 1 .. Len(text) /\ i \in 1 .. Len(text)
    BY <1>1, <1>4, <1>5 DEF Clocks
  <2>2. least <= i
    BY <1>3, <2>1
  <2>3. ~(least < i)
    BY <1>1, <1>4, <1>5, <2>1
  <2> QED BY <1>1, <2>1, <2>2, <2>3
<1>6. First(text, IsClock) = text[CHOOSE i \in DOMAIN text : IsFirst(i)]
  BY DEF First
<1> HIDE DEF IsFirst
<1>7. (CHOOSE i \in DOMAIN text : IsFirst(i)) = least
  BY <1>4, <1>5
<1> QED
  BY <1>3, <1>6, <1>7 DEF least

(* A moment is made of its day and its time.                               *)
LEMMA MomentIs ==
  ASSUME NEW day \in Nat, NEW hour \in 0 .. 23, NEW minute \in 0 .. 59
  PROVE  LET t == _apply_time(day, hour, minute) IN
         /\ t \in Nat /\ t % 2 = 0 /\ DayOf(t) = day
         /\ t % DayLength = hour * 120 + minute * 2
         /\ (t % DayLength) \div 2 = hour * 60 + minute
BY DEF _apply_time, DayOf, DayLength

(* The day that is named is one the text says.                             *)
LEMMA DaySaid ==
  ASSUME NEW text \in Seq(Word), NEW ref \in Nat, NamedIn(text, ref) # {}
  PROVE  \E d \in 0 .. 7 \cup Days :
           /\ NamedIn(text, ref) = {d}
           /\ \A t \in Nat : DayOf(t) = DayOf(ref) + d => OnDaySaid(text, ref, t)
<1> DEFINE kinds == Kinds(text)
           Is(k) == \E i \in DOMAIN text : text[i].kind = k
<1>0. DayOf(ref) \in Nat /\ \A t \in Nat : DayOf(t) \in Nat
  BY DEF DayOf, DayLength
<1>1. \A i \in DOMAIN text : text[i] \in Word
  BY ElementOfSeq, LenProperties
<1>2. ASSUME NEW d \in 0 .. 7 \cup Days, NamedIn(text, ref) = {d},
             \A t \in Nat : DayOf(t) - DayOf(ref) = d => OnDaySaid(text, ref, t)
      PROVE  \E e \in 0 .. 7 \cup Days :
               /\ NamedIn(text, ref) = {e}
               /\ \A t \in Nat : DayOf(t) = DayOf(ref) + e => OnDaySaid(text, ref, t)
  <2>0. d \in Nat
    BY NumbersAssumption
  <2>1. ASSUME NEW t \in Nat, DayOf(t) = DayOf(ref) + d PROVE OnDaySaid(text, ref, t)
    BY <1>0, <1>2, <2>0, <2>1
  <2> QED BY <1>2, <2>1
<1>3. CASE "day after tomorrow" \in kinds
  <2>1. NamedIn(text, ref) = {2}
    BY <1>3 DEF NamedIn
  <2>3. 2 \in 0 .. 7 \cup Days
    OBVIOUS
  <2>2. \A t \in Nat : DayOf(t) - DayOf(ref) = 2 => OnDaySaid(text, ref, t)
    BY <1>3 DEF OnDaySaid
  <2> QED BY <1>2, <2>1, <2>2, <2>3
<1>4. CASE "day after tomorrow" \notin kinds /\ "tomorrow" \in kinds
  <2>1. NamedIn(text, ref) = {1}
    BY <1>4 DEF NamedIn
  <2>3. 1 \in 0 .. 7 \cup Days
    OBVIOUS
  <2>2. \A t \in Nat : DayOf(t) - DayOf(ref) = 1 => OnDaySaid(text, ref, t)
    BY <1>4 DEF OnDaySaid
  <2> QED BY <1>2, <2>1, <2>2, <2>3
<1>5. CASE {"day after tomorrow", "tomorrow"} \cap kinds = {} /\ "today" \in kinds
  <2>1. NamedIn(text, ref) = {0}
    BY <1>5 DEF NamedIn
  <2>3. 0 \in 0 .. 7 \cup Days
    OBVIOUS
  <2>2. \A t \in Nat : DayOf(t) - DayOf(ref) = 0 => OnDaySaid(text, ref, t)
    BY <1>5 DEF OnDaySaid
  <2> QED BY <1>2, <2>1, <2>2, <2>3
<1>6. CASE {"day after tomorrow", "tomorrow", "today"} \cap kinds = {} /\ "in" \in kinds
  <2> DEFINE Test(i) == text[i].kind = "in" /\ \A j \in 1 .. i - 1 : ~(text[j].kind = "in")
             first == CHOOSE i \in DOMAIN text : Test(i)
             d == text[first].days
  <2>1. \E i \in DOMAIN text : Test(i)
    <3> DEFINE S == {i \in DOMAIN text : text[i].kind = "in"}
    <3>1. S # {} /\ DOMAIN text = 1 .. Len(text) /\ Len(text) \in Nat
      BY <1>6, LenProperties DEF Kinds
    <3>2. S \in SUBSET Nat
      BY <3>1
    <3>3. PICK m \in S : \A k \in S : m <= k
      BY <3>1, <3>2, LeastNumber
    <3>4. ASSUME NEW j \in 1 .. m - 1 PROVE ~(text[j].kind = "in")
      <4>1. j \in DOMAIN text /\ ~(m <= j)
        BY <3>1, <3>3
      <4> QED BY <3>3, <4>1
    <3> QED BY <3>3, <3>4
  <2>2. First(text, LAMBDA w : w.kind = "in") = text[first]
    BY DEF First
  <2> HIDE DEF Test
  <2>3. first \in DOMAIN text /\ Test(first)
    BY <2>1
  <2>4. text[first] = [kind |-> "in", days |-> d] /\ d \in Days
    BY <1>1, <2>3, WordIs DEF Test
  <2> HIDE DEF first
  <2>5. NamedIn(text, ref) = {d}
    BY <1>6, <2>2 DEF NamedIn
  <2>6. ASSUME NEW t \in Nat, DayOf(t) - DayOf(ref) = d PROVE OnDaySaid(text, ref, t)
    BY <1>6, <2>3, <2>4, <2>6 DEF OnDaySaid
  <2> QED BY <1>2, <2>4, <2>5, <2>6
<1>7. CASE {"day after tomorrow", "tomorrow", "today", "in"} \cap kinds = {} /\ "weekday" \in kinds
  <2> DEFINE days == {w.day : w \in {x \in ToSet(text) : x.kind = "weekday"}}
             day == Min(days)
             delta == (day - weekday(ref)) % 7
             d == IF delta = 0 THEN 7 ELSE delta
  <2>0. days = {w.day : w \in {x \in {text[i] : i \in DOMAIN text} : x.kind = "weekday"}}
    BY DEF ToSet
  <2>1. days # {} /\ days \in SUBSET Nat
    <3>1. PICK i \in DOMAIN text : text[i].kind = "weekday"
      BY <1>7 DEF Kinds
    <3>2. text[i].day \in days
      BY <2>0, <3>1
    <3>3. ASSUME NEW n \in days PROVE n \in Nat
      <4>1. PICK j \in DOMAIN text : text[j].kind = "weekday" /\ n = text[j].day
        BY <2>0
      <4>2. text[j].day \in 0 .. 6
        BY <1>1, <4>1, WordIs
      <4> QED BY <4>1, <4>2
    <3> QED BY <3>2, <3>3
  <2>2. day \in days
    BY <2>1, MinIs
  <2>3. PICK i \in DOMAIN text : text[i].kind = "weekday" /\ text[i].day = day
    BY <2>0, <2>2
  <2>4. text[i] = [kind |-> "weekday", day |-> day] /\ day \in 0 .. 6
    BY <1>1, <2>3, WordIs
  <2> HIDE DEF days, day
  <2>5. weekday(ref) = DayOf(ref) % 7
    BY DEF weekday
  <2>6. d \in 1 .. 7 /\ (DayOf(ref) + d) % 7 = day
    <3>1. d = Ahead(DayOf(ref), day)
      BY <2>5 DEF Ahead
    <3>2. DayOf(ref) \in Nat /\ day \in 0 .. 6
      BY <1>0, <2>4
    <3> HIDE DEF d
    <3> QED BY <3>1, <3>2, NextWeekday
  <2>8. NamedIn(text, ref) = {d}
    BY <1>7 DEF NamedIn, day, days
  <2> HIDE DEF delta, d
  <2>9. ASSUME NEW t \in Nat, DayOf(t) - DayOf(ref) = d PROVE OnDaySaid(text, ref, t)
    <3>1. DayOf(t) = DayOf(ref) + d
      BY <1>0, <2>6, <2>9
    <3>2. weekday(t) = day
      BY <2>6, <3>1 DEF weekday
    <3> QED BY <1>7, <2>4, <2>6, <2>9, <3>2 DEF OnDaySaid
  <2> QED BY <1>2, <2>6, <2>8, <2>9
<1>8. CASE {"day after tomorrow", "tomorrow", "today", "in", "weekday"} \cap kinds = {}
  BY <1>8 DEF NamedIn
<1> QED
  BY <1>3, <1>4, <1>5, <1>6, <1>7, <1>8

(* A text names no day exactly if it has nothing but clocks.               *)
LEMMA NoDaySaid ==
  ASSUME NEW text \in Seq(Word), NEW ref \in Nat, NamedIn(text, ref) = {}
  PROVE  /\ Kinds(text) \subseteq {"clock"}
         /\ \A t \in Nat : t >= ref /\ t < ref + DayLength => OnDaySaid(text, ref, t)
<1>1. \A i \in DOMAIN text : text[i] \in Word
  BY ElementOfSeq, LenProperties
<1>2. Kinds(text) \subseteq {"today", "tomorrow", "day after tomorrow", "in", "weekday", "clock"}
  BY <1>1, WordIs DEF Kinds
<1>3. {"day after tomorrow", "tomorrow", "today", "in", "weekday"} \cap Kinds(text) = {}
  BY DEF NamedIn
<1> QED
  BY <1>2, <1>3 DEF OnDaySaid

(* Whatever the text and the moment it is read at, the result is the first *)
(* moment the text describes, none when it describes none, and an error    *)
(* when its minute is none or that moment is after the calendar's end.     *)
THEOREM ParsesWhatIsSaid ==
  ASSUME NEW text \in Seq(Word), NEW ref \in Nat
  PROVE  NamesMoment(text, ref)
<1> DEFINE result == parse_relative_datetime(text, ref)
           named == NamedIn(text, ref)
           day == DayOf(ref) + IF named = {} THEN 0 ELSE CHOOSE d \in named : TRUE
           w == text[Min(Clocks(text))]
           said == Clocks(text)
<1>0. /\ DayOf(ref) \in Nat /\ ref \in Nat /\ DayOf(ref) * DayLength <= ref
      /\ ref < DayOf(ref) * DayLength + DayLength
  BY DEF DayOf, DayLength
<1>1. \E ahead \in 0 .. 7 \cup Days :
        /\ day = DayOf(ref) + ahead
        /\ named # {} => \A t \in Nat : DayOf(t) = day => OnDaySaid(text, ref, t)
        /\ named = {} => ahead = 0
  <2>1. CASE named = {}
    BY <1>0, <2>1
  <2>2. CASE named # {}
    <3>1. PICK d \in 0 .. 7 \cup Days :
            /\ named = {d}
            /\ \A t \in Nat : DayOf(t) = DayOf(ref) + d => OnDaySaid(text, ref, t)
      BY <2>2, DaySaid
    <3>2. (CHOOSE e \in named : TRUE) = d
      BY <3>1
    <3> HIDE DEF named
    <3>3. day = DayOf(ref) + d
      BY <2>2, <3>2
    <3> QED BY <2>2, <3>1, <3>3
  <2> QED BY <2>1, <2>2
<1>2. said = {i \in DOMAIN text : IsClock(text[i])}
  BY DEF Clocks
<1>3. result = IF said = {} THEN (IF named = {} THEN NoDate ELSE InCalendar(_apply_time(day, 9, 0)))
               ELSE IF AsClock(First(text, IsClock)).m >= 60 THEN Error
               ELSE LET base == _apply_time(day, HourOf(First(text, IsClock)),
                                            AsClock(First(text, IsClock)).m)
                    IN InCalendar(IF named = {} THEN NextDayIfPast(base, ref) ELSE base)
  BY <1>2 DEF parse_relative_datetime
<1>4. NamesMoment(text, ref) <=>
        CASE result = NoDate -> Kinds(text) \subseteq {"clock"} /\ said = {}
          [] result = Error -> BadMinute(text) \/ TooFar(text, ref)
          [] OTHER -> DayOf(result) <= LastDay /\ Described(text, ref, result)
  BY DEF NamesMoment
<1>b. BadMinute(text) <=> said # {} /\ AsClock(w).m >= 60
  BY DEF BadMinute
<1> HIDE DEF result, named, day, w, said
<1>5. NoDate \notin Nat /\ Error \notin Nat /\ NoDate # Error
  BY DEF NoDate, Error
<1>c. PICK ahead \in 0 .. 7 \cup Days :
        /\ day = DayOf(ref) + ahead
        /\ named # {} => \A t \in Nat : DayOf(t) = day => OnDaySaid(text, ref, t)
        /\ named = {} => ahead = 0
  BY <1>1
<1>d. ahead \in Nat /\ day \in Nat
  BY <1>0, <1>c, NumbersAssumption
<1>6. ASSUME NEW t \in Nat, NEW e \in 0 .. 7 \cup Days, NEW hour \in 0 .. 23, NEW minute \in {0, 30},
             t = _apply_time(DayOf(ref) + e, hour, minute), DayOf(t) = DayOf(ref) + e,
             result = InCalendar(t), AtTimeSaid(text, t), OnDaySaid(text, ref, t)
      PROVE  NamesMoment(text, ref)
  <2>1. Described(text, ref, t)
    BY <1>6 DEF Described
  <2>2. CASE DayOf(t) > LastDay
    <3>1. result = Error
      BY <1>6, <2>2 DEF InCalendar
    <3>2. TooFar(text, ref)
      BY <1>6, <2>1, <2>2 DEF TooFar
    <3> QED BY <1>4, <1>5, <3>1, <3>2
  <2>3. CASE ~(DayOf(t) > LastDay)
    <3>1. result = t
      BY <1>6, <2>3 DEF InCalendar
    <3>2. DayOf(t) <= LastDay
      <4>1. DayOf(t) \in Nat
        BY DEF DayOf, DayLength
      <4> QED BY <2>3, <4>1, LastDayAssumption
    <3> QED BY <1>4, <1>5, <2>1, <3>1, <3>2
  <2> QED BY <2>2, <2>3
<1>7. CASE said = {}
  <2>1. CASE named = {}
    <3>1. Kinds(text) \subseteq {"clock"} /\ result = NoDate
      BY <1>3, <1>7, <2>1, NoDaySaid DEF named
    <3> QED BY <1>4, <1>5, <1>7, <3>1
  <2>2. CASE named # {}
    <3> DEFINE t == _apply_time(day, 9, 0)
    <3>1. t \in Nat /\ t % 2 = 0 /\ DayOf(t) = day /\ t % DayLength = 9 * 120
      <4>1. 9 \in 0 .. 23 /\ 0 \in 0 .. 59 /\ 9 * 120 + 0 * 2 = 9 * 120
        OBVIOUS
      <4>2. day \in Nat
        BY <1>d
      <4>3. t \in Nat /\ t % 2 = 0 /\ DayOf(t) = day /\ t % DayLength = 9 * 120 + 0 * 2
        BY <4>1, <4>2, MomentIs
      <4> QED BY <4>1, <4>3
    <3>2. result = InCalendar(t) /\ t = _apply_time(DayOf(ref) + ahead, 9, 0)
      BY <1>3, <1>7, <1>c, <2>2
    <3> HIDE DEF t
    <3>3. AtTimeSaid(text, t)
      BY <1>7, <3>1 DEF AtTimeSaid, said
    <3>4. OnDaySaid(text, ref, t)
      BY <1>c, <2>2, <3>1
    <3>5. DayOf(t) = DayOf(ref) + ahead /\ 9 \in 0 .. 23 /\ 0 \in {0, 30}
      BY <1>c, <3>1
    <3> QED BY <1>6, <3>1, <3>2, <3>3, <3>4, <3>5
  <2> QED BY <2>1, <2>2
<1>8. CASE said # {}
  <2>1. Min(said) \in said /\ First(text, IsClock) = w
    BY <1>8, FirstClock DEF said, w
  <2>2. w \in Word /\ IsClock(w)
    <3>1. Min(said) \in DOMAIN text /\ IsClock(text[Min(said)])
      BY <1>2, <2>1
    <3> QED BY <3>1, ElementOfSeq, LenProperties DEF w, said
  <2> DEFINE hour == HourOf(w)
             minute == AsClock(w).m
             t == _apply_time(day, hour, minute)
  <2>3. hour \in 0 .. 23 /\ minute \in {0, 30, 75} /\ (minute < 60 => Says(w, hour * 60 + minute))
    BY <2>2, HourSaid
  <2>4. result = IF minute >= 60 THEN Error
                 ELSE InCalendar(IF named = {} THEN NextDayIfPast(t, ref) ELSE t)
    BY <1>3, <1>8, <2>1
  <2> HIDE DEF hour, minute
  <2>5. CASE minute >= 60
    <3>1. result = Error
      BY <2>4, <2>5
    <3> QED BY <1>4, <1>5, <1>8, <1>b, <2>5, <3>1 DEF minute
  <2>6. CASE minute < 60
    <3>0. minute \in 0 .. 59 /\ minute \in {0, 30}
      BY <2>3, <2>6
    <3>1. ASSUME NEW e \in Nat
          PROVE  LET u == _apply_time(e, hour, minute) IN
                 u \in Nat /\ DayOf(u) = e /\ AtTimeSaid(text, u)
      <4> DEFINE u == _apply_time(e, hour, minute)
      <4>1. /\ u \in Nat /\ u % 2 = 0 /\ DayOf(u) = e
            /\ (u % DayLength) \div 2 = hour * 60 + minute
        BY <2>3, <3>0, MomentIs
      <4>2. Says(w, hour * 60 + minute)
        BY <2>3, <2>6
      <4> HIDE DEF u
      <4>3. AtTimeSaid(text, u)
        BY <1>8, <4>1, <4>2 DEF AtTimeSaid, said, w
      <4> QED BY <4>1, <4>3 DEF u
    <3>4. ~(minute >= 60)
      BY <3>0
    <3>2. CASE named # {}
      <4>1. result = InCalendar(t) /\ t = _apply_time(DayOf(ref) + ahead, hour, minute)
        BY <1>c, <2>4, <3>2, <3>4
      <4>2. t \in Nat /\ DayOf(t) = day /\ AtTimeSaid(text, t)
        BY <1>d, <3>1
      <4> HIDE DEF t
      <4>3. OnDaySaid(text, ref, t) /\ DayOf(t) = DayOf(ref) + ahead
        BY <1>c, <3>2, <4>2
      <4> QED BY <1>6, <2>3, <3>0, <4>1, <4>2, <4>3
    <3>3. CASE named = {}
      <4> DEFINE next == _apply_time(day + 1, hour, minute)
                 when == IF t < ref THEN next ELSE t
      <4>0. day = DayOf(ref)
        BY <1>0, <1>c, <3>3
      <4>2. t + DayLength = next /\ t = day * DayLength + (hour * 120 + minute * 2)
            /\ hour * 120 + minute * 2 < DayLength /\ hour * 120 + minute * 2 \in Nat
        BY <1>d, <2>3, <3>0 DEF _apply_time, DayLength
      <4>1. result = InCalendar(when)
        BY <2>4, <3>3, <3>4, <4>2 DEF NextDayIfPast
      <4>3. t \in Nat /\ AtTimeSaid(text, t) /\ DayOf(t) = DayOf(ref)
        BY <1>d, <3>1, <4>0
      <4>4. next \in Nat /\ AtTimeSaid(text, next) /\ DayOf(next) = DayOf(ref) + 1
        <5>1. day + 1 \in Nat
          BY <1>d
        <5> QED BY <3>1, <4>0, <5>1
      <4>5. t = _apply_time(DayOf(ref), hour, minute) /\ next = _apply_time(DayOf(ref) + 1, hour, minute)
        BY <4>0
      <4> HIDE DEF t, next
      <4>6. \E e \in 0 .. 7 \cup Days :
              when = _apply_time(DayOf(ref) + e, hour, minute) /\ DayOf(when) = DayOf(ref) + e
        <5>1. CASE t < ref
          <6>1. when = next
            BY <5>1
          <6> HIDE DEF when
          <6> QED BY <4>4, <4>5, <6>1
        <5>2. CASE ~(t < ref)
          <6>1. when = t /\ DayOf(ref) + 0 = DayOf(ref)
            BY <1>0, <5>2
          <6> HIDE DEF when
          <6> QED BY <4>3, <4>5, <6>1
        <5> QED BY <5>1, <5>2
      <4>7. when \in Nat /\ AtTimeSaid(text, when)
        BY <4>3, <4>4
      <4>8. when >= ref /\ when < ref + DayLength
        <5>1. DayLength \in Nat /\ day * DayLength \in Nat
          BY <1>d DEF DayLength
        <5> QED BY <1>0, <4>0, <4>2, <4>3, <5>1
      <4> HIDE DEF when
      <4>9. OnDaySaid(text, ref, when)
        BY <3>3, <4>7, <4>8, NoDaySaid DEF named
      <4> QED BY <1>6, <2>3, <3>0, <4>1, <4>6, <4>7, <4>9
    <3> QED BY <3>2, <3>3
  <2> QED BY <2>3, <2>5, <2>6
<1> QED
  BY <1>7, <1>8

(* NamesFirstSuchMoment, for every text and moment the runs go through.    *)
THEOREM NamesFirstSuchMomentHolds == Spec => []NamesFirstSuchMoment
<1>1. Init => NamesFirstSuchMoment
  <2> SUFFICES ASSUME Init, input.of = "text" PROVE NamesMoment(input.text, input.ref)
    BY DEF NamesFirstSuchMoment
  <2>1. input \in TextInputs
    BY DEF Init, ShareInputs, SumInputs
  <2>2. PICK n \in 0 .. 2 : input \in [of : {"text"}, text : [1 .. n -> Word], ref : Refs]
    BY <2>1 DEF TextInputs
  <2>3. input.text \in [1 .. n -> Word] /\ n \in Nat /\ input.ref \in Nat
    <3>1. n \in Nat
      OBVIOUS
    <3>2. input.text \in [1 .. n -> Word] /\ input.ref \in Refs
      BY <2>2
    <3> QED BY <3>1, <3>2, NumbersAssumption
  <2>4. input.text \in Seq(Word)
    BY <2>3, SeqDef
  <2> QED BY <2>3, <2>4, ParsesWhatIsSaid
<1>2. NamesFirstSuchMoment /\ [Next]_input => NamesFirstSuchMoment'
  BY DEF Next, NamesFirstSuchMoment
<1> QED
  BY <1>1, <1>2, PTL DEF Spec

-----------------------------------------------------------------------------
(* Arithmetic modulo PRIME.                                                *)
Div(a) == \E k \in Int : a = k * PRIME

(* What is assumed of PRIME, and its field.                                *)
LEMMA PrimeIs ==
  /\ PRIME \in Nat /\ PRIME > 1 /\ 0 \in Field /\ 1 \in Field
  /\ \A d \in 2 .. PRIME - 1 : PRIME % d # 0
  /\ \A a \in Field : a \in Int
BY PrimeAssumption DEF Field

(* A remainder is in the field and differs by a multiple of PRIME.         *)
LEMMA Remainder ==
  ASSUME NEW a \in Int
  PROVE  a % PRIME \in Field /\ Div(a - (a % PRIME))
<1>1. PRIME \in Nat \ {0}
  BY PrimeIs
<1>2. /\ a % PRIME \in 0 .. PRIME - 1 /\ a \div PRIME \in Int
      /\ a = PRIME * (a \div PRIME) + (a % PRIME)
  BY <1>1
<1>3. PICK q \in Int, r \in 0 .. PRIME - 1 : a % PRIME = r /\ a = PRIME * q + r
  BY <1>2
<1>4. a - r = q * PRIME
  BY <1>1, <1>3
<1> QED
  BY <1>3, <1>4 DEF Field, Div

(* A combination.                                                          *)
Lin(r, e, s, f) == r * e + s * f

(* The multiples of PRIME are closed under combination.                    *)
LEMMA Combine ==
  ASSUME NEW r \in Int, NEW e \in Int, NEW s \in Int, NEW f \in Int, Div(e), Div(f)
  PROVE  Div(Lin(r, e, s, f))
<1>0. PRIME \in Int
  BY PrimeIs
<1>1. PICK k \in Int, l \in Int : e = k * PRIME /\ f = l * PRIME
  BY DEF Div
<1>2. r * (k * PRIME) = (r * k) * PRIME /\ s * (l * PRIME) = (s * l) * PRIME
  BY <1>0
<1>3. (r * k + s * l) * PRIME = (r * k) * PRIME + (s * l) * PRIME /\ r * k + s * l \in Int
  BY <1>0
<1> QED
  BY <1>1, <1>2, <1>3 DEF Div, Lin

LEMMA NoneDivides == Div(0)
<1>1. 0 = 0 * PRIME
  BY PrimeIs
<1> QED
  BY <1>1 DEF Div

(* Less than PRIME apart and equal modulo PRIME is equal.                  *)
LEMMA Small ==
  ASSUME NEW a \in Int, -PRIME < a, a < PRIME, Div(a)
  PROVE  a = 0
<1>0. PRIME \in Int /\ PRIME > 1
  BY PrimeIs
<1>1. PICK k \in Int : a = k * PRIME
  BY DEF Div
<1>2. CASE k = 0
  BY <1>0, <1>1, <1>2
<1>3. CASE k >= 1
  <2>1. PICK d \in Nat : k = 1 + d
    <3>1. k - 1 \in Nat /\ k = 1 + (k - 1)
      BY <1>3
    <3> QED BY <3>1
  <2>2. (1 + d) * PRIME = PRIME + d * PRIME /\ d * PRIME \in Nat
    BY <1>0
  <2> QED BY <1>0, <1>1, <2>1, <2>2
<1>4. CASE k <= -1
  <2>1. PICK d \in Nat : k = -1 - d
    <3>1. -1 - k \in Nat /\ k = -1 - (-1 - k)
      BY <1>4
    <3> QED BY <3>1
  <2>2. (-1 - d) * PRIME = -PRIME - d * PRIME /\ d * PRIME \in Nat
    BY <1>0
  <2> QED BY <1>0, <1>1, <2>1, <2>2
<1> QED
  BY <1>2, <1>3, <1>4

(* Two elements of the field that differ by a multiple of PRIME are one.   *)
LEMMA SameInField ==
  ASSUME NEW a \in Field, NEW b \in Field, Div(a - b)
  PROVE  a = b
<1>1. a \in Int /\ b \in Int /\ PRIME \in Int /\ a - b \in Int /\ -PRIME < a - b /\ a - b < PRIME
  BY PrimeIs DEF Field
<1>2. a - b = 0
  BY <1>1, Small
<1> QED
  BY <1>1, <1>2

(* What is not a multiple of PRIME has an inverse: the least of its        *)
(* multiples modulo PRIME divides PRIME and is less.                       *)
LEMMA InverseExists ==
  ASSUME NEW d \in Int, ~Div(d)
  PROVE  \E i \in Int : Div(i * d - 1)
<1> DEFINE S == {n \in Nat : n # 0 /\ \E i \in Int : Div(i * d - n)}
           e == d % PRIME
<1>0. PRIME \in Nat \ {0} /\ PRIME \in Int
  BY PrimeIs
<1>1. e \in Field /\ Div(d - e) /\ e \in Nat /\ e < PRIME /\ e \in Int
  BY <1>0, Remainder DEF Field
<1> HIDE DEF e
<1>2. e # 0
  BY <1>1
<1>3. e \in S
  <2>1. 1 * d = d
    OBVIOUS
  <2> QED BY <1>1, <1>2, <2>1
<1>4. PICK g \in S : \A n \in S : g <= n
  <2>1. S \in SUBSET Nat /\ S # {}
    BY <1>3
  <2> HIDE DEF S
  <2> QED BY <2>1, LeastNumber
<1>5. PICK i \in Int : Div(i * d - g)
  BY <1>4
<1>6. g \in Nat /\ g # 0 /\ g < PRIME /\ g \in Int
  <2>1. g \in Nat /\ g # 0 /\ g <= e
    BY <1>3, <1>4
  <2> QED BY <1>0, <1>1, <2>1
<1>7. PICK q \in Int, r \in 0 .. g - 1 : PRIME = g * q + r /\ PRIME % g = r
  <2>1. PRIME % g \in 0 .. g - 1 /\ PRIME \div g \in Int /\ PRIME = g * (PRIME \div g) + (PRIME % g)
    BY <1>0, <1>6
  <2> QED BY <2>1
<1>8. r = 0
  <2> SUFFICES ASSUME r # 0 PROVE FALSE
    OBVIOUS
  <2>0. r \in Int /\ r \in Nat /\ i * d - g \in Int /\ -q \in Int /\ (-q) * i \in Int
    BY <1>6, <1>7
  <2>1. ((-q) * i) * d - r = Lin(-q, i * d - g, -1, PRIME)
    <3>1. (-q) * (i * d - g) = ((-q) * i) * d + g * q
      BY <1>6
    <3>2. ((-q) * i) * d \in Int /\ g * q \in Int
      BY <1>6
    <3> QED BY <1>0, <1>7, <2>0, <3>1, <3>2 DEF Lin
  <2>2. Div(PRIME)
    <3>1. PRIME = 1 * PRIME
      BY <1>0
    <3> QED BY <3>1 DEF Div
  <2>3. Div(Lin(-q, i * d - g, -1, PRIME))
    BY <1>0, <1>5, <2>0, <2>2, Combine
  <2>4. r \in S
    BY <2>0, <2>1, <2>3
  <2>5. g <= r
    BY <1>4, <2>4
  <2> QED BY <1>6, <2>0, <2>5
<1>9. g = 1
  <2>1. g \in 2 .. PRIME - 1 => PRIME % g # 0
    BY PrimeIs
  <2> QED BY <1>0, <1>6, <1>7, <1>8, <2>1
<1> QED
  BY <1>5, <1>9

(* inverse of reconstruct (pow with exponent -1) is an inverse.            *)
LEMMA InverseIs ==
  ASSUME NEW d \in Int, ~Div(d)
  PROVE  inverse(d) \in Field /\ inverse(d) \in Int /\ Div(inverse(d) * d - 1)
<1>1. PICK i \in Int : Div(i * d - 1)
  BY InverseExists
<1> DEFINE j == i % PRIME
<1>2. j \in Field /\ Div(i - j) /\ j \in Int
  BY Remainder, PrimeIs
<1> HIDE DEF j
<1>3. Div(j * d - 1)
  <2>1. j * d - 1 = Lin(1, i * d - 1, -d, i - j)
    BY <1>2 DEF Lin
  <2>2. i * d - 1 \in Int /\ -d \in Int /\ i - j \in Int
    BY <1>2
  <2>3. Div(Lin(1, i * d - 1, -d, i - j))
    BY <1>1, <1>2, <2>2, Combine
  <2> QED BY <2>1, <2>3
<1>4. \A k \in Field : Div(k * d - 1) <=> (k * d) % PRIME = 1
  <2> TAKE k \in Field
  <2> DEFINE m == k * d
  <2>1. m \in Int
    BY PrimeIs
  <2> HIDE DEF m
  <2>2. m % PRIME \in Field /\ Div(m - (m % PRIME)) /\ m % PRIME \in Int
    BY <2>1, Remainder, PrimeIs
  <2>3. ASSUME Div(m - 1) PROVE m % PRIME = 1
    <3> DEFINE x == m % PRIME
    <3> HIDE DEF x
    <3>0. x \in Int /\ x \in Field /\ Div(m - x)
      BY <2>2 DEF x
    <3>1. x - 1 = Lin(1, m - 1, -1, m - x)
      BY <2>1, <3>0 DEF Lin
    <3>2. m - 1 \in Int /\ m - x \in Int
      BY <2>1, <3>0
    <3>3. Div(Lin(1, m - 1, -1, m - x))
      BY <2>3, <3>0, <3>2, Combine
    <3>4. Div(x - 1)
      BY <3>1, <3>3
    <3> QED BY <3>0, <3>4, SameInField, PrimeIs DEF x
  <2>4. m % PRIME = 1 => Div(m - 1)
    BY <2>2
  <2> QED BY <2>3, <2>4 DEF m
<1>5. inverse(d) \in Field /\ (inverse(d) * d) % PRIME = 1
  BY <1>2, <1>3, <1>4 DEF inverse
<1> QED
  BY <1>4, <1>5, PrimeIs

(* A factor that is not a multiple of PRIME cancels.                       *)
LEMMA Cancel ==
  ASSUME NEW a \in Int, NEW b \in Int, ~Div(a), Div(a * b)
  PROVE  Div(b)
<1>1. PICK i \in Int : Div(i * a - 1)
  BY InverseExists
<1>2. b = Lin(i, a * b, -b, i * a - 1)
  BY DEF Lin
<1>3. a * b \in Int /\ -b \in Int /\ i * a - 1 \in Int
  OBVIOUS
<1>4. Div(Lin(i, a * b, -b, i * a - 1))
  BY <1>1, <1>3, Combine
<1> QED
  BY <1>2, <1>4

-----------------------------------------------------------------------------
(* Loops that carry a value: they exist, and two of the same steps agree.  *)
(* F holds the values of a loop of n steps from start, G its body.         *)
Loop(F, S, start, n, G) ==
  /\ F \in [0 .. n -> S] /\ F[0] = start
  /\ \A k \in 1 .. n : F[k] = G[k][F[k - 1]]

(* A loop of n steps from start exists.                                    *)
LEMMA RunExists ==
  ASSUME NEW S, NEW start \in S, NEW n \in Nat, NEW G \in [1 .. n -> [S -> S]]
  PROVE  \E F : Loop(F, S, start, n, G)
<1> DEFINE Run(F, m) == /\ F \in [0 .. m -> S] /\ F[0] = start
                        /\ \A k \in 1 .. m : F[k] = G[k][F[k - 1]]
           M == {m \in Nat : m <= n => \E F : Run(F, m)}
<1>1. 0 \in M
  <2> DEFINE F == [k \in 0 .. 0 |-> start]
  <2>1. Run(F, 0)
    OBVIOUS
  <2> QED BY <2>1
<1>2. ASSUME NEW m \in Nat, m \in M PROVE m + 1 \in M
  <2> SUFFICES ASSUME m + 1 <= n PROVE \E F : Run(F, m + 1)
    OBVIOUS
  <2>1. PICK F : Run(F, m)
    BY <1>2
  <2> DEFINE v == G[m + 1][F[m]]
             H == [k \in 0 .. m + 1 |-> IF k = m + 1 THEN v ELSE F[k]]
  <2>2. v \in S
    <3>1. m \in 0 .. m /\ m + 1 \in 1 .. n
      OBVIOUS
    <3>2. F[m] \in S /\ G[m + 1] \in [S -> S]
      BY <2>1, <3>1
    <3> QED BY <3>2
  <2> HIDE DEF v
  <2>3. H \in [0 .. m + 1 -> S]
    BY <2>1, <2>2
  <2>4. H[0] = start
    BY <2>1
  <2>5. ASSUME NEW k \in 1 .. m + 1 PROVE H[k] = G[k][H[k - 1]]
    <3>1. k - 1 \in 0 .. m /\ k - 1 # m + 1 /\ k \in 0 .. m + 1 /\ k - 1 \in 0 .. m + 1
      OBVIOUS
    <3>2. H[k - 1] = F[k - 1]
      BY <3>1
    <3>3. CASE k = m + 1
      BY <3>1, <3>2, <3>3 DEF v
    <3>4. CASE k # m + 1
      <4>1. k \in 1 .. m /\ H[k] = F[k]
        BY <3>1, <3>4
      <4> QED BY <2>1, <3>2, <4>1
    <3> QED BY <3>3, <3>4
  <2> QED BY <2>3, <2>4, <2>5
<1> HIDE DEF M
<1>3. n \in M
  BY <1>1, <1>2, EveryNumber
<1> QED
  BY <1>3 DEF M, Loop

(* A function on 1 .. n is a sequence of length n.                         *)
LEMMA LenIs ==
  ASSUME NEW n \in Nat, NEW S, NEW f \in [1 .. n -> S]
  PROVE  Len(f) = n /\ f \in Seq(S)
BY SeqDef

(* A product and a total, by their last factor and their last term.        *)
ProductRun(F, f, n) ==
  /\ F[0] = 1 /\ \A k \in 1 .. n : F[k] = (F[k - 1] * f[k]) % PRIME
  /\ \A k \in 0 .. n : F[k] \in Field

(* Product is the last value of its loop.                                  *)
LEMMA ProductRuns ==
  ASSUME NEW n \in Nat, NEW f \in [1 .. n -> Int]
  PROVE  \E F : ProductRun(F, f, n) /\ Product(f) = F[n]
<1> DEFINE G == [k \in 1 .. n |-> [a \in Field |-> (a * f[k]) % PRIME]]
           Body(F) == [k \in 0 .. n |-> IF k = 0 THEN 1 ELSE (F[k - 1] * f[k]) % PRIME]
           acc == CHOOSE F : F = Body(F)
<1>1. G \in [1 .. n -> [Field -> Field]]
  <2> SUFFICES ASSUME NEW k \in 1 .. n, NEW a \in Field PROVE (a * f[k]) % PRIME \in Field
    OBVIOUS
  <2>1. a * f[k] \in Int
    BY PrimeIs
  <2> QED BY <2>1, Remainder
<1>2. PICK F \in [0 .. n -> Field] : F[0] = 1 /\ \A k \in 1 .. n : F[k] = G[k][F[k - 1]]
  <2>1. 1 \in Field
    BY PrimeIs
  <2> HIDE DEF G
  <2>2. \E F : Loop(F, Field, 1, n, G)
    BY <1>1, <2>1, RunExists
  <2> QED BY <2>2 DEF Loop
<1>3. ASSUME NEW k \in 1 .. n PROVE F[k] = (F[k - 1] * f[k]) % PRIME
  <2>1. k - 1 \in 0 .. n
    OBVIOUS
  <2>2. F[k - 1] \in Field
    BY <1>2, <2>1
  <2> QED BY <1>2, <2>2
<1>4. F = Body(F)
  <2>1. ASSUME NEW k \in 0 .. n PROVE F[k] = Body(F)[k]
    <3>1. CASE k = 0
      BY <1>2, <3>1
    <3>2. CASE k # 0
      BY <1>3, <3>2
    <3> QED BY <3>1, <3>2
  <2> HIDE DEF Body
  <2>2. DOMAIN Body(F) = 0 .. n /\ Body(F) = [k \in 0 .. n |-> Body(F)[k]]
    BY DEF Body
  <2>3. F = [k \in 0 .. n |-> F[k]]
    OBVIOUS
  <2> QED BY <2>1, <2>2, <2>3
<1>5. acc = Body(acc)
  <2> HIDE DEF Body
  <2> QED BY <1>4
<1>6. Product(f) = acc[n]
  BY LenIs DEF Product
<1> HIDE DEF acc
<1>7. acc[0] = 1 /\ \A k \in 1 .. n : acc[k] = (acc[k - 1] * f[k]) % PRIME
  <2>1. 0 \in 0 .. n /\ \A k \in 1 .. n : k \in 0 .. n /\ k # 0
    OBVIOUS
  <2>2. \A k \in 0 .. n : acc[k] = IF k = 0 THEN 1 ELSE (acc[k - 1] * f[k]) % PRIME
    BY <1>5
  <2> QED BY <2>1, <2>2
<1>8. \A k \in 0 .. n : acc[k] \in Field
  <2> TAKE k \in 0 .. n
  <2>1. CASE k = 0
    BY <1>7, <2>1, PrimeIs
  <2>2. CASE k # 0
    <3> DEFINE M == {m \in Nat : m <= n => acc[m] \in Field}
    <3>1. 0 \in M
      BY <1>7, PrimeIs
    <3>2. ASSUME NEW m \in Nat, m \in M PROVE m + 1 \in M
      <4> SUFFICES ASSUME m + 1 <= n PROVE acc[m + 1] \in Field
        OBVIOUS
      <4>1. m + 1 \in 1 .. n /\ (m + 1) - 1 = m /\ acc[m] \in Int /\ f[m + 1] \in Int
        BY <3>2, PrimeIs
      <4>2. acc[m] * f[m + 1] \in Int
        BY <4>1
      <4> QED BY <1>7, <4>1, <4>2, Remainder
    <3> HIDE DEF M
    <3>3. \A m \in Nat : m \in M
      BY <3>1, <3>2, EveryNumber
    <3> QED BY <3>3 DEF M
  <2> QED BY <2>1, <2>2
<1> QED
  BY <1>6, <1>7, <1>8 DEF ProductRun

TotalRun(F, f, n) ==
  /\ F[0] = 0 /\ \A k \in 1 .. n : F[k] = (F[k - 1] + f[k]) % PRIME
  /\ \A k \in 0 .. n : F[k] \in Field

(* Total is the last value of its loop.                                    *)
LEMMA TotalRuns ==
  ASSUME NEW n \in Nat, NEW f \in [1 .. n -> Int]
  PROVE  \E F : TotalRun(F, f, n) /\ Total(f) = F[n]
<1> DEFINE G == [k \in 1 .. n |-> [a \in Field |-> (a + f[k]) % PRIME]]
           Body(F) == [k \in 0 .. n |-> IF k = 0 THEN 0 ELSE (F[k - 1] + f[k]) % PRIME]
           acc == CHOOSE F : F = Body(F)
<1>1. G \in [1 .. n -> [Field -> Field]]
  <2> SUFFICES ASSUME NEW k \in 1 .. n, NEW a \in Field PROVE (a + f[k]) % PRIME \in Field
    OBVIOUS
  <2>1. a + f[k] \in Int
    BY PrimeIs
  <2> QED BY <2>1, Remainder
<1>2. PICK F \in [0 .. n -> Field] : F[0] = 0 /\ \A k \in 1 .. n : F[k] = G[k][F[k - 1]]
  <2>1. 0 \in Field
    BY PrimeIs
  <2> HIDE DEF G
  <2>2. \E F : Loop(F, Field, 0, n, G)
    BY <1>1, <2>1, RunExists
  <2> QED BY <2>2 DEF Loop
<1>3. ASSUME NEW k \in 1 .. n PROVE F[k] = (F[k - 1] + f[k]) % PRIME
  <2>1. k - 1 \in 0 .. n
    OBVIOUS
  <2>2. F[k - 1] \in Field
    BY <1>2, <2>1
  <2> QED BY <1>2, <2>2
<1>4. F = Body(F)
  <2>1. ASSUME NEW k \in 0 .. n PROVE F[k] = Body(F)[k]
    <3>1. CASE k = 0
      BY <1>2, <3>1
    <3>2. CASE k # 0
      BY <1>3, <3>2
    <3> QED BY <3>1, <3>2
  <2> HIDE DEF Body
  <2>2. DOMAIN Body(F) = 0 .. n /\ Body(F) = [k \in 0 .. n |-> Body(F)[k]]
    BY DEF Body
  <2>3. F = [k \in 0 .. n |-> F[k]]
    OBVIOUS
  <2> QED BY <2>1, <2>2, <2>3
<1>5. acc = Body(acc)
  <2> HIDE DEF Body
  <2> QED BY <1>4
<1>6. Total(f) = acc[n]
  BY LenIs DEF Total
<1> HIDE DEF acc
<1>7. acc[0] = 0 /\ \A k \in 1 .. n : acc[k] = (acc[k - 1] + f[k]) % PRIME
  <2>1. 0 \in 0 .. n /\ \A k \in 1 .. n : k \in 0 .. n /\ k # 0
    OBVIOUS
  <2>2. \A k \in 0 .. n : acc[k] = IF k = 0 THEN 0 ELSE (acc[k - 1] + f[k]) % PRIME
    BY <1>5
  <2> QED BY <2>1, <2>2
<1>8. \A k \in 0 .. n : acc[k] \in Field
  <2> TAKE k \in 0 .. n
  <2>1. CASE k = 0
    BY <1>7, <2>1, PrimeIs
  <2>2. CASE k # 0
    <3> DEFINE M == {m \in Nat : m <= n => acc[m] \in Field}
    <3>1. 0 \in M
      BY <1>7, PrimeIs
    <3>2. ASSUME NEW m \in Nat, m \in M PROVE m + 1 \in M
      <4> SUFFICES ASSUME m + 1 <= n PROVE acc[m + 1] \in Field
        OBVIOUS
      <4>1. m + 1 \in 1 .. n /\ (m + 1) - 1 = m /\ acc[m] \in Int /\ f[m + 1] \in Int
        BY <3>2, PrimeIs
      <4>2. acc[m] + f[m + 1] \in Int
        BY <4>1
      <4> QED BY <1>7, <4>1, <4>2, Remainder
    <3> HIDE DEF M
    <3>3. \A m \in Nat : m \in M
      BY <3>1, <3>2, EveryNumber
    <3> QED BY <3>3 DEF M
  <2> QED BY <2>1, <2>2
<1> QED
  BY <1>6, <1>7, <1>8 DEF TotalRun

EvalRun(F, f, x, n) ==
  /\ F[0] = 0 /\ \A k \in 1 .. n : F[k] = (F[k - 1] * x + f[n + 1 - k]) % PRIME
  /\ \A k \in 0 .. n : F[k] \in Field

(* _eval_poly is the last value of its loop.                               *)
LEMMA EvalRuns ==
  ASSUME NEW n \in Nat, NEW f \in [1 .. n -> Field], NEW x \in Int
  PROVE  \E F : EvalRun(F, f, x, n) /\ _eval_poly(f, x) = F[n]
<1> DEFINE G == [k \in 1 .. n |-> [a \in Field |-> (a * x + f[n + 1 - k]) % PRIME]]
           Body(F) == [k \in 0 .. n |-> IF k = 0 THEN 0 ELSE (F[k - 1] * x + f[n + 1 - k]) % PRIME]
           acc == CHOOSE F : F = Body(F)
<1>1. G \in [1 .. n -> [Field -> Field]]
  <2> SUFFICES ASSUME NEW k \in 1 .. n, NEW a \in Field PROVE (a * x + f[n + 1 - k]) % PRIME \in Field
    OBVIOUS
  <2>1. n + 1 - k \in 1 .. n /\ a \in Int /\ f[n + 1 - k] \in Int
    BY PrimeIs
  <2>2. a * x + f[n + 1 - k] \in Int
    BY <2>1
  <2> QED BY <2>2, Remainder
<1>2. PICK F \in [0 .. n -> Field] : F[0] = 0 /\ \A k \in 1 .. n : F[k] = G[k][F[k - 1]]
  <2>1. 0 \in Field
    BY PrimeIs
  <2> HIDE DEF G
  <2>2. \E F : Loop(F, Field, 0, n, G)
    BY <1>1, <2>1, RunExists
  <2> QED BY <2>2 DEF Loop
<1>3. ASSUME NEW k \in 1 .. n PROVE F[k] = (F[k - 1] * x + f[n + 1 - k]) % PRIME
  <2>1. k - 1 \in 0 .. n
    OBVIOUS
  <2>2. F[k - 1] \in Field
    BY <1>2, <2>1
  <2> QED BY <1>2, <2>2
<1>4. F = Body(F)
  <2>1. ASSUME NEW k \in 0 .. n PROVE F[k] = Body(F)[k]
    <3>1. CASE k = 0
      BY <1>2, <3>1
    <3>2. CASE k # 0
      BY <1>3, <3>2
    <3> QED BY <3>1, <3>2
  <2> HIDE DEF Body
  <2>2. DOMAIN Body(F) = 0 .. n /\ Body(F) = [k \in 0 .. n |-> Body(F)[k]]
    BY DEF Body
  <2>3. F = [k \in 0 .. n |-> F[k]]
    OBVIOUS
  <2> QED BY <2>1, <2>2, <2>3
<1>5. acc = Body(acc)
  <2> HIDE DEF Body
  <2> QED BY <1>4
<1>6. _eval_poly(f, x) = acc[n]
  BY LenIs DEF _eval_poly
<1> HIDE DEF acc
<1>7. acc[0] = 0 /\ \A k \in 1 .. n : acc[k] = (acc[k - 1] * x + f[n + 1 - k]) % PRIME
  <2>1. 0 \in 0 .. n /\ \A k \in 1 .. n : k \in 0 .. n /\ k # 0
    OBVIOUS
  <2>2. \A k \in 0 .. n : acc[k] = IF k = 0 THEN 0 ELSE (acc[k - 1] * x + f[n + 1 - k]) % PRIME
    BY <1>5
  <2> QED BY <2>1, <2>2
<1>8. \A k \in 0 .. n : acc[k] \in Field
  <2> TAKE k \in 0 .. n
  <2>1. CASE k = 0
    BY <1>7, <2>1, PrimeIs
  <2>2. CASE k # 0
    <3> DEFINE M == {m \in Nat : m <= n => acc[m] \in Field}
    <3>1. 0 \in M
      BY <1>7, PrimeIs
    <3>2. ASSUME NEW m \in Nat, m \in M PROVE m + 1 \in M
      <4> SUFFICES ASSUME m + 1 <= n PROVE acc[m + 1] \in Field
        OBVIOUS
      <4>1. /\ m + 1 \in 1 .. n /\ (m + 1) - 1 = m /\ acc[m] \in Int
            /\ n + 1 - (m + 1) \in 1 .. n /\ f[n + 1 - (m + 1)] \in Int
        BY <3>2, PrimeIs
      <4>2. acc[m] * x + f[n + 1 - (m + 1)] \in Int
        BY <4>1
      <4> QED BY <1>7, <4>1, <4>2, Remainder
    <3> HIDE DEF M
    <3>3. \A m \in Nat : m \in M
      BY <3>1, <3>2, EveryNumber
    <3> QED BY <3>3 DEF M
  <2> QED BY <2>1, <2>2
<1> QED
  BY <1>6, <1>7, <1>8 DEF EvalRun

-----------------------------------------------------------------------------
(* The same number modulo PRIME.                                           *)
Same(a, b) == a \in Int /\ b \in Int /\ Div(a - b)

(* Same is an equivalence, and sums and products keep it.                  *)
LEMMA SameIs ==
  ASSUME NEW a \in Int
  PROVE  Same(a, a)
<1>1. a - a = 0
  OBVIOUS
<1> QED BY <1>1, NoneDivides DEF Same

LEMMA SameBack ==
  ASSUME NEW a, NEW b, Same(a, b)
  PROVE  Same(b, a)
<1>1. a \in Int /\ b \in Int /\ a - b \in Int /\ Div(a - b)
  BY DEF Same
<1>2. b - a = Lin(-1, a - b, 0, 0)
  BY <1>1 DEF Lin
<1>3. Div(Lin(-1, a - b, 0, 0))
  BY <1>1, NoneDivides, Combine
<1> QED BY <1>1, <1>2, <1>3 DEF Same

LEMMA SameOn ==
  ASSUME NEW a, NEW b, NEW c, Same(a, b), Same(b, c)
  PROVE  Same(a, c)
<1>1. a \in Int /\ b \in Int /\ c \in Int /\ a - b \in Int /\ b - c \in Int
  BY DEF Same
<1>2. a - c = Lin(1, a - b, 1, b - c)
  BY <1>1 DEF Lin
<1>3. Div(a - b) /\ Div(b - c)
  BY DEF Same
<1>4. Div(Lin(1, a - b, 1, b - c))
  BY <1>1, <1>3, Combine
<1> QED BY <1>1, <1>2, <1>4 DEF Same

LEMMA SameSum ==
  ASSUME NEW a, NEW b, NEW c, NEW d, Same(a, b), Same(c, d)
  PROVE  Same(a + c, b + d)
<1>1. a \in Int /\ b \in Int /\ c \in Int /\ d \in Int /\ a - b \in Int /\ c - d \in Int
  BY DEF Same
<1>2. (a + c) - (b + d) = Lin(1, a - b, 1, c - d)
  BY <1>1 DEF Lin
<1>3. Div(a - b) /\ Div(c - d)
  BY DEF Same
<1>4. Div(Lin(1, a - b, 1, c - d))
  BY <1>1, <1>3, Combine
<1> QED BY <1>1, <1>2, <1>4 DEF Same

LEMMA SameTimes ==
  ASSUME NEW a, NEW b, NEW c, NEW d, Same(a, b), Same(c, d)
  PROVE  Same(a * c, b * d)
<1>1. a \in Int /\ b \in Int /\ c \in Int /\ d \in Int /\ a - b \in Int /\ c - d \in Int
  BY DEF Same
<1>2. (a * c) - (b * d) = Lin(c, a - b, b, c - d)
  <2>1. c * (a - b) = a * c - b * c /\ b * (c - d) = b * c - b * d
    BY <1>1
  <2>2. a * c \in Int /\ b * c \in Int /\ b * d \in Int
    BY <1>1
  <2> QED BY <2>1, <2>2 DEF Lin
<1>3. Div(a - b) /\ Div(c - d)
  BY DEF Same
<1>4. Div(Lin(c, a - b, b, c - d))
  BY <1>1, <1>3, Combine
<1>5. a * c \in Int /\ b * d \in Int
  BY <1>1
<1> QED BY <1>2, <1>4, <1>5 DEF Same

(* A remainder is the same number.                                         *)
LEMMA SameRemainder ==
  ASSUME NEW a \in Int
  PROVE  Same(a % PRIME, a)
<1>1. a % PRIME \in Int /\ Div(a - (a % PRIME))
  BY Remainder, PrimeIs
<1>2. Same(a, a % PRIME)
  BY <1>1 DEF Same
<1> QED BY <1>2, SameBack

(* A factor that is not 0 in the field cancels.                            *)
LEMMA SameCancels ==
  ASSUME NEW a \in Int, NEW b \in Int, NEW c \in Int, ~Same(a, 0), Same(a * b, a * c)
  PROVE  Same(b, c)
<1>1. a * (b - c) = a * b - a * c /\ a - 0 = a /\ b - c \in Int
  OBVIOUS
<1>2. Div(a * (b - c)) /\ ~Div(a)
  BY <1>1 DEF Same
<1> QED BY <1>1, <1>2, Cancel DEF Same

LEMMA NoFactor ==
  ASSUME NEW a \in Int, NEW b \in Int, ~Same(a, 0), Same(a * b, 0)
  PROVE  Same(b, 0)
<1>1. a - 0 = a /\ b - 0 = b /\ a * b \in Int
  OBVIOUS
<1>2. (a * b) - 0 = a * b
  BY <1>1
<1>3. Div(a * b) /\ ~Div(a)
  BY <1>1, <1>2 DEF Same
<1> QED BY <1>1, <1>3, Cancel DEF Same

(* What is not 0 in the field has an inverse there.                        *)
LEMMA SameInverse ==
  ASSUME NEW d \in Int, ~Same(d, 0)
  PROVE  inverse(d) \in Field /\ inverse(d) \in Int /\ Same(inverse(d) * d, 1)
<1>1. d - 0 = d
  OBVIOUS
<1>2. inverse(d) \in Field /\ inverse(d) \in Int /\ Div(inverse(d) * d - 1)
  BY <1>1, InverseIs DEF Same
<1>3. inverse(d) * d \in Int
  BY <1>2
<1> QED BY <1>2, <1>3 DEF Same

(* In the field the same numbers are equal.                                *)
LEMMA SameIsEqual ==
  ASSUME NEW a \in Field, NEW b \in Field, Same(a, b)
  PROVE  a = b
BY SameInField DEF Same

LEMMA OneIsNotNone == ~Same(1, 0)
<1>1. 1 \in Field /\ 0 \in Field
  BY PrimeIs
<1> QED BY <1>1, SameIsEqual

(* One step of each loop.                                                  *)
LEMMA ProductStep ==
  ASSUME NEW n \in Nat, NEW f \in [1 .. n -> Int], NEW F, ProductRun(F, f, n),
         NEW m \in Nat, m + 1 <= n
  PROVE  F[m] \in Int /\ f[m + 1] \in Int /\ Same(F[m + 1], F[m] * f[m + 1])
<1>1. m \in 0 .. n /\ m + 1 \in 1 .. n /\ (m + 1) - 1 = m
  OBVIOUS
<1>2. F[m] \in Int /\ f[m + 1] \in Int /\ F[m + 1] = (F[m] * f[m + 1]) % PRIME
  BY <1>1, PrimeIs DEF ProductRun
<1>3. F[m] * f[m + 1] \in Int
  BY <1>2
<1> QED BY <1>2, <1>3, SameRemainder

LEMMA TotalStep ==
  ASSUME NEW n \in Nat, NEW f \in [1 .. n -> Int], NEW F, TotalRun(F, f, n),
         NEW m \in Nat, m + 1 <= n
  PROVE  F[m] \in Int /\ f[m + 1] \in Int /\ Same(F[m + 1], F[m] + f[m + 1])
<1>1. m \in 0 .. n /\ m + 1 \in 1 .. n /\ (m + 1) - 1 = m
  OBVIOUS
<1>2. F[m] \in Int /\ f[m + 1] \in Int /\ F[m + 1] = (F[m] + f[m + 1]) % PRIME
  BY <1>1, PrimeIs DEF TotalRun
<1>3. F[m] + f[m + 1] \in Int
  BY <1>2
<1> QED BY <1>2, <1>3, SameRemainder

LEMMA EvalStep ==
  ASSUME NEW n \in Nat, NEW f \in [1 .. n -> Field], NEW x \in Int, NEW F, EvalRun(F, f, x, n),
         NEW m \in Nat, m + 1 <= n
  PROVE  /\ F[m] \in Int /\ n - m \in 1 .. n /\ f[n - m] \in Int
         /\ Same(F[m + 1], F[m] * x + f[n - m])
<1>1. /\ m \in 0 .. n /\ m + 1 \in 1 .. n /\ (m + 1) - 1 = m /\ n + 1 - (m + 1) = n - m
      /\ n - m \in 1 .. n
  OBVIOUS
<1>2. F[m] \in Int /\ f[n - m] \in Int /\ F[m + 1] = (F[m] * x + f[n - m]) % PRIME
  BY <1>1, PrimeIs DEF EvalRun
<1>3. F[m] * x + f[n - m] \in Int
  BY <1>2
<1> QED BY <1>1, <1>2, <1>3, SameRemainder

(* A product is its factor at a times the product of the others.           *)
LEMMA ProductWithout ==
  ASSUME NEW n \in Nat, NEW f \in [1 .. n -> Int], NEW g \in [1 .. n -> Int], NEW a \in 1 .. n,
         g[a] = 1, \A k \in 1 .. n : k # a => g[k] = f[k]
  PROVE  Same(Product(f), f[a] * Product(g))
<1>1. PICK F : ProductRun(F, f, n) /\ Product(f) = F[n]
  BY ProductRuns
<1>2. PICK G : ProductRun(G, g, n) /\ Product(g) = G[n]
  BY ProductRuns
<1> DEFINE M == {m \in Nat : m <= n => IF m < a THEN Same(F[m], G[m]) ELSE Same(F[m], f[a] * G[m])}
<1>3. 0 \in M
  <2>1. F[0] = 1 /\ G[0] = 1
    BY <1>1, <1>2 DEF ProductRun
  <2> QED BY <2>1, SameIs
<1>4. ASSUME NEW m \in Nat, m \in M PROVE m + 1 \in M
  <2> SUFFICES ASSUME m + 1 <= n
               PROVE IF m + 1 < a THEN Same(F[m + 1], G[m + 1]) ELSE Same(F[m + 1], f[a] * G[m + 1])
    OBVIOUS
  <2>1. F[m] \in Int /\ f[m + 1] \in Int /\ Same(F[m + 1], F[m] * f[m + 1])
    BY <1>1, ProductStep
  <2>2. G[m] \in Int /\ g[m + 1] \in Int /\ Same(G[m + 1], G[m] * g[m + 1])
    BY <1>2, ProductStep
  <2>3. m + 1 \in 1 .. n /\ f[a] \in Int
    OBVIOUS
  <2>4. Same(f[m + 1], f[m + 1]) /\ Same(f[a], f[a])
    BY <2>1, <2>3, SameIs
  <2>5. Same(G[m] * g[m + 1], G[m + 1])
    BY <2>2, SameBack
  <2>6. CASE m + 1 < a
    <3>1. Same(F[m], G[m]) /\ g[m + 1] = f[m + 1]
      BY <1>4, <2>3, <2>6
    <3>2. Same(F[m] * f[m + 1], G[m] * f[m + 1])
      BY <2>4, <3>1, SameTimes
    <3>3. Same(F[m + 1], G[m] * f[m + 1])
      BY <2>1, <3>2, SameOn
    <3> QED BY <2>5, <2>6, <3>1, <3>3, SameOn
  <2>7. CASE m + 1 = a
    <3>1. Same(F[m], G[m]) /\ g[m + 1] = 1
      BY <1>4, <2>7
    <3>2. Same(F[m] * f[a], G[m] * f[a])
      BY <2>4, <3>1, SameTimes
    <3>3. G[m] * f[a] = f[a] * G[m] /\ G[m] * 1 = G[m]
      BY <2>2, <2>3
    <3>4. Same(F[m + 1], f[a] * G[m])
      BY <2>1, <2>7, <3>2, <3>3, SameOn
    <3>5. Same(G[m], G[m + 1])
      BY <2>5, <3>1, <3>3
    <3>6. Same(f[a] * G[m], f[a] * G[m + 1])
      BY <2>4, <3>5, SameTimes
    <3> QED BY <2>7, <3>4, <3>6, SameOn
  <2>8. CASE m + 1 > a
    <3>1. Same(F[m], f[a] * G[m]) /\ g[m + 1] = f[m + 1]
      BY <1>4, <2>3, <2>8
    <3>2. Same(F[m] * f[m + 1], (f[a] * G[m]) * f[m + 1])
      BY <2>4, <3>1, SameTimes
    <3>3. (f[a] * G[m]) * f[m + 1] = f[a] * (G[m] * g[m + 1])
      BY <2>1, <2>2, <2>3, <3>1
    <3>4. Same(F[m + 1], f[a] * (G[m] * g[m + 1]))
      BY <2>1, <3>2, <3>3, SameOn
    <3>5. Same(f[a] * (G[m] * g[m + 1]), f[a] * G[m + 1])
      BY <2>4, <2>5, SameTimes
    <3> QED BY <2>8, <3>4, <3>5, SameOn
  <2> QED BY <2>6, <2>7, <2>8
<1> HIDE DEF M
<1>5. n \in M
  BY <1>3, <1>4, EveryNumber
<1>6. Same(F[n], f[a] * G[n])
  BY <1>5 DEF M
<1> QED BY <1>1, <1>2, <1>6

(* The product of factors none of which is 0 in the field is none either.  *)
LEMMA ProductNotNone ==
  ASSUME NEW n \in Nat, NEW f \in [1 .. n -> Int], \A k \in 1 .. n : ~Same(f[k], 0)
  PROVE  ~Same(Product(f), 0)
<1>1. PICK F : ProductRun(F, f, n) /\ Product(f) = F[n]
  BY ProductRuns
<1> DEFINE M == {m \in Nat : m <= n => ~Same(F[m], 0)}
<1>2. 0 \in M
  <2>1. F[0] = 1
    BY <1>1 DEF ProductRun
  <2> QED BY <2>1, OneIsNotNone
<1>3. ASSUME NEW m \in Nat, m \in M PROVE m + 1 \in M
  <2> SUFFICES ASSUME m + 1 <= n, Same(F[m + 1], 0) PROVE FALSE
    OBVIOUS
  <2>1. F[m] \in Int /\ f[m + 1] \in Int /\ Same(F[m + 1], F[m] * f[m + 1])
    BY <1>1, ProductStep
  <2>2. ~Same(F[m], 0) /\ ~Same(f[m + 1], 0)
    BY <1>3
  <2>3. Same(F[m] * f[m + 1], 0)
    <3>1. Same(F[m] * f[m + 1], F[m + 1])
      BY <2>1, SameBack
    <3> QED BY <3>1, SameOn
  <2>4. Same(f[m + 1], 0)
    BY <2>1, <2>2, <2>3, NoFactor
  <2> QED BY <2>2, <2>4
<1> HIDE DEF M
<1>4. n \in M
  BY <1>2, <1>3, EveryNumber
<1> QED BY <1>1, <1>4 DEF M

(* The results of the loops are in the field.                              *)
LEMMA ProductIs ==
  ASSUME NEW n \in Nat, NEW f \in [1 .. n -> Int]
  PROVE  Product(f) \in Field /\ Product(f) \in Int
<1>1. PICK F : ProductRun(F, f, n) /\ Product(f) = F[n]
  BY ProductRuns
<1>2. n \in 0 .. n
  OBVIOUS
<1> QED BY <1>1, <1>2, PrimeIs DEF ProductRun

LEMMA TotalIs ==
  ASSUME NEW n \in Nat, NEW f \in [1 .. n -> Int]
  PROVE  Total(f) \in Field /\ Total(f) \in Int
<1>1. PICK F : TotalRun(F, f, n) /\ Total(f) = F[n]
  BY TotalRuns
<1>2. n \in 0 .. n
  OBVIOUS
<1> QED BY <1>1, <1>2, PrimeIs DEF TotalRun

LEMMA EvalIs ==
  ASSUME NEW n \in Nat, NEW f \in [1 .. n -> Field], NEW x \in Int
  PROVE  _eval_poly(f, x) \in Field /\ _eval_poly(f, x) \in Int
<1>1. PICK F : EvalRun(F, f, x, n) /\ _eval_poly(f, x) = F[n]
  BY EvalRuns
<1>2. n \in 0 .. n
  OBVIOUS
<1> QED BY <1>1, <1>2, PrimeIs DEF EvalRun

(* Totals are linear.                                                      *)
LEMMA TotalLinear ==
  ASSUME NEW n \in Nat, NEW f \in [1 .. n -> Int], NEW g \in [1 .. n -> Int],
         NEW h \in [1 .. n -> Int], NEW r \in Int, NEW s \in Int,
         \A k \in 1 .. n : Same(h[k], Lin(r, f[k], s, g[k]))
  PROVE  Same(Total(h), Lin(r, Total(f), s, Total(g)))
<1>1. PICK F : TotalRun(F, f, n) /\ Total(f) = F[n]
  BY TotalRuns
<1>2. PICK G : TotalRun(G, g, n) /\ Total(g) = G[n]
  BY TotalRuns
<1>3. PICK H : TotalRun(H, h, n) /\ Total(h) = H[n]
  BY TotalRuns
<1> DEFINE M == {m \in Nat : m <= n => Same(H[m], Lin(r, F[m], s, G[m]))}
<1>4. 0 \in M
  <2>1. F[0] = 0 /\ G[0] = 0 /\ H[0] = 0 /\ Lin(r, 0, s, 0) = 0
    BY <1>1, <1>2, <1>3 DEF TotalRun, Lin
  <2> QED BY <2>1, SameIs
<1>5. ASSUME NEW m \in Nat, m \in M PROVE m + 1 \in M
  <2> SUFFICES ASSUME m + 1 <= n PROVE Same(H[m + 1], Lin(r, F[m + 1], s, G[m + 1]))
    OBVIOUS
  <2>1. F[m] \in Int /\ f[m + 1] \in Int /\ Same(F[m] + f[m + 1], F[m + 1])
    BY <1>1, TotalStep, SameBack
  <2>2. G[m] \in Int /\ g[m + 1] \in Int /\ Same(G[m] + g[m + 1], G[m + 1])
    BY <1>2, TotalStep, SameBack
  <2>3. H[m] \in Int /\ h[m + 1] \in Int /\ Same(H[m + 1], H[m] + h[m + 1])
    BY <1>3, TotalStep
  <2>4. m + 1 \in 1 .. n
    OBVIOUS
  <2>5. Same(H[m], Lin(r, F[m], s, G[m])) /\ Same(h[m + 1], Lin(r, f[m + 1], s, g[m + 1]))
    BY <1>5, <2>4
  <2>6. Same(H[m] + h[m + 1], Lin(r, F[m], s, G[m]) + Lin(r, f[m + 1], s, g[m + 1]))
    BY <2>5, SameSum
  <2>7. Lin(r, F[m], s, G[m]) + Lin(r, f[m + 1], s, g[m + 1])
          = r * (F[m] + f[m + 1]) + s * (G[m] + g[m + 1])
    BY <2>1, <2>2 DEF Lin
  <2>8. Same(r, r) /\ Same(s, s)
    BY SameIs
  <2>9. Same(r * (F[m] + f[m + 1]), r * F[m + 1]) /\ Same(s * (G[m] + g[m + 1]), s * G[m + 1])
    BY <2>1, <2>2, <2>8, SameTimes
  <2>10. Same(r * (F[m] + f[m + 1]) + s * (G[m] + g[m + 1]), Lin(r, F[m + 1], s, G[m + 1]))
    BY <2>9, SameSum DEF Lin
  <2> QED BY <2>3, <2>6, <2>7, <2>10, SameOn
<1> HIDE DEF M
<1>6. n \in M
  BY <1>4, <1>5, EveryNumber
<1> QED BY <1>1, <1>2, <1>3, <1>6 DEF M

(* A total with one term.                                                  *)
LEMMA TotalSingle ==
  ASSUME NEW n \in Nat, NEW f \in [1 .. n -> Int], NEW a \in 1 .. n,
         \A k \in 1 .. n : k # a => f[k] = 0
  PROVE  Same(Total(f), f[a])
<1>1. PICK F : TotalRun(F, f, n) /\ Total(f) = F[n]
  BY TotalRuns
<1> DEFINE M == {m \in Nat : m <= n => Same(F[m], IF m < a THEN 0 ELSE f[a])}
<1>2. 0 \in M
  <2>1. F[0] = 0
    BY <1>1 DEF TotalRun
  <2> QED BY <2>1, SameIs
<1>3. ASSUME NEW m \in Nat, m \in M PROVE m + 1 \in M
  <2> SUFFICES ASSUME m + 1 <= n PROVE Same(F[m + 1], IF m + 1 < a THEN 0 ELSE f[a])
    OBVIOUS
  <2>1. F[m] \in Int /\ f[m + 1] \in Int /\ Same(F[m + 1], F[m] + f[m + 1])
    BY <1>1, TotalStep
  <2>2. m + 1 \in 1 .. n /\ f[a] \in Int
    OBVIOUS
  <2>3. Same(f[m + 1], f[m + 1])
    BY <2>1, SameIs
  <2>4. Same(F[m], IF m < a THEN 0 ELSE f[a])
    BY <1>3
  <2>5. Same(F[m] + f[m + 1], (IF m < a THEN 0 ELSE f[a]) + f[m + 1])
    BY <2>3, <2>4, SameSum
  <2>6. (IF m < a THEN 0 ELSE f[a]) + f[m + 1] = IF m + 1 < a THEN 0 ELSE f[a]
    <3>1. CASE m + 1 = a
      BY <2>1, <3>1
    <3>2. CASE m + 1 # a
      <4>1. f[m + 1] = 0 /\ (m < a <=> m + 1 < a)
        BY <2>2, <3>2
      <4> QED BY <2>2, <4>1
    <3> QED BY <3>1, <3>2
  <2> QED BY <2>1, <2>5, <2>6, SameOn
<1> HIDE DEF M
<1>4. n \in M
  BY <1>2, <1>3, EveryNumber
<1>5. ~(n < a)
  OBVIOUS
<1> QED BY <1>1, <1>4, <1>5 DEF M

(* The product of ones.                                                    *)
LEMMA ProductOfOnes ==
  ASSUME NEW n \in Nat, NEW f \in [1 .. n -> Int], \A k \in 1 .. n : f[k] = 1
  PROVE  Same(Product(f), 1)
<1>1. PICK F : ProductRun(F, f, n) /\ Product(f) = F[n]
  BY ProductRuns
<1> DEFINE M == {m \in Nat : m <= n => Same(F[m], 1)}
<1>2. 0 \in M
  <2>1. F[0] = 1
    BY <1>1 DEF ProductRun
  <2> QED BY <2>1, SameIs
<1>3. ASSUME NEW m \in Nat, m \in M PROVE m + 1 \in M
  <2> SUFFICES ASSUME m + 1 <= n PROVE Same(F[m + 1], 1)
    OBVIOUS
  <2>1. F[m] \in Int /\ f[m + 1] \in Int /\ Same(F[m + 1], F[m] * f[m + 1])
    BY <1>1, ProductStep
  <2>2. F[m] * f[m + 1] = F[m] /\ Same(F[m], 1)
    BY <1>3, <2>1
  <2> QED BY <2>1, <2>2, SameOn
<1> HIDE DEF M
<1>4. n \in M
  BY <1>2, <1>3, EveryNumber
<1> QED BY <1>1, <1>4 DEF M

(* The inverse of a factor.                                                *)
LEMMA InverseOfFactor ==
  ASSUME NEW u \in Int, NEW e \in Int, NEW d \in Int, ~Same(e, 0), ~Same(d, 0), Same(d, u * e)
  PROVE  /\ inverse(d) \in Int /\ inverse(e) \in Int
         /\ Same(u * inverse(d), inverse(e))
<1> DEFINE i == inverse(d)  k == inverse(e)
<1>1. i \in Int /\ k \in Int /\ Same(i * d, 1) /\ Same(k * e, 1)
  BY SameInverse
<1> HIDE DEF i, k
<1>2. Same(i * d, i * (u * e))
  <2>1. Same(i, i)
    BY <1>1, SameIs
  <2> QED BY <2>1, SameTimes
<1>3. Same(e * (u * i), 1)
  <2>1. Same(i * (u * e), i * d)
    BY <1>2, SameBack
  <2>2. Same(i * (u * e), 1)
    BY <1>1, <2>1, SameOn
  <2>3. i * (u * e) = e * (u * i)
    BY <1>1
  <2> QED BY <2>2, <2>3
<1>4. Same(e * (u * i), e * k)
  <2>1. Same(1, k * e)
    BY <1>1, SameBack
  <2>2. k * e = e * k
    BY <1>1
  <2>3. Same(e * (u * i), k * e)
    BY <1>3, <2>1, SameOn
  <2> QED BY <2>2, <2>3
<1>5. u * i \in Int
  BY <1>1
<1>6. Same(u * i, k)
  BY <1>1, <1>4, <1>5, SameCancels
<1> QED BY <1>1, <1>6 DEF i, k
-----------------------------------------------------------------------------
(* Interpolation at 0 through the points of a set J.                       *)
(* N points at different elements of the field.                            *)
Points(x, N) ==
  /\ x \in [1 .. N -> Int]
  /\ \A i, j \in 1 .. N : i # j => ~Same(x[j] - x[i], 0)

(* Numerator, denominator and weight of point j among those of J; the      *)
(* value at 0 of what takes the values y at the points of J.               *)
Above(x, N, J, j) == [m \in 1 .. N |-> IF m \in J \ {j} THEN -x[m] ELSE 1]
Below(x, N, J, j) == [m \in 1 .. N |-> IF m \in J \ {j} THEN x[j] - x[m] ELSE 1]
Weight(x, N, J, j) == Product(Above(x, N, J, j)) * inverse(Product(Below(x, N, J, j)))
Terms(x, N, J, y) == [j \in 1 .. N |-> IF j \in J THEN y[j] * Weight(x, N, J, j) ELSE 0]
AtNone(x, N, J, y) == Total(Terms(x, N, J, y))

(* The weights are numbers, for no denominator is 0 in the field.          *)
LEMMA WeightIs ==
  ASSUME NEW N \in Nat, NEW x, Points(x, N), NEW J \in SUBSET (1 .. N), NEW j \in J
  PROVE  /\ Above(x, N, J, j) \in [1 .. N -> Int] /\ Below(x, N, J, j) \in [1 .. N -> Int]
         /\ ~Same(Product(Below(x, N, J, j)), 0)
         /\ Product(Above(x, N, J, j)) \in Int /\ Product(Below(x, N, J, j)) \in Int
         /\ Weight(x, N, J, j) \in Int
<1>1. j \in 1 .. N /\ x[j] \in Int /\ \A m \in 1 .. N : x[m] \in Int /\ x[j] - x[m] \in Int /\ -x[m] \in Int
  BY DEF Points
<1>2. Above(x, N, J, j) \in [1 .. N -> Int]
  BY <1>1 DEF Above
<1>3. Below(x, N, J, j) \in [1 .. N -> Int]
  BY <1>1 DEF Below
<1>4. ASSUME NEW m \in 1 .. N PROVE ~Same(Below(x, N, J, j)[m], 0)
  BY <1>1, OneIsNotNone DEF Below, Points
<1>5. ~Same(Product(Below(x, N, J, j)), 0)
  BY <1>3, <1>4, ProductNotNone
<1>6. Product(Above(x, N, J, j)) \in Int /\ Product(Below(x, N, J, j)) \in Int
  BY <1>2, <1>3, ProductIs
<1>7. inverse(Product(Below(x, N, J, j))) \in Int
  BY <1>5, <1>6, SameInverse
<1> QED BY <1>2, <1>3, <1>5, <1>6, <1>7 DEF Weight

(* The weight of j among J, by its weight among J without a.               *)
LEMMA WeightWithout ==
  ASSUME NEW N \in Nat, NEW x, Points(x, N), NEW J \in SUBSET (1 .. N), NEW a \in J, NEW j \in J \ {a}
  PROVE  Same((x[j] - x[a]) * Weight(x, N, J, j), (-x[a]) * Weight(x, N, J \ {a}, j))
<1> DEFINE K == J \ {a}
           u == x[j] - x[a]
           n == Product(Above(x, N, J, j))
           p == Product(Above(x, N, K, j))
           d == Product(Below(x, N, J, j))
           e == Product(Below(x, N, K, j))
           i == inverse(d)
           k == inverse(e)
<1>0. /\ K \in SUBSET (1 .. N) /\ j \in K /\ j \in J /\ j \in 1 .. N /\ a \in 1 .. N
      /\ x[a] \in Int /\ u \in Int /\ -x[a] \in Int
  BY DEF Points
<1>1. /\ Above(x, N, J, j) \in [1 .. N -> Int] /\ Below(x, N, J, j) \in [1 .. N -> Int]
      /\ ~Same(d, 0) /\ n \in Int /\ d \in Int
  BY <1>0, WeightIs
<1>2. /\ Above(x, N, K, j) \in [1 .. N -> Int] /\ Below(x, N, K, j) \in [1 .. N -> Int]
      /\ ~Same(e, 0) /\ p \in Int /\ e \in Int
  BY <1>0, WeightIs
<1>3. Same(n, (-x[a]) * p)
  <2>1. Above(x, N, J, j)[a] = -x[a] /\ Above(x, N, K, j)[a] = 1
    BY <1>0 DEF Above
  <2>2. \A m \in 1 .. N : m # a => Above(x, N, K, j)[m] = Above(x, N, J, j)[m]
    BY <1>0 DEF Above
  <2>3. Same(n, Above(x, N, J, j)[a] * p)
    BY <1>0, <1>1, <1>2, <2>1, <2>2, ProductWithout
  <2> QED BY <2>1, <2>3
<1>4. Same(d, u * e)
  <2>1. Below(x, N, J, j)[a] = u /\ Below(x, N, K, j)[a] = 1
    BY <1>0 DEF Below
  <2>2. \A m \in 1 .. N : m # a => Below(x, N, K, j)[m] = Below(x, N, J, j)[m]
    BY <1>0 DEF Below
  <2>3. Same(d, Below(x, N, J, j)[a] * e)
    BY <1>0, <1>1, <1>2, <2>1, <2>2, ProductWithout
  <2> QED BY <2>1, <2>3
<1>5. Weight(x, N, J, j) = n * i /\ Weight(x, N, K, j) = p * k
  BY DEF Weight
<1> HIDE DEF n, p, d, e, u, K
<1>6. i \in Int /\ k \in Int /\ Same(u * i, k)
  BY <1>0, <1>1, <1>2, <1>4, InverseOfFactor
<1> HIDE DEF i, k
<1>7. Same(n * (u * i), ((-x[a]) * p) * k)
  BY <1>3, <1>6, SameTimes
<1>8. n * (u * i) = u * (n * i)
  BY <1>0, <1>1, <1>6
<1>9. ((-x[a]) * p) * k = (-x[a]) * (p * k)
  <2>1. \A c, q, l \in Int : (c * q) * l = c * (q * l)
    OBVIOUS
  <2> QED BY <1>0, <1>2, <1>6, <2>1
<1> QED BY <1>5, <1>7, <1>8, <1>9 DEF u, K

(* The terms are numbers.                                                  *)
LEMMA TermsAre ==
  ASSUME NEW N \in Nat, NEW x, Points(x, N), NEW J \in SUBSET (1 .. N), NEW y \in [1 .. N -> Int]
  PROVE  Terms(x, N, J, y) \in [1 .. N -> Int] /\ AtNone(x, N, J, y) \in Int
<1>1. ASSUME NEW j \in J PROVE y[j] * Weight(x, N, J, j) \in Int
  <2>1. Weight(x, N, J, j) \in Int /\ y[j] \in Int
    BY WeightIs
  <2> QED BY <2>1
<1>2. Terms(x, N, J, y) \in [1 .. N -> Int]
  BY <1>1 DEF Terms
<1> QED BY <1>2, TotalIs DEF AtNone

(* At the points of J the values w are r times the values y plus s times   *)
(* z.                                                                      *)
Linear(x, N, J, w, r, y, s, z) ==
  /\ N \in Nat /\ Points(x, N) /\ J \in SUBSET (1 .. N) /\ r \in Int /\ s \in Int
  /\ w \in [1 .. N -> Int] /\ y \in [1 .. N -> Int] /\ z \in [1 .. N -> Int]
  /\ \A j \in J : Same(w[j], Lin(r, y[j], s, z[j]))

(* Interpolation is linear in the values.                                  *)
LEMMA AtNoneLinear ==
  ASSUME NEW x, NEW N, NEW J, NEW w, NEW r, NEW y, NEW s, NEW z, Linear(x, N, J, w, r, y, s, z)
  PROVE  Same(AtNone(x, N, J, w), Lin(r, AtNone(x, N, J, y), s, AtNone(x, N, J, z)))
<1>0. /\ N \in Nat /\ Points(x, N) /\ J \in SUBSET (1 .. N) /\ r \in Int /\ s \in Int
      /\ w \in [1 .. N -> Int] /\ y \in [1 .. N -> Int] /\ z \in [1 .. N -> Int]
      /\ \A j \in J : Same(w[j], Lin(r, y[j], s, z[j]))
  BY DEF Linear
<1> DEFINE f == Terms(x, N, J, y)  g == Terms(x, N, J, z)  h == Terms(x, N, J, w)
<1>1. f \in [1 .. N -> Int] /\ g \in [1 .. N -> Int] /\ h \in [1 .. N -> Int]
  BY <1>0, TermsAre
<1>2. ASSUME NEW j \in 1 .. N PROVE Same(h[j], Lin(r, f[j], s, g[j]))
  <2>1. CASE j \in J
    <3> DEFINE v == Weight(x, N, J, j)
    <3>1. v \in Int /\ y[j] \in Int /\ z[j] \in Int
      BY <1>0, <2>1, WeightIs
    <3>2. h[j] = w[j] * v /\ f[j] = y[j] * v /\ g[j] = z[j] * v
      BY <2>1 DEF Terms
    <3> HIDE DEF v, f, g, h
    <3>3. Same(v, v)
      BY <3>1, SameIs
    <3>4. Same(w[j] * v, Lin(r, y[j], s, z[j]) * v)
      BY <1>0, <2>1, <3>3, SameTimes
    <3>5. Lin(r, y[j], s, z[j]) * v = r * (y[j] * v) + s * (z[j] * v)
      <4>1. (r * y[j] + s * z[j]) * v = (r * y[j]) * v + (s * z[j]) * v
        BY <1>0, <3>1
      <4>2. (r * y[j]) * v = r * (y[j] * v) /\ (s * z[j]) * v = s * (z[j] * v)
        BY <1>0, <3>1
      <4> QED BY <4>1, <4>2 DEF Lin
    <3> QED BY <3>2, <3>4, <3>5 DEF Lin
  <2>2. CASE j \notin J
    <3>1. h[j] = 0 /\ f[j] = 0 /\ g[j] = 0 /\ Lin(r, 0, s, 0) = 0
      BY <1>0, <2>2 DEF Terms, Lin
    <3> QED BY <3>1, SameIs
  <2> QED BY <2>1, <2>2
<1> HIDE DEF f, g, h
<1>3. Same(Total(h), Lin(r, Total(f), s, Total(g)))
  BY <1>0, <1>1, <1>2, TotalLinear
<1> QED BY <1>3 DEF AtNone, f, g, h

(* Values with a root at a point: that point may go.                       *)
LEMMA AtNoneWithout ==
  ASSUME NEW N \in Nat, NEW x, Points(x, N), NEW J \in SUBSET (1 .. N), NEW a \in J,
         NEW y \in [1 .. N -> Int], NEW z \in [1 .. N -> Int],
         \A j \in J : Same(z[j], (x[j] - x[a]) * y[j])
  PROVE  Same(AtNone(x, N, J, z), (-x[a]) * AtNone(x, N, J \ {a}, y))
<1> DEFINE K == J \ {a}  f == Terms(x, N, K, y)  h == Terms(x, N, J, z)
<1>0. K \in SUBSET (1 .. N) /\ a \in 1 .. N /\ x[a] \in Int /\ -x[a] \in Int /\ 0 \in Int
  BY DEF Points
<1>1. f \in [1 .. N -> Int] /\ h \in [1 .. N -> Int] /\ AtNone(x, N, K, y) \in Int
  BY <1>0, TermsAre
<1>2. ASSUME NEW j \in 1 .. N PROVE Same(h[j], Lin(-x[a], f[j], 0, f[j]))
  <2>0. f[j] \in Int
    BY <1>1
  <2>1. CASE j \in K
    <3> DEFINE v == Weight(x, N, J, j)  v2 == Weight(x, N, K, j)
    <3>1. v \in Int /\ v2 \in Int /\ y[j] \in Int /\ x[j] \in Int
      BY <1>0, <2>1, WeightIs DEF Points
    <3>2. h[j] = z[j] * v /\ f[j] = y[j] * v2
      BY <2>1 DEF Terms
    <3>3. Same((x[j] - x[a]) * v, (-x[a]) * v2)
      BY <2>1, WeightWithout
    <3> HIDE DEF v, v2, f, h
    <3>4. Same(v, v) /\ Same(y[j], y[j])
      BY <3>1, SameIs
    <3>5. Same(z[j] * v, ((x[j] - x[a]) * y[j]) * v)
      BY <2>1, <3>4, SameTimes
    <3>6. ((x[j] - x[a]) * y[j]) * v = y[j] * ((x[j] - x[a]) * v)
      BY <1>0, <3>1
    <3>7. Same(y[j] * ((x[j] - x[a]) * v), y[j] * ((-x[a]) * v2))
      BY <3>3, <3>4, SameTimes
    <3>8. y[j] * ((-x[a]) * v2) = Lin(-x[a], f[j], 0, f[j])
      <4>1. y[j] * ((-x[a]) * v2) = (-x[a]) * (y[j] * v2) /\ 0 * (y[j] * v2) = 0
        BY <1>0, <3>1
      <4>2. (-x[a]) * (y[j] * v2) \in Int
        BY <1>0, <3>1
      <4> QED BY <3>2, <4>1, <4>2 DEF Lin
    <3> QED BY <3>2, <3>5, <3>6, <3>7, <3>8, SameOn
  <2>2. CASE j = a
    <3> DEFINE v == Weight(x, N, J, a)
    <3>1. v \in Int /\ y[a] \in Int
      BY <1>0, WeightIs
    <3>2. h[j] = z[a] * v /\ f[j] = 0
      BY <2>2 DEF Terms
    <3> HIDE DEF v, f, h
    <3>3. (x[a] - x[a]) * y[a] = 0 /\ 0 * v = 0 /\ Lin(-x[a], 0, 0, 0) = 0
      BY <1>0, <3>1 DEF Lin
    <3>4. Same(z[a], 0) /\ Same(v, v)
      BY <3>1, <3>3, SameIs
    <3>5. Same(z[a] * v, 0 * v)
      BY <3>4, SameTimes
    <3> QED BY <3>2, <3>3, <3>5
  <2>3. CASE j \notin J
    <3>1. h[j] = 0 /\ f[j] = 0 /\ Lin(-x[a], 0, 0, 0) = 0
      BY <1>0, <2>3 DEF Terms, Lin
    <3> QED BY <3>1, SameIs
  <2> QED BY <2>1, <2>2, <2>3
<1> HIDE DEF f, h, K
<1>3. Same(Total(h), Lin(-x[a], Total(f), 0, Total(f)))
  BY <1>0, <1>1, <1>2, TotalLinear
<1>4. Total(f) \in Int
  BY <1>1, TotalIs
<1>5. Lin(-x[a], Total(f), 0, Total(f)) = (-x[a]) * Total(f)
  <2>1. (-x[a]) * Total(f) \in Int /\ 0 * Total(f) = 0
    BY <1>0, <1>4
  <2> QED BY <2>1 DEF Lin
<1> QED BY <1>3, <1>5 DEF AtNone, f, h, K

(* Sizes of sets of points.                                                *)
LEMMA SizeWithout ==
  ASSUME NEW N \in Nat, NEW J \in SUBSET (1 .. N)
  PROVE  /\ Cardinality(J) \in Nat
         /\ Cardinality(J) = 0 <=> J = {}
         /\ \A a \in J : Cardinality(J \ {a}) = Cardinality(J) - 1
<1>1. IsFiniteSet(1 .. N)
  BY FS_Interval
<1>2. IsFiniteSet(J)
  BY <1>1, FS_Subset
<1>3. Cardinality(J) \in Nat
  BY <1>2, FS_CardinalityType
<1>4. Cardinality(J) = 0 <=> J = {}
  BY <1>2, FS_EmptySet
<1>5. ASSUME NEW a \in J PROVE Cardinality(J \ {a}) = Cardinality(J) - 1
  BY <1>2, FS_RemoveElement
<1> QED BY <1>3, <1>4, <1>5

Ones(N) == [j \in 1 .. N |-> 1]

(* The value 1 at every point is 1 at 0.                                   *)
LEMMA AtNoneOfOnes ==
  ASSUME NEW N \in Nat, NEW x, Points(x, N), NEW J \in SUBSET (1 .. N), J # {}
  PROVE  Same(AtNone(x, N, J, Ones(N)), 1)
<1> DEFINE one == Ones(N)
           M == {m \in Nat : \A K \in SUBSET (1 .. N) :
                   Cardinality(K) = m + 1 => Same(AtNone(x, N, K, one), 1)}
<1>0. one \in [1 .. N -> Int] /\ \A j \in 1 .. N : one[j] = 1
  BY DEF Ones
<1> HIDE DEF one
<1>1. 0 \in M
  <2> SUFFICES ASSUME NEW K \in SUBSET (1 .. N), Cardinality(K) = 1 PROVE Same(AtNone(x, N, K, one), 1)
    OBVIOUS
  <2>1. PICK a \in K : TRUE
    BY SizeWithout
  <2>2. K \ {a} = {}
    <3>1. Cardinality(K \ {a}) = 0
      BY SizeWithout
    <3>2. K \ {a} \in SUBSET (1 .. N)
      OBVIOUS
    <3> QED BY <3>1, <3>2, SizeWithout
  <2>3. K = {a} /\ a \in 1 .. N
    BY <2>2
  <2> DEFINE d == Product(Below(x, N, K, a))  n == Product(Above(x, N, K, a))
  <2>4. /\ Above(x, N, K, a) \in [1 .. N -> Int] /\ Below(x, N, K, a) \in [1 .. N -> Int]
        /\ n \in Int /\ d \in Int /\ ~Same(d, 0)
    BY WeightIs
  <2>5. Same(d, 1) /\ Same(n, 1)
    <3>1. \A k \in 1 .. N : Above(x, N, K, a)[k] = 1 /\ Below(x, N, K, a)[k] = 1
      BY <2>2 DEF Above, Below
    <3> QED BY <2>4, <3>1, ProductOfOnes
  <2>6. Weight(x, N, K, a) = n * inverse(d)
    BY DEF Weight
  <2> HIDE DEF n, d
  <2> DEFINE i == inverse(d)
  <2>7. i \in Int /\ Same(i * d, 1)
    BY <2>4, SameInverse
  <2> HIDE DEF i
  <2>8. Same(i, 1)
    <3>1. Same(i, i) /\ Same(1, d)
      BY <2>5, <2>7, SameIs, SameBack
    <3>2. Same(i * 1, i * d)
      BY <3>1, SameTimes
    <3>3. i * 1 = i
      BY <2>7
    <3> QED BY <2>7, <3>2, <3>3, SameOn
  <2>9. Same(n * i, 1)
    <3>1. Same(n * i, 1 * 1)
      BY <2>5, <2>8, SameTimes
    <3> QED BY <3>1
  <2>10. Terms(x, N, K, one)[a] = n * i /\ \A k \in 1 .. N : k # a => Terms(x, N, K, one)[k] = 0
    <3>1. n * i \in Int /\ 1 * (n * i) = n * i
      BY <2>4, <2>7
    <3>2. Terms(x, N, K, one)[a] = one[a] * Weight(x, N, K, a)
      BY <2>3 DEF Terms
    <3>3. \A k \in 1 .. N : k # a => Terms(x, N, K, one)[k] = 0
      BY <2>3 DEF Terms
    <3> QED BY <1>0, <2>3, <2>6, <3>1, <3>2, <3>3 DEF i
  <2>11. Terms(x, N, K, one) \in [1 .. N -> Int]
    BY <1>0, TermsAre
  <2>12. Same(AtNone(x, N, K, one), n * i)
    BY <2>3, <2>10, <2>11, TotalSingle DEF AtNone
  <2> QED BY <2>9, <2>12, SameOn
<1>2. ASSUME NEW m \in Nat, m \in M PROVE m + 1 \in M
  <2> SUFFICES ASSUME NEW K \in SUBSET (1 .. N), Cardinality(K) = m + 2 PROVE Same(AtNone(x, N, K, one), 1)
    <3>1. (m + 1) + 1 = m + 2
      OBVIOUS
    <3> QED BY <3>1
  <2>1. PICK a \in K : TRUE
    BY SizeWithout
  <2>2. K \ {a} \in SUBSET (1 .. N) /\ Cardinality(K \ {a}) = m + 1
    <3>1. Cardinality(K \ {a}) = Cardinality(K) - 1
      BY SizeWithout
    <3> QED BY <3>1
  <2>3. PICK b \in K \ {a} : TRUE
    BY <2>2, SizeWithout
  <2>4. b \in K /\ K \ {b} \in SUBSET (1 .. N) /\ Cardinality(K \ {b}) = m + 1
    <3>1. Cardinality(K \ {b}) = Cardinality(K) - 1
      BY SizeWithout
    <3> QED BY <3>1
  <2>5. a \in 1 .. N /\ b \in 1 .. N /\ x[a] \in Int /\ x[b] \in Int /\ ~Same(x[b] - x[a], 0)
    BY <2>3 DEF Points
  <2> DEFINE S(L, y) == AtNone(x, N, L, y)
             u == x[b] - x[a]
             w == [j \in 1 .. N |-> u]
             za == [j \in 1 .. N |-> x[j] - x[a]]
             zb == [j \in 1 .. N |-> x[j] - x[b]]
  <2>6. w \in [1 .. N -> Int] /\ za \in [1 .. N -> Int] /\ zb \in [1 .. N -> Int] /\ u \in Int
    BY <2>5 DEF Points
  <2>7. \A j \in 1 .. N : x[j] \in Int /\ w[j] = u /\ za[j] = x[j] - x[a] /\ zb[j] = x[j] - x[b]
    BY DEF Points
  <2>8. w \in [1 .. N -> Int] /\ \A j \in K : j \in 1 .. N
    BY <2>6
  <2> HIDE DEF w, za, zb
  <2>9. S(K, one) \in Int /\ S(K, za) \in Int /\ S(K, zb) \in Int
    BY <1>0, <2>6, TermsAre
  <2>10. Same(S(K, w), Lin(u, S(K, one), 0, S(K, one)))
    <3>1. ASSUME NEW j \in K PROVE Same(w[j], Lin(u, one[j], 0, one[j]))
      <4>1. Lin(u, 1, 0, 1) = u
        BY <2>6 DEF Lin
      <4> QED BY <1>0, <2>6, <2>7, <2>8, <4>1, SameIs
    <3>2. Linear(x, N, K, w, u, one, 0, one)
      BY <1>0, <2>6, <3>1 DEF Linear
    <3> QED BY <3>2, AtNoneLinear
  <2>11. Same(S(K, w), Lin(1, S(K, za), -1, S(K, zb)))
    <3>1. ASSUME NEW j \in K PROVE Same(w[j], Lin(1, za[j], -1, zb[j]))
      <4>1. x[j] \in Int /\ w[j] = u /\ za[j] = x[j] - x[a] /\ zb[j] = x[j] - x[b]
        BY <2>7, <2>8
      <4>2. Lin(1, za[j], -1, zb[j]) = u
        BY <2>5, <4>1 DEF Lin
      <4> QED BY <2>6, <4>1, <4>2, SameIs
    <3>2. Linear(x, N, K, w, 1, za, -1, zb)
      BY <2>6, <3>1 DEF Linear
    <3> QED BY <3>2, AtNoneLinear
  <2>12. Same(S(K, za), (-x[a]) * S(K \ {a}, one))
    <3>1. ASSUME NEW j \in K PROVE Same(za[j], (x[j] - x[a]) * one[j])
      <4>1. (x[j] - x[a]) * 1 = x[j] - x[a] /\ x[j] - x[a] \in Int
        BY <2>5, <2>7, <2>8
      <4> QED BY <1>0, <2>7, <2>8, <4>1, SameIs
    <3> QED BY <1>0, <2>6, <3>1, AtNoneWithout
  <2>13. Same(S(K, zb), (-x[b]) * S(K \ {b}, one))
    <3>1. ASSUME NEW j \in K PROVE Same(zb[j], (x[j] - x[b]) * one[j])
      <4>1. (x[j] - x[b]) * 1 = x[j] - x[b] /\ x[j] - x[b] \in Int
        BY <2>5, <2>7, <2>8
      <4> QED BY <1>0, <2>7, <2>8, <4>1, SameIs
    <3> QED BY <1>0, <2>4, <2>6, <3>1, AtNoneWithout
  <2>14. Same(S(K \ {a}, one), 1) /\ Same(S(K \ {b}, one), 1)
    BY <1>2, <2>2, <2>4
  <2>15. Same(S(K, za), -x[a])
    <3>1. Same(-x[a], -x[a])
      BY <2>5, SameIs
    <3>2. Same((-x[a]) * S(K \ {a}, one), (-x[a]) * 1)
      BY <2>14, <3>1, SameTimes
    <3>3. (-x[a]) * 1 = -x[a]
      BY <2>5
    <3> QED BY <2>12, <3>2, <3>3, SameOn
  <2>16. Same(S(K, zb), -x[b])
    <3>1. Same(-x[b], -x[b])
      BY <2>5, SameIs
    <3>2. Same((-x[b]) * S(K \ {b}, one), (-x[b]) * 1)
      BY <2>14, <3>1, SameTimes
    <3>3. (-x[b]) * 1 = -x[b]
      BY <2>5
    <3> QED BY <2>13, <3>2, <3>3, SameOn
  <2> HIDE DEF S
  <2>17. Same(Lin(1, S(K, za), -1, S(K, zb)), u)
    <3>1. Same(1, 1) /\ Same(-1, -1)
      BY SameIs
    <3>2. Same(1 * S(K, za), 1 * (-x[a])) /\ Same((-1) * S(K, zb), (-1) * (-x[b]))
      BY <2>15, <2>16, <3>1, SameTimes
    <3>3. Same(1 * S(K, za) + (-1) * S(K, zb), 1 * (-x[a]) + (-1) * (-x[b]))
      BY <3>2, SameSum
    <3>4. 1 * (-x[a]) + (-1) * (-x[b]) = u
      BY <2>5
    <3> QED BY <3>3, <3>4 DEF Lin
  <2> HIDE DEF u
  <2>18. Same(u * S(K, one), u * 1)
    <3>1. Lin(u, S(K, one), 0, S(K, one)) = u * S(K, one) /\ u * 1 = u
      BY <2>6, <2>9 DEF Lin
    <3>2. Same(Lin(u, S(K, one), 0, S(K, one)), S(K, w))
      BY <2>10, SameBack
    <3> QED BY <2>11, <2>17, <3>1, <3>2, SameOn
  <2>19. Same(S(K, one), 1)
    BY <2>5, <2>6, <2>9, <2>18, SameCancels DEF u
  <2> QED BY <2>19 DEF S
<1> HIDE DEF M
<1>3. \A m \in Nat : m \in M
  BY <1>1, <1>2, EveryNumber
<1>4. PICK m \in Nat : Cardinality(J) = m + 1
  <2>1. Cardinality(J) \in Nat /\ Cardinality(J) # 0
    BY SizeWithout
  <2>2. Cardinality(J) - 1 \in Nat /\ Cardinality(J) = (Cardinality(J) - 1) + 1
    BY <2>1
  <2> QED BY <2>2
<1> QED BY <1>3, <1>4 DEF M, one

(* Values that are multiples of the point are 0 at 0, when the others agree *)
(* on 0 with and without a point.                                          *)
LEMMA AtNoneOfMultiples ==
  ASSUME NEW N \in Nat, NEW x, Points(x, N), NEW J \in SUBSET (1 .. N), NEW a \in J,
         NEW q \in [1 .. N -> Int], NEW h \in [1 .. N -> Int],
         \A j \in J : h[j] = q[j] * x[j],
         NEW v, Same(AtNone(x, N, J, q), v), Same(AtNone(x, N, J \ {a}, q), v)
  PROVE  Same(AtNone(x, N, J, h), 0)
<1> DEFINE S(L, y) == AtNone(x, N, L, y)
           c == x[a]
           z == [j \in 1 .. N |-> (x[j] - c) * q[j]]
<1>1. c \in Int /\ \A j \in J : j \in 1 .. N /\ x[j] \in Int /\ q[j] \in Int
  BY DEF Points
<1>2. z \in [1 .. N -> Int]
  <2>1. ASSUME NEW j \in 1 .. N PROVE (x[j] - c) * q[j] \in Int
    <3>1. x[j] - c \in Int /\ q[j] \in Int
      BY DEF Points
    <3> QED BY <3>1
  <2> QED BY <2>1
<1>3. \A j \in 1 .. N : z[j] = (x[j] - c) * q[j]
  OBVIOUS
<1> HIDE DEF z
<1>4. Same(S(J, z), (-c) * S(J \ {a}, q))
  <2>1. ASSUME NEW j \in J PROVE Same(z[j], (x[j] - x[a]) * q[j])
    <3>1. z[j] \in Int
      BY <1>1, <1>2
    <3> QED BY <1>1, <1>3, <3>1, SameIs
  <2> QED BY <1>2, <2>1, AtNoneWithout
<1>5. Same(S(J, h), Lin(1, S(J, z), c, S(J, q)))
  <2>1. ASSUME NEW j \in J PROVE Same(h[j], Lin(1, z[j], c, q[j]))
    <3>1. h[j] \in Int
      BY <1>1
    <3>2. Lin(1, z[j], c, q[j]) = h[j]
      <4>1. (x[j] - c) * q[j] = q[j] * x[j] - c * q[j]
        BY <1>1
      <4>2. q[j] * x[j] \in Int /\ c * q[j] \in Int
        BY <1>1
      <4>3. z[j] = (x[j] - c) * q[j] /\ h[j] = q[j] * x[j]
        BY <1>1, <1>3
      <4> QED BY <4>1, <4>2, <4>3 DEF Lin
    <3> QED BY <3>1, <3>2, SameIs
  <2>2. Linear(x, N, J, h, 1, z, c, q)
    BY <1>1, <1>2, <2>1 DEF Linear
  <2> QED BY <2>2, AtNoneLinear
<1>6. v \in Int /\ S(J, z) \in Int /\ S(J, q) \in Int
  BY <1>2, TermsAre DEF Same
<1> HIDE DEF S
<1>7. Same(-c, -c) /\ Same(c, c)
  BY <1>1, SameIs
<1>8. Same((-c) * S(J \ {a}, q), (-c) * v) /\ Same(c * S(J, q), c * v)
  BY <1>7, SameTimes DEF S
<1>9. Same(S(J, z), (-c) * v)
  BY <1>4, <1>8, SameOn
<1>10. Same(S(J, z) + c * S(J, q), (-c) * v + c * v)
  BY <1>8, <1>9, SameSum
<1>11. (-c) * v + c * v = 0
  <2>1. (-c) * v = -(c * v) /\ c * v \in Int
    BY <1>1, <1>6
  <2> QED BY <2>1
<1>12. Lin(1, S(J, z), c, S(J, q)) = S(J, z) + c * S(J, q)
  BY <1>6 DEF Lin
<1>13. Same(S(J, h), 0)
  BY <1>5, <1>10, <1>11, <1>12, SameOn
<1> QED BY <1>13 DEF S

(* The values of a polynomial at as many points as it has coefficients     *)
(* give its first coefficient.                                             *)
LEMMA AtNoneOfPolynomial ==
  ASSUME NEW N \in Nat, NEW x, Points(x, N), NEW J \in SUBSET (1 .. N),
         NEW n \in Nat, n # 0, Cardinality(J) = n, NEW c \in [1 .. n -> Field],
         NEW y \in [1 .. N -> Int], \A j \in 1 .. N : y[j] = _eval_poly(c, x[j])
  PROVE  Same(AtNone(x, N, J, y), c[1])
<1> DEFINE run(j) == CHOOSE F : EvalRun(F, c, x[j], n) /\ _eval_poly(c, x[j]) = F[n]
           E == [j \in 1 .. N |-> run(j)]
           col(m) == [j \in 1 .. N |-> E[j][m]]
           v(m) == IF m = 0 THEN 0 ELSE c[n + 1 - m]
           one == Ones(N)
           M == {m \in Nat : m <= n => \A K \in SUBSET (1 .. N) :
                   Cardinality(K) >= m => Same(AtNone(x, N, K, col(m)), v(m))}
<1>1. ASSUME NEW j \in 1 .. N PROVE x[j] \in Int /\ EvalRun(E[j], c, x[j], n) /\ y[j] = E[j][n]
  <2>1. x[j] \in Int
    BY DEF Points
  <2>2. \E F : EvalRun(F, c, x[j], n) /\ _eval_poly(c, x[j]) = F[n]
    BY <2>1, EvalRuns
  <2>3. EvalRun(run(j), c, x[j], n) /\ _eval_poly(c, x[j]) = run(j)[n]
    BY <2>2
  <2>4. E[j] = run(j)
    OBVIOUS
  <2> QED BY <2>1, <2>3, <2>4
<1> HIDE DEF run, E
<1>2. ASSUME NEW m \in Nat, m <= n
      PROVE  col(m) \in [1 .. N -> Int] /\ \A j \in 1 .. N : col(m)[j] = E[j][m]
  <2>1. ASSUME NEW j \in 1 .. N PROVE E[j][m] \in Int
    <3>1. m \in 0 .. n
      BY <1>2
    <3> QED BY <1>1, <3>1, PrimeIs DEF EvalRun
  <2> QED BY <2>1
<1> HIDE DEF col
<1>3. one \in [1 .. N -> Int] /\ \A j \in 1 .. N : one[j] = 1
  BY DEF Ones
<1>4. 0 \in M
  <2> SUFFICES ASSUME NEW K \in SUBSET (1 .. N) PROVE Same(AtNone(x, N, K, col(0)), 0)
    OBVIOUS
  <2>1. col(0) \in [1 .. N -> Int] /\ \A j \in 1 .. N : col(0)[j] = E[j][0]
    BY <1>2
  <2>2. ASSUME NEW j \in K PROVE Same(col(0)[j], Lin(0, one[j], 0, one[j]))
    <3>1. col(0)[j] = 0
      BY <1>1, <2>1 DEF EvalRun
    <3>2. Lin(0, one[j], 0, one[j]) = 0
      BY <1>3 DEF Lin
    <3> QED BY <3>1, <3>2, SameIs
  <2>3. Linear(x, N, K, col(0), 0, one, 0, one)
    BY <1>3, <2>1, <2>2 DEF Linear
  <2> HIDE DEF one
  <2>4. Same(AtNone(x, N, K, col(0)), Lin(0, AtNone(x, N, K, one), 0, AtNone(x, N, K, one)))
    BY <2>3, AtNoneLinear
  <2>5. AtNone(x, N, K, one) \in Int
    BY <1>3, TermsAre
  <2>6. Lin(0, AtNone(x, N, K, one), 0, AtNone(x, N, K, one)) = 0
    BY <2>5 DEF Lin
  <2> QED BY <2>4, <2>6
<1>5. ASSUME NEW m \in Nat, m \in M PROVE m + 1 \in M
  <2> SUFFICES ASSUME m + 1 <= n, NEW K \in SUBSET (1 .. N), Cardinality(K) >= m + 1
               PROVE Same(AtNone(x, N, K, col(m + 1)), c[n - m])
    <3>1. m + 1 # 0 /\ n + 1 - (m + 1) = n - m
      OBVIOUS
    <3> QED BY <3>1
  <2>1. K # {}
    <3>1. Cardinality(K) # 0
      OBVIOUS
    <3> QED BY <3>1, SizeWithout
  <2>2. PICK a \in K : TRUE
    BY <2>1
  <2>3. K \ {a} \in SUBSET (1 .. N) /\ Cardinality(K \ {a}) >= m
    <3>1. Cardinality(K \ {a}) = Cardinality(K) - 1 /\ Cardinality(K) \in Nat
      BY SizeWithout
    <3> QED BY <3>1
  <2> DEFINE q == col(m)  p == col(m + 1)  d == c[n - m]
             h == [j \in 1 .. N |-> q[j] * x[j]]
  <2>4. Same(AtNone(x, N, K, q), v(m)) /\ Same(AtNone(x, N, K \ {a}, q), v(m))
    <3>1. Cardinality(K) \in Nat
      BY SizeWithout
    <3>2. Cardinality(K) >= m
      BY <3>1
    <3> QED BY <1>5, <2>3, <3>2
  <2>5. /\ q \in [1 .. N -> Int] /\ \A j \in 1 .. N : q[j] = E[j][m]
        /\ p \in [1 .. N -> Int] /\ \A j \in 1 .. N : p[j] = E[j][m + 1]
    <3>1. m \in Nat /\ m <= n /\ m + 1 \in Nat
      OBVIOUS
    <3> QED BY <1>2, <3>1
  <2>6. h \in [1 .. N -> Int]
    <3>1. ASSUME NEW j \in 1 .. N PROVE q[j] * x[j] \in Int
      BY <1>1, <2>5
    <3> QED BY <3>1
  <2>7. \A j \in K : h[j] = q[j] * x[j]
    OBVIOUS
  <2>8. d \in Int
    <3>1. n - m \in 1 .. n
      OBVIOUS
    <3> QED BY <3>1, PrimeIs
  <2>9. ASSUME NEW j \in K PROVE Same(p[j], Lin(1, h[j], d, one[j]))
    <3>1. j \in 1 .. N /\ x[j] \in Int /\ EvalRun(E[j], c, x[j], n)
      BY <1>1
    <3>2. E[j][m] \in Int /\ Same(E[j][m + 1], E[j][m] * x[j] + d)
      BY <3>1, EvalStep
    <3>3. p[j] = E[j][m + 1] /\ q[j] = E[j][m]
      BY <2>5, <3>1
    <3>4. h[j] \in Int
      BY <2>6
    <3> HIDE DEF p, q, h, d
    <3>5. Lin(1, h[j], d, one[j]) = h[j] + d
      BY <1>3, <2>8, <3>4 DEF Lin
    <3> QED BY <2>7, <3>2, <3>3, <3>5 DEF d
  <2> HIDE DEF h, d, q, p, v, one
  <2>10. Same(AtNone(x, N, K, h), 0)
    BY <2>4, <2>5, <2>6, <2>7, AtNoneOfMultiples
  <2>11. Linear(x, N, K, p, 1, h, d, one)
    BY <1>3, <2>5, <2>6, <2>8, <2>9 DEF Linear
  <2>12. Same(AtNone(x, N, K, p), Lin(1, AtNone(x, N, K, h), d, AtNone(x, N, K, one)))
    BY <2>11, AtNoneLinear
  <2>13. Same(AtNone(x, N, K, one), 1)
    BY <2>1, AtNoneOfOnes DEF one
  <2>14. AtNone(x, N, K, h) \in Int
    BY <2>6, TermsAre
  <2>15. Same(d * AtNone(x, N, K, one), d * 1)
    <3>1. Same(d, d)
      BY <2>8, SameIs
    <3> QED BY <2>13, <3>1, SameTimes
  <2>16. Same(AtNone(x, N, K, h) + d * AtNone(x, N, K, one), 0 + d * 1)
    BY <2>10, <2>15, SameSum
  <2>17. 0 + d * 1 = d
    BY <2>8
  <2>18. Lin(1, AtNone(x, N, K, h), d, AtNone(x, N, K, one)) = AtNone(x, N, K, h) + d * AtNone(x, N, K, one)
    BY <2>14 DEF Lin
  <2>19. Same(AtNone(x, N, K, p), d)
    BY <2>12, <2>16, <2>17, <2>18, SameOn
  <2> QED BY <2>19 DEF p, d
<1> HIDE DEF M
<1>6. n \in M
  BY <1>4, <1>5, EveryNumber
<1>7. Same(AtNone(x, N, J, col(n)), v(n))
  BY <1>6 DEF M
<1>8. v(n) = c[1]
  <2>1. n + 1 - n = 1
    OBVIOUS
  <2> QED BY <2>1
<1>9. y = col(n)
  <2>1. col(n) \in [1 .. N -> Int] /\ \A j \in 1 .. N : col(n)[j] = y[j]
    BY <1>1, <1>2
  <2> QED BY <2>1
<1> QED BY <1>7, <1>8, <1>9

(* reconstruct interpolates at 0.                                          *)
LEMMA ReconstructIs ==
  ASSUME NEW t \in Nat, NEW x \in [1 .. t -> Int], NEW y \in [1 .. t -> Int]
  PROVE  reconstruct([k \in 1 .. t |-> <<x[k], y[k]>>]) = AtNone(x, t, 1 .. t, y)
<1> DEFINE shares == [k \in 1 .. t |-> <<x[k], y[k]>>]  J == 1 .. t
<1>1. DOMAIN shares = 1 .. t /\ \A k \in 1 .. t : shares[k][1] = x[k] /\ shares[k][2] = y[k]
  OBVIOUS
<1> HIDE DEF shares
<1>2. ASSUME NEW j \in 1 .. t PROVE Lagrange(shares, j) = Weight(x, t, J, j)
  <2>1. \A m \in 1 .. t : m \in J \ {j} <=> m # j
    OBVIOUS
  <2>2. [m \in DOMAIN shares |-> IF m = j THEN 1 ELSE -shares[m][1]] = Above(x, t, J, j)
    BY <1>1, <2>1 DEF Above
  <2>3. [m \in DOMAIN shares |-> IF m = j THEN 1 ELSE shares[j][1] - shares[m][1]] = Below(x, t, J, j)
    BY <1>1, <2>1 DEF Below
  <2> QED BY <2>2, <2>3 DEF Lagrange, Weight
<1>3. [j \in DOMAIN shares |-> shares[j][2] * Lagrange(shares, j)] = Terms(x, t, J, y)
  <2>1. \A j \in 1 .. t : shares[j][2] * Lagrange(shares, j) = y[j] * Weight(x, t, J, j)
    BY <1>1, <1>2
  <2>2. \A j \in 1 .. t : j \in J
    OBVIOUS
  <2> QED BY <1>1, <2>1, <2>2 DEF Terms
<1>4. reconstruct(shares) = AtNone(x, t, J, y)
  BY <1>3 DEF reconstruct, AtNone
<1> QED BY <1>4 DEF shares

Injective(order, t, n) ==
  /\ order \in [1 .. t -> 1 .. n]
  /\ \A i, j \in 1 .. t : order[i] = order[j] => i = j

(* Shamir: any t shares of any sharing, in any order, give the secret      *)
(* back, in every prime field with more elements than there are shares.    *)
THEOREM SharesReveal ==
  ASSUME NEW t \in Nat, t # 0, NEW sharing \in Sharing(t), NEW n \in Nat, n < PRIME,
         NEW order, Injective(order, t, n)
  PROVE  RevealedBy(sharing,
           [k \in 1 .. t |-> split(sharing.secret, sharing.random, n)[order[k]]])
<1> DEFINE c == <<sharing.secret>> \o sharing.random
           x == [k \in 1 .. t |-> order[k]]
           y == [k \in 1 .. t |-> _eval_poly(c, order[k])]
           J == 1 .. t
<1>1. sharing.secret \in Field /\ sharing.random \in [1 .. t - 1 -> Field]
  BY DEF Sharing
<1>2. c \in [1 .. t -> Field] /\ c[1] = sharing.secret
  <2>1. t - 1 \in Nat /\ 1 + (t - 1) = t
    OBVIOUS
  <2>2. sharing.random \in Seq(Field) /\ Len(sharing.random) = t - 1
    BY <1>1, <2>1, LenIs
  <2>3. <<sharing.secret>> \in Seq(Field) /\ Len(<<sharing.secret>>) = 1
    BY <1>1
  <2>4. c \in Seq(Field) /\ Len(c) = t /\ c[1] = sharing.secret
    BY <2>1, <2>2, <2>3
  <2> HIDE DEF c
  <2> QED BY <2>4
<1> HIDE DEF c
<1>3. \A k \in 1 .. t : order[k] \in 1 .. n /\ order[k] \in Int
  BY DEF Injective
<1>4. Points(x, t)
  <2>1. x \in [1 .. t -> Int]
    BY <1>3
  <2>2. ASSUME NEW i \in 1 .. t, NEW j \in 1 .. t, i # j, Same(x[j] - x[i], 0) PROVE FALSE
    <3>1. x[i] \in 1 .. n /\ x[j] \in 1 .. n /\ x[i] # x[j]
      BY <1>3, <2>2 DEF Injective
    <3> DEFINE u == x[j] - x[i]
    <3>2. u \in Int /\ -PRIME < u /\ u < PRIME /\ u # 0 /\ u - 0 = u
      BY <3>1, PrimeIs
    <3>3. Div(u - 0)
      BY <2>2 DEF Same
    <3> HIDE DEF u
    <3> QED BY <3>2, <3>3, Small
  <2> QED BY <2>1, <2>2 DEF Points
<1>5. y \in [1 .. t -> Int] /\ \A j \in 1 .. t : y[j] = _eval_poly(c, x[j])
  BY <1>2, <1>3, EvalIs
<1>6. [k \in 1 .. t |-> split(sharing.secret, sharing.random, n)[order[k]]] = [k \in 1 .. t |-> <<x[k], y[k]>>]
  BY <1>3 DEF split, c
<1>7. x \in [1 .. t -> Int]
  BY <1>4 DEF Points
<1> HIDE DEF x, y
<1>8. Cardinality(J) = t
  <2>1. Cardinality(1 .. t) = IF 1 <= t THEN t - 1 + 1 ELSE 0
    BY FS_Interval
  <2> QED BY <2>1
<1>9. J \in SUBSET (1 .. t)
  OBVIOUS
<1> HIDE DEF J
<1>10. Same(AtNone(x, t, J, y), c[1])
  BY <1>2, <1>4, <1>5, <1>8, <1>9, AtNoneOfPolynomial
<1>11. AtNone(x, t, J, y) \in Field
  <2>1. Terms(x, t, J, y) \in [1 .. t -> Int]
    BY <1>4, <1>5, <1>9, TermsAre
  <2> QED BY <2>1, TotalIs DEF AtNone
<1>12. AtNone(x, t, J, y) = sharing.secret
  BY <1>1, <1>2, <1>10, <1>11, SameIsEqual
<1> QED BY <1>5, <1>6, <1>7, <1>12, ReconstructIs DEF RevealedBy, J

-----------------------------------------------------------------------------
(* A polynomial with one more coefficient in front.                        *)
LEMMA PrependIs ==
  ASSUME NEW k \in Nat, NEW r \in [1 .. k -> Field], NEW s \in Field
  PROVE  /\ <<s>> \o r \in [1 .. k + 1 -> Field]
         /\ (<<s>> \o r)[1] = s
         /\ \A i \in 1 .. k : (<<s>> \o r)[i + 1] = r[i]
<1>1. r \in Seq(Field) /\ Len(r) = k
  BY LenIs
<1>2. <<s>> \in Seq(Field) /\ Len(<<s>>) = 1 /\ <<s>>[1] = s
  OBVIOUS
<1> DEFINE e == <<s>>
<1> HIDE DEF e
<1>3. e \o r \in Seq(Field) /\ Len(e \o r) = k + 1
  BY <1>1, <1>2 DEF e
<1>4. (e \o r)[1] = s
  BY <1>1, <1>2 DEF e
<1>5. ASSUME NEW i \in 1 .. k PROVE (e \o r)[i + 1] = r[i]
  BY <1>1, <1>2 DEF e
<1>6. e \o r \in [1 .. k + 1 -> Field]
  <2> DEFINE c == e \o r
  <2>1. c \in Seq(Field) /\ Len(c) = k + 1
    BY <1>3
  <2> HIDE DEF c
  <2>2. c \in [1 .. k + 1 -> Field]
    BY <2>1
  <2> QED BY <2>2 DEF c
<1> QED BY <1>4, <1>5, <1>6 DEF e

(* Its value, by Horner's rule.                                            *)
LEMMA EvalPrepend ==
  ASSUME NEW k \in Nat, NEW r \in [1 .. k -> Field], NEW s \in Field, NEW x \in Int
  PROVE  /\ _eval_poly(r, x) \in Int /\ _eval_poly(<<s>> \o r, x) \in Int
         /\ Same(_eval_poly(<<s>> \o r, x), x * _eval_poly(r, x) + s)
<1> DEFINE c == <<s>> \o r
<1>1. c \in [1 .. k + 1 -> Field] /\ c[1] = s /\ \A i \in 1 .. k : c[i + 1] = r[i]
  BY PrependIs
<1>2. k + 1 \in Nat
  OBVIOUS
<1> HIDE DEF c
<1>3. PICK F : EvalRun(F, r, x, k) /\ _eval_poly(r, x) = F[k]
  BY EvalRuns
<1>4. PICK G : EvalRun(G, c, x, k + 1) /\ _eval_poly(c, x) = G[k + 1]
  BY <1>1, <1>2, EvalRuns
<1> DEFINE M == {m \in Nat : m <= k => G[m] = F[m]}
<1>5. 0 \in M
  BY <1>3, <1>4 DEF EvalRun
<1>6. ASSUME NEW m \in Nat, m \in M PROVE m + 1 \in M
  <2> SUFFICES ASSUME m + 1 <= k PROVE G[m + 1] = F[m + 1]
    OBVIOUS
  <2>1. m + 1 \in 1 .. k /\ m + 1 \in 1 .. k + 1 /\ (m + 1) - 1 = m /\ k - m \in 1 .. k
        /\ k + 1 - (m + 1) = k - m /\ (k + 1) + 1 - (m + 1) = (k - m) + 1
    OBVIOUS
  <2>2. F[m + 1] = (F[m] * x + r[k - m]) % PRIME
    BY <1>3, <2>1 DEF EvalRun
  <2>3. G[m + 1] = (G[m] * x + c[(k - m) + 1]) % PRIME
    BY <1>4, <2>1 DEF EvalRun
  <2>4. c[(k - m) + 1] = r[k - m] /\ G[m] = F[m]
    BY <1>1, <1>6, <2>1
  <2> QED BY <2>2, <2>3, <2>4
<1> HIDE DEF M
<1>7. G[k] = F[k]
  <2>1. k \in M
    BY <1>5, <1>6, EveryNumber
  <2> QED BY <2>1 DEF M
<1>8. G[k] \in Int /\ Same(G[k + 1], G[k] * x + s)
  <2>1. k + 1 <= k + 1 /\ (k + 1) - k = 1
    OBVIOUS
  <2>2. G[k] \in Int /\ Same(G[k + 1], G[k] * x + c[(k + 1) - k])
    BY <1>1, <1>2, <1>4, <2>1, EvalStep
  <2> QED BY <1>1, <2>1, <2>2
<1>9. G[k] * x = x * F[k]
  BY <1>7, <1>8
<1>10. G[k + 1] \in Int
  BY <1>8 DEF Same
<1> QED BY <1>3, <1>4, <1>7, <1>8, <1>9, <1>10 DEF c

(* Every polynomial but the empty one is another with one in front.        *)
LEMMA SplitFirst ==
  ASSUME NEW k \in Nat, NEW f \in [1 .. k + 1 -> Field]
  PROVE  \E s \in Field, r \in [1 .. k -> Field] : f = <<s>> \o r
<1> DEFINE s == f[1]  r == [i \in 1 .. k |-> f[i + 1]]
<1>1. s \in Field /\ r \in [1 .. k -> Field]
  <2>1. 1 \in 1 .. k + 1 /\ \A i \in 1 .. k : i + 1 \in 1 .. k + 1
    OBVIOUS
  <2> QED BY <2>1
<1>2. \A i \in 1 .. k : r[i] = f[i + 1]
  OBVIOUS
<1>3. /\ <<s>> \o r \in [1 .. k + 1 -> Field] /\ (<<s>> \o r)[1] = s
      /\ \A i \in 1 .. k : (<<s>> \o r)[i + 1] = r[i]
  <2> HIDE DEF s, r
  <2> QED BY <1>1, PrependIs
<1> DEFINE c == <<s>> \o r
<1> HIDE DEF r, c
<1>4. ASSUME NEW i \in 1 .. k + 1 PROVE c[i] = f[i]
  <2>1. CASE i = 1
    BY <1>3, <2>1 DEF c
  <2>2. CASE i # 1
    <3>1. i - 1 \in 1 .. k /\ (i - 1) + 1 = i
      BY <2>2
    <3>2. c[(i - 1) + 1] = r[i - 1] /\ r[i - 1] = f[(i - 1) + 1]
      BY <1>2, <1>3, <3>1 DEF c
    <3> QED BY <3>1, <3>2
  <2> QED BY <2>1, <2>2
<1>5. c = f
  BY <1>3, <1>4 DEF c
<1> QED BY <1>1, <1>5 DEF c

(* (x - a) times a polynomial, plus y, is a polynomial with one            *)
(* coefficient more.                                                       *)
Raised(c, r, a, y) == \A x \in Int : Same(_eval_poly(c, x), (x - a) * _eval_poly(r, x) + y)

LEMMA RaisedExists ==
  ASSUME NEW k \in Nat, NEW r \in [1 .. k -> Field], NEW a \in Int, NEW y \in Field
  PROVE  \E c \in [1 .. k + 1 -> Field] : Raised(c, r, a, y)
<1> DEFINE M == {m \in Nat : \A f \in [1 .. m -> Field], z \in Field :
                   \E c \in [1 .. m + 1 -> Field] : Raised(c, f, a, z)}
<1>1. 0 \in M
  <2> SUFFICES ASSUME NEW f \in [1 .. 0 -> Field], NEW z \in Field
               PROVE \E c \in [1 .. 0 + 1 -> Field] : Raised(c, f, a, z)
    OBVIOUS
  <2> DEFINE c == <<z>> \o f
  <2>1. c \in [1 .. 0 + 1 -> Field]
    BY PrependIs
  <2>2. ASSUME NEW x \in Int PROVE Same(_eval_poly(c, x), (x - a) * _eval_poly(f, x) + z)
    <3>1. Same(_eval_poly(c, x), x * _eval_poly(f, x) + z)
      BY EvalPrepend
    <3>2. _eval_poly(f, x) = 0
      <4>1. PICK F : EvalRun(F, f, x, 0) /\ _eval_poly(f, x) = F[0]
        BY EvalRuns
      <4> QED BY <4>1 DEF EvalRun
    <3>3. x * 0 + z = (x - a) * 0 + z
      OBVIOUS
    <3> QED BY <3>1, <3>2, <3>3
  <2> HIDE DEF c
  <2> QED BY <2>1, <2>2 DEF Raised
<1>2. ASSUME NEW m \in Nat, m \in M PROVE m + 1 \in M
  <2> SUFFICES ASSUME NEW f \in [1 .. m + 1 -> Field], NEW z \in Field
               PROVE \E c \in [1 .. (m + 1) + 1 -> Field] : Raised(c, f, a, z)
    OBVIOUS
  <2>1. PICK s \in Field, q \in [1 .. m -> Field] : f = <<s>> \o q
    BY SplitFirst
  <2>2. PICK d \in [1 .. m + 1 -> Field] : Raised(d, q, a, s)
    BY <1>2, <2>1
  <2> DEFINE w == (z - a * s) % PRIME
             c == <<w>> \o d
  <2>3. s \in Int /\ z \in Int /\ z - a * s \in Int
    BY PrimeIs
  <2>4. w \in Field /\ Same(w, z - a * s)
    BY <2>3, Remainder, SameRemainder
  <2> HIDE DEF w
  <2>5. c \in [1 .. (m + 1) + 1 -> Field]
    <3>1. m + 1 \in Nat
      OBVIOUS
    <3> QED BY <2>4, <3>1, PrependIs
  <2>6. ASSUME NEW x \in Int PROVE Same(_eval_poly(c, x), (x - a) * _eval_poly(f, x) + z)
    <3> DEFINE e == _eval_poly(q, x)  g == _eval_poly(f, x)  h == _eval_poly(d, x)
    <3>1. e \in Int /\ g \in Int /\ Same(g, x * e + s)
      BY <2>1, EvalPrepend
    <3>2. h \in Int /\ Same(_eval_poly(c, x), x * h + w)
      <4>1. m + 1 \in Nat
        OBVIOUS
      <4> QED BY <2>4, <4>1, EvalPrepend
    <3>3. Same(h, (x - a) * e + s)
      BY <2>2 DEF Raised
    <3> HIDE DEF e, g, h, c
    <3>4. Same(x, x) /\ Same(x - a, x - a) /\ Same(z, z)
      BY <2>3, SameIs
    <3>5. Same(x * h + w, x * ((x - a) * e + s) + (z - a * s))
      <4>1. Same(x * h, x * ((x - a) * e + s))
        BY <3>3, <3>4, SameTimes
      <4> QED BY <2>4, <4>1, SameSum
    <3>6. Same((x - a) * g + z, (x - a) * (x * e + s) + z)
      <4>1. Same((x - a) * g, (x - a) * (x * e + s))
        BY <3>1, <3>4, SameTimes
      <4> QED BY <3>4, <4>1, SameSum
    <3>7. x * ((x - a) * e + s) + (z - a * s) = (x - a) * (x * e + s) + z
      <4> DEFINE u == x - a
      <4>1. u \in Int /\ x = u + a
        OBVIOUS
      <4> HIDE DEF u
      <4>2. x * (u * e + s) = x * (u * e) + x * s /\ u * (x * e + s) = u * (x * e) + u * s
        BY <2>3, <3>1, <4>1
      <4>3. x * (u * e) = u * (x * e) /\ u * (x * e) \in Int
        BY <3>1, <4>1
      <4>4. x * s = u * s + a * s /\ u * s \in Int /\ a * s \in Int
        BY <2>3, <4>1
      <4>5. x * (u * e + s) + (z - a * s) = u * (x * e + s) + z
        BY <2>3, <4>2, <4>3, <4>4
      <4> QED BY <4>5 DEF u
    <3>8. Same((x - a) * (x * e + s) + z, (x - a) * g + z)
      BY <3>6, SameBack
    <3>9. Same(_eval_poly(c, x), (x - a) * (x * e + s) + z)
      BY <3>2, <3>5, <3>7, SameOn
    <3>10. Same(_eval_poly(c, x), (x - a) * g + z)
      BY <3>8, <3>9, SameOn
    <3> QED BY <3>10 DEF g
  <2> HIDE DEF c
  <2> QED BY <2>5, <2>6 DEF Raised
<1> HIDE DEF M
<1>3. k \in M
  BY <1>1, <1>2, EveryNumber
<1> QED BY <1>3 DEF M

(* The slope that leads from w to v over a distance d.                     *)
LEMMA SlopeIs ==
  ASSUME NEW d \in Int, ~Same(d, 0), NEW v \in Int, NEW w \in Int
  PROVE  /\ ((v - w) * inverse(d)) % PRIME \in Field
         /\ \A e \in Int : Same(e, ((v - w) * inverse(d)) % PRIME) => Same(d * e + w, v)
<1> DEFINE i == inverse(d)  u == v - w  q == (u * i) % PRIME
<1>1. i \in Int /\ Same(i * d, 1)
  BY SameInverse
<1>2. u \in Int
  OBVIOUS
<1> HIDE DEF i, u
<1>3. u * i \in Int
  BY <1>1, <1>2
<1>4. q \in Field /\ Same(q, u * i)
  BY <1>3, Remainder, SameRemainder
<1> HIDE DEF q
<1>5. ASSUME NEW e \in Int, Same(e, q) PROVE Same(d * e + w, v)
  <2>1. Same(e, u * i)
    BY <1>4, <1>5, SameOn
  <2>2. Same(d, d) /\ Same(u, u) /\ Same(w, w)
    BY <1>2, SameIs
  <2>3. Same(d * e, d * (u * i)) /\ Same(u * (i * d), u * 1)
    BY <1>1, <2>1, <2>2, SameTimes
  <2>4. d * (u * i) = u * (i * d) /\ u * 1 = u
    BY <1>1, <1>2
  <2>5. Same(d * e, u)
    BY <2>3, <2>4, SameOn
  <2>6. Same(d * e + w, u + w)
    BY <2>2, <2>5, SameSum
  <2>7. u + w = v
    BY DEF u
  <2> QED BY <2>6, <2>7
<1> QED BY <1>4, <1>5 DEF q, u, i

(* Different elements of the field differ by what is not 0 in it.          *)
LEMMA Apart ==
  ASSUME NEW a \in Field, NEW b \in Field, a # b
  PROVE  a - b \in Int /\ ~Same(a - b, 0)
<1> DEFINE u == a - b
<1>1. u \in Int /\ -PRIME < u /\ u < PRIME /\ u # 0 /\ u - 0 = u
  BY PrimeIs DEF Field
<1> HIDE DEF u
<1>2. ~Same(u, 0)
  BY <1>1, Small DEF Same
<1> QED BY <1>1, <1>2 DEF u

(* Through any values at distinct points goes a polynomial with a          *)
(* coefficient for each.                                                   *)
LEMMA Interpolates ==
  ASSUME NEW k \in Nat, NEW I \in SUBSET (1 .. PRIME - 1), Cardinality(I) <= k, NEW v \in [I -> Field]
  PROVE  \E c \in [1 .. k -> Field] : \A i \in I : Same(_eval_poly(c, i), v[i])
<1> DEFINE N == PRIME - 1
           Through(c, K, z) == \A i \in K : Same(_eval_poly(c, i), z[i])
           M == {m \in Nat : \A K \in SUBSET (1 .. N) : Cardinality(K) <= m =>
                   \A z \in [K -> Field] : \E c \in [1 .. m -> Field] : Through(c, K, z)}
<1>0. N \in Nat /\ \A i \in 1 .. N : i \in Field /\ i \in Int
  BY PrimeIs DEF Field
<1> HIDE DEF N
<1>1. 0 \in M
  <2> SUFFICES ASSUME NEW K \in SUBSET (1 .. N), Cardinality(K) <= 0, NEW z \in [K -> Field]
               PROVE \E c \in [1 .. 0 -> Field] : Through(c, K, z)
    OBVIOUS
  <2>1. K = {}
    <3>1. Cardinality(K) \in Nat
      BY <1>0, SizeWithout
    <3>2. Cardinality(K) = 0
      BY <3>1
    <3> QED BY <1>0, <3>2, SizeWithout
  <2>2. [i \in 1 .. 0 |-> 0] \in [1 .. 0 -> Field]
    OBVIOUS
  <2> QED BY <2>1, <2>2
<1>2. ASSUME NEW m \in Nat, m \in M PROVE m + 1 \in M
  <2> SUFFICES ASSUME NEW K \in SUBSET (1 .. N), Cardinality(K) <= m + 1, NEW z \in [K -> Field]
               PROVE \E c \in [1 .. m + 1 -> Field] : Through(c, K, z)
    OBVIOUS
  <2>1. CASE K = {}
    <3>1. [i \in 1 .. m + 1 |-> 0] \in [1 .. m + 1 -> Field]
      BY PrimeIs
    <3> QED BY <2>1, <3>1
  <2>2. ASSUME NEW a \in K PROVE \E c \in [1 .. m + 1 -> Field] : Through(c, K, z)
    <3> DEFINE L == K \ {a}
               slope(i) == ((z[i] - z[a]) * inverse(i - a)) % PRIME
               q == [i \in L |-> slope(i)]
    <3>1. L \in SUBSET (1 .. N) /\ Cardinality(L) <= m
      <4>1. Cardinality(L) = Cardinality(K) - 1 /\ Cardinality(K) \in Nat
        BY <1>0, SizeWithout
      <4> QED BY <4>1
    <3>2. a \in Field /\ a \in Int /\ z[a] \in Field /\ z[a] \in Int
      BY <1>0, PrimeIs
    <3>3. ASSUME NEW i \in L
          PROVE /\ i \in Int /\ slope(i) \in Field
                /\ \A e \in Int : Same(e, slope(i)) => Same((i - a) * e + z[a], z[i])
      <4>1. i \in Field /\ i \in Int /\ i # a /\ z[i] \in Int
        BY <1>0, PrimeIs
      <4>2. i - a \in Int /\ ~Same(i - a, 0)
        BY <3>2, <4>1, Apart
      <4> QED BY <3>2, <4>1, <4>2, SlopeIs
    <3> HIDE DEF slope
    <3>4. q \in [L -> Field] /\ \A i \in L : q[i] = slope(i)
      BY <3>3
    <3> HIDE DEF q
    <3>5. PICK d \in [1 .. m -> Field] : Through(d, L, q)
      BY <1>2, <3>1, <3>4
    <3>6. PICK c \in [1 .. m + 1 -> Field] : Raised(c, d, a, z[a])
      BY <3>2, RaisedExists
    <3>7. ASSUME NEW i \in K PROVE Same(_eval_poly(c, i), z[i])
      <4> DEFINE e == _eval_poly(d, i)
      <4>1. i \in Int
        BY <1>0
      <4>2. e \in Int
        BY <4>1, EvalIs
      <4>3. Same(_eval_poly(c, i), (i - a) * e + z[a])
        BY <3>6, <4>1 DEF Raised
      <4>4. CASE i = a
        <5>1. (a - a) * e + z[a] = z[a]
          <6>1. (a - a) * e = 0
            BY <3>2, <4>2
          <6> QED BY <3>2, <6>1
        <5> QED BY <4>3, <4>4, <5>1
      <4>5. CASE i # a
        <5>1. i \in L /\ Same(e, slope(i))
          BY <3>4, <3>5, <4>5
        <5>2. Same((i - a) * e + z[a], z[i])
          BY <3>3, <4>2, <5>1
        <5> QED BY <4>3, <5>2, SameOn
      <4> QED BY <4>4, <4>5
    <3> QED BY <3>7
  <2> QED BY <2>1, <2>2
<1> HIDE DEF M
<1>3. k \in M
  BY <1>1, <1>2, EveryNumber
<1> QED BY <1>3 DEF M, N

(* Shamir: fewer than t shares fit every secret of the field.              *)
THEOREM FewerTellNothing ==
  ASSUME NEW t \in Nat, NEW I \in SUBSET (1 .. PRIME - 1), Cardinality(I) < t,
         NEW values \in [I -> Field]
  PROVE  Fitting(t, values) = Field
<1> SUFFICES ASSUME NEW s \in Field
             PROVE  \E r \in [1 .. t - 1 -> Field] :
                      \A i \in I : _eval_poly(<<s>> \o r, i) = values[i]
  BY DEF Fitting
<1>0. /\ PRIME - 1 \in Nat /\ 0 \in Field /\ s \in Int
      /\ \A i \in I : i \in Field /\ i \in Int /\ i # 0 /\ values[i] \in Field /\ values[i] \in Int
  BY PrimeIs DEF Field
<1>1. t - 1 \in Nat /\ Cardinality(I) <= t - 1
  <2>1. Cardinality(I) \in Nat
    BY <1>0, SizeWithout
  <2> QED BY <2>1
<1> DEFINE slope(i) == ((values[i] - s) * inverse(i)) % PRIME
           q == [i \in I |-> slope(i)]
<1>2. ASSUME NEW i \in I
      PROVE slope(i) \in Field /\ \A e \in Int : Same(e, slope(i)) => Same(i * e + s, values[i])
  <2>1. i \in Int /\ ~Same(i, 0)
    <3>1. i - 0 = i /\ ~Same(i - 0, 0)
      BY <1>0, Apart
    <3> QED BY <1>0, <3>1
  <2> QED BY <1>0, <2>1, SlopeIs
<1> HIDE DEF slope
<1>3. q \in [I -> Field] /\ \A i \in I : q[i] = slope(i)
  BY <1>2
<1> HIDE DEF q
<1>4. PICK r \in [1 .. t - 1 -> Field] : \A i \in I : Same(_eval_poly(r, i), q[i])
  BY <1>1, <1>3, Interpolates
<1>5. ASSUME NEW i \in I PROVE _eval_poly(<<s>> \o r, i) = values[i]
  <2> DEFINE e == _eval_poly(r, i)  c == <<s>> \o r
  <2>1. e \in Int /\ Same(_eval_poly(c, i), i * e + s)
    BY <1>0, <1>1, EvalPrepend
  <2>2. Same(i * e + s, values[i])
    BY <1>2, <1>3, <1>4, <2>1
  <2>3. _eval_poly(c, i) \in Field
    <3>1. c \in [1 .. (t - 1) + 1 -> Field] /\ (t - 1) + 1 \in Nat
      BY <1>1, PrependIs
    <3> HIDE DEF c
    <3> QED BY <1>0, <3>1, EvalIs
  <2> HIDE DEF e, c
  <2>4. Same(_eval_poly(c, i), values[i])
    BY <2>1, <2>2, SameOn
  <2>5. _eval_poly(c, i) = values[i]
    BY <1>0, <2>3, <2>4, SameIsEqual
  <2> QED BY <2>5 DEF c
<1> QED BY <1>4, <1>5

(* SharesRevealExactly: every sharing and order of shares, over any prime  *)
(* field with more elements than there are shares.                         *)
THEOREM SharesRevealExactlyHolds == Spec => []SharesRevealExactly
<1>1. Init => SharesRevealExactly
  <2> SUFFICES ASSUME Init, input.of = "shares" PROVE SharesRevealExactly
    BY DEF SharesRevealExactly
  <2>1. input \in ShareInputs
    BY DEF Init, SumInputs, TextInputs
  <2>2. PICK t \in 1 .. MaxShares :
          input \in [of : {"shares"}, t : {t}, sharing : Sharing(t), order : Ordered(1 .. MaxShares, t)]
    BY <2>1 DEF ShareInputs
  <2> DEFINE sharing == input.sharing  order == input.order
             all == split(sharing.secret, sharing.random, MaxShares)
             I == {order[k] : k \in 1 .. t - 1}
             values == [i \in I |-> all[i][2]]
  <2>3. input.t = t /\ sharing \in Sharing(t) /\ order \in Ordered(1 .. MaxShares, t)
    BY <2>2
  <2>4. t \in Nat /\ t # 0 /\ MaxShares \in Nat /\ MaxShares < PRIME /\ t - 1 \in Nat
    BY SharesAssumption
  <2>5. Injective(order, t, MaxShares)
    BY <2>3 DEF Ordered, Injective
  <2> HIDE DEF sharing, order
  <2>6. RevealedBy(sharing, [k \in 1 .. t |-> all[order[k]]])
    BY <2>3, <2>4, <2>5, SharesReveal
  <2>7. \A k \in 1 .. t - 1 : k \in 1 .. t /\ order[k] \in 1 .. MaxShares
    BY <2>5 DEF Injective
  <2>8. I \in SUBSET (1 .. MaxShares) /\ I \in SUBSET (1 .. PRIME - 1)
    <3>1. 1 .. MaxShares \subseteq 1 .. PRIME - 1
      BY <2>4, PrimeIs
    <3> QED BY <2>7, <3>1
  <2>9. Cardinality(I) < t
    <3> DEFINE f == [k \in 1 .. t - 1 |-> order[k]]
    <3>1. f \in Surjection(1 .. t - 1, I)
      BY DEF Surjection
    <3>2. ExistsSurjection(1 .. t - 1, I)
      BY <3>1 DEF ExistsSurjection
    <3> HIDE DEF I
    <3>3. Cardinality(I) <= t - 1
      BY <2>4, <3>2, FS_SurjCardinalityBound
    <3>4. Cardinality(I) \in Nat
      BY <2>4, <2>8, SizeWithout
    <3> QED BY <2>4, <3>3, <3>4
  <2>10. values \in [I -> Field]
    <3>1. sharing.secret \in Field /\ sharing.random \in [1 .. t - 1 -> Field]
      BY <2>3 DEF Sharing
    <3> DEFINE c == <<sharing.secret>> \o sharing.random
    <3>2. c \in [1 .. (t - 1) + 1 -> Field] /\ (t - 1) + 1 \in Nat
      BY <2>4, <3>1, PrependIs
    <3>3. ASSUME NEW i \in 1 .. MaxShares PROVE all[i][2] = _eval_poly(c, i)
      BY DEF split
    <3> HIDE DEF c, all
    <3>4. ASSUME NEW i \in 1 .. MaxShares PROVE all[i][2] \in Field
      BY <3>2, <3>3, EvalIs
    <3> QED BY <2>8, <3>4
  <2> HIDE DEF I, values
  <2>11. Fitting(t, values) = Field
    BY <2>4, <2>8, <2>9, <2>10, FewerTellNothing
  <2> QED BY <2>3, <2>6, <2>11 DEF SharesRevealExactly, sharing, order, I, values
<1>2. SharesRevealExactly /\ [Next]_input => SharesRevealExactly'
  BY DEF Next, SharesRevealExactly
<1> QED
  BY <1>1, <1>2, PTL DEF Spec
=============================================================================
