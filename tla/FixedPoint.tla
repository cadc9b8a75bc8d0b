------------------------------ MODULE FixedPoint ------------------------------
(***************************************************************************)
(* Fixed-point coding of updates for the sum mod 2^32                      *)
(* (fl/protocol/quantize.py, uint32 additions in fl/protocol/secagg.py).   *)
(* A value, finite, is a multiple of clip / UNIT; a level is 2 * UNIT parts *)
(* and an update comes with the error float32 makes in its product, in     *)
(* parts.  With 24 bits and 2^20 - 1 levels that of rounding clip, the sum *)
(* v + clip, scale and the product is at most 1/16 level each, as long as  *)
(* clip is no extreme of float32: SLACK is a quarter of a level there.     *)
(* dequantize_sum is float64, whose error, below 2^-18 level, is left out. *)
(***************************************************************************)
EXTENDS Integers, Sequences

CONSTANTS UNIT, SLACK, LEVELS, MODULUS

ASSUME FixedPointAssumption ==
  /\ UNIT \in Nat \ {0} /\ LEVELS \in Nat \ {0} /\ MODULUS \in Nat \ {0}
  /\ SLACK \in Nat /\ SLACK < UNIT

Clipped(v) == IF v < -UNIT THEN -UNIT ELSE IF v > UNIT THEN UNIT ELSE v

\* np.round: to the nearest integer, a tie to the even one; b > 0.
Rounded(a, b) ==
  LET down == a \div b  rest == a - b * down IN
  IF 2 * rest < b \/ (2 * rest = b /\ down % 2 = 0) THEN down ELSE down + 1

\* (v + clip) * scale as float32 has it, in parts; never negative.
InParts(update) ==
  LET p == (Clipped(update.value) + UNIT) * LEVELS + update.error IN IF p < 0 THEN 0 ELSE p

quantize(update) == Rounded(InParts(update), 2 * UNIT)

\* Mutant: a signed accumulator of the same width.
AddSigned(total, q) ==
  LET s == (total + q) % MODULUS IN IF 2 * s >= MODULUS THEN s - MODULUS ELSE s

Add(total, q) == (total + q) % MODULUS

\* The sum of quantised updates, masks left out.
aggregate(updates) ==
  LET total[n \in 0 .. Len(updates)] ==
        IF n = 0 THEN 0 ELSE Add(total[n - 1], quantize(updates[n]))
  IN total[Len(updates)]

\* dequantize_sum times LEVELS, to stay within the integers.
dequantize_sum(q_sum, num_clients) == 2 * UNIT * q_sum - LEVELS * UNIT * num_clients

Distance(a, b) == IF a < b THEN b - a ELSE a - b

\* A sum of n updates is off by half a level and the error of float32 per client at most.
WithinRounding(q_sum, exact, n) ==
  Distance(dequantize_sum(q_sum, n), LEVELS * exact) <= n * (UNIT + SLACK)

\* The sum of the clipped updates.
ExactSum(updates) ==
  LET total[n \in 0 .. Len(updates)] ==
        IF n = 0 THEN 0 ELSE total[n - 1] + Clipped(updates[n].value)
  IN total[Len(updates)]

Fits(n) == n * LEVELS < MODULUS
=============================================================================
