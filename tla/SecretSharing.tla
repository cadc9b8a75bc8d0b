----------------------------- MODULE SecretSharing -----------------------------
(***************************************************************************)
(* Shamir's t-of-n sharing of a secret over a prime field, and its         *)
(* reconstruction (fl/protocol/shamir.py).  The field of the code has      *)
(* 2^521 - 1 elements; here the prime is a parameter.                      *)
(***************************************************************************)
EXTENDS Integers, Sequences, FiniteSets

CONSTANT PRIME

ASSUME PrimeAssumption ==
  PRIME \in Nat \ {0, 1} /\ \A d \in 2 .. PRIME - 1 : PRIME % d # 0

Field == 0 .. PRIME - 1

\* Horner's rule, from the last coefficient to the first.
_eval_poly(coeffs, x) ==
  LET n == Len(coeffs)
      acc[k \in 0 .. n] == IF k = 0 THEN 0 ELSE (acc[k - 1] * x + coeffs[n + 1 - k]) % PRIME
  IN acc[n]

\* "random" are the coefficients that are drawn; share i is the value at i.
split(secret, random, num_shares) ==
  [i \in 1 .. num_shares |-> <<i, _eval_poly(<<secret>> \o random, i)>>]

inverse(d) == CHOOSE i \in Field : (i * d) % PRIME = 1

\* num and den of reconstruct, and its total.
Product(factors) ==
  LET acc[k \in 0 .. Len(factors)] == IF k = 0 THEN 1 ELSE (acc[k - 1] * factors[k]) % PRIME
  IN acc[Len(factors)]

Total(terms) ==
  LET acc[k \in 0 .. Len(terms)] == IF k = 0 THEN 0 ELSE (acc[k - 1] + terms[k]) % PRIME
  IN acc[Len(terms)]

\* Mutant: the difference in the denominator the other way round.
LagrangeShifted(shares, j) ==
  Product([m \in DOMAIN shares |-> IF m = j THEN 1 ELSE -shares[m][1]])
    * inverse(Product([m \in DOMAIN shares |-> IF m = j THEN 1 ELSE shares[m][1] - shares[j][1]]))

\* The coefficient of share j in the interpolation at 0; its own turn is passed over.
Lagrange(shares, j) ==
  Product([m \in DOMAIN shares |-> IF m = j THEN 1 ELSE -shares[m][1]])
    * inverse(Product([m \in DOMAIN shares |-> IF m = j THEN 1 ELSE shares[j][1] - shares[m][1]]))

reconstruct(shares) ==
  Total([j \in DOMAIN shares |-> shares[j][2] * Lagrange(shares, j)])

-----------------------------------------------------------------------------
Sharing(t) == [secret : Field, random : [1 .. t - 1 -> Field]]

\* The secret of a sharing, by any t of its shares in any order.
RevealedBy(sharing, shares) == reconstruct(shares) = sharing.secret

\* The secrets that fit the shares; "shares" maps positions to values.
Fitting(t, shares) ==
  {s \in Field : \E r \in [1 .. t - 1 -> Field] :
     \A i \in DOMAIN shares : _eval_poly(<<s>> \o r, i) = shares[i]}
=============================================================================
