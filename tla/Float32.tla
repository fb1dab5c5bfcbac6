------------------------------ MODULE Float32 ------------------------------
(***************************************************************************)
(* What the code of Half.h asks of the floating point unit, external to    *)
(* the repository: IEEE single precision, rounding to nearest, ties to     *)
(* even.  A float without its sign is its low 31 bits, 8 of exponent and   *)
(* 23 of mantissa.  Its value is Sig(w) * 2^Unit(w), in units of 2^-149.   *)
(***************************************************************************)
EXTENDS Integers

MinOf(i, j) == IF i <= j THEN i ELSE j
MaxOf(i, j) == IF i <= j THEN j ELSE i

Exponent(w) == w \div 2^23
Inf == 255 * 2^23
IsFinite(w) == w < Inf

Sig(w) == IF Exponent(w) = 0 THEN w ELSE 2^23 + (w % 2^23)
Unit(w) == MaxOf(Exponent(w), 1) - 1

\* The number of binary digits of n, which is below 2^31.
BitLength(n) == IF n = 0 THEN 0 ELSE CHOOSE k \in 1..31 : n \div 2^(k - 1) = 1

\* s / 2^k to the nearest, and exactly, with one more bit that says whether
\* anything was lost.
RoundShift(s, k) ==
  IF k <= 0 THEN s * 2^(-k)
  ELSE IF k > 30 THEN 0
  ELSE LET q == s \div 2^k
           twice == 2 * (s % 2^k) IN
    IF twice > 2^k \/ (twice = 2^k /\ q % 2 = 1) THEN q + 1 ELSE q
Sticky(s, k) ==
  IF k > 29 THEN MinOf(s, 1)
  ELSE 2 * (s \div 2^k) + (IF s % 2^k = 0 THEN 0 ELSE 1)

\* The float nearest to s * 2^u.
FloatOf(s, u) ==
  LET shift == MaxOf(BitLength(s) - 24, -u)
      unit == u + shift IN
  IF s = 0 THEN 0
  ELSE IF unit > 253 THEN Inf
  ELSE MinOf(Inf, unit * 2^23 + RoundShift(s, shift))

\* A NaN that is calculated with becomes quiet.
Quiet(w) == IF w > Inf /\ (w \div 2^22) % 2 = 0 THEN w + 2^22 ELSE w

\* Multiplication by a power of two.
Scale(w, k) ==
  IF IsFinite(w) THEN FloatOf(Sig(w), Unit(w) + k) ELSE Quiet(w)

\* v + w and v - w for v >= w >= 0, not both infinite.
Combine(v, w, sign) ==
  IF ~IsFinite(v) THEN Quiet(v)
  ELSE FloatOf(16 * Sig(v) + sign * Sticky(8 * Sig(w), Unit(v) - Unit(w)),
               Unit(v) - 4)

\* v * w and v / w for numbers with at most 11 significant bits, as halves.
Short(w) ==
  LET shift == BitLength(Sig(w)) - 11 IN
  [sig |-> RoundShift(Sig(w), shift), unit |-> Unit(w) + shift]
Times(v, w) ==
  FloatOf(Short(v).sig * Short(w).sig, Short(v).unit + Short(w).unit - 149)
Over(v, w) ==
  LET n == Short(v).sig * 2^18
      d == Short(w).sig
      rest == (n % d) * 2^9 IN
  FloatOf(2 * ((n \div d) * 2^9 + (rest \div d)) + (IF rest % d = 0 THEN 0 ELSE 1),
          Short(v).unit - Short(w).unit + 149 - 28)

=============================================================================
