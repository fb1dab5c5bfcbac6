-------------------------------- MODULE Half --------------------------------
(***************************************************************************)
(* c10/util/Half.h: 16-bit floating point numbers, converted to and from   *)
(* float by tricks with the bits and with the rounding of the hardware,    *)
(* and calculated with by way of float.                                    *)
(*                                                                         *)
(* TLC's integers have 32 bits and a sign, so that a word is split into    *)
(* its sign and the 31 bits `nonsign' of the code; where the code shifts   *)
(* the sign out, as in two_w, the model shifts nonsign by one less.        *)
(***************************************************************************)
EXTENDS Float32

CONSTANTS
  HalfBits,    \* words that halves are made of, in 0..(2^16 - 1)
  FloatBits,   \* magnitudes of the floats that are converted
  Operands     \* halves that are calculated with, finite

MaxInt == 2^30 - 1 + 2^30

ASSUME HalfAssumption ==
  /\ HalfBits \subseteq 0..(2^16 - 1)
  /\ FloatBits \subseteq 0..MaxInt
  /\ Operands \subseteq {h \in 0..(2^16 - 1) : h % 2^15 < 31 * 2^10}

VARIABLES
  op,        \* the last operation,
  args,      \* its arguments
  result     \* and its result

vars == <<op, args, result>>

Negative(h) == h >= 2^15
Float(neg, w) == [neg |-> neg, bits |-> w]
nonsign(h) == (h % 2^15) * 2^16

-----------------------------------------------------------------------------
(* namespace detail.                                                        *)

\* __builtin_clz() of 0 is undefined: clz0 is what the build makes of it.
clz(w, clz0) == IF w = 0 THEN clz0 ELSE 32 - BitLength(w)
renorm_shift(w, clz0) == MaxOf(clz(w, clz0) - 5, 0)

\* The additions that overflow into the sign bit and are spread by a signed
\* shift: all ones of the exponent for infinities and NaNs, zero for zeros.
inf_nan(w) == w > MaxInt - 2^26
zero(w) == w - 1 < 0

fp16_to_fp32_bits(h, clz0) ==
  LET w == nonsign(h)
      shift == renorm_shift(w, clz0)
      moved == (w * 2^shift) \div 8 + (112 - shift) * 2^23 IN
  Float(Negative(h), IF zero(w) THEN 0
                     ELSE IF inf_nan(w) THEN Inf + (moved % 2^23)
                     ELSE moved)

\* The exponent is raised by 224 and the product with 2^-112 takes half of it
\* back, unless it was all ones: then it stays so.
normalized_value(h) == Scale(nonsign(h) \div 8 + 224 * 2^23, -112)

\* The mantissa under the exponent of 0.5, less 0.5.
denormalized_value(h) == Combine((h % 2^15) + 126 * 2^23, 126 * 2^23, -1)

\* Faulty: half of the subnormal numbers are taken for normal ones.
fp16_to_fp32_valueCutoff(h) ==
  Float(Negative(h), IF nonsign(h) < 2^25 THEN denormalized_value(h)
                     ELSE normalized_value(h))

fp16_to_fp32_value(h) ==
  Float(Negative(h), IF nonsign(h) < 2^26 THEN denormalized_value(h)
                     ELSE normalized_value(h))

\* Faulty: subnormal halves get one bit too many.
baseTooFine(w) ==
  LET scaled == Scale(Scale(w, 112), -110)
      bias == MaxOf(Exponent(w), 112) IN
  IF IsFinite(scaled) THEN Combine((bias + 15) * 2^23, scaled, 1) ELSE scaled

\* The number is added to a power of two of which its last bit that fits
\* into a half is the last bit: the addition rounds.  At an exponent of 241
\* or more that power is negative, and the number infinite by then.
base(w) ==
  LET scaled == Scale(Scale(w, 112), -110)
      bias == MaxOf(Exponent(w), 113) IN
  IF IsFinite(scaled) THEN Combine((bias + 15) * 2^23, scaled, 1) ELSE scaled

fp16_from_fp32_value(f) ==
  LET exp_bits == (Exponent(base(f.bits)) % 2^5) * 2^10
      mantissa_bits == base(f.bits) % 2^12 IN
  (IF f.neg THEN 2^15 ELSE 0)
    + (IF f.bits > Inf THEN 126 * 2^8 ELSE exp_bits + mantissa_bits)

-----------------------------------------------------------------------------
(* struct Half.  The operators calculate with floats and round twice, to a  *)
(* float and to a half.                                                     *)

SignedSum(v, w) ==
  LET big == IF v.bits >= w.bits THEN v ELSE w
      small == IF v.bits >= w.bits THEN w ELSE v IN
  Float(IF v.bits = w.bits /\ v.neg # w.neg THEN FALSE ELSE big.neg,
        Combine(big.bits, small.bits, IF v.neg = w.neg THEN 1 ELSE -1))

ToFloat(h) == fp16_to_fp32_value(h)
ToHalf(f) == fp16_from_fp32_value(f)

Plus(a, b) == ToHalf(SignedSum(ToFloat(a), ToFloat(b)))
\* Faulty: the operands in the wrong order.
SubtractReversed(a, b) ==
  ToHalf(SignedSum(ToFloat(b), [ToFloat(a) EXCEPT !.neg = ~@]))
Subtract(a, b) ==
  ToHalf(SignedSum(ToFloat(a), [ToFloat(b) EXCEPT !.neg = ~@]))
Multiply(a, b) ==
  ToHalf(Float(Negative(a) # Negative(b),
               Times(ToFloat(a).bits, ToFloat(b).bits)))
Divide(a, b) ==
  ToHalf(Float(Negative(a) # Negative(b),
               Over(ToFloat(a).bits, ToFloat(b).bits)))

Init == op = "none" /\ args = <<>> /\ result = 0

Call(name, arguments, value) ==
  op' = name /\ args' = arguments /\ result' = value

\* A half of bits, a float that came from elsewhere, and the conversions.
FromBits == op = "none" /\ \E h \in HalfBits : Call("bits", <<>>, h)
Literal ==
  op = "none"
    /\ \E w \in FloatBits, neg \in BOOLEAN :
         Call("literal", <<>>, Float(neg, w))
Widen == op = "bits" /\ Call("float", <<result>>, ToFloat(result))
Narrow == op \in {"literal", "float"} /\ Call("half", <<result>>, ToHalf(result))

Calculate ==
  op = "bits" /\ result \in Operands
    /\ \E b \in Operands :
         \/ Call("+", <<result, b>>, Plus(result, b))
         \/ Call("-", <<result, b>>, Subtract(result, b))
         \/ Call("*", <<result, b>>, Multiply(result, b))
         \/ b % 2^15 # 0 /\ Call("/", <<result, b>>, Divide(result, b))

Next == FromBits \/ Literal \/ Widen \/ Narrow \/ Calculate

Spec == Init /\ [][Next]_vars

-----------------------------------------------------------------------------
(* What the numbers are: the value of a finite half is HalfSig * 2^HalfUnit *)
(* in units of 2^-149 again.                                                *)

Magnitude(h) == h % 2^15
HalfInf == 31 * 2^10
HalfSig(m) == IF m < 2^10 THEN m ELSE 2^10 + (m % 2^10)
HalfUnit(m) == MaxOf(m \div 2^10, 1) - 1 + 125

\* s * 2^u <= t * 2^v
Leq(s, u, t, v) ==
  LET d == MinOf(IF u <= v THEN v - u ELSE u - v, 30) IN
  IF u <= v THEN (s + (2^d - 1)) \div 2^d <= t ELSE s <= t \div 2^d

\* m is the half nearest to s * 2^u / d, and the even one of two: the number
\* lies between the middles of m and its neighbours.  The infinity takes the
\* place of the half after the greatest.
Nearest(s, u, d, m) ==
  LET Middle(n) == (2 * HalfSig(n) + 1) * d
      Place(n) == HalfUnit(n) - 1 IN
  /\ m < HalfInf =>
       /\ Leq(s, u, Middle(m), Place(m))
       /\ m % 2 = 1 => ~Leq(Middle(m), Place(m), s, u)
  /\ m > 0 =>
       /\ Leq(Middle(m - 1), Place(m - 1), s, u)
       /\ m % 2 = 1 => ~Leq(s, u, Middle(m - 1), Place(m - 1))

\* A half becomes the float of the same sign and value, by the conversion
\* that is in use (Half.h:113) and by the one on integers (Half.h:20), on any
\* build's reading of the undefined clz of zero; infinities and NaNs stay.
WidensExactly ==
  op = "float" =>
    LET m == Magnitude(args[1])
        w == result.bits IN
    /\ result.neg = Negative(args[1])
    /\ IF m < HalfInf
       THEN Leq(Sig(w), Unit(w), HalfSig(m), HalfUnit(m))
              /\ Leq(HalfSig(m), HalfUnit(m), Sig(w), Unit(w))
       ELSE ~IsFinite(w) /\ (w = Inf <=> m = HalfInf)
    /\ \A clz0 \in 0..32 :
         LET other == fp16_to_fp32_bits(args[1], clz0) IN
         IF m <= HalfInf THEN other = result
         ELSE other.bits > Inf /\ other.neg = result.neg

\* A float becomes the nearest half, for subnormal results, for results that
\* carry into the next exponent or to infinity, and for ties; a NaN becomes
\* the quiet NaN (Half.h:237).
NarrowsToNearest ==
  op = "half" =>
    LET w == args[1].bits
        m == Magnitude(result) IN
    /\ Negative(result) = args[1].neg
    /\ IF w > Inf THEN m = 126 * 2^8
       ELSE /\ m <= HalfInf
            /\ IF w = Inf THEN m = HalfInf ELSE Nearest(Sig(w), Unit(w), 1, m)

\* The exact sum of two halves in which the smaller may be all sticky.
ExactSum(a, b) ==
  LET m == Magnitude(a)
      n == Magnitude(b)
      low == MaxOf(HalfUnit(m), HalfUnit(n)) - 16
      Moved(k) == IF HalfUnit(k) >= low THEN 2 * HalfSig(k) * 2^(HalfUnit(k) - low)
                  ELSE Sticky(HalfSig(k), low - HalfUnit(k))
      Signed(h) == IF Negative(h) THEN -Moved(Magnitude(h)) ELSE Moved(Magnitude(h)) IN
  [sum |-> Signed(a) + Signed(b), unit |-> low - 1]
Opposite(h) == IF Negative(h) THEN h - 2^15 ELSE h + 2^15

\* The operators round to a float and then to a half, and still return the
\* half that is nearest to the exact result (Half.h:312-326).
RoundsAsOnce ==
  op \in {"+", "-", "*", "/"} =>
    LET a == args[1]
        b == args[2]
        m == Magnitude(a)
        n == Magnitude(b)
        exact == ExactSum(a, IF op = "-" THEN Opposite(b) ELSE b)
        size == IF exact.sum < 0 THEN -exact.sum ELSE exact.sum IN
    CASE op \in {"+", "-"} ->
           /\ Nearest(size, exact.unit, 1, Magnitude(result))
           /\ size # 0 => (Negative(result) <=> exact.sum < 0)
      [] op = "*" ->
           /\ Nearest(HalfSig(m) * HalfSig(n), HalfUnit(m) + HalfUnit(n) - 149,
                      1, Magnitude(result))
           /\ Negative(result) = (Negative(a) # Negative(b))
      [] op = "/" ->
           /\ Nearest(HalfSig(m), HalfUnit(m) - HalfUnit(n) + 149, HalfSig(n),
                      Magnitude(result))
           /\ Negative(result) = (Negative(a) # Negative(b))

=============================================================================
