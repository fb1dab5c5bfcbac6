---------------------------- MODULE Half_proofs ----------------------------
(***************************************************************************)
(* Proofs about Half: a half becomes a float of the same value, a float    *)
(* the nearest half, and what two finite halves give is the half nearest   *)
(* to the exact result, for all of them.                                   *)
(***************************************************************************)
EXTENDS Half, TLAPS

-----------------------------------------------------------------------------
(* Powers of two.                                                           *)

\* 2^k, where nothing but the lemmas below may look into it.
Two(k) == 2^k

\* 2^k for a k that varies, case by case.
LEMMA TwoTable ==
  ASSUME NEW k \in 0..31
  PROVE  /\ k = 0 => Two(k) = 1
         /\ k = 1 => Two(k) = 2
         /\ k = 2 => Two(k) = 4
         /\ k = 3 => Two(k) = 8
         /\ k = 4 => Two(k) = 16
         /\ k = 5 => Two(k) = 32
         /\ k = 6 => Two(k) = 64
         /\ k = 7 => Two(k) = 128
         /\ k = 8 => Two(k) = 256
         /\ k = 9 => Two(k) = 512
         /\ k = 10 => Two(k) = 1024
         /\ k = 11 => Two(k) = 2048
         /\ k = 12 => Two(k) = 4096
         /\ k = 13 => Two(k) = 8192
         /\ k = 14 => Two(k) = 16384
         /\ k = 15 => Two(k) = 32768
         /\ k = 16 => Two(k) = 65536
         /\ k = 17 => Two(k) = 131072
         /\ k = 18 => Two(k) = 262144
         /\ k = 19 => Two(k) = 524288
         /\ k = 20 => Two(k) = 1048576
         /\ k = 21 => Two(k) = 2097152
         /\ k = 22 => Two(k) = 4194304
         /\ k = 23 => Two(k) = 8388608
         /\ k = 24 => Two(k) = 16777216
         /\ k = 25 => Two(k) = 33554432
         /\ k = 26 => Two(k) = 67108864
         /\ k = 27 => Two(k) = 134217728
         /\ k = 28 => Two(k) = 268435456
         /\ k = 29 => Two(k) = 536870912
         /\ k = 30 => Two(k) = 1073741824
         /\ k = 31 => Two(k) = 2147483648
<1>1. k = 0 => 2^k = 1
  OBVIOUS
<1>2. k = 1 => 2^k = 2
  OBVIOUS
<1>3. k = 2 => 2^k = 4
  OBVIOUS
<1>4. k = 3 => 2^k = 8
  OBVIOUS
<1>5. k = 4 => 2^k = 16
  OBVIOUS
<1>6. k = 5 => 2^k = 32
  OBVIOUS
<1>7. k = 6 => 2^k = 64
  OBVIOUS
<1>8. k = 7 => 2^k = 128
  OBVIOUS
<1>9. k = 8 => 2^k = 256
  OBVIOUS
<1>10. k = 9 => 2^k = 512
  OBVIOUS
<1>11. k = 10 => 2^k = 1024
  OBVIOUS
<1>12. k = 11 => 2^k = 2048
  OBVIOUS
<1>13. k = 12 => 2^k = 4096
  OBVIOUS
<1>14. k = 13 => 2^k = 8192
  OBVIOUS
<1>15. k = 14 => 2^k = 16384
  OBVIOUS
<1>16. k = 15 => 2^k = 32768
  OBVIOUS
<1>17. k = 16 => 2^k = 65536
  OBVIOUS
<1>18. k = 17 => 2^k = 131072
  OBVIOUS
<1>19. k = 18 => 2^k = 262144
  OBVIOUS
<1>20. k = 19 => 2^k = 524288
  OBVIOUS
<1>21. k = 20 => 2^k = 1048576
  OBVIOUS
<1>22. k = 21 => 2^k = 2097152
  OBVIOUS
<1>23. k = 22 => 2^k = 4194304
  OBVIOUS
<1>24. k = 23 => 2^k = 8388608
  OBVIOUS
<1>25. k = 24 => 2^k = 16777216
  OBVIOUS
<1>26. k = 25 => 2^k = 33554432
  OBVIOUS
<1>27. k = 26 => 2^k = 67108864
  OBVIOUS
<1>28. k = 27 => 2^k = 134217728
  OBVIOUS
<1>29. k = 28 => 2^k = 268435456
  OBVIOUS
<1>30. k = 29 => 2^k = 536870912
  OBVIOUS
<1>31. k = 30 => 2^k = 1073741824
  OBVIOUS
<1>32. k = 31 => 2^k = 2147483648
  OBVIOUS
<1> QED
  BY <1>1, <1>2, <1>3, <1>4, <1>5, <1>6, <1>7, <1>8, <1>9, <1>10, <1>11, <1>12,
     <1>13, <1>14, <1>15, <1>16, <1>17, <1>18, <1>19, <1>20, <1>21, <1>22, <1>23,
     <1>24, <1>25, <1>26, <1>27, <1>28, <1>29, <1>30, <1>31, <1>32
  DEF Two

\* 2^k for each k.
LEMMA TwoValues ==
  /\ Two(0) = 1
  /\ Two(1) = 2
  /\ Two(2) = 4
  /\ Two(3) = 8
  /\ Two(4) = 16
  /\ Two(5) = 32
  /\ Two(6) = 64
  /\ Two(7) = 128
  /\ Two(8) = 256
  /\ Two(9) = 512
  /\ Two(10) = 1024
  /\ Two(11) = 2048
  /\ Two(12) = 4096
  /\ Two(13) = 8192
  /\ Two(14) = 16384
  /\ Two(15) = 32768
  /\ Two(16) = 65536
  /\ Two(17) = 131072
  /\ Two(18) = 262144
  /\ Two(19) = 524288
  /\ Two(20) = 1048576
  /\ Two(21) = 2097152
  /\ Two(22) = 4194304
  /\ Two(23) = 8388608
  /\ Two(24) = 16777216
  /\ Two(25) = 33554432
  /\ Two(26) = 67108864
  /\ Two(27) = 134217728
  /\ Two(28) = 268435456
  /\ Two(29) = 536870912
  /\ Two(30) = 1073741824
  /\ Two(31) = 2147483648
BY DEF Two

\* A power is twice the one before it.
LEMMA TwoNext ==
  ASSUME NEW k \in 0..30
  PROVE  Two(k) \in Nat \ {0} /\ Two(k + 1) = 2 * Two(k)
<1> PICK j \in 1..31 : j = k + 1
  OBVIOUS
<1>1. Two(k) \in Nat \ {0} /\ Two(j) = 2 * Two(k)
  BY TwoTable
<1> QED
  BY <1>1

\* Powers grow.
LEMMA TwoMonotone ==
  ASSUME NEW j \in 0..31, NEW k \in 0..31, j <= k
  PROVE  Two(j) <= Two(k)
BY TwoTable

\* A positive number below 2^31 lies between two powers, and its bits are as
\* many as the exponent of the greater.
LEMMA BitLengthFacts ==
  ASSUME NEW n \in 1..MaxInt
  PROVE  /\ BitLength(n) \in 1..31
         /\ Two(BitLength(n) - 1) <= n /\ n < Two(BitLength(n))
<1> DEFINE Fits(k) == n \div 2^(k - 1) = 1
<1>1. ASSUME NEW k \in 1..31
      PROVE  Fits(k) <=> (Two(k - 1) <= n /\ n < Two(k))
  <2>1. PICK j \in 0..30 : j = k - 1
    OBVIOUS
  <2>2. Fits(k) <=> n \div Two(j) = 1
    BY <2>1 DEF Two
  <2> PICK p \in Nat \ {0} : p = Two(j)
    BY TwoNext
  <2>3. Two(k) = 2 * p
    <3>1. j + 1 = k
      BY <2>1
    <3> QED
      BY <3>1, TwoNext
  <2>4. n \div p = 1 <=> (p <= n /\ n < 2 * p)
    OBVIOUS
  <2> QED
    BY <2>1, <2>2, <2>3, <2>4
<1>2. PICK k \in 1..31 : Two(k - 1) <= n /\ n < Two(k)
  <2>1. \E j \in 0..30 : Two(j) <= n /\ n < Two(j + 1)
    <3>1. n < 2147483648
      BY DEF MaxInt
    <3> QED
      BY <3>1, TwoValues
  <2>2. PICK j \in 0..30 : Two(j) <= n /\ n < Two(j + 1)
    BY <2>1
  <2>3. j + 1 \in 1..31 /\ j + 1 - 1 = j
    OBVIOUS
  <2> QED
    BY <2>2, <2>3
<1>3. n # 0 /\ Fits(k)
  <2>1. n # 0
    OBVIOUS
  <2> HIDE DEF Fits
  <2> QED
    BY <1>1, <1>2, <2>1
<1>4. BitLength(n) \in 1..31 /\ Fits(BitLength(n))
  <2>1. BitLength(n) = CHOOSE j \in 1..31 : Fits(j)
    BY <1>3 DEF BitLength
  <2> HIDE DEF Fits
  <2> QED
    BY <1>3, <2>1
<1> QED
  BY <1>1, <1>4

\* A number between 2^(k - 1) and 2^k has k bits.
LEMMA BitLengthIs ==
  ASSUME NEW n \in 1..MaxInt, NEW k \in 1..31, Two(k - 1) <= n, n < Two(k)
  PROVE  BitLength(n) = k
<1> PICK l \in 1..31 : l = BitLength(n) /\ Two(l - 1) <= n /\ n < Two(l)
  BY BitLengthFacts
<1>1. n \in Int /\ Two(l - 1) \in Int /\ Two(k - 1) \in Int
      /\ Two(l) \in Int /\ Two(k) \in Int
  BY TwoTable
<1>2. ~ (l < k)
  <2> SUFFICES ASSUME l < k PROVE FALSE
    OBVIOUS
  <2>1. Two(l) <= Two(k - 1)
    BY TwoMonotone
  <2> QED
    BY <1>1, <2>1
<1>3. ~ (k < l)
  <2> SUFFICES ASSUME k < l PROVE FALSE
    OBVIOUS
  <2>1. Two(k) <= Two(l - 1)
    BY TwoMonotone
  <2> QED
    BY <1>1, <2>1
<1> QED
  BY <1>2, <1>3

\* A mantissa with the bit that floats hide.
Mantissa == 2^23..(2^24 - 1)

\* A mantissa has 24 bits.
LEMMA MantissaLength ==
  ASSUME NEW s \in Mantissa
  PROVE  s \in 1..MaxInt /\ BitLength(s) = 24
<1>1. s \in 1..MaxInt /\ Two(23) <= s /\ s < Two(24)
  BY DEF Mantissa, MaxInt, Two
<1>2. 24 \in 1..31 /\ 24 - 1 = 23
  OBVIOUS
<1> QED
  BY <1>1, <1>2, BitLengthIs

-----------------------------------------------------------------------------
(* Floats.                                                                  *)

\* The float of an exponent and a mantissa.
Pack(e, s) == (e - 1) * 2^23 + s

\* The exponent and the mantissa of a float, which make it.
LEMMA Parts ==
  ASSUME NEW w \in 0..MaxInt
  PROVE  /\ Exponent(w) \in 0..255
         /\ IsFinite(w) <=> Exponent(w) < 255
         /\ w = Inf => Exponent(w) = 255
         /\ w > Inf => Exponent(w) = 255
         /\ Exponent(w) = 0 => w \in 0..(2^23 - 1) /\ Sig(w) = w /\ Unit(w) = 0
         /\ Exponent(w) # 0 => /\ Sig(w) \in Mantissa
                               /\ Unit(w) = Exponent(w) - 1
                               /\ w = Pack(Exponent(w), Sig(w))
BY DEF MaxInt, Exponent, IsFinite, Inf, Sig, Unit, MaxOf, Mantissa, Pack

\* A float that is made of an exponent and a mantissa has them.
LEMMA Normal ==
  ASSUME NEW e \in 1..254, NEW s \in Mantissa
  PROVE  /\ Pack(e, s) \in 0..MaxInt /\ IsFinite(Pack(e, s))
         /\ Exponent(Pack(e, s)) = e
         /\ Sig(Pack(e, s)) = s /\ Unit(Pack(e, s)) = e - 1
BY DEF MaxInt, Exponent, IsFinite, Inf, Sig, Unit, MaxOf, Mantissa, Pack

\* A float of exponent 0 is its own mantissa.
LEMMA Subnormal ==
  ASSUME NEW s \in 0..(2^23 - 1)
  PROVE  /\ s \in 0..MaxInt /\ IsFinite(s)
         /\ Exponent(s) = 0 /\ Sig(s) = s /\ Unit(s) = 0
BY DEF MaxInt, Exponent, IsFinite, Inf, Sig, Unit, MaxOf

\* The infinity is a float.
LEMMA Infinite ==
  Inf \in 0..MaxInt /\ ~ IsFinite(Inf) /\ Exponent(Inf) = 255 /\ Quiet(Inf) = Inf
BY DEF MaxInt, Exponent, IsFinite, Inf, Quiet

\* Nothing is rounded where nothing is shifted.
LEMMA ShiftNothing ==
  ASSUME NEW s \in Nat
  PROVE  RoundShift(s, 0) = s
<1> PICK k \in Int : k <= 0 /\ k >= 0
  OBVIOUS
<1>0. k = 0
  OBVIOUS
<1>1. RoundShift(s, k) = s * Two(-k)
  BY DEF RoundShift, Two
<1>2. -k = 0
  OBVIOUS
<1>3. Two(0) = 1
  BY TwoValues
<1>4. RoundShift(s, k) = s * Two(0)
  BY <1>1, <1>2
<1> QED
  BY <1>0, <1>3, <1>4

\* A number of 24 bits is a float already.
LEMMA FloatOfMantissa ==
  ASSUME NEW s \in Mantissa, NEW u \in Nat
  PROVE  FloatOf(s, u) = IF u > 253 THEN Inf ELSE Pack(u + 1, s)
<1>1. BitLength(s) = 24 /\ s \in Nat /\ s # 0
  <2>1. s \in Nat /\ s # 0
    BY DEF Mantissa
  <2> QED
    BY <2>1, MantissaLength
<1>2. MaxOf(BitLength(s) - 24, -u) = 0
  BY <1>1 DEF MaxOf
<1>3. RoundShift(s, 0) = s
  BY <1>1, ShiftNothing
<1>4. FloatOf(s, u) = IF u > 253 THEN Inf ELSE MinOf(Inf, u * 2^23 + s)
  BY <1>1, <1>2, <1>3 DEF FloatOf
<1>5. ASSUME u <= 253
      PROVE  MinOf(Inf, u * 2^23 + s) = Pack(u + 1, s)
  <2> PICK w \in Int : w = u * 2^23 + s
    BY <1>1
  <2>1. Inf \in Int /\ w <= Inf
    BY <1>5 DEF Inf, Mantissa
  <2>2. MinOf(Inf, w) = w
    BY <2>1 DEF MinOf
  <2>3. w = Pack(u + 1, s)
    BY <1>1 DEF Pack
  <2> QED
    BY <2>2, <2>3
<1> QED
  BY <1>4, <1>5

\* Scaled up, a normal float keeps its mantissa.
LEMMA ScaleNormal ==
  ASSUME NEW e \in 1..254, NEW s \in Mantissa
  PROVE  Scale(Scale(Pack(e, s), 112), -110) =
           IF e > 142 THEN Inf ELSE Pack(e + 2, s)
<1>1. Scale(Pack(e, s), 112) = FloatOf(s, e + 111)
  <2>1. e - 1 + 112 = e + 111
    OBVIOUS
  <2> QED
    BY <2>1, Normal DEF Scale
<1>2. CASE e > 142
  <2>1. Scale(Pack(e, s), 112) = Inf
    BY <1>1, <1>2, FloatOfMantissa
  <2>2. Scale(Inf, -110) = Inf
    BY Infinite DEF Scale
  <2> QED
    BY <1>2, <2>1, <2>2
<1>3. CASE e <= 142
  <2> PICK d \in 1..254 : d = e + 112
    BY <1>3
  <2>1. Scale(Pack(e, s), 112) = Pack(d, s)
    <3>1. e + 111 + 1 = d /\ e + 111 <= 253
      BY <1>3
    <3> QED
      BY <1>1, <3>1, FloatOfMantissa
  <2>2. Scale(Pack(d, s), -110) = FloatOf(s, e + 1)
    <3>1. d - 1 + -110 = e + 1
      OBVIOUS
    <3> QED
      BY <3>1, Normal DEF Scale
  <2>3. FloatOf(s, e + 1) = Pack(e + 2, s)
    <3>1. e + 1 \in Nat /\ ~ (e + 1 > 253) /\ e + 1 + 1 = e + 2
      BY <1>3
    <3> QED
      BY <3>1, FloatOfMantissa
  <2> QED
    BY <1>3, <2>1, <2>2, <2>3
<1> QED
  BY <1>2, <1>3

\* A shift by at least one leaves a subnormal or the first normal float.
LEMMA ShiftHalves ==
  ASSUME NEW t \in 0..(2^24 - 1), NEW k \in 1..30
  PROVE  RoundShift(t, k) \in 0..2^23
<1> PICK j \in 0..30 : j = k - 1
  OBVIOUS
<1>1. Two(k) = 2 * Two(j) /\ Two(j) \in Nat \ {0}
  <2>1. j + 1 = k
    OBVIOUS
  <2> QED
    BY <2>1, TwoNext
<1> PICK p \in Nat \ {0} : p = Two(k) /\ p >= 2
  BY <1>1
<1> PICK q \in Int : q = t \div p
  OBVIOUS
<1>2. q \in 0..(2^23 - 1)
  <2>1. t = p * q + (t % p) /\ t % p \in 0..(p - 1)
    OBVIOUS
  <2>2. q >= 2^23 => p * q >= 2 * 2^23
    OBVIOUS
  <2>3. q <= -1 => p * q <= -p
    OBVIOUS
  <2> PICK x \in Int : x = p * q
    OBVIOUS
  <2> PICK r \in 0..(p - 1) : r = t % p
    BY <2>1
  <2>4. /\ t = x + r /\ q >= 2^23 => x >= 2 * 2^23
        /\ q <= -1 => x <= -p
    BY <2>1, <2>2, <2>3
  <2>5. 2 * 2^23 = 2^24
    OBVIOUS
  <2> QED
    BY <2>4, <2>5
<1>3. RoundShift(t, k) \in {q, q + 1}
  BY DEF RoundShift, Two
<1> QED
  BY <1>2, <1>3

\* A subnormal float is normalized by the first scaling, and the second takes
\* it to four times its value.
LEMMA ScaleSubnormal ==
  ASSUME NEW s \in 0..(2^23 - 1)
  PROVE  \E v \in 0..MaxInt :
           /\ Scale(Scale(s, 112), -110) = v /\ IsFinite(v)
           /\ Sig(v) \in 0..(2^24 - 1) /\ Unit(v) \in {0, 1}
           /\ Exponent(v) \in 0..2
<1> DEFINE Goal ==
      \E v \in 0..MaxInt :
        /\ Scale(Scale(s, 112), -110) = v /\ IsFinite(v)
        /\ Sig(v) \in 0..(2^24 - 1) /\ Unit(v) \in {0, 1}
        /\ Exponent(v) \in 0..2
<1>1. CASE s = 0
  <2>1. FloatOf(s, 112) = 0 /\ FloatOf(s, -110) = 0
    BY <1>1 DEF FloatOf
  <2>2. Scale(s, 112) = 0 /\ Scale(0, -110) = 0
    <3>1. Scale(s, 112) = FloatOf(s, 0 + 112)
      BY Subnormal, Zenon DEF Scale
    <3>2. Scale(s, -110) = FloatOf(s, 0 + -110)
      BY Subnormal, Zenon DEF Scale
    <3> QED
      BY <1>1, <2>1, <3>1, <3>2
  <2>3. /\ 0 \in 0..MaxInt /\ IsFinite(0) /\ Sig(0) = 0 /\ Unit(0) = 0
        /\ Exponent(0) = 0 /\ 0 \in 0..(2^24 - 1)
    <3>1. 0 \in 0..(2^23 - 1) /\ 0 \in 0..(2^24 - 1)
      OBVIOUS
    <3> QED
      BY <3>1, Subnormal, Zenon
  <2> QED
    BY <1>1, <2>2, <2>3
<1>2. CASE s # 0
  <2>0. s \in 1..MaxInt
    BY <1>2 DEF MaxInt
  <2>1. PICK l \in 1..31 : l = BitLength(s) /\ Two(l - 1) <= s /\ s < Two(l)
    BY <2>0, BitLengthFacts
  <2>2. l <= 23
    <3>1. Two(l - 1) < Two(23)
      BY <2>1, TwoValues
    <3> QED
      BY <3>1, TwoMonotone, TwoTable
  <2> PICK z \in 1..23 : z = 24 - l
    BY <2>2
  <2> PICK t \in Int : t = s * Two(z)
    BY TwoNext
  <2>3. t \in Mantissa
    <3> PICK p \in Nat \ {0} : p = Two(l - 1) /\ Two(l) = 2 * p
      BY TwoTable
    <3> PICK q \in Nat \ {0} : q = Two(z)
      BY TwoNext
    <3>1. p * q = 2^23
      BY TwoTable
    <3>2. p * q <= s * q /\ s * q < (2 * p) * q
      BY <2>1
    <3>3. (2 * p) * q = 2 * (p * q)
      OBVIOUS
    <3> QED
      BY <3>1, <3>2, <3>3 DEF Mantissa
  <2> PICK d \in 1..254 : d = 113 - z
    OBVIOUS
  <2>4. Scale(s, 112) = Pack(d, t)
    <3>1. Scale(s, 112) = FloatOf(s, 112)
      <4>1. 0 + 112 = 112
        OBVIOUS
      <4> QED
        BY <4>1, Subnormal, Zenon DEF Scale
    <3> PICK k \in Int : k = l - 24
      OBVIOUS
    <3>2. MaxOf(l - 24, -112) = k /\ -k = z /\ k <= 0
      BY <2>2 DEF MaxOf
    <3>3. RoundShift(s, k) = t
      BY <3>2 DEF RoundShift, Two
    <3>4. FloatOf(s, 112) = MinOf(Inf, (112 + k) * 2^23 + t)
      <4>1. ~ (112 + k > 253)
        BY <3>2
      <4> QED
        BY <1>2, <2>1, <3>2, <3>3, <4>1 DEF FloatOf
    <3>5. (112 + k) * 2^23 + t = Pack(d, t)
      BY <3>2 DEF Pack
    <3>6. MinOf(Inf, Pack(d, t)) = Pack(d, t)
      <4>1. Pack(d, t) <= Inf /\ Pack(d, t) \in Int /\ Inf \in Int
        BY <2>3 DEF Pack, Inf, Mantissa
      <4> QED
        BY <4>1 DEF MinOf
    <3> QED
      BY <3>1, <3>4, <3>5, <3>6
  <2>5. Scale(Pack(d, t), -110) = FloatOf(t, 2 - z)
    <3>1. d - 1 + -110 = 2 - z
      OBVIOUS
    <3> QED
      BY <2>3, <3>1, Normal, Zenon DEF Scale
  <2>6. ASSUME NEW e \in 1..2, FloatOf(t, 2 - z) = Pack(e, t)
        PROVE  Goal
    <3>1. /\ Pack(e, t) \in 0..MaxInt /\ IsFinite(Pack(e, t))
          /\ Exponent(Pack(e, t)) = e /\ Sig(Pack(e, t)) = t
          /\ Unit(Pack(e, t)) = e - 1
      <4>1. e \in 1..254
        OBVIOUS
      <4> QED
        BY <2>3, <4>1, Normal
    <3>2. t \in 0..(2^24 - 1) /\ e - 1 \in {0, 1} /\ e \in 0..2
      BY <2>3 DEF Mantissa
    <3> QED
      BY <2>4, <2>5, <2>6, <3>1, <3>2
  <2>7. CASE z <= 2
    <3> PICK u \in 0..1 : u = 2 - z
      BY <2>7
    <3>1. FloatOf(t, u) = Pack(u + 1, t) /\ u + 1 \in 1..2
      BY <2>3, FloatOfMantissa
    <3> QED
      BY <2>6, <3>1
  <2>8. CASE z > 2
    <3> PICK k \in 1..30 : k = z - 2
      BY <2>8
    <3>1. MaxOf(BitLength(t) - 24, -(2 - z)) = k
      <4>1. BitLength(t) - 24 = 0 /\ -(2 - z) = k
        BY <2>3, MantissaLength
      <4> QED
        BY <4>1 DEF MaxOf
    <3>2. t \in 0..(2^24 - 1)
      BY <2>3 DEF Mantissa
    <3> PICK r \in 0..2^23 : r = RoundShift(t, k)
      BY <3>2, ShiftHalves, Zenon
    <3>5. FloatOf(t, 2 - z) = r
      <4>1. 2 - z + k = 0 /\ t # 0
        BY <2>3 DEF Mantissa
      <4>2. FloatOf(t, 2 - z) = MinOf(Inf, 0 * 2^23 + r)
        BY <3>1, <4>1 DEF FloatOf
      <4>3. 0 * 2^23 + r = r /\ r <= Inf /\ r \in Int /\ Inf \in Int
        BY DEF Inf
      <4> QED
        BY <4>2, <4>3 DEF MinOf
    <3>3. CASE r = 2^23
      <4>1. r = Pack(1, r) /\ r \in Mantissa
        BY <3>3 DEF Pack, Mantissa
      <4>2. /\ Pack(1, r) \in 0..MaxInt /\ IsFinite(Pack(1, r))
            /\ Exponent(Pack(1, r)) = 1 /\ Sig(Pack(1, r)) = r
            /\ Unit(Pack(1, r)) = 1 - 1
        BY <4>1, Normal
      <4>3. r \in 0..(2^24 - 1) /\ 1 - 1 \in {0, 1} /\ 1 \in 0..2
        BY <3>3
      <4> QED
        BY <2>4, <2>5, <3>5, <4>1, <4>2, <4>3
    <3>4. CASE r # 2^23
      <4>1. r \in 0..(2^23 - 1) /\ r \in 0..(2^24 - 1)
        BY <3>4
      <4>2. /\ r \in 0..MaxInt /\ IsFinite(r)
            /\ Exponent(r) = 0 /\ Sig(r) = r /\ Unit(r) = 0
        BY <4>1, Subnormal, Zenon
      <4> QED
        BY <2>4, <2>5, <3>5, <4>1, <4>2
    <3> QED
      BY <3>3, <3>4
  <2> QED
    BY <2>7, <2>8
<1> QED
  BY <1>1, <1>2

-----------------------------------------------------------------------------
(* The addition that rounds.                                                *)

\* A multiple other than 0 is at least as far from 0 as the factor.
LEMMA Multiples ==
  ASSUME NEW d \in Nat \ {0}, NEW z \in Int
  PROVE  /\ d * z \in Int
         /\ z >= 1 => d * z >= d
         /\ z <= -1 => d * z <= -d
OBVIOUS

\* n divided by d is q, and r is left.
Quotient(n, d, q, r) == n = d * q + r

\* There is one quotient.
LEMMA QuotientIs ==
  ASSUME NEW d \in Nat \ {0}, NEW q \in Int, NEW r \in 0..(d - 1),
         NEW n \in Int, Quotient(n, d, q, r)
  PROVE  n \div d = q /\ n % d = r
<1>0. n = d * (n \div d) + (n % d) /\ n \div d \in Int /\ n % d \in 0..(d - 1)
  OBVIOUS
<1>1. PICK p \in Int : p = n \div d
  BY <1>0
<1>2. PICK t \in 0..(d - 1) : t = n % d
  BY <1>0
<1>3. PICK z \in Int : z = q - p
  OBVIOUS
<1>4. PICK x \in Int : x = d * z
  BY Multiples
<1>5. d * z = d * q - d * p
  BY <1>3
<1>6. n = d * q + r /\ n = d * p + t
  BY <1>0, <1>1, <1>2 DEF Quotient
<1>7. x = t - r
  BY <1>4, <1>5, <1>6
<1>8. z >= 1 => x >= d
  BY <1>4, Multiples
<1>9. z <= -1 => x <= -d
  BY <1>4, Multiples
<1>10. z = 0
  BY <1>7, <1>8, <1>9
<1>11. q = p
  BY <1>3, <1>10
<1> QED
  BY <1>1, <1>2, <1>6, <1>11

\* n is s / (2 * h) to the nearest, and the even one of two.
Rounds(s, h, n) ==
  /\ (2 * n - 1) * h <= s /\ s <= (2 * n + 1) * h
  /\ n % 2 = 1 => (2 * n - 1) * h < s /\ s < (2 * n + 1) * h

\* A number in eighths of the last bit and a rest, and what it is rounded to.
LEMMA RoundsParts ==
  ASSUME NEW c \in Nat \ {0}, NEW q \in Nat, NEW m \in 0..7, NEW b \in 0..(c - 1),
         NEW s \in Int, s = 8 * (c * q) + m * c + b, NEW n \in {q, q + 1},
         n = q =>
           m < 4 \/ (m = 4 /\ b = 0 /\ q % 2 # 1),
         n = q + 1 =>
           m > 4 \/ (m = 4 /\ b # 0) \/ (m = 4 /\ q % 2 = 1)
  PROVE  Rounds(s, 4 * c, n)
<1> PICK x \in Int : x = c * q
  OBVIOUS
<1> PICK y \in Int : y = m * c
  OBVIOUS
<1>1. /\ m <= 3 => y <= 3 * c
      /\ m = 4 => y = 4 * c
      /\ m >= 5 => y >= 5 * c
      /\ y >= 0 /\ y <= 7 * c
  OBVIOUS
<1>2. s = 8 * x + y + b
  OBVIOUS
<1>3. CASE n = q
  <2>1. (2 * n - 1) * (4 * c) = 8 * x - 4 * c /\ (2 * n + 1) * (4 * c) = 8 * x + 4 * c
    BY <1>3
  <2>2. m <= 3 \/ (m = 4 /\ b = 0 /\ q % 2 # 1)
    BY <1>3
  <2>3. 8 * x - 4 * c < s /\ s <= 8 * x + 4 * c /\ (q % 2 = 1 => s < 8 * x + 4 * c)
    BY <1>1, <1>2, <2>2
  <2> QED
    BY <1>3, <2>1, <2>3 DEF Rounds
<1>4. CASE n = q + 1
  <2>1. (2 * n - 1) * (4 * c) = 8 * x + 4 * c /\ (2 * n + 1) * (4 * c) = 8 * x + 12 * c
    BY <1>4
  <2>2. m >= 5 \/ (m = 4 /\ b # 0) \/ (m = 4 /\ q % 2 = 1)
    BY <1>4
  <2>3. q % 2 = 1 => n % 2 # 1
    BY <1>4
  <2>4. 8 * x + 4 * c <= s /\ s < 8 * x + 12 * c /\ (q % 2 # 1 => 8 * x + 4 * c < s)
    BY <1>1, <1>2, <2>2
  <2> QED
    BY <2>1, <2>3, <2>4 DEF Rounds
<1> QED
  BY <1>3, <1>4

\* A shift by 4 looks at 16 values of the bits that are lost.
LEMMA ShiftFour ==
  ASSUME NEW t \in Nat
  PROVE  RoundShift(t, 4) =
           IF t % 16 > 8 \/ (t % 16 = 8 /\ (t \div 16) % 2 = 1)
           THEN (t \div 16) + 1 ELSE t \div 16
<1>1. 2^4 = 16 /\ ~ (4 <= 0) /\ ~ (4 > 30)
  OBVIOUS
<1>2. RoundShift(t, 4) =
        IF 2 * (t % 16) > 16 \/ (2 * (t % 16) = 16 /\ (t \div 16) % 2 = 1)
        THEN (t \div 16) + 1 ELSE t \div 16
  BY <1>1 DEF RoundShift
<1> PICK m \in Int : m = t % 16
  OBVIOUS
<1>3. (2 * m > 16 <=> m > 8) /\ (2 * m = 16 <=> m = 8)
  OBVIOUS
<1> QED
  BY <1>2, <1>3

\* A power of two from 2^13 on, in parts.
LEMMA Eighth ==
  ASSUME NEW k \in 13..29
  PROVE  \E c \in Nat : c >= 2^10 /\ Two(k) = 8 * c /\ Two(k - 1) = 4 * c
<1> PICK j \in 10..26 : j = k - 3
  OBVIOUS
<1>1. /\ Two(j) \in Nat \ {0} /\ Two(j + 1) = 2 * Two(j)
      /\ Two(j + 2) = 2 * Two(j + 1) /\ Two(j + 3) = 2 * Two(j + 2)
  <2>1. j \in 0..30 /\ j + 1 \in 0..30 /\ j + 2 \in 0..30
        /\ j + 1 + 1 = j + 2 /\ j + 2 + 1 = j + 3
    OBVIOUS
  <2> QED
    BY <2>1, TwoNext
<1>2. Two(j) >= 2^10
  BY TwoTable
<1>3. j + 2 = k - 1 /\ j + 3 = k
  OBVIOUS
<1> QED
  BY <1>1, <1>2, <1>3

\* Eight times dividend and divisor give the same quotient.
LEMMA Eightfold ==
  ASSUME NEW c \in Nat \ {0}, NEW a \in Int, NEW b \in 0..(c - 1), NEW s \in Int,
         Quotient(s, c, a, b)
  PROVE  (8 * s) \div (8 * c) = a /\ (8 * s) % (8 * c) = 8 * b
<1>1. PICK d \in Nat \ {0} : d = 8 * c
  OBVIOUS
<1>2. PICK r \in 0..(d - 1) : r = 8 * b
  BY <1>1
<1>3. PICK n \in Int : n = 8 * s
  OBVIOUS
<1>4. Quotient(n, d, a, r)
  <2>1. (8 * c) * a = 8 * (c * a)
    OBVIOUS
  <2> QED
    BY <1>1, <1>2, <1>3, <2>1 DEF Quotient
<1>5. n \div d = a /\ n % d = r
  BY <1>4, QuotientIs
<1> QED
  BY <1>1, <1>2, <1>3, <1>5

\* One bit below a quotient of 8 leaves it alone.
LEMMA SixteenParts ==
  ASSUME NEW a \in Nat, NEW g \in {0, 1}
  PROVE  /\ a \div 8 \in Nat /\ a % 8 \in 0..7 /\ a = 8 * (a \div 8) + (a % 8)
         /\ (2 * a + g) \div 16 = a \div 8
         /\ (2 * a + g) % 16 = 2 * (a % 8) + g
OBVIOUS

\* Sticky() keeps what is above a sixteenth of the last bit, and whether there
\* is anything below.
LEMMA StickyIs ==
  ASSUME NEW s \in 0..(2^24 - 1), NEW k \in 13..29,
         NEW c \in Nat \ {0}, c >= 2^10, Two(k) = 8 * c
  PROVE  /\ s \div c \in 0..(2^14 - 1) /\ s % c \in 0..(c - 1)
         /\ s = c * (s \div c) + (s % c)
         /\ Sticky(8 * s, k) = 2 * (s \div c) + (IF s % c = 0 THEN 0 ELSE 1)
<1>0. s = c * (s \div c) + (s % c) /\ s \div c \in Int /\ s % c \in 0..(c - 1)
  OBVIOUS
<1>1. PICK a \in Int : a = s \div c
  BY <1>0
<1>2. PICK b \in 0..(c - 1) : b = s % c
  BY <1>0
<1>3. PICK y \in Int : y = c * a
  BY Multiples
<1>4. s = y + b
  BY <1>0, <1>1, <1>2, <1>3
<1>5. a \in 0..(2^14 - 1)
  <2>1. a <= -1 => y <= -c
    BY <1>3, Multiples
  <2>2. a >= 2^14 => y >= 2^24
    BY <1>3
  <2> QED
    BY <1>4, <2>1, <2>2
<1>6. (8 * s) \div (8 * c) = a /\ (8 * s) % (8 * c) = 8 * b
  <2>1. Quotient(s, c, a, b) /\ s \in Int
    BY <1>3, <1>4 DEF Quotient
  <2> QED
    BY <2>1, Eightfold
<1>7. Sticky(8 * s, k) = 2 * a + (IF b = 0 THEN 0 ELSE 1)
  <2>1. Sticky(8 * s, k)
          = 2 * ((8 * s) \div Two(k)) + (IF (8 * s) % Two(k) = 0 THEN 0 ELSE 1)
    BY DEF Sticky, Two
  <2>2. 8 * b = 0 <=> b = 0
    OBVIOUS
  <2> QED
    BY <1>6, <2>1, <2>2
<1> QED
  BY <1>0, <1>1, <1>2, <1>5, <1>7

\* So the addition rounds to nearest.
LEMMA StickyRounds ==
  ASSUME NEW s \in 0..(2^24 - 1), NEW k \in 13..29
  PROVE  /\ Sticky(8 * s, k) \in 0..(2^15 - 1)
         /\ RoundShift(Sticky(8 * s, k), 4) \in Nat
         /\ Rounds(s, Two(k - 1), RoundShift(Sticky(8 * s, k), 4))
<1> PICK c \in Nat \ {0} : c >= 2^10 /\ Two(k) = 8 * c /\ Two(k - 1) = 4 * c
  BY Eighth
<1>1. /\ s \div c \in 0..(2^14 - 1) /\ s % c \in 0..(c - 1)
      /\ s = c * (s \div c) + (s % c)
      /\ Sticky(8 * s, k) = 2 * (s \div c) + (IF s % c = 0 THEN 0 ELSE 1)
  BY StickyIs, Zenon
<1> PICK a \in 0..(2^14 - 1) : a = s \div c
  BY <1>1
<1> PICK b \in 0..(c - 1) : b = s % c
  BY <1>1
<1> PICK g \in {0, 1} : g = IF b = 0 THEN 0 ELSE 1
  OBVIOUS
<1> PICK q \in Nat : q = a \div 8
  BY SixteenParts
<1> PICK m \in 0..7 : m = a % 8
  BY SixteenParts
<1>2. 2 * a + g \in 0..(2^15 - 1)
  OBVIOUS
<1> PICK t \in 0..(2^15 - 1) : t = 2 * a + g
  BY <1>2
<1>3. Sticky(8 * s, k) = t
  BY <1>1
<1>4. t \div 16 = q /\ t % 16 = 2 * m + g /\ a = 8 * q + m
  <2>1. a \in Nat
    OBVIOUS
  <2>2. /\ a = 8 * (a \div 8) + (a % 8)
        /\ (2 * a + g) \div 16 = a \div 8
        /\ (2 * a + g) % 16 = 2 * (a % 8) + g
    BY <2>1, SixteenParts, Zenon
  <2> QED
    BY <2>2, Zenon
<1> PICK n \in {q, q + 1} :
      n = IF 2 * m + g > 8 \/ (2 * m + g = 8 /\ q % 2 = 1) THEN q + 1 ELSE q
  OBVIOUS
<1>5. RoundShift(t, 4) = n
  <2>1. RoundShift(t, 4) =
          IF t % 16 > 8 \/ (t % 16 = 8 /\ (t \div 16) % 2 = 1)
          THEN (t \div 16) + 1 ELSE t \div 16
    BY ShiftFour
  <2> QED
    BY <1>4, <2>1, Zenon
<1>6. /\ n = q => m < 4 \/ (m = 4 /\ b = 0 /\ q % 2 # 1)
      /\ n = q + 1 => m > 4 \/ (m = 4 /\ b # 0) \/ (m = 4 /\ q % 2 = 1)
  OBVIOUS
<1>7. s = 8 * (c * q) + m * c + b
  <2>1. c * (8 * q + m) = 8 * (c * q) + m * c
    OBVIOUS
  <2>2. s = c * (8 * q + m) + b
    BY <1>1, <1>4
  <2> QED
    BY <2>1, <2>2
<1>8. Rounds(s, 4 * c, n)
  <2>1. s \in Int
    OBVIOUS
  <2> QED
    BY <1>6, <1>7, <2>1, RoundsParts, Zenon
<1> QED
  BY <1>3, <1>5, <1>8

\* Far below the last bit nothing is left.
LEMMA StickyVanishes ==
  ASSUME NEW s \in Nat, NEW k \in Int, k > 29
  PROVE  Sticky(s, k) \in {0, 1} /\ RoundShift(Sticky(s, k), 4) = 0
<1>1. PICK g \in {0, 1} : g = Sticky(s, k)
  BY DEF Sticky, MinOf
<1>2. g \in Nat /\ g % 16 = g /\ g \div 16 = 0
  OBVIOUS
<1>3. RoundShift(g, 4) = 0
  BY <1>2, ShiftFour
<1> QED
  BY <1>1, <1>3

\* Less than a power of two, added to it, makes no more bits.
LEMMA AddedLength ==
  ASSUME NEW g \in 0..(2^15 - 1)
  PROVE  BitLength(16 * 2^23 + g) = 28
<1>1. PICK n \in Int : n = 16 * 2^23 + g
  OBVIOUS
<1>2. n \in 1..MaxInt /\ Two(27) <= n /\ n < Two(28)
  BY <1>1 DEF MaxInt, Two
<1>3. 28 \in 1..31 /\ 28 - 1 = 27
  OBVIOUS
<1> QED
  BY <1>1, <1>2, <1>3, BitLengthIs

\* What is added to a power of two is rounded as it is alone.
LEMMA AddedShift ==
  ASSUME NEW g \in 0..(2^15 - 1)
  PROVE  /\ RoundShift(g, 4) \in 0..2^11
         /\ RoundShift(16 * 2^23 + g, 4) = 2^23 + RoundShift(g, 4)
<1>1. PICK n \in Nat : n = 16 * 2^23 + g
  OBVIOUS
<1>2. PICK q \in 0..(2^11 - 1) : q = g \div 16
  OBVIOUS
<1>3. n % 16 = g % 16 /\ n \div 16 = 2^23 + q /\ (2^23 + q) % 2 = q % 2
  BY <1>1, <1>2
<1>4. g \in Nat
  OBVIOUS
<1>5. RoundShift(g, 4) =
        IF g % 16 > 8 \/ (g % 16 = 8 /\ q % 2 = 1) THEN q + 1 ELSE q
  BY <1>2, <1>4, ShiftFour
<1>6. RoundShift(n, 4) =
        IF g % 16 > 8 \/ (g % 16 = 8 /\ q % 2 = 1)
        THEN 2^23 + q + 1 ELSE 2^23 + q
  BY <1>3, ShiftFour
<1>7. RoundShift(g, 4) \in 0..2^11
  BY <1>5
<1> QED
  BY <1>1, <1>5, <1>6, <1>7

\* What base() adds a scaled number to: a power of two.
LEMMA PowerPlus ==
  ASSUME NEW d \in 128..157, NEW v \in 0..MaxInt,
         NEW g \in 0..(2^15 - 1), g = Sticky(8 * Sig(v), d - 1 - Unit(v))
  PROVE  Combine(d * 2^23, v, 1) = d * 2^23 + RoundShift(g, 4)
<1>1. d * 2^23 = Pack(d, 2^23) /\ d \in 1..254 /\ 2^23 \in Mantissa
  BY DEF Pack, Mantissa
<1>2. /\ IsFinite(Pack(d, 2^23)) /\ Sig(Pack(d, 2^23)) = 2^23
      /\ Unit(Pack(d, 2^23)) = d - 1
  BY <1>1, Normal
<1>3. Combine(Pack(d, 2^23), v, 1) = FloatOf(16 * 2^23 + g, d - 1 - 4)
  <2>1. 1 * g = g
    OBVIOUS
  <2> QED
    BY <1>2, <2>1 DEF Combine
<1>4. PICK r \in 0..2^11 : r = RoundShift(g, 4)
  BY AddedShift
<1>5. FloatOf(16 * 2^23 + g, d - 1 - 4) = MinOf(Inf, (d - 1) * 2^23 + (2^23 + r))
  <2>1. PICK n \in Nat \ {0} : n = 16 * 2^23 + g
    OBVIOUS
  <2>2. PICK u \in Int : u = d - 1 - 4
    OBVIOUS
  <2>3. BitLength(n) = 28 /\ RoundShift(n, 4) = 2^23 + r
    BY <1>4, <2>1, AddedLength, AddedShift
  <2>4. MaxOf(28 - 24, -u) = 4 /\ u + 4 = d - 1 /\ ~ (d - 1 > 253)
    BY <2>2 DEF MaxOf
  <2>5. FloatOf(n, u) = MinOf(Inf, (d - 1) * 2^23 + (2^23 + r))
    BY <2>3, <2>4 DEF FloatOf
  <2> QED
    BY <2>1, <2>2, <2>5
<1>6. PICK w \in Int : w = (d - 1) * 2^23 + (2^23 + r)
  OBVIOUS
<1>7. w = d * 2^23 + r /\ w <= Inf /\ Inf \in Int
  BY <1>6 DEF Inf
<1>8. MinOf(Inf, w) = w
  BY <1>7 DEF MinOf
<1> QED
  BY <1>1, <1>3, <1>4, <1>5, <1>6, <1>7, <1>8

-----------------------------------------------------------------------------
(* What base() makes of a float.                                            *)

\* Large floats become infinite in the first scaling.
LEMMA BaseInfinite ==
  /\ base(Inf) = Inf
  /\ \A e \in 143..254 : \A s \in Mantissa : base(Pack(e, s)) = Inf
<1>1. base(Inf) = Inf
  <2>1. Scale(Inf, 112) = Inf /\ Scale(Inf, -110) = Inf
    BY Infinite DEF Scale
  <2> QED
    BY <2>1, Infinite DEF base
<1>2. ASSUME NEW e \in 143..254, NEW s \in Mantissa
      PROVE  base(Pack(e, s)) = Inf
  <2>1. e \in 1..254 /\ e > 142
    OBVIOUS
  <2>2. Scale(Scale(Pack(e, s), 112), -110) = Inf
    BY <2>1, ScaleNormal
  <2> QED
    BY <2>2, Infinite DEF base
<1> QED
  BY <1>1, <1>2

\* A float that makes a normal half is rounded to its 11 bits.
LEMMA BaseNormal ==
  ASSUME NEW e \in 113..142, NEW s \in Mantissa
  PROVE  \E n \in 2^10..2^11 :
           base(Pack(e, s)) = (e + 15) * 2^23 + n /\ Rounds(s, 2^12, n)
<1>1. e \in 1..254 /\ e + 2 \in 1..254 /\ ~ (e > 142)
  OBVIOUS
<1>2. /\ Scale(Scale(Pack(e, s), 112), -110) = Pack(e + 2, s)
      /\ Exponent(Pack(e, s)) = e
      /\ Pack(e + 2, s) \in 0..MaxInt /\ IsFinite(Pack(e + 2, s))
      /\ Sig(Pack(e + 2, s)) = s /\ Unit(Pack(e + 2, s)) = e + 2 - 1
  BY <1>1, ScaleNormal, Normal
<1>3. PICK d \in 128..157 : d = e + 15
  OBVIOUS
<1>4. base(Pack(e, s)) = Combine(d * 2^23, Pack(e + 2, s), 1)
  <2>1. MaxOf(e, 113) = e
    BY DEF MaxOf
  <2> QED
    BY <1>2, <1>3, <2>1 DEF base
<1>5. s \in 0..(2^24 - 1) /\ s >= 2^23 /\ 13 \in 13..29 /\ 13 - 1 = 12
  BY DEF Mantissa
<1>6. PICK g \in 0..(2^15 - 1) : g = Sticky(8 * s, 13)
  BY <1>5, StickyRounds, Zenon
<1>7. PICK n \in Nat : n = RoundShift(g, 4)
  BY <1>5, <1>6, StickyRounds, Zenon
<1>8. Rounds(s, Two(12), n)
  BY <1>5, <1>6, <1>7, StickyRounds, Zenon
<1>9. base(Pack(e, s)) = d * 2^23 + n
  <2>1. d - 1 - (e + 2 - 1) = 13
    BY <1>3
  <2>2. g = Sticky(8 * Sig(Pack(e + 2, s)), d - 1 - Unit(Pack(e + 2, s)))
    BY <1>2, <1>6, <2>1
  <2> QED
    BY <1>2, <1>4, <1>7, <2>2, PowerPlus, Zenon
<1>10. n \in 2^10..2^11
  <2>1. n <= 2^11
    <3>1. RoundShift(g, 4) \in 0..2^11
      BY AddedShift
    <3> QED
      BY <1>7, <3>1
  <2>2. s <= (2 * n + 1) * 4096
    BY <1>8, TwoValues DEF Rounds
  <2> QED
    BY <1>5, <2>1, <2>2
<1>11. Rounds(s, 2^12, n)
  BY <1>8 DEF Two
<1> QED
  BY <1>3, <1>9, <1>10, <1>11

\* Below 2^-14 the last bit of the half is the one of its subnormal numbers.
LEMMA BaseSmall ==
  ASSUME NEW e \in 1..112, NEW s \in Mantissa
  PROVE  \E n \in 0..2^10 :
           /\ base(Pack(e, s)) = 128 * 2^23 + n
           /\ IF e >= 97 THEN Rounds(s, Two(125 - e), n) ELSE n = 0
<1>1. e \in 1..254 /\ e + 2 \in 1..254 /\ ~ (e > 142)
  OBVIOUS
<1>2. /\ Scale(Scale(Pack(e, s), 112), -110) = Pack(e + 2, s)
      /\ Exponent(Pack(e, s)) = e
      /\ Pack(e + 2, s) \in 0..MaxInt /\ IsFinite(Pack(e + 2, s))
      /\ Sig(Pack(e + 2, s)) = s /\ Unit(Pack(e + 2, s)) = e + 2 - 1
  BY <1>1, ScaleNormal, Normal
<1>3. base(Pack(e, s)) = Combine(128 * 2^23, Pack(e + 2, s), 1)
  <2>1. MaxOf(e, 113) + 15 = 128
    BY DEF MaxOf
  <2> QED
    BY <1>2, <2>1 DEF base
<1>4. PICK k \in 14..125 : k = 126 - e
  OBVIOUS
<1>5. s \in 0..(2^24 - 1) /\ s \in Nat /\ 8 * s \in Nat
  BY DEF Mantissa
<1>6. ASSUME NEW g \in 0..(2^15 - 1), g = Sticky(8 * s, k)
      PROVE  base(Pack(e, s)) = 128 * 2^23 + RoundShift(g, 4)
  <2>1. 128 - 1 - (e + 2 - 1) = k /\ 128 \in 128..157
    BY <1>4
  <2>2. g = Sticky(8 * Sig(Pack(e + 2, s)), 128 - 1 - Unit(Pack(e + 2, s)))
    BY <1>2, <1>6, <2>1
  <2> QED
    BY <1>2, <1>3, <2>1, <2>2, PowerPlus, Zenon
<1>7. CASE e >= 97
  <2>1. k \in 13..29 /\ k - 1 = 125 - e
    BY <1>4, <1>7
  <2>2. PICK g \in 0..(2^15 - 1) : g = Sticky(8 * s, k)
    BY <1>5, <2>1, StickyRounds, Zenon
  <2>3. PICK n \in Nat : n = RoundShift(g, 4)
    BY <1>5, <2>1, <2>2, StickyRounds, Zenon
  <2>4. Rounds(s, Two(125 - e), n)
    BY <1>5, <2>1, <2>2, <2>3, StickyRounds, Zenon
  <2>5. n <= 2^10
    <3>1. PICK h \in Nat : h = Two(125 - e) /\ h >= 2^13
      <4>1. PICK j \in 13..28 : j = 125 - e
        BY <1>7
      <4>2. Two(j) \in Nat /\ Two(j) >= 2^13
        BY TwoTable
      <4> QED
        BY <4>1, <4>2
    <3>2. (2 * n - 1) * h <= s
      BY <2>4, <3>1 DEF Rounds
    <3>3. 2 * n - 1 >= 2^11 => (2 * n - 1) * h >= 2^11 * 2^13
      BY <3>1
    <3>4. 2^11 * 2^13 = 2^24
      OBVIOUS
    <3> QED
      BY <1>5, <3>1, <3>2, <3>3, <3>4
  <2>6. base(Pack(e, s)) = 128 * 2^23 + n
    BY <1>6, <2>2, <2>3
  <2>7. n \in 0..2^10
    BY <2>5
  <2> QED
    BY <1>7, <2>4, <2>6, <2>7
<1>8. CASE ~ (e >= 97)
  <2>1. k > 29 /\ k \in Int
    BY <1>4, <1>8
  <2>2. PICK g \in {0, 1} : g = Sticky(8 * s, k)
    BY <1>5, <2>1, StickyVanishes
  <2>3. RoundShift(g, 4) = 0 /\ g \in 0..(2^15 - 1)
    BY <1>5, <2>1, <2>2, StickyVanishes
  <2>4. base(Pack(e, s)) = 128 * 2^23 + 0
    BY <1>6, <2>2, <2>3
  <2>5. 0 \in 0..2^10
    OBVIOUS
  <2> QED
    BY <1>8, <2>4, <2>5
<1> QED
  BY <1>7, <1>8

\* A subnormal float adds nothing.
LEMMA BaseTiny ==
  ASSUME NEW s \in 0..(2^23 - 1)
  PROVE  base(s) = 128 * 2^23
<1>1. PICK v \in 0..MaxInt :
        /\ Scale(Scale(s, 112), -110) = v /\ IsFinite(v)
        /\ Sig(v) \in 0..(2^24 - 1) /\ Unit(v) \in {0, 1}
        /\ Exponent(v) \in 0..2
  BY ScaleSubnormal, Zenon
<1>2. base(s) = Combine(128 * 2^23, v, 1)
  <2>1. MaxOf(0, 113) + 15 = 128
    BY DEF MaxOf
  <2> QED
    BY <1>1, <2>1, Subnormal, Zenon DEF base
<1>3. PICK k \in Int : k = 128 - 1 - Unit(v) /\ k > 29
  BY <1>1
<1>4. 8 * Sig(v) \in Nat
  BY <1>1
<1>5. PICK g \in {0, 1} : g = Sticky(8 * Sig(v), k)
  BY <1>3, <1>4, StickyVanishes
<1>6. RoundShift(g, 4) = 0 /\ g \in 0..(2^15 - 1) /\ 128 \in 128..157
  BY <1>3, <1>4, <1>5, StickyVanishes
<1>7. Combine(128 * 2^23, v, 1) = 128 * 2^23 + 0
  BY <1>3, <1>5, <1>6, PowerPlus, Zenon
<1> QED
  BY <1>2, <1>7

-----------------------------------------------------------------------------
(* What fp16_from_fp32_value() makes of base().                             *)

\* The half without its sign.
HalfOf(w) ==
  IF w > Inf THEN 126 * 2^8
  ELSE (Exponent(base(w)) % 2^5) * 2^10 + (base(w) % 2^12)

\* The bits of the half that are cut out of the exponent and the mantissa.
LEMMA HalfOfParts ==
  ASSUME NEW w, NEW d \in 0..255, NEW n \in 0..2^11, base(w) = d * 2^23 + n,
         ~ (w > Inf)
  PROVE  HalfOf(w) = (d % 32) * 2^10 + n
<1>1. PICK v \in Int : v = d * 2^23 + n
  OBVIOUS
<1>2. Exponent(v) = d /\ v % 2^12 = n
  BY <1>1 DEF Exponent
<1>3. HalfOf(w) = (Exponent(v) % 2^5) * 2^10 + (v % 2^12)
  BY <1>1, Zenon DEF HalfOf
<1>4. 2^5 = 32
  OBVIOUS
<1> QED
  BY <1>2, <1>3, <1>4, Zenon

\* A comparison of numbers with units, by a power of two.
LEMMA LeqFacts ==
  ASSUME NEW s \in Nat, NEW t \in Nat, NEW u \in Int, NEW d \in 0..30
  PROVE  /\ Leq(s, u, t, u + d) <=> s <= t * Two(d)
         /\ Leq(t, u + d, s, u) <=> t * Two(d) <= s
<1>1. PICK p \in Nat \ {0} : p = Two(d)
  BY TwoNext
<1>2. PICK x \in Nat : x = t * p
  OBVIOUS
<1>3. PICK v \in Int : v = u + d
  OBVIOUS
<1>4. MinOf(v - u, 30) = d /\ u <= v /\ MinOf(IF u <= v THEN v - u ELSE u - v, 30) = d
  BY <1>3 DEF MinOf
<1>5. Leq(s, u, t, v) <=> (s + (p - 1)) \div p <= t
  BY <1>1, <1>4 DEF Leq, Two
<1>6. (s + (p - 1)) \div p <= t <=> s <= x
  <2>1. PICK n \in Nat : n = s + (p - 1)
    BY <1>1
  <2>2. n = p * (n \div p) + (n % p) /\ n \div p \in Int /\ n % p \in 0..(p - 1)
    OBVIOUS
  <2>3. PICK q \in Int : q = n \div p
    BY <2>2
  <2>4. PICK y \in Int : y = p * q
    BY Multiples
  <2>5. PICK r \in 0..(p - 1) : n = y + r
    BY <2>2, <2>3, <2>4
  <2>6. PICK z \in Int : z = t - q
    OBVIOUS
  <2>7. x - y = p * z
    BY <1>2, <2>4, <2>6
  <2>8. z >= 0 => x >= y
    BY <2>6, <2>7, Multiples
  <2>9. z <= -1 => x - y <= -p
    BY <2>7, Multiples
  <2> QED
    BY <2>1, <2>3, <2>5, <2>6, <2>8, <2>9
<1>7. Leq(t, v, s, u) <=> x <= s
  <2>1. CASE d = 0
    <3>1. p = 1 /\ v = u
      BY <1>1, <1>3, <2>1, TwoValues
    <3>2. MinOf(v - u, 30) = 0 /\ v <= u
      BY <3>1 DEF MinOf
    <3>3. Leq(t, v, s, u) <=> (t + (p - 1)) \div p <= s
      BY <1>1, <2>1, <3>1, <3>2 DEF Leq, Two
    <3>4. (t + (p - 1)) \div p = t /\ x = t
      BY <1>2, <3>1
    <3> QED
      BY <3>3, <3>4
  <2>2. CASE d # 0
    <3>1. ~ (v <= u) /\ MinOf(v - u, 30) = d
      BY <1>3, <1>4, <2>2
    <3>2. Leq(t, v, s, u) <=> t <= s \div p
      BY <1>1, <3>1 DEF Leq, Two
    <3>3. s = p * (s \div p) + (s % p) /\ s \div p \in Int /\ s % p \in 0..(p - 1)
      OBVIOUS
    <3>4. PICK q \in Int : q = s \div p
      BY <3>3
    <3>5. PICK y \in Int : y = p * q
      BY Multiples
    <3>6. PICK r \in 0..(p - 1) : s = y + r
      BY <3>3, <3>4, <3>5
    <3>7. PICK z \in Int : z = q - t
      OBVIOUS
    <3>8. y - x = p * z
      BY <1>2, <3>5, <3>7
    <3>9. z >= 0 => y >= x
      BY <3>7, <3>8, Multiples
    <3>10. z <= -1 => y - x <= -p
      BY <3>8, Multiples
    <3> QED
      BY <3>2, <3>4, <3>6, <3>7, <3>9, <3>10
  <2> QED
    BY <2>1, <2>2
<1> QED
  BY <1>1, <1>2, <1>3, <1>5, <1>6, <1>7

\* A number is nearest to m if it lies between the middles of m and of its
\* neighbours, which are given by their mantissas and units.
LEMMA NearestIs ==
  ASSUME NEW s \in Nat, NEW u \in Int, NEW m \in 0..HalfInf,
         NEW c \in 0..30, NEW d \in 0..30,
         m < HalfInf =>
           /\ HalfUnit(m) - 1 = u + c
           /\ HalfSig(m) \in Nat /\ s <= (2 * HalfSig(m) + 1) * Two(c)
           /\ m % 2 = 1 => s < (2 * HalfSig(m) + 1) * Two(c),
         m > 0 =>
           /\ HalfUnit(m - 1) - 1 = u + d
           /\ HalfSig(m - 1) \in Nat /\ (2 * HalfSig(m - 1) + 1) * Two(d) <= s
           /\ m % 2 = 1 => (2 * HalfSig(m - 1) + 1) * Two(d) < s
  PROVE  Nearest(s, u, 1, m)
<1>1. ASSUME m < HalfInf
      PROVE  /\ Leq(s, u, (2 * HalfSig(m) + 1) * 1, HalfUnit(m) - 1)
             /\ m % 2 = 1 => ~ Leq((2 * HalfSig(m) + 1) * 1, HalfUnit(m) - 1, s, u)
  <2>1. PICK t \in Nat : t = (2 * HalfSig(m) + 1) * 1
    BY <1>1
  <2>2. PICK x \in Nat : x = t * Two(c)
    BY TwoNext
  <2>3. s <= x /\ (m % 2 = 1 => s < x)
    BY <1>1, <2>1, <2>2
  <2>4. ~ (s < x /\ x <= s)
    OBVIOUS
  <2> QED
    BY <1>1, <2>1, <2>2, <2>3, <2>4, LeqFacts
<1>2. ASSUME m > 0
      PROVE  /\ Leq((2 * HalfSig(m - 1) + 1) * 1, HalfUnit(m - 1) - 1, s, u)
             /\ m % 2 = 1 =>
                  ~ Leq(s, u, (2 * HalfSig(m - 1) + 1) * 1, HalfUnit(m - 1) - 1)
  <2>1. PICK t \in Nat : t = (2 * HalfSig(m - 1) + 1) * 1
    BY <1>2
  <2>2. PICK x \in Nat : x = t * Two(d)
    BY TwoNext
  <2>3. x <= s /\ (m % 2 = 1 => x < s)
    BY <1>2, <2>1, <2>2
  <2>4. ~ (x < s /\ s <= x)
    OBVIOUS
  <2> QED
    BY <1>2, <2>1, <2>2, <2>3, <2>4, LeqFacts
<1> QED
  BY <1>1, <1>2 DEF Nearest

\* Every finite float becomes the nearest half, and what is too large the
\* infinity.
LEMMA HalfOfInfinite ==
  /\ HalfOf(Inf) = HalfInf
  /\ \A e \in 143..254 : \A s \in Mantissa :
       HalfOf(Pack(e, s)) = HalfInf /\ Nearest(s, e - 1, 1, HalfInf)
<1>1. ASSUME NEW w, base(w) = Inf, ~ (w > Inf)
      PROVE  HalfOf(w) = HalfInf
  <2>1. base(w) = 255 * 2^23 + 0 /\ 255 \in 0..255 /\ 0 \in 0..2^11
    BY <1>1 DEF Inf
  <2>2. HalfOf(w) = (255 % 32) * 2^10 + 0
    BY <1>1, <2>1, HalfOfParts, Zenon
  <2> QED
    BY <2>2 DEF HalfInf
<1>2. HalfOf(Inf) = HalfInf
  <2>1. ~ (Inf > Inf)
    BY DEF Inf
  <2> QED
    BY <1>1, <2>1, BaseInfinite
<1>3. ASSUME NEW e \in 143..254, NEW s \in Mantissa
      PROVE  HalfOf(Pack(e, s)) = HalfInf /\ Nearest(s, e - 1, 1, HalfInf)
  <2>1. ~ (Pack(e, s) > Inf)
    BY DEF Pack, Inf, Mantissa
  <2>2. HalfOf(Pack(e, s)) = HalfInf
    BY <1>1, <2>1, BaseInfinite
  <2>3. /\ HalfInf > 0 /\ ~ (HalfInf < HalfInf) /\ HalfInf % 2 # 1
        /\ HalfSig(HalfInf - 1) = 2047 /\ HalfUnit(HalfInf - 1) - 1 = 153
        /\ (2 * 2047 + 1) * 1 = 4095
    BY DEF HalfInf, HalfSig, HalfUnit, MaxOf
  <2>4. Leq(4095, 153, s, e - 1)
    <3>1. s \in Nat /\ s >= 2^23
      BY DEF Mantissa
    <3>2. CASE e <= 154
      <4>1. PICK d \in 0..30 : d = 154 - e /\ d <= 11
        BY <3>2
      <4>2. PICK p \in Nat : p = Two(d) /\ p <= 2^11
        BY <4>1, TwoTable
      <4>3. 4095 * p <= s
        BY <3>1, <4>2
      <4>4. e - 1 + d = 153 /\ d \in 0..30 /\ 4095 \in Nat /\ e - 1 \in Int
        BY <4>1
      <4>5. PICK t \in Nat, u \in Int : t = 4095 /\ u = e - 1
        BY <4>4
      <4>6. Leq(t, u + d, s, u) <=> t * Two(d) <= s
        BY <3>1, LeqFacts
      <4>7. u + d = 153 /\ t * p <= s
        BY <4>3, <4>4, <4>5
      <4>8. Leq(t, u + d, s, u)
        BY <4>2, <4>6, <4>7, Zenon
      <4> QED
        BY <4>5, <4>7, <4>8
    <3>3. CASE e > 154
      <4>1. PICK d \in 0..30 : d = MinOf(e - 1 - 153, 30)
        BY <3>3 DEF MinOf
      <4>2. PICK p \in Nat \ {0} : p = Two(d)
        BY TwoNext
      <4>3. 153 <= e - 1
        BY <3>3
      <4>4. Leq(4095, 153, s, e - 1) <=> (4095 + (p - 1)) \div p <= s
        BY <4>1, <4>2, <4>3 DEF Leq, Two
      <4>5. (4095 + (p - 1)) \div p <= 4096
        BY <4>2
      <4> QED
        BY <3>1, <4>4, <4>5
    <3> QED
      BY <3>2, <3>3
  <2> QED
    BY <2>2, <2>3, <2>4 DEF Nearest
<1> QED
  BY <1>2, <1>3

\* Normal halves, with the step to the next exponent and to the infinity.
LEMMA HalfOfNormal ==
  ASSUME NEW e \in 113..142, NEW s \in Mantissa
  PROVE  /\ HalfOf(Pack(e, s)) \in 0..HalfInf
         /\ Nearest(s, e - 1, 1, HalfOf(Pack(e, s)))
<1>1. PICK n \in 2^10..2^11 :
        base(Pack(e, s)) = (e + 15) * 2^23 + n /\ Rounds(s, 2^12, n)
  BY BaseNormal
<1>2. PICK b \in 0..29 : b = e - 113
  OBVIOUS
<1>3. PICK m \in Int : m = b * 2^10 + n
  OBVIOUS
<1>4. HalfOf(Pack(e, s)) = m
  <2>1. ~ (Pack(e, s) > Inf) /\ e + 15 \in 0..255 /\ n \in 0..2^11
    BY DEF Pack, Inf, Mantissa
  <2>2. (e + 15) % 32 = b
    BY <1>2
  <2> QED
    BY <1>1, <1>3, <2>1, <2>2, HalfOfParts, Zenon
<1>5. m \in 0..HalfInf /\ m % 2 = n % 2 /\ m > 0
  BY <1>3 DEF HalfInf
<1>6. s \in Nat /\ e - 1 \in Int /\ s <= 2^24 - 1 /\ s >= 2^23
  BY DEF Mantissa
<1>7. /\ (2 * n - 1) * 4096 <= s /\ s <= (2 * n + 1) * 4096
      /\ m % 2 = 1 => (2 * n - 1) * 4096 < s /\ s < (2 * n + 1) * 4096
  BY <1>1, <1>5 DEF Rounds
<1>8. ASSUME m < HalfInf
      PROVE  \E c \in 0..30 :
               /\ HalfUnit(m) - 1 = e - 1 + c
               /\ HalfSig(m) \in Nat /\ s <= (2 * HalfSig(m) + 1) * Two(c)
               /\ m % 2 = 1 => s < (2 * HalfSig(m) + 1) * Two(c)
  <2>1. CASE n < 2^11
    <3>1. HalfUnit(m) - 1 = e - 1 + 12 /\ HalfSig(m) = n
      BY <1>2, <1>3, <2>1 DEF HalfUnit, HalfSig, MaxOf
    <3>2. Two(12) = 4096 /\ 12 \in 0..30
      BY TwoValues
    <3> QED
      BY <1>7, <3>1, <3>2
  <2>2. CASE n = 2^11
    <3>1. HalfUnit(m) - 1 = e - 1 + 13 /\ HalfSig(m) = 1024 /\ m % 2 # 1
      BY <1>2, <1>3, <2>2 DEF HalfUnit, HalfSig, MaxOf
    <3>2. Two(13) = 8192 /\ 13 \in 0..30
      BY TwoValues
    <3> QED
      BY <1>6, <3>1, <3>2
  <2> QED
    BY <2>1, <2>2
<1>9. \E d \in 0..30 :
        /\ HalfUnit(m - 1) - 1 = e - 1 + d
        /\ HalfSig(m - 1) \in Nat /\ (2 * HalfSig(m - 1) + 1) * Two(d) <= s
        /\ m % 2 = 1 => (2 * HalfSig(m - 1) + 1) * Two(d) < s
  <2>1. CASE n > 2^10 \/ b = 0
    <3>1. HalfUnit(m - 1) - 1 = e - 1 + 12 /\ HalfSig(m - 1) = n - 1
      BY <1>2, <1>3, <2>1 DEF HalfUnit, HalfSig, MaxOf
    <3>2. Two(12) = 4096 /\ 12 \in 0..30 /\ 2 * (n - 1) + 1 = 2 * n - 1
      BY TwoValues
    <3> QED
      BY <1>7, <3>1, <3>2
  <2>2. CASE n = 2^10 /\ b > 0
    <3>1. HalfUnit(m - 1) - 1 = e - 1 + 11 /\ HalfSig(m - 1) = 2047 /\ m % 2 # 1
      BY <1>2, <1>3, <2>2 DEF HalfUnit, HalfSig, MaxOf
    <3>2. Two(11) = 2048 /\ 11 \in 0..30
      BY TwoValues
    <3> QED
      BY <1>6, <3>1, <3>2
  <2> QED
    BY <2>1, <2>2
<1>10. Nearest(s, e - 1, 1, m)
  <2>1. PICK d \in 0..30 :
          /\ HalfUnit(m - 1) - 1 = e - 1 + d
          /\ HalfSig(m - 1) \in Nat /\ (2 * HalfSig(m - 1) + 1) * Two(d) <= s
          /\ m % 2 = 1 => (2 * HalfSig(m - 1) + 1) * Two(d) < s
    BY <1>9
  <2>2. CASE m < HalfInf
    BY <1>5, <1>6, <1>8, <2>1, <2>2, NearestIs
  <2>3. CASE ~ (m < HalfInf)
    BY <1>5, <1>6, <2>1, <2>3, NearestIs
  <2> QED
    BY <2>2, <2>3
<1> QED
  BY <1>4, <1>5, <1>10


\* Subnormal halves, with the step to the first normal one.
LEMMA HalfOfSmall ==
  ASSUME NEW e \in 1..112, NEW s \in Mantissa
  PROVE  /\ HalfOf(Pack(e, s)) \in 0..HalfInf
         /\ Nearest(s, e - 1, 1, HalfOf(Pack(e, s)))
<1>1. PICK n \in 0..2^10 :
        /\ base(Pack(e, s)) = 128 * 2^23 + n
        /\ IF e >= 97 THEN Rounds(s, Two(125 - e), n) ELSE n = 0
  BY BaseSmall, Zenon
<1>2. HalfOf(Pack(e, s)) = n
  <2>1. ~ (Pack(e, s) > Inf) /\ 128 \in 0..255 /\ n \in 0..2^11
    BY DEF Pack, Inf, Mantissa
  <2>2. HalfOf(Pack(e, s)) = (128 % 32) * 2^10 + n
    BY <1>1, <2>1, HalfOfParts, Zenon
  <2> QED
    BY <2>2
<1>3. n \in 0..HalfInf /\ n < HalfInf
  BY DEF HalfInf
<1>4. /\ HalfUnit(n) - 1 = 124 /\ HalfSig(n) = n
      /\ n > 0 => HalfUnit(n - 1) - 1 = 124 /\ HalfSig(n - 1) = n - 1
  BY DEF HalfUnit, HalfSig, MaxOf
<1>5. s \in Nat /\ s <= 2^24 - 1 /\ e - 1 \in Int
  BY DEF Mantissa
<1>6. CASE e >= 97
  <2>1. PICK c \in 0..30 : c = 125 - e
    BY <1>6
  <2>2. e - 1 + c = 124
    BY <2>1
  <2>3. PICK h \in Nat : h = Two(c)
    BY TwoNext
  <2>4. Rounds(s, h, n)
    BY <1>1, <1>6, <2>1, <2>3
  <2>5. /\ (2 * n - 1) * h <= s /\ s <= (2 * n + 1) * h
        /\ n % 2 = 1 => (2 * n - 1) * h < s /\ s < (2 * n + 1) * h
    BY <2>4 DEF Rounds
  <2>6. 2 * (n - 1) + 1 = 2 * n - 1 /\ n \in Nat /\ (n > 0 => n - 1 \in Nat)
    OBVIOUS
  <2>7. /\ HalfUnit(n) - 1 = e - 1 + c
        /\ HalfSig(n) \in Nat /\ s <= (2 * HalfSig(n) + 1) * Two(c)
        /\ n % 2 = 1 => s < (2 * HalfSig(n) + 1) * Two(c)
    BY <1>4, <2>2, <2>3, <2>5, <2>6, Zenon
  <2>8. n > 0 =>
          /\ HalfUnit(n - 1) - 1 = e - 1 + c
          /\ HalfSig(n - 1) \in Nat /\ (2 * HalfSig(n - 1) + 1) * Two(c) <= s
          /\ n % 2 = 1 => (2 * HalfSig(n - 1) + 1) * Two(c) < s
    BY <1>4, <2>2, <2>3, <2>5, <2>6, Zenon
  <2>9. Nearest(s, e - 1, 1, n)
    BY <1>3, <1>5, <2>7, <2>8, NearestIs
  <2> QED
    BY <1>2, <1>3, <2>9
<1>7. CASE ~ (e >= 97)
  <2>1. n = 0 /\ ~ (n > 0) /\ n % 2 # 1
    BY <1>1, <1>7
  <2>2. Leq(s, e - 1, 1, 124)
    <3>1. PICK d \in 0..30 : d = MinOf(124 - (e - 1), 30) /\ d >= 29
      BY <1>7 DEF MinOf
    <3>2. PICK p \in Nat \ {0} : p = Two(d) /\ p >= 2^29
      BY <3>1, TwoTable
    <3>3. e - 1 <= 124
      BY <1>7
    <3>4. Leq(s, e - 1, 1, 124) <=> (s + (p - 1)) \div p <= 1
      BY <3>1, <3>2, <3>3 DEF Leq, Two
    <3>5. (s + (p - 1)) \div p <= 1
      BY <1>5, <3>2
    <3> QED
      BY <3>4, <3>5
  <2>3. (2 * HalfSig(n) + 1) * 1 = 1
    BY <1>4, <2>1
  <2>4. Nearest(s, e - 1, 1, n)
    BY <1>4, <2>1, <2>2, <2>3, Zenon DEF Nearest
  <2> QED
    BY <1>2, <1>3, <2>4
<1> QED
  BY <1>6, <1>7

\* Subnormal floats become zero.
LEMMA HalfOfTiny ==
  ASSUME NEW s \in 0..(2^23 - 1)
  PROVE  HalfOf(s) \in 0..HalfInf /\ Nearest(s, 0, 1, HalfOf(s))
<1>1. base(s) = 128 * 2^23 + 0
  <2>1. 128 * 2^23 + 0 = 128 * 2^23
    OBVIOUS
  <2> QED
    BY <2>1, BaseTiny, Zenon
<1>2. ~ (s > Inf) /\ 128 \in 0..255 /\ 0 \in 0..2^11
  BY DEF Inf
<1>3. HalfOf(s) = 0
  <2>1. HalfOf(s) = (128 % 32) * 2^10 + 0
    BY <1>1, <1>2, HalfOfParts, Zenon
  <2> QED
    BY <2>1
<1>4. HalfUnit(0) - 1 = 124 /\ HalfSig(0) = 0
  BY DEF HalfUnit, HalfSig, MaxOf
<1>5. Leq(s, 0, 1, 124)
  <2>1. MinOf(124 - 0, 30) = 30 /\ 0 <= 124
    BY DEF MinOf
  <2>2. (s + (2^30 - 1)) \div 2^30 <= 1
    OBVIOUS
  <2> QED
    BY <2>1, <2>2 DEF Leq
<1>6. (2 * HalfSig(0) + 1) * 1 = 1 /\ 0 % 2 # 1 /\ ~ (0 > 0) /\ 0 \in 0..HalfInf
  BY <1>4 DEF HalfInf
<1>7. Nearest(s, 0, 1, 0)
  BY <1>4, <1>5, <1>6, Zenon DEF Nearest
<1> QED
  BY <1>3, <1>6, <1>7


\* All floats.
LEMMA HalfOfNearest ==
  ASSUME NEW w \in 0..MaxInt
  PROVE  /\ HalfOf(w) \in 0..(2^15 - 1)
         /\ w > Inf => HalfOf(w) = 126 * 2^8
         /\ w = Inf => HalfOf(w) = HalfInf
         /\ w < Inf => /\ HalfOf(w) <= HalfInf
                       /\ Nearest(Sig(w), Unit(w), 1, HalfOf(w))
<1>0. Inf \in Int
  BY DEF Inf
<1>1. CASE w > Inf
  <2>1. HalfOf(w) = 126 * 2^8
    BY <1>1 DEF HalfOf
  <2>2. 126 * 2^8 \in 0..(2^15 - 1)
    OBVIOUS
  <2> QED
    BY <1>0, <1>1, <2>1, <2>2
<1>2. CASE w = Inf
  <2>1. HalfOf(w) = HalfInf /\ HalfInf \in 0..(2^15 - 1)
    BY <1>2, HalfOfInfinite DEF HalfInf
  <2> QED
    BY <1>0, <1>2, <2>1
<1>3. CASE w < Inf
  <2>1. HalfOf(w) \in 0..HalfInf /\ Nearest(Sig(w), Unit(w), 1, HalfOf(w))
    <3>1. CASE Exponent(w) = 0
      <4>1. w \in 0..(2^23 - 1) /\ Sig(w) = w /\ Unit(w) = 0
        BY <3>1, Parts
      <4> QED
        BY <4>1, HalfOfTiny, Zenon
    <3>2. CASE Exponent(w) # 0
      <4>1. PICK e \in 1..254 : e = Exponent(w)
        BY <1>3, <3>2, Parts DEF IsFinite
      <4>2. PICK s \in Mantissa : s = Sig(w) /\ Unit(w) = e - 1 /\ w = Pack(e, s)
        BY <3>2, <4>1, Parts
      <4>3. CASE e \in 1..112
        BY <4>2, <4>3, HalfOfSmall
      <4>4. CASE e \in 113..142
        BY <4>2, <4>4, HalfOfNormal
      <4>5. CASE e \in 143..254
        <5>1. HalfInf \in 0..HalfInf
          BY DEF HalfInf
        <5> QED
          BY <4>2, <4>5, <5>1, HalfOfInfinite
      <4> QED
        BY <4>3, <4>4, <4>5
    <3> QED
      BY <3>1, <3>2
  <2>2. HalfInf \in Int /\ HalfInf <= 2^15 - 1
    BY DEF HalfInf
  <2> QED
    BY <1>0, <1>3, <2>1, <2>2
<1> QED
  BY <1>0, <1>1, <1>2, <1>3

\* The floats of the model, and what ToHalf() makes of one.
FloatWord == [neg : BOOLEAN, bits : 0..MaxInt]
HalfWord == 0..(2^16 - 1)

\* The sign is a bit of its own.
LEMMA HalfOfFloat ==
  ASSUME NEW f \in FloatWord
  PROVE  /\ ToHalf(f) \in HalfWord
         /\ Negative(ToHalf(f)) = f.neg
         /\ Magnitude(ToHalf(f)) = HalfOf(f.bits)
<1>1. f.neg \in BOOLEAN /\ f.bits \in 0..MaxInt
  BY DEF FloatWord
<1>2. PICK m \in 0..(2^15 - 1) : m = HalfOf(f.bits)
  BY <1>1, HalfOfNearest
<1>3. ToHalf(f) = (IF f.neg THEN 2^15 ELSE 0) + m
  BY <1>2, Zenon DEF ToHalf, fp16_from_fp32_value, HalfOf
<1>4. CASE f.neg
  <2>1. PICK h \in Nat : h = 2^15 + m
    OBVIOUS
  <2>2. h \in 0..(2^16 - 1) /\ h >= 2^15 /\ h % 2^15 = m
    BY <2>1
  <2>3. ToHalf(f) = h
    BY <1>3, <1>4, <2>1
  <2> QED
    BY <1>1, <1>2, <1>4, <2>2, <2>3 DEF HalfWord, Negative, Magnitude
<1>5. CASE ~ f.neg
  <2>1. m \in 0..(2^16 - 1) /\ ~ (m >= 2^15) /\ m % 2^15 = m
    OBVIOUS
  <2>2. ToHalf(f) = m
    BY <1>3, <1>5
  <2> QED
    BY <1>1, <1>2, <1>5, <2>1, <2>2 DEF HalfWord, Negative, Magnitude
<1> QED
  BY <1>4, <1>5

-----------------------------------------------------------------------------
(* What the conversions return is a float.                                  *)

\* Types of the operations on floats.
LEMMA RoundShiftType ==
  ASSUME NEW s \in Nat, NEW k \in Int, k >= -31
  PROVE  RoundShift(s, k) \in Nat
<1>1. CASE k <= 0
  <2>1. PICK j \in 0..31 : j = -k
    BY <1>1
  <2>2. RoundShift(s, k) = s * Two(j)
    BY <1>1, <2>1 DEF RoundShift, Two
  <2>3. PICK p \in Nat : p = Two(j)
    BY TwoTable
  <2>4. s * p \in Nat
    OBVIOUS
  <2> QED
    BY <2>2, <2>3, <2>4
<1>2. CASE k > 30
  BY <1>2 DEF RoundShift
<1>3. CASE k \in 1..30
  <2>1. PICK p \in Nat \ {0} : p = Two(k)
    BY <1>3, TwoNext
  <2>2. PICK q \in Nat : q = s \div p
    BY <2>1
  <2>3. RoundShift(s, k) = IF 2 * (s % p) > p \/ (2 * (s % p) = p /\ q % 2 = 1)
                           THEN q + 1 ELSE q
    BY <1>3, <2>1, <2>2 DEF RoundShift, Two
  <2> QED
    BY <2>2, <2>3
<1> QED
  BY <1>1, <1>2, <1>3

LEMMA FloatOfType ==
  ASSUME NEW s \in 0..MaxInt, NEW u \in Int
  PROVE  FloatOf(s, u) \in 0..MaxInt
<1>1. Inf \in 0..MaxInt /\ 0 \in 0..MaxInt /\ MaxInt \in Int
  BY DEF Inf, MaxInt
<1>2. CASE s = 0
  BY <1>1, <1>2 DEF FloatOf
<1>3. CASE s # 0
  <2>1. s \in 1..MaxInt /\ s \in Nat
    BY <1>1, <1>3
  <2>2. PICK b \in 1..31 : b = BitLength(s)
    BY <2>1, BitLengthFacts
  <2>3. PICK k \in Int : k = MaxOf(b - 24, -u) /\ k >= -31 /\ u + k >= 0
    BY DEF MaxOf
  <2>4. PICK r \in Nat : r = RoundShift(s, k)
    BY <2>1, <2>3, RoundShiftType
  <2>5. FloatOf(s, u) = IF u + k > 253 THEN Inf ELSE MinOf(Inf, (u + k) * 2^23 + r)
    BY <1>3, <2>2, <2>3, <2>4, Zenon DEF FloatOf
  <2>6. PICK x \in Nat : x = (u + k) * 2^23 + r
    BY <2>3
  <2>7. MinOf(Inf, x) \in 0..MaxInt
    BY <1>1 DEF MinOf
  <2> QED
    BY <1>1, <2>5, <2>6, <2>7
<1> QED
  BY <1>2, <1>3

LEMMA SigType ==
  ASSUME NEW w \in 0..MaxInt
  PROVE  Sig(w) \in 0..MaxInt /\ Sig(w) \in Nat /\ Unit(w) \in Int
<1>1. w \in Nat /\ MaxInt \in Int
  BY DEF MaxInt
<1>2. CASE Exponent(w) = 0
  BY <1>1, <1>2, Parts
<1>3. CASE Exponent(w) # 0
  <2>1. Sig(w) \in Mantissa /\ Exponent(w) \in 0..255 /\ Unit(w) = Exponent(w) - 1
    BY <1>3, Parts
  <2>2. PICK x \in 2^23..(2^24 - 1) : x = Sig(w)
    BY <2>1, Zenon DEF Mantissa
  <2>3. x \in 0..MaxInt /\ x \in Nat
    BY DEF MaxInt
  <2> QED
    BY <2>1, <2>2, <2>3
<1> QED
  BY <1>2, <1>3

LEMMA QuietType ==
  ASSUME NEW w \in 0..MaxInt
  PROVE  Quiet(w) \in 0..MaxInt
<1>1. Quiet(w) = IF w > Inf /\ (w \div 2^22) % 2 = 0 THEN w + 2^22 ELSE w
  BY DEF Quiet
<1>2. (w \div 2^22) % 2 = 0 => w + 2^22 \in 0..MaxInt
  BY DEF MaxInt
<1> QED
  BY <1>1, <1>2

LEMMA ScaleType ==
  ASSUME NEW w \in 0..MaxInt, NEW k \in Int
  PROVE  Scale(w, k) \in 0..MaxInt
<1>1. Unit(w) + k \in Int
  BY SigType
<1> QED
  BY <1>1, SigType, QuietType, FloatOfType DEF Scale


\* A subnormal half is put under the exponent of 0.5, which the subtraction
\* takes away: what is left is 16 times its mantissa.
LEMMA DenormalizedIs ==
  ASSUME NEW h \in HalfWord
  PROVE  denormalized_value(h) = FloatOf(16 * Magnitude(h), 121)
<1>1. PICK m \in 0..(2^15 - 1) : m = Magnitude(h)
  <2>1. Magnitude(h) \in 0..(2^15 - 1)
    BY DEF Magnitude, HalfWord
  <2> QED
    BY <2>1, Zenon
<1>2. PICK s \in Mantissa : s = 2^23 + m
  <2>1. 2^23 + m \in 2^23..(2^24 - 1)
    OBVIOUS
  <2> QED
    BY <2>1, Zenon DEF Mantissa
<1>3. /\ m + 126 * 2^23 = Pack(126, s) /\ 126 * 2^23 = Pack(126, 2^23)
      /\ 2^23 \in Mantissa /\ 126 \in 1..254
  BY <1>2 DEF Pack, Mantissa
<1>4. /\ IsFinite(Pack(126, s)) /\ Sig(Pack(126, s)) = s
      /\ Unit(Pack(126, s)) = 125
      /\ Sig(Pack(126, 2^23)) = 2^23 /\ Unit(Pack(126, 2^23)) = 125
  BY <1>3, Normal
<1>5. Sticky(8 * 2^23, 125 - 125) = 16 * 2^23
  BY DEF Sticky
<1>6. Combine(Pack(126, s), Pack(126, 2^23), -1) =
        FloatOf(16 * s + (-1) * (16 * 2^23), 125 - 4)
  BY <1>4, <1>5, Zenon DEF Combine
<1>7. 16 * s + (-1) * (16 * 2^23) = 16 * m /\ 125 - 4 = 121
  BY <1>2
<1>8. denormalized_value(h) = Combine(m + 126 * 2^23, 126 * 2^23, -1)
  BY <1>1, Zenon DEF denormalized_value, Magnitude
<1> QED
  BY <1>1, <1>3, <1>6, <1>7, <1>8

\* ToFloat() returns a float.
LEMMA ToFloatType ==
  ASSUME NEW h \in HalfWord
  PROVE  ToFloat(h) \in FloatWord
<1>1. denormalized_value(h) \in 0..MaxInt
  <2>1. PICK s \in Nat : s = 16 * Magnitude(h) /\ s < 2^19
    BY DEF Magnitude, HalfWord
  <2>2. s \in 0..MaxInt /\ 121 \in Int
    BY <2>1 DEF MaxInt
  <2> QED
    BY <2>1, <2>2, DenormalizedIs, FloatOfType
<1>2. normalized_value(h) \in 0..MaxInt
  <2>1. PICK w \in 0..MaxInt : w = (nonsign(h) \div 8) + 224 * 2^23
    <3>1. PICK m \in 0..(2^15 - 1) : m = h % 2^15
      <4>1. h % 2^15 \in 0..(2^15 - 1)
        BY DEF HalfWord
      <4> QED
        BY <4>1, Zenon
    <3>2. (nonsign(h) \div 8) + 224 * 2^23 = m * 2^13 + 224 * 2^23
      BY <3>1 DEF nonsign
    <3>3. m * 2^13 + 224 * 2^23 \in 0..MaxInt
      BY DEF MaxInt
    <3> QED
      BY <3>2, <3>3
  <2>2. Scale(w, -112) \in 0..MaxInt
    BY ScaleType
  <2> QED
    BY <2>1, <2>2 DEF normalized_value
<1>3. Negative(h) \in BOOLEAN
  BY DEF Negative
<1> QED
  BY <1>1, <1>2, <1>3 DEF ToFloat, fp16_to_fp32_value, Float, FloatWord

-----------------------------------------------------------------------------
(* The state: what was converted, and from what.                            *)

\* What was converted, as long as it is known.
TypeInv ==
  /\ op = "bits" => result \in HalfWord
  /\ op \in {"literal", "float"} => result \in FloatWord
  /\ op = "float" => \E h \in HalfWord : args = <<h>> /\ result = ToFloat(h)
  /\ op = "half" => \E f \in FloatWord : args = <<f>> /\ result = ToHalf(f)

\* Conversions return what their types say.
LEMMA TypesAreKept ==
  Spec => []TypeInv
<1>1. Init => TypeInv
  BY DEF Init, TypeInv
<1>2. TypeInv /\ [Next]_vars => TypeInv'
  <2> SUFFICES ASSUME TypeInv, [Next]_vars
               PROVE  TypeInv'
    OBVIOUS
  <2>1. CASE FromBits
    <3>1. PICK h \in HalfBits : Call("bits", <<>>, h)
      BY <2>1 DEF FromBits
    <3>2. h \in HalfWord
      BY HalfAssumption DEF HalfWord
    <3> QED
      BY <3>1, <3>2 DEF Call, TypeInv
  <2>2. CASE Literal
    <3>1. PICK w \in FloatBits, neg \in BOOLEAN :
            Call("literal", <<>>, Float(neg, w))
      BY <2>2 DEF Literal
    <3>2. Float(neg, w) \in FloatWord
      BY HalfAssumption DEF Float, FloatWord
    <3> QED
      BY <3>1, <3>2 DEF Call, TypeInv
  <2>3. CASE Widen
    BY <2>3, ToFloatType DEF Widen, Call, TypeInv
  <2>4. CASE Narrow
    BY <2>4 DEF Narrow, Call, TypeInv
  <2>5. CASE Calculate
    BY <2>5 DEF Calculate, Call, TypeInv
  <2>6. CASE UNCHANGED vars
    BY <2>6 DEF vars, TypeInv
  <2> QED
    BY <2>1, <2>2, <2>3, <2>4, <2>5, <2>6 DEF Next
<1> QED
  BY <1>1, <1>2, PTL DEF Spec

\* Every float becomes the nearest half and every NaN the quiet NaN: the run
\* converts the floats around the ends of halves, the theorem holds for all
\* of them (Half.h:237).
THEOREM NearestIsReached ==
  Spec => []NarrowsToNearest
<1>1. TypeInv => NarrowsToNearest
  <2> SUFFICES ASSUME TypeInv, op = "half"
               PROVE  NarrowsToNearest
    BY DEF NarrowsToNearest
  <2>1. PICK f \in FloatWord : args = <<f>> /\ result = ToHalf(f)
    BY DEF TypeInv
  <2>2. PICK w \in 0..MaxInt : w = f.bits
    BY DEF FloatWord
  <2>3. args[1].bits = w /\ args[1].neg = f.neg
    BY <2>1, <2>2
  <2>4. Negative(result) = f.neg /\ Magnitude(result) = HalfOf(w)
    BY <2>1, <2>2, HalfOfFloat
  <2>5. w \in Int /\ Inf \in Int /\ HalfInf \in Int /\ HalfInf <= HalfInf
    BY DEF Inf, HalfInf
  <2> QED
    BY <2>3, <2>4, <2>5, HalfOfNearest DEF NarrowsToNearest
<1> QED
  BY <1>1, TypesAreKept, PTL


-----------------------------------------------------------------------------
(* Halves widen to floats of the same value.                                *)

\* A number of less than 24 bits is a float too, with the mantissa shifted.
LEMMA FloatOfShort ==
  ASSUME NEW t \in 1..MaxInt, NEW z \in 0..23, t * Two(z) \in Mantissa,
         NEW u \in 0..253, u - z >= 0
  PROVE  BitLength(t) = 24 - z /\ FloatOf(t, u) = Pack(u - z + 1, t * Two(z))
<1>1. PICK s \in Mantissa : s = t * Two(z)
  OBVIOUS
<1>2. PICK l \in 1..24 : l = 24 - z
  OBVIOUS
<1>3. Two(l - 1) <= t /\ t < Two(l)
  <2>1. PICK j \in 0..23 : j = l - 1
    BY <1>2
  <2>2. PICK p \in Nat \ {0} : p = Two(j) /\ Two(l) = 2 * p
    <3>1. j + 1 = l
      BY <2>1
    <3> QED
      BY <3>1, TwoNext
  <2>3. PICK q \in Nat \ {0} : q = Two(z)
    BY TwoNext
  <2>4. p * q = 2^23
    BY <1>2, <2>1, <2>2, <2>3, TwoTable
  <2>5. s = t * q /\ s >= 2^23 /\ s < 2^24 /\ t \in Int
    BY <1>1, <2>3 DEF Mantissa, MaxInt
  <2>6. PICK x \in Int : x = t - p
    BY <2>5
  <2>7. PICK y \in Int : y = t - 2 * p
    BY <2>5
  <2>8. q * x = s - 2^23 /\ q * y = s - 2^24
    <3>1. q * x = t * q - p * q
      BY <2>5, <2>6
    <3>2. q * y = t * q - 2 * (p * q)
      BY <2>5, <2>7
    <3> QED
      BY <2>4, <2>5, <3>1, <3>2
  <2>9. x >= 0
    BY <2>5, <2>8, Multiples
  <2>10. y < 0
    <3>1. y >= 1 => q * y >= q
      BY Multiples
    <3>2. y = 0 => q * y = 0
      OBVIOUS
    <3> QED
      BY <2>5, <2>8, <3>1, <3>2
  <2> QED
    BY <2>1, <2>2, <2>5, <2>6, <2>7, <2>9, <2>10
<1>4. BitLength(t) = l
  <2>1. l \in 1..31
    OBVIOUS
  <2> QED
    BY <1>3, <2>1, BitLengthIs
<1>5. PICK k \in Int : k = MaxOf(l - 24, -u) /\ k = l - 24 /\ k <= 0
  BY <1>2 DEF MaxOf
<1>6. RoundShift(t, k) = s
  <2>1. -k = z
    BY <1>2, <1>5
  <2> QED
    BY <1>1, <1>5, <2>1 DEF RoundShift, Two
<1>7. PICK n \in Int : n = u - z /\ n = u + k /\ n \in 0..253
  BY <1>2, <1>5
<1>8. FloatOf(t, u) = MinOf(Inf, n * 2^23 + s)
  <2>1. t # 0 /\ ~ (n > 253)
    BY <1>7
  <2> QED
    BY <1>4, <1>5, <1>6, <1>7, <2>1 DEF FloatOf
<1>9. PICK w \in Int : w = n * 2^23 + s /\ w = Pack(n + 1, s) /\ w <= Inf /\ Inf \in Int
  BY <1>7 DEF Pack, Inf, Mantissa
<1>10. MinOf(Inf, w) = w
  BY <1>9 DEF MinOf
<1> QED
  BY <1>1, <1>2, <1>4, <1>7, <1>8, <1>9, <1>10

\* A subnormal half becomes a normal float.
LEMMA WidenSubnormal ==
  ASSUME NEW m \in 1..1023
  PROVE  \E y \in 14..23 :
           /\ m * Two(y) \in Mantissa
           /\ BitLength(m) = 24 - y
           /\ FloatOf(16 * m, 121) = Pack(126 - y, m * Two(y))
<1>1. PICK y \in 14..23 : m * Two(y) \in Mantissa
  <2>1. \E y \in 14..23 : m * Two(y) \in 2^23..(2^24 - 1)
    BY TwoValues
  <2> QED
    BY <2>1 DEF Mantissa
<1>2. BitLength(m) = 24 - y
  <2>1. m \in 1..MaxInt
    BY DEF MaxInt
  <2>2. y \in 0..23 /\ 200 \in 0..253 /\ 200 - y >= 0
    OBVIOUS
  <2> QED
    BY <1>1, <2>1, <2>2, FloatOfShort
<1>3. PICK z \in 0..23 : z = y - 4
  OBVIOUS
<1>4. PICK t \in 1..MaxInt : t = 16 * m
  <2>1. 16 * m \in 1..MaxInt
    BY DEF MaxInt
  <2> QED
    BY <2>1, Zenon
<1>5. t * Two(z) = m * Two(y)
  <2>1. PICK p \in Nat : p = Two(z) /\ Two(y) = 16 * p
    BY <1>3, TwoTable
  <2> QED
    BY <1>4, <2>1
<1>6. FloatOf(t, 121) = Pack(121 - z + 1, t * Two(z))
  <2>1. 121 \in 0..253 /\ 121 - z >= 0
    OBVIOUS
  <2> QED
    BY <1>1, <1>5, <2>1, FloatOfShort, Zenon
<1>7. 121 - z + 1 = 126 - y
  BY <1>3
<1> QED
  BY <1>1, <1>2, <1>4, <1>5, <1>6, <1>7

\* A normal half keeps its mantissa and changes its exponent.
LEMMA WidenNormal ==
  ASSUME NEW m \in 2^10..(HalfInf - 1)
  PROVE  \E e \in 1..30 :
           /\ HalfSig(m) * 2^13 \in Mantissa
           /\ HalfUnit(m) = e + 124
           /\ m * 2^13 + 112 * 2^23 = Pack(112 + e, HalfSig(m) * 2^13)
           /\ Scale(m * 2^13 + 224 * 2^23, -112) = Pack(112 + e, HalfSig(m) * 2^13)
<1>0. m \in Nat /\ m >= 2^10 /\ m < 31 * 2^10
  BY DEF HalfInf
<1>1. PICK e \in 1..30 : e = m \div 2^10
  <2>1. m \div 2^10 \in 1..30
    BY <1>0
  <2> QED
    BY <2>1, Zenon
<1>2. PICK r \in 0..(2^10 - 1) : r = m % 2^10
  <2>1. m % 2^10 \in 0..(2^10 - 1)
    BY <1>0
  <2> QED
    BY <2>1, Zenon
<1>3. m = 2^10 * e + r
  BY <1>0, <1>1, <1>2
<1>4. PICK s \in Mantissa : s = HalfSig(m) * 2^13 /\ s = 2^23 + 2^13 * r
  <2>1. HalfSig(m) = 2^10 + r
    BY <1>0, <1>2 DEF HalfSig
  <2>2. HalfSig(m) * 2^13 \in Mantissa
    BY <2>1 DEF Mantissa
  <2>3. HalfSig(m) * 2^13 = 2^23 + 2^13 * r
    BY <2>1
  <2> QED
    BY <2>2, <2>3, Zenon
<1>5. HalfUnit(m) = e + 124
  BY <1>1 DEF HalfUnit, MaxOf
<1>6. m * 2^13 + 112 * 2^23 = Pack(112 + e, s)
  BY <1>3, <1>4 DEF Pack
<1>7. m * 2^13 + 224 * 2^23 = Pack(224 + e, s)
  BY <1>3, <1>4 DEF Pack
<1>8. Scale(Pack(224 + e, s), -112) = Pack(112 + e, s)
  <2>1. PICK d \in 1..254 : d = 224 + e
    OBVIOUS
  <2>2. PICK u \in Nat : u = e + 111 /\ ~ (u > 253) /\ u + 1 = 112 + e
    OBVIOUS
  <2>3. d - 1 + -112 = u
    BY <2>1, <2>2
  <2>4. Scale(Pack(d, s), -112) = FloatOf(s, u)
    BY <2>3, Normal DEF Scale
  <2> QED
    BY <2>1, <2>2, <2>4, FloatOfMantissa
<1> QED
  BY <1>4, <1>5, <1>6, <1>7, <1>8


\* What both conversions make of a half without its sign.
Widened(m, w) ==
  /\ m = 0 => w = 0
  /\ m \in 1..1023 => \E y \in 14..23 :
       /\ m * Two(y) \in Mantissa /\ BitLength(m) = 24 - y
       /\ w = Pack(126 - y, m * Two(y))
  /\ m \in 2^10..(HalfInf - 1) => \E e \in 1..30 :
       /\ HalfSig(m) * 2^13 \in Mantissa /\ HalfUnit(m) = e + 124
       /\ m * 2^13 + 112 * 2^23 = Pack(112 + e, HalfSig(m) * 2^13)
       /\ w = Pack(112 + e, HalfSig(m) * 2^13)
  /\ m = HalfInf => w = Inf
  /\ m > HalfInf => w > Inf

\* nonsign() is the magnitude, moved up by 16 bits.
LEMMA NonsignFacts ==
  ASSUME NEW h \in HalfWord
  PROVE  /\ Magnitude(h) \in 0..(2^15 - 1) /\ Magnitude(h) \in Nat
         /\ nonsign(h) = Magnitude(h) * 2^16
         /\ nonsign(h) \in Nat
         /\ nonsign(h) < 2^26 <=> Magnitude(h) < 2^10
<1>1. PICK m \in 0..(2^15 - 1) : m = h % 2^15
  <2>1. h % 2^15 \in 0..(2^15 - 1)
    BY DEF HalfWord
  <2> QED
    BY <2>1, Zenon
<1>2. Magnitude(h) = m /\ nonsign(h) = m * 2^16
  BY <1>1, Zenon DEF Magnitude, nonsign
<1>3. m * 2^16 \in Nat /\ m \in Nat /\ (m * 2^16 < 2^26 <=> m < 2^10)
  OBVIOUS
<1> QED
  BY <1>2, <1>3

\* The conversion in use, by the float below or above the cutoff.
LEMMA ToFloatWidens ==
  ASSUME NEW h \in HalfWord
  PROVE  Widened(Magnitude(h), ToFloat(h).bits) /\ ToFloat(h).neg = Negative(h)
<1>1. PICK m \in 0..(2^15 - 1) : m = Magnitude(h)
  BY NonsignFacts
<1>2. PICK w : w = ToFloat(h).bits
  OBVIOUS
<1>3. /\ ToFloat(h).neg = Negative(h)
      /\ m < 2^10 => w = denormalized_value(h)
      /\ ~ (m < 2^10) => w = normalized_value(h)
  <2>1. nonsign(h) < 2^26 <=> m < 2^10
    BY <1>1, NonsignFacts
  <2> QED
    BY <1>2, <2>1 DEF ToFloat, fp16_to_fp32_value, Float
<1>4. m < 2^10 => w = FloatOf(16 * m, 121)
  BY <1>1, <1>3, DenormalizedIs
<1>5. ~ (m < 2^10) => w = Scale(m * 2^13 + 224 * 2^23, -112)
  <2>1. nonsign(h) \div 8 = m * 2^13
    <3>1. nonsign(h) = m * 2^16
      BY <1>1, NonsignFacts
    <3>2. (m * 2^16) \div 8 = m * 2^13
      OBVIOUS
    <3> QED
      BY <3>1, <3>2, Zenon
  <2> QED
    BY <1>3, <2>1 DEF normalized_value
<1>6. m = 0 => w = 0
  <2>1. m = 0 => 16 * m = 0 /\ m < 2^10
    OBVIOUS
  <2> QED
    BY <1>4, <2>1 DEF FloatOf
<1>7. ASSUME m \in 1..1023
      PROVE  \E y \in 14..23 :
               /\ m * Two(y) \in Mantissa /\ BitLength(m) = 24 - y
               /\ w = Pack(126 - y, m * Two(y))
  <2>1. m < 2^10
    BY <1>7
  <2> QED
    BY <1>4, <1>7, <2>1, WidenSubnormal, Zenon
<1>8. ASSUME m \in 2^10..(HalfInf - 1)
      PROVE  \E e \in 1..30 :
               /\ HalfSig(m) * 2^13 \in Mantissa /\ HalfUnit(m) = e + 124
               /\ m * 2^13 + 112 * 2^23 = Pack(112 + e, HalfSig(m) * 2^13)
               /\ w = Pack(112 + e, HalfSig(m) * 2^13)
  <2>1. ~ (m < 2^10)
    BY <1>8 DEF HalfInf
  <2> QED
    BY <1>5, <1>8, <2>1, WidenNormal
<1>9. ASSUME m >= HalfInf
      PROVE  IF m = HalfInf THEN w = Inf ELSE w > Inf
  <2>1. PICK v \in 0..MaxInt : v = m * 2^13 + 224 * 2^23
    <3>1. m * 2^13 + 224 * 2^23 \in 0..MaxInt
      BY DEF MaxInt
    <3> QED
      BY <3>1, Zenon
  <2>2. v >= Inf /\ (m = HalfInf => v = Inf) /\ (m # HalfInf => v > Inf)
    BY <1>9, <2>1 DEF HalfInf, Inf
  <2>3. ~ (m < 2^10) /\ ~ (v < Inf)
    BY <1>9, <2>2 DEF HalfInf, Inf
  <2>4. w = Quiet(v)
    BY <1>5, <2>1, <2>3 DEF Scale, IsFinite
  <2>5. Inf \in Int /\ v \in Int
    BY <2>1 DEF Inf, MaxInt
  <2>6. v > Inf => Quiet(v) > Inf
    BY <2>5 DEF Quiet
  <2>7. m = HalfInf => w = Inf
    BY <2>2, <2>4, Infinite
  <2> QED
    BY <1>9, <2>2, <2>4, <2>6, <2>7
<1>10. m = HalfInf => w = Inf
  BY <1>9 DEF HalfInf
<1>11. m > HalfInf => w > Inf
  BY <1>9 DEF HalfInf
<1> QED
  BY <1>1, <1>2, <1>3, <1>6, <1>7, <1>8, <1>10, <1>11 DEF Widened

\* The number in the float is the one in the half.
LEMMA WidenedIsEqual ==
  ASSUME NEW m \in 0..(HalfInf - 1), NEW w, Widened(m, w)
  PROVE  /\ Leq(Sig(w), Unit(w), HalfSig(m), HalfUnit(m))
         /\ Leq(HalfSig(m), HalfUnit(m), Sig(w), Unit(w))
<1>1. CASE m = 0
  <2>1. w = 0 /\ HalfSig(m) = 0 /\ HalfUnit(m) = 125
    BY <1>1 DEF Widened, HalfSig, HalfUnit, MaxOf
  <2>2. Sig(0) = 0 /\ Unit(0) = 0
    BY DEF Sig, Unit, Exponent, MaxOf
  <2>3. /\ MinOf(125 - 0, 30) = 30 /\ 0 <= 125 /\ ~ (125 <= 0)
        /\ (0 + (2^30 - 1)) \div 2^30 <= 0 /\ 0 <= 0 \div 2^30
    BY DEF MinOf
  <2>4. Leq(0, 0, 0, 125) /\ Leq(0, 125, 0, 0)
    BY <2>3 DEF Leq
  <2> QED
    BY <2>1, <2>2, <2>4
<1>2. CASE m \in 1..1023
  <2>1. PICK y \in 14..23 : /\ m * Two(y) \in Mantissa
                            /\ w = Pack(126 - y, m * Two(y))
    BY <1>2 DEF Widened
  <2>2. PICK s \in Mantissa : s = m * Two(y)
    BY <2>1
  <2>3. PICK u \in Int : u = 125 - y
    OBVIOUS
  <2>4. 126 - y \in 1..254 /\ 126 - y - 1 = u
    BY <2>3
  <2>5. Sig(w) = s /\ Unit(w) = u
    BY <2>1, <2>2, <2>4, Normal
  <2>6. HalfSig(m) = m /\ HalfUnit(m) = u + y
    BY <1>2, <2>3 DEF HalfSig, HalfUnit, MaxOf
  <2>7. s \in Nat /\ m \in Nat /\ y \in 0..30 /\ s <= s
    BY DEF Mantissa
  <2>8. Leq(s, u, m, u + y) /\ Leq(m, u + y, s, u)
    BY <2>2, <2>7, LeqFacts
  <2> QED
    BY <2>5, <2>6, <2>8
<1>3. CASE m \in 2^10..(HalfInf - 1)
  <2>1. PICK e \in 1..30 :
          /\ HalfSig(m) * 2^13 \in Mantissa /\ HalfUnit(m) = e + 124
          /\ w = Pack(112 + e, HalfSig(m) * 2^13)
    BY <1>3 DEF Widened
  <2>2. PICK s \in Mantissa : s = HalfSig(m) * 2^13
    BY <2>1
  <2>3. PICK t \in Nat : t = HalfSig(m)
    BY <1>3 DEF HalfSig
  <2>4. PICK u \in Int : u = 111 + e
    OBVIOUS
  <2>5. 112 + e \in 1..254 /\ 112 + e - 1 = u /\ e + 124 = u + 13
    BY <2>4
  <2>6. Sig(w) = s /\ Unit(w) = u
    <3>1. PICK d \in 1..254 : d = 112 + e /\ d - 1 = u
      BY <2>5
    <3>2. w = Pack(d, s)
      BY <2>1, <2>2, <3>1
    <3> QED
      BY <3>1, <3>2, Normal
  <2>7. s \in Nat /\ 13 \in 0..30 /\ s <= s /\ s = t * Two(13)
    BY <2>2, <2>3 DEF Mantissa, Two
  <2>8. Leq(s, u, t, u + 13) /\ Leq(t, u + 13, s, u)
    BY <2>7, LeqFacts
  <2> QED
    BY <2>1, <2>3, <2>5, <2>6, <2>8
<1> QED
  BY <1>1, <1>2, <1>3 DEF HalfInf


\* The bits of a half moved up by 16 are 16 more.
LEMMA LengthMoved ==
  ASSUME NEW m \in 1..(2^15 - 1)
  PROVE  BitLength(m) \in 1..15 /\ BitLength(m * 2^16) = BitLength(m) + 16
<1>1. m \in 1..MaxInt
  BY DEF MaxInt
<1>2. PICK l \in 1..31 : l = BitLength(m) /\ Two(l - 1) <= m /\ m < Two(l)
  BY <1>1, BitLengthFacts
<1>3. l <= 15
  <2>1. Two(l - 1) < Two(15)
    BY <1>2, TwoValues
  <2> QED
    BY <2>1, TwoMonotone, TwoTable
<1>4. PICK k \in 17..31 : k = l + 16 /\ k - 1 = l - 1 + 16
  BY <1>3
<1>5. Two(k) = Two(l) * 2^16 /\ Two(k - 1) = Two(l - 1) * 2^16
  BY <1>3, <1>4, TwoTable
<1>6. PICK p \in Nat : p = Two(l)
  BY TwoTable
<1>7. PICK q \in Nat : q = Two(l - 1)
  BY TwoTable
<1>8. PICK n \in 1..MaxInt : n = m * 2^16
  <2>1. m * 2^16 \in 1..MaxInt
    BY DEF MaxInt
  <2> QED
    BY <2>1, Zenon
<1>9. Two(k - 1) <= n /\ n < Two(k)
  BY <1>2, <1>5, <1>6, <1>7, <1>8
<1> QED
  BY <1>2, <1>3, <1>4, <1>8, <1>9, BitLengthIs

\* How far the conversion on integers moves a half, and what it moves it to.
LEMMA Renormalized ==
  ASSUME NEW m \in 1..(2^15 - 1), NEW clz0
  PROVE  /\ m \in 1..1023 =>
              renorm_shift(m * 2^16, clz0) = 11 - BitLength(m)
         /\ m >= 1024 => renorm_shift(m * 2^16, clz0) = 0
<1>1. PICK l \in 1..15 : l = BitLength(m) /\ BitLength(m * 2^16) = l + 16
  BY LengthMoved
<1>2. m * 2^16 # 0
  OBVIOUS
<1>3. clz(m * 2^16, clz0) = 16 - l
  <2>1. 32 - (l + 16) = 16 - l
    OBVIOUS
  <2> QED
    BY <1>1, <1>2, <2>1 DEF clz
<1>4. renorm_shift(m * 2^16, clz0) = MaxOf(11 - l, 0)
  <2>1. 16 - l - 5 = 11 - l
    OBVIOUS
  <2> QED
    BY <1>3, <2>1 DEF renorm_shift
<1>5. Two(l - 1) <= m /\ m < Two(l)
  <2>1. m \in 1..MaxInt
    BY DEF MaxInt
  <2> QED
    BY <1>1, <2>1, BitLengthFacts
<1>6. m \in 1..1023 => l <= 10
  <2>1. PICK j \in 0..14 : j = l - 1
    OBVIOUS
  <2>2. m \in 1..1023 => Two(j) < Two(10)
    BY <1>5, <2>1, TwoTable
  <2> QED
    BY <2>1, <2>2, TwoTable
<1>7. m >= 1024 => l >= 11
  <2>1. m >= 1024 => Two(l) > 1024
    BY <1>5, TwoTable
  <2> QED
    BY <2>1, TwoTable
<1> QED
  BY <1>1, <1>4, <1>6, <1>7 DEF MaxOf

\* The conversion on integers agrees with it.
LEMMA BitsWiden ==
  ASSUME NEW h \in HalfWord, NEW clz0, Magnitude(h) <= HalfInf
  PROVE  fp16_to_fp32_bits(h, clz0) = ToFloat(h)
<1>1. PICK m \in 0..(2^15 - 1) : m = Magnitude(h)
  BY NonsignFacts
<1>2. PICK v : v = ToFloat(h).bits
  OBVIOUS
<1>3. Widened(m, v) /\ ToFloat(h) = [neg |-> Negative(h), bits |-> v]
  BY <1>1, <1>2, ToFloatWidens DEF ToFloat, fp16_to_fp32_value, Float
<1>4. PICK w \in Nat : w = m * 2^16 /\ nonsign(h) = w
  BY <1>1, NonsignFacts
<1>5. zero(w) <=> m = 0
  BY <1>4 DEF zero
<1>6. inf_nan(w) <=> m >= HalfInf
  BY <1>4 DEF inf_nan, MaxInt, HalfInf
<1>7. PICK k : k = renorm_shift(w, clz0)
  OBVIOUS
<1>8. PICK moved : moved = ((w * 2^k) \div 8) + (112 - k) * 2^23
  OBVIOUS
<1>9. fp16_to_fp32_bits(h, clz0) =
        [neg |-> Negative(h),
         bits |-> IF m = 0 THEN 0
                  ELSE IF m >= HalfInf THEN Inf + (moved % 2^23) ELSE moved]
  BY <1>4, <1>5, <1>6, <1>7, <1>8 DEF fp16_to_fp32_bits, Float
<1>10. CASE m = 0
  BY <1>3, <1>9, <1>10 DEF Widened
<1>11. ASSUME m >= 1024
       PROVE  moved = m * 2^13 + 112 * 2^23
  <2>1. k = 0
    <3>1. m \in 1..(2^15 - 1)
      BY <1>11
    <3>2. renorm_shift(m * 2^16, clz0) = 0
      BY <1>11, <3>1, Renormalized, Zenon
    <3> QED
      BY <1>4, <1>7, <3>2
  <2>2. (w * 2^0) \div 8 = m * 2^13
    BY <1>4
  <2>3. 112 - 0 = 112
    OBVIOUS
  <2> QED
    BY <1>8, <2>1, <2>2, <2>3
<1>12. CASE m \in 1..1023
  <2>1. PICK y \in 14..23 : /\ m * Two(y) \in Mantissa /\ BitLength(m) = 24 - y
                            /\ v = Pack(126 - y, m * Two(y))
    BY <1>3, <1>12 DEF Widened
  <2>2. k = y - 13
    <3>1. m \in 1..(2^15 - 1)
      BY <1>12
    <3>2. renorm_shift(m * 2^16, clz0) = 11 - (24 - y)
      BY <1>12, <2>1, <3>1, Renormalized, Zenon
    <3> QED
      BY <1>4, <1>7, <3>2
  <2>3. PICK j \in 1..10 : j = y - 13
    OBVIOUS
  <2>4. PICK p \in Nat : p = Two(j) /\ Two(y) = 2^13 * p
    BY <2>3, TwoTable
  <2>5. (w * p) \div 8 = m * Two(y)
    <3>1. PICK n \in Nat : n = m * p
      OBVIOUS
    <3>2. w * p = n * 2^16 /\ m * Two(y) = n * 2^13
      BY <1>4, <2>4, <3>1
    <3>3. (n * 2^16) \div 8 = n * 2^13
      OBVIOUS
    <3> QED
      BY <3>2, <3>3
  <2>6. moved = m * Two(y) + (125 - y) * 2^23
    <3>1. k = j /\ 112 - j = 125 - y /\ 2^k = p
      BY <2>2, <2>3, <2>4 DEF Two
    <3>2. PICK s \in Int : s = m * Two(y)
      BY <2>4
    <3>3. moved = s + (125 - y) * 2^23
      BY <1>8, <2>5, <3>1, <3>2
    <3> QED
      BY <3>2, <3>3
  <2>7. v = moved
    <3>1. PICK s \in Int : s = m * Two(y)
      BY <2>4
    <3> QED
      BY <2>1, <2>6, <3>1 DEF Pack
  <2>8. ~ (m >= HalfInf) /\ m # 0
    BY <1>12 DEF HalfInf
  <2> QED
    BY <1>3, <1>9, <2>7, <2>8
<1>13. CASE m \in 2^10..(HalfInf - 1)
  <2>1. ~ (m >= HalfInf) /\ m # 0 /\ m >= 1024
    BY <1>13 DEF HalfInf
  <2>2. v = moved
    BY <1>3, <1>11, <1>13, <2>1 DEF Widened
  <2> QED
    BY <1>3, <1>9, <2>1, <2>2
<1>14. CASE m = HalfInf
  <2>1. m >= HalfInf /\ m # 0 /\ m >= 1024 /\ v = Inf
    BY <1>3, <1>14 DEF HalfInf, Widened
  <2>2. Inf + (moved % 2^23) = Inf
    BY <1>11, <1>14, <2>1 DEF HalfInf, Inf
  <2> QED
    BY <1>3, <1>9, <2>1, <2>2
<1> QED
  BY <1>1, <1>10, <1>12, <1>13, <1>14 DEF HalfInf

\* The conversion on integers leaves a NaN a NaN of the same sign.
LEMMA BitsOfNaN ==
  ASSUME NEW h \in HalfWord, NEW clz0, Magnitude(h) > HalfInf
  PROVE  /\ fp16_to_fp32_bits(h, clz0).bits > Inf
         /\ fp16_to_fp32_bits(h, clz0).neg = Negative(h)
<1>1. PICK m \in 0..(2^15 - 1) : m = Magnitude(h)
  BY NonsignFacts
<1>2. m > HalfInf /\ m >= 1 /\ m >= 1024
  BY <1>1 DEF HalfInf
<1>3. PICK w \in Nat : w = m * 2^16 /\ nonsign(h) = w
  BY <1>1, NonsignFacts
<1>4. ~ zero(w) /\ inf_nan(w)
  BY <1>2, <1>3 DEF zero, inf_nan, MaxInt, HalfInf
<1>5. renorm_shift(w, clz0) = 0
  <2>1. m \in 1..(2^15 - 1)
    BY <1>2
  <2>2. renorm_shift(m * 2^16, clz0) = 0
    BY <1>2, <2>1, Renormalized, Zenon
  <2> QED
    BY <1>3, <2>2
<1>6. PICK moved \in Nat : moved = ((w * 2^0) \div 8) + (112 - 0) * 2^23
  BY <1>3
<1>7. fp16_to_fp32_bits(h, clz0) =
        [neg |-> Negative(h), bits |-> Inf + (moved % 2^23)]
  BY <1>3, <1>4, <1>5, <1>6 DEF fp16_to_fp32_bits, Float
<1>8. Inf + (moved % 2^23) > Inf
  <2>1. moved = m * 2^13 + 112 * 2^23
    BY <1>3, <1>6
  <2>2. moved % 2^23 > 0
    BY <1>2, <2>1 DEF HalfInf
  <2>3. PICK r \in Nat : r = moved % 2^23
    OBVIOUS
  <2> QED
    BY <2>2, <2>3 DEF Inf
<1> QED
  BY <1>7, <1>8

\* A half becomes the float of the same sign and value, by both conversions
\* and whatever the build makes of the count of leading zeros of zero
\* (Half.h:20, 113); infinities and NaNs stay.
THEOREM WideningIsExact ==
  Spec => []WidensExactly
<1>1. TypeInv => WidensExactly
  <2> SUFFICES ASSUME TypeInv, op = "float"
               PROVE  WidensExactly
    BY DEF WidensExactly
  <2>1. PICK h \in HalfWord : args = <<h>> /\ result = ToFloat(h)
    BY DEF TypeInv
  <2>2. args[1] = h
    BY <2>1
  <2>3. PICK m \in 0..(2^15 - 1) : m = Magnitude(h)
    BY NonsignFacts
  <2>4. Widened(m, result.bits) /\ result.neg = Negative(h)
    BY <2>1, <2>3, ToFloatWidens
  <2>5. HalfInf \in Int /\ Inf \in Int /\ ToFloat(h).bits \in Int
    <3>1. ToFloat(h).bits \in 0..MaxInt
      BY ToFloatType DEF FloatWord
    <3> QED
      BY <3>1 DEF HalfInf, Inf, MaxInt
  <2>6. ASSUME m < HalfInf
        PROVE  /\ Leq(Sig(result.bits), Unit(result.bits), HalfSig(m), HalfUnit(m))
               /\ Leq(HalfSig(m), HalfUnit(m), Sig(result.bits), Unit(result.bits))
    <3>1. m \in 0..(HalfInf - 1)
      BY <2>5, <2>6
    <3> QED
      BY <2>4, <3>1, WidenedIsEqual
  <2>7. ASSUME ~ (m < HalfInf)
        PROVE  ~ IsFinite(result.bits) /\ (result.bits = Inf <=> m = HalfInf)
    BY <2>1, <2>4, <2>5, <2>7 DEF Widened, IsFinite
  <2>8. ASSUME NEW clz0 \in 0..32
        PROVE  IF m <= HalfInf THEN fp16_to_fp32_bits(h, clz0) = result
               ELSE /\ fp16_to_fp32_bits(h, clz0).bits > Inf
                    /\ fp16_to_fp32_bits(h, clz0).neg = result.neg
    <3>1. CASE m <= HalfInf
      BY <2>1, <2>3, <3>1, BitsWiden
    <3>2. CASE ~ (m <= HalfInf)
      <4>1. m > HalfInf
        BY <2>5, <3>2
      <4> QED
        BY <2>3, <2>4, <3>2, <4>1, BitsOfNaN
    <3> QED
      BY <3>1, <3>2
  <2> QED
    BY <2>2, <2>3, <2>4, <2>6, <2>7, <2>8 DEF WidensExactly
<1> QED
  BY <1>1, TypesAreKept, PTL

-----------------------------------------------------------------------------
(* Comparisons of a number with the middles between halves.                 *)

\* Powers are multiplied.
LEMMA TwoAdd ==
  ASSUME NEW a \in 0..31, NEW b \in 0..31, NEW c \in 0..31, a + b = c
  PROVE  Two(a) * Two(b) = Two(c)
BY TwoTable

\* A comparison multiplies by at most 2^30.
LEMMA LeqCapped ==
  ASSUME NEW s \in Nat, NEW t \in Nat, NEW u \in Int, NEW v \in Int, u <= v,
         NEW d \in 0..30, d = MinOf(v - u, 30)
  PROVE  /\ Leq(s, u, t, v) <=> s <= t * Two(d)
         /\ Leq(t, v, s, u) <=> t * Two(d) <= s
<1>1. PICK p \in Nat \ {0} : p = Two(d)
  BY TwoNext
<1>2. PICK x \in Nat : x = t * p
  OBVIOUS
<1>4. MinOf(IF u <= v THEN v - u ELSE u - v, 30) = d
  OBVIOUS
<1>5. Leq(s, u, t, v) <=> (s + (p - 1)) \div p <= t
  BY <1>1, <1>4 DEF Leq, Two
<1>6. (s + (p - 1)) \div p <= t <=> s <= x
  <2>1. PICK n \in Nat : n = s + (p - 1)
    BY <1>1
  <2>2. n = p * (n \div p) + (n % p) /\ n \div p \in Int /\ n % p \in 0..(p - 1)
    OBVIOUS
  <2>3. PICK q \in Int : q = n \div p
    BY <2>2
  <2>4. PICK y \in Int : y = p * q
    BY Multiples
  <2>5. PICK r \in 0..(p - 1) : n = y + r
    BY <2>2, <2>3, <2>4
  <2>6. PICK z \in Int : z = t - q
    OBVIOUS
  <2>7. x - y = p * z
    BY <1>2, <2>4, <2>6
  <2>8. z >= 0 => x >= y
    BY <2>6, <2>7, Multiples
  <2>9. z <= -1 => x - y <= -p
    BY <2>7, Multiples
  <2> QED
    BY <2>1, <2>3, <2>5, <2>6, <2>8, <2>9
<1>7. Leq(t, v, s, u) <=> x <= s
  <2>1. CASE u = v
    <3>1. d = 0 /\ p = 1
      BY <1>1, <2>1, TwoValues DEF MinOf
    <3>2. MinOf(v - u, 30) = 0 /\ v <= u
      BY <2>1 DEF MinOf
    <3>3. Leq(t, v, s, u) <=> (t + (p - 1)) \div p <= s
      BY <1>1, <2>1, <3>1, <3>2 DEF Leq, Two
    <3>4. (t + (p - 1)) \div p = t /\ x = t
      BY <1>2, <3>1
    <3> QED
      BY <3>3, <3>4
  <2>2. CASE u # v
    <3>1. ~ (v <= u)
      BY <2>2
    <3>2. Leq(t, v, s, u) <=> t <= s \div p
      BY <1>1, <3>1 DEF Leq, Two
    <3>3. s = p * (s \div p) + (s % p) /\ s \div p \in Int /\ s % p \in 0..(p - 1)
      OBVIOUS
    <3>4. PICK q \in Int : q = s \div p
      BY <3>3
    <3>5. PICK y \in Int : y = p * q
      BY Multiples
    <3>6. PICK r \in 0..(p - 1) : s = y + r
      BY <3>3, <3>4, <3>5
    <3>7. PICK z \in Int : z = q - t
      OBVIOUS
    <3>8. y - x = p * z
      BY <1>2, <3>5, <3>7
    <3>9. z >= 0 => y >= x
      BY <3>7, <3>8, Multiples
    <3>10. z <= -1 => y - x <= -p
      BY <3>8, Multiples
    <3> QED
      BY <3>2, <3>4, <3>6, <3>7, <3>9, <3>10
  <2> QED
    BY <2>1, <2>2
<1> QED
  BY <1>1, <1>2, <1>5, <1>6, <1>7

\* What is scaled compares alike: both sides are divided by 2^k.
LEMMA LeqScaled ==
  ASSUME NEW s \in Nat, NEW S \in 0..(2^30 - 1), NEW k \in 0..23, S = s * Two(k),
         NEW u \in Int, NEW t \in 0..(2^30 - 1), NEW v \in Int
  PROVE  /\ Leq(S, u - k, t, v) <=> Leq(s, u, t, v)
         /\ Leq(t, v, S, u - k) <=> Leq(t, v, s, u)
<1>1. PICK p \in Nat \ {0} : p = Two(k)
  BY TwoNext
<1>2. PICK w \in Int : w = u - k
  OBVIOUS
<1>0. S \in Nat /\ t \in Nat
  OBVIOUS
<1>3. S = s * p /\ s <= S
  <2>1. s * p >= s
    OBVIOUS
  <2> QED
    BY <1>1, <2>1
<1>4. CASE v >= u /\ v - u + k <= 30
  <2>1. PICK d \in 0..30 : d = v - u /\ d = MinOf(v - u, 30) /\ u <= v
    BY <1>4 DEF MinOf
  <2>2. PICK c \in 0..30 : c = v - u + k /\ c = MinOf(v - w, 30) /\ w <= v
    BY <1>2, <1>4 DEF MinOf
  <2>3. Two(c) = Two(d) * p
    <3>1. d \in 0..31 /\ k \in 0..31 /\ c \in 0..31 /\ d + k = c
      BY <2>1, <2>2
    <3> QED
      BY <1>1, <3>1, TwoAdd
  <2>4. PICK x \in Nat : x = t * Two(d)
    BY TwoNext
  <2>5. t * Two(c) = x * p
    <3>1. PICK q \in Nat : q = Two(d)
      BY TwoNext
    <3> QED
      BY <2>3, <2>4, <3>1
  <2>6. (S <= x * p <=> s <= x) /\ (x * p <= S <=> x <= s)
    <3>1. PICK z \in Int : z = x - s
      OBVIOUS
    <3>2. x * p - S = p * z
      BY <1>3, <3>1
    <3>3. (z >= 0 => p * z >= 0) /\ (z <= 0 => p * z <= 0)
      OBVIOUS
    <3> QED
      BY <3>1, <3>2, <3>3, Multiples
  <2>7. /\ Leq(s, u, t, v) <=> s <= x
        /\ Leq(t, v, s, u) <=> x <= s
    BY <1>0, <2>1, <2>4, LeqCapped, Zenon
  <2>8. /\ Leq(S, w, t, v) <=> S <= x * p
        /\ Leq(t, v, S, w) <=> x * p <= S
    BY <1>0, <2>2, <2>5, LeqCapped, Zenon
  <2> QED
    BY <1>2, <2>6, <2>7, <2>8
<1>5. CASE v >= u /\ v - u + k > 30
  <2>1. PICK d \in 0..30 : d = MinOf(v - u, 30) /\ d + k >= 30 /\ u <= v
    BY <1>5 DEF MinOf
  <2>2. 30 = MinOf(v - w, 30) /\ w <= v /\ 30 \in 0..30
    BY <1>2, <1>5 DEF MinOf
  <2>3. PICK x \in Nat : x = t * Two(d)
    BY TwoNext
  <2>4. (s <= x <=> (s = 0 \/ t >= 1)) /\ (x <= s <=> t = 0)
    <3>1. t >= 1 => s < x
      <4>1. PICK q \in Nat : q = Two(d)
        BY TwoNext
      <4>2. q * p >= 2^30
        <5>1. PICK a \in 0..30 : a = 30 - k
          OBVIOUS
        <5>2. Two(30) = Two(a) * p /\ Two(a) <= q /\ Two(a) \in Nat
          <6>1. a \in 0..31 /\ k \in 0..31 /\ 30 \in 0..31 /\ a + k = 30
                /\ d \in 0..31 /\ a <= d
            BY <2>1, <5>1
          <6>2. Two(a) * Two(k) = Two(30)
            BY <6>1, TwoAdd
          <6>3. Two(a) <= Two(d)
            BY <6>1, TwoMonotone
          <6> QED
            BY <1>1, <4>1, <6>2, <6>3, TwoNext
        <5>3. PICK c \in Nat : c = Two(a)
          BY <5>2
        <5>4. c * p <= q * p
          BY <5>2, <5>3
        <5> QED
          BY <5>2, <5>3, <5>4, TwoValues
      <4>3. s >= q => s * p >= q * p
        OBVIOUS
      <4>4. s < q
        BY <1>3, <4>2, <4>3
      <4>5. t >= 1 => t * q >= q
        OBVIOUS
      <4> QED
        BY <2>3, <4>1, <4>4, <4>5
    <3>2. t = 0 => x = 0
      <4>1. PICK q \in Nat : q = Two(d)
        BY TwoNext
      <4> QED
        BY <2>3, <4>1
    <3> QED
      BY <3>1, <3>2
  <2>5. PICK y \in Nat : y = t * Two(30)
    BY TwoNext
  <2>6. (S <= y <=> (s = 0 \/ t >= 1)) /\ (y <= S <=> t = 0)
    <3>1. y = t * 2^30
      BY <2>5 DEF Two
    <3>2. s = 0 <=> S = 0
      BY <1>3
    <3> QED
      BY <3>1, <3>2
  <2>7. /\ Leq(s, u, t, v) <=> s <= x
        /\ Leq(t, v, s, u) <=> x <= s
    BY <1>0, <2>1, <2>3, LeqCapped, Zenon
  <2>8. /\ Leq(S, w, t, v) <=> S <= y
        /\ Leq(t, v, S, w) <=> y <= S
    BY <1>0, <2>2, <2>5, LeqCapped, Zenon
  <2> QED
    BY <1>2, <2>4, <2>6, <2>7, <2>8
<1>6. CASE v < u
  <2>1. PICK d \in 0..30 : d = MinOf(u - v, 30) /\ v <= u
    BY <1>6 DEF MinOf
  <2>2. PICK x \in Nat : x = s * Two(d)
    BY TwoNext
  <2>3. /\ Leq(s, u, t, v) <=> x <= t
        /\ Leq(t, v, s, u) <=> t <= x
    BY <1>0, <2>1, <2>2, LeqCapped, Zenon
  <2>4. CASE v >= w
    <3>1. PICK c \in 0..30 : c = v - w /\ c = MinOf(v - w, 30) /\ w <= v
      BY <1>2, <1>6, <2>4 DEF MinOf
    <3>2. d = u - v /\ c + d = k
      BY <1>2, <1>6, <2>1, <2>4, <3>1 DEF MinOf
    <3>3. PICK q \in Nat \ {0} : q = Two(c)
      BY TwoNext
    <3>4. p = Two(d) * q
      <4>1. d \in 0..31 /\ k \in 0..31 /\ c \in 0..31 /\ d + c = k
        BY <3>2
      <4> QED
        BY <1>1, <3>3, <4>1, TwoAdd
    <3>5. S = x * q
      <4>1. PICK a \in Nat : a = Two(d)
        BY TwoNext
      <4> QED
        BY <1>3, <2>2, <3>4, <4>1
    <3>6. /\ Leq(S, w, t, v) <=> S <= t * q
          /\ Leq(t, v, S, w) <=> t * q <= S
      BY <1>0, <3>1, <3>3, LeqCapped, Zenon
    <3>7. (x * q <= t * q <=> x <= t) /\ (t * q <= x * q <=> t <= x)
      <4>1. PICK z \in Int : z = t - x
        OBVIOUS
      <4>2. t * q - x * q = q * z
        BY <4>1
      <4>3. (z >= 0 => q * z >= 0) /\ (z <= 0 => q * z <= 0)
        OBVIOUS
      <4> QED
        BY <4>1, <4>2, <4>3, Multiples
    <3> QED
      BY <1>2, <2>3, <3>5, <3>6, <3>7
  <2>5. CASE v < w
    <3>1. PICK c \in 0..30 : c = MinOf(w - v, 30) /\ v <= w
      BY <1>2, <1>6, <2>5 DEF MinOf
    <3>2. PICK y \in Nat : y = S * Two(c)
      BY TwoNext
    <3>3. /\ Leq(S, w, t, v) <=> y <= t
          /\ Leq(t, v, S, w) <=> t <= y
      BY <3>1, <3>2, LeqCapped
    <3>4. CASE u - v <= 30
      <4>1. d = u - v /\ c = w - v /\ d = c + k
        BY <1>2, <1>6, <2>1, <2>5, <3>1, <3>4 DEF MinOf
      <4>2. Two(d) = Two(c) * p
        <5>1. d \in 0..31 /\ k \in 0..31 /\ c \in 0..31 /\ c + k = d
          BY <4>1
        <5> QED
          BY <1>1, <5>1, TwoAdd
      <4>3. x = y
        <5>1. PICK q \in Nat : q = Two(c)
          BY TwoNext
        <5> QED
          BY <1>3, <2>2, <3>2, <4>2, <5>1
      <4> QED
        BY <1>2, <2>3, <3>3, <4>3
    <3>5. CASE u - v > 30
      <4>1. d = 30 /\ c + k >= 30
        BY <1>2, <1>6, <2>1, <2>5, <3>1, <3>5 DEF MinOf
      <4>2. x = s * 2^30
        BY <2>2, <4>1 DEF Two
      <4>3. (x <= t <=> s = 0) /\ (t <= x <=> (s >= 1 \/ t = 0))
        BY <4>2
      <4>4. s = 0 => y = 0
        <5>1. PICK q \in Nat : q = Two(c)
          BY TwoNext
        <5> QED
          BY <1>3, <3>2, <5>1
      <4>5. s >= 1 => y >= 2^30
        <5>1. PICK q \in Nat : q = Two(c)
          BY TwoNext
        <5>2. p * q >= 2^30
          <6>1. PICK a \in 0..30 : a = 30 - k
            OBVIOUS
          <6>2. Two(30) = Two(a) * p /\ Two(a) <= q /\ Two(a) \in Nat
            <7>1. a \in 0..31 /\ k \in 0..31 /\ 30 \in 0..31 /\ a + k = 30
                  /\ c \in 0..31 /\ a <= c
              BY <4>1, <6>1
            <7>2. Two(a) * Two(k) = Two(30)
              BY <7>1, TwoAdd
            <7>3. Two(a) <= Two(c)
              BY <7>1, TwoMonotone
            <7> QED
              BY <1>1, <5>1, <7>2, <7>3, TwoNext
          <6>3. PICK b \in Nat : b = Two(a)
            BY <6>2
          <6>4. b * p <= q * p
            BY <6>2, <6>3
          <6> QED
            BY <6>2, <6>3, <6>4, TwoValues
        <5>3. y = s * (p * q)
          BY <1>3, <3>2, <5>1
        <5>4. PICK n \in Nat : n = p * q
          OBVIOUS
        <5>5. s >= 1 => s * n >= n
          OBVIOUS
        <5> QED
          BY <5>2, <5>3, <5>4, <5>5
      <4>6. (y <= t <=> s = 0) /\ (t <= y <=> (s >= 1 \/ t = 0))
        BY <4>4, <4>5
      <4> QED
        BY <1>2, <2>3, <3>3, <4>3, <4>6
    <3> QED
      BY <3>4, <3>5
  <2> QED
    BY <1>2, <2>4, <2>5
<1> QED
  BY <1>4, <1>5, <1>6


\* The odd numbers and units of the middles between halves.
IsMiddle(t, v) ==
  t \in 1..4095 /\ t % 2 = 1 /\ v \in 124..153 /\ (v > 124 => t > 2^11)

\* S * 2^U / D is on the same side of all middles as s * 2^u / d.
Agree(S, U, D, s, u, d) ==
  \A t \in Nat, v \in Int :
    IsMiddle(t, v) =>
      /\ Leq(S, U, t * D, v) <=> Leq(s, u, t * d, v)
      /\ Leq(t * D, v, S, U) <=> Leq(t * d, v, s, u)

\* A middle is one in this sense.
LEMMA MiddleIs ==
  ASSUME NEW n \in 0..(HalfInf - 1)
  PROVE  /\ 2 * HalfSig(n) + 1 \in Nat /\ HalfUnit(n) - 1 \in Int
         /\ IsMiddle(2 * HalfSig(n) + 1, HalfUnit(n) - 1)
<1>0. n \in Nat /\ n <= 31 * 1024 - 1
  BY DEF HalfInf
<1>1. PICK q \in 0..30 : q = n \div 1024
  <2>1. n \div 1024 \in 0..30
    BY <1>0
  <2> QED
    BY <2>1
<1>2. PICK r \in 0..1023 : r = n % 1024 /\ n = 1024 * q + r
  <2>1. n % 1024 \in 0..1023
    BY <1>0
  <2>2. n = 1024 * (n \div 1024) + (n % 1024)
    BY <1>0
  <2> QED
    BY <1>1, <2>1, <2>2
<1>3. PICK s \in 0..2047 : s = HalfSig(n) /\ (q > 1 => s >= 1024)
  <2>1. HalfSig(n) = IF n < 1024 THEN n ELSE 1024 + r
    BY <1>2 DEF HalfSig
  <2>2. HalfSig(n) \in 0..2047 /\ (q > 1 => HalfSig(n) >= 1024)
    BY <1>0, <1>1, <1>2, <2>1
  <2> QED
    BY <2>2
<1>4. HalfUnit(n) = (IF q <= 1 THEN 1 ELSE q) + 124
  BY <1>1 DEF HalfUnit, MaxOf
<1>5. (2 * s + 1) % 2 = 1
  OBVIOUS
<1>6. PICK t \in 1..4095 : t = 2 * s + 1 /\ t % 2 = 1
  <2>1. 2 * s + 1 \in 1..4095
    OBVIOUS
  <2> QED
    BY <1>5, <2>1
<1>7. PICK v \in 124..153 : v = HalfUnit(n) - 1 /\ (v > 124 => q > 1)
  <2>1. HalfUnit(n) - 1 \in 124..153 /\ (HalfUnit(n) - 1 > 124 => q > 1)
    BY <1>1, <1>4
  <2> QED
    BY <2>1
<1>8. v > 124 => t > 2^11
  BY <1>3, <1>6, <1>7
<1>9. IsMiddle(t, v)
  BY <1>6, <1>7, <1>8 DEF IsMiddle
<1>10. t = 2 * HalfSig(n) + 1
  <2>1. t = 2 * s + 1
    BY <1>6
  <2>2. s = HalfSig(n)
    BY <1>3
  <2> QED
    BY <2>1, <2>2, Zenon
<1>11. v = HalfUnit(n) - 1
  BY <1>7
<1>12. t \in Nat /\ v \in Int
  BY <1>6, <1>7
<1> QED
  BY <1>9, <1>10, <1>11, <1>12

\* What is on the same side of all middles has the same nearest half.
LEMMA AgreeNearest ==
  ASSUME NEW S, NEW U, NEW D, NEW s, NEW u, NEW d, NEW m \in 0..HalfInf,
         Agree(S, U, D, s, u, d), Nearest(S, U, D, m)
  PROVE  Nearest(s, u, d, m)
<1>1. ASSUME m < HalfInf
      PROVE  /\ Leq(s, u, (2 * HalfSig(m) + 1) * d, HalfUnit(m) - 1)
             /\ m % 2 = 1 => ~ Leq((2 * HalfSig(m) + 1) * d, HalfUnit(m) - 1, s, u)
  <2>1. m \in 0..(HalfInf - 1)
    BY <1>1 DEF HalfInf
  <2>2. PICK t \in Nat : t = 2 * HalfSig(m) + 1
    BY <2>1, MiddleIs
  <2>3. PICK v \in Int : v = HalfUnit(m) - 1
    BY <2>1, MiddleIs
  <2>4. IsMiddle(t, v)
    BY <2>1, <2>2, <2>3, MiddleIs
  <2>5. Leq(S, U, t * D, v) /\ (m % 2 = 1 => ~ Leq(t * D, v, S, U))
    BY <1>1, <2>2, <2>3, Zenon DEF Nearest
  <2>6. Leq(s, u, t * d, v) /\ (m % 2 = 1 => ~ Leq(t * d, v, s, u))
    BY <2>4, <2>5, Zenon DEF Agree
  <2> QED
    BY <2>2, <2>3, <2>6, Zenon
<1>2. ASSUME m > 0
      PROVE  /\ Leq((2 * HalfSig(m - 1) + 1) * d, HalfUnit(m - 1) - 1, s, u)
             /\ m % 2 = 1 =>
                  ~ Leq(s, u, (2 * HalfSig(m - 1) + 1) * d, HalfUnit(m - 1) - 1)
  <2>1. m - 1 \in 0..(HalfInf - 1)
    BY <1>2 DEF HalfInf
  <2>2. PICK t \in Nat : t = 2 * HalfSig(m - 1) + 1
    BY <2>1, MiddleIs
  <2>3. PICK v \in Int : v = HalfUnit(m - 1) - 1
    BY <2>1, MiddleIs
  <2>4. IsMiddle(t, v)
    BY <2>1, <2>2, <2>3, MiddleIs
  <2>5. Leq(t * D, v, S, U) /\ (m % 2 = 1 => ~ Leq(S, U, t * D, v))
    BY <1>2, <2>2, <2>3, Zenon DEF Nearest
  <2>6. Leq(t * d, v, s, u) /\ (m % 2 = 1 => ~ Leq(s, u, t * d, v))
    BY <2>4, <2>5, Zenon DEF Agree
  <2> QED
    BY <2>2, <2>3, <2>6, Zenon
<1> QED
  BY <1>1, <1>2, Zenon DEF Nearest

\* What is scaled agrees.
LEMMA AgreeExact ==
  ASSUME NEW s \in Nat, NEW S \in 0..(2^30 - 1), NEW k \in 0..23, S = s * Two(k),
         NEW u \in Int
  PROVE  Agree(S, u - k, 1, s, u, 1)
<1> SUFFICES ASSUME NEW t \in Nat, NEW v \in Int, IsMiddle(t, v)
             PROVE  /\ Leq(S, u - k, t * 1, v) <=> Leq(s, u, t * 1, v)
                    /\ Leq(t * 1, v, S, u - k) <=> Leq(t * 1, v, s, u)
  BY Zenon DEF Agree
<1>1. t * 1 = t
  OBVIOUS
<1>2. t \in 0..(2^30 - 1)
  BY DEF IsMiddle
<1>3. /\ Leq(S, u - k, t, v) <=> Leq(s, u, t, v)
      /\ Leq(t, v, S, u - k) <=> Leq(t, v, s, u)
  BY <1>2, LeqScaled, Zenon
<1> QED
  BY <1>1, <1>3, Zenon

\* Shifts round to nearest.
LEMMA ShiftRounds ==
  ASSUME NEW n \in Nat, NEW k \in 1..30
  PROVE  RoundShift(n, k) \in Nat /\ Rounds(n, Two(k - 1), RoundShift(n, k))
<1>1. PICK h \in Nat \ {0} : h = Two(k - 1) /\ Two(k) = 2 * h
  <2>1. PICK j \in 0..30 : j = k - 1 /\ j + 1 = k
    OBVIOUS
  <2> QED
    BY <2>1, TwoNext
<1>2. PICK p \in Nat \ {0} : p = 2 * h
  OBVIOUS
<1>3. n = p * (n \div p) + (n % p) /\ n \div p \in Nat /\ n % p \in 0..(p - 1)
  OBVIOUS
<1>4. PICK q \in Nat : q = n \div p
  BY <1>3
<1>5. PICK b \in 0..(p - 1) : b = n % p
  BY <1>3
<1>6. PICK x \in Int : x = h * q
  BY Multiples
<1>7. n = 2 * x + b
  <2>1. p * q = 2 * (h * q)
    BY <1>2
  <2> QED
    BY <1>3, <1>4, <1>5, <1>6, <2>1
<1>8. RoundShift(n, k) =
        IF 2 * b > p \/ (2 * b = p /\ q % 2 = 1) THEN q + 1 ELSE q
  BY <1>1, <1>2, <1>4, <1>5 DEF RoundShift, Two
<1>9. /\ (2 * q - 1) * h = 2 * x - h /\ (2 * q + 1) * h = 2 * x + h
      /\ (2 * (q + 1) - 1) * h = 2 * x + h /\ (2 * (q + 1) + 1) * h = 2 * x + 3 * h
  BY <1>6
<1>10. CASE 2 * b > p \/ (2 * b = p /\ q % 2 = 1)
  <2>1. RoundShift(n, k) = q + 1
    BY <1>8, <1>10
  <2>2. b >= h /\ b < 2 * h /\ ((q + 1) % 2 = 1 => b > h)
    BY <1>2, <1>10
  <2>3. Rounds(n, h, q + 1)
    BY <1>7, <1>9, <2>2 DEF Rounds
  <2> QED
    BY <1>1, <2>1, <2>3
<1>11. CASE ~ (2 * b > p \/ (2 * b = p /\ q % 2 = 1))
  <2>1. RoundShift(n, k) = q
    BY <1>8, <1>11
  <2>2. b <= h /\ (q % 2 = 1 => b < h)
    BY <1>2, <1>11
  <2>3. Rounds(n, h, q)
    BY <1>7, <1>9, <2>2 DEF Rounds
  <2> QED
    BY <1>1, <2>1, <2>3
<1> QED
  BY <1>10, <1>11

\* Rounding keeps the order with whole numbers, unless it meets one of them.
LEMMA RoundsCompare ==
  ASSUME NEW n \in Nat, NEW h \in Nat \ {0}, NEW r \in Nat, Rounds(n, h, r),
         NEW i \in Nat, NEW x \in Nat, x = i * (2 * h), r = i => n = x
  PROVE  (r <= i <=> n <= x) /\ (i <= r <=> x <= n)
<1>1. (2 * r - 1) * h <= n /\ n <= (2 * r + 1) * h
  BY DEF Rounds
<1>2. PICK z \in Int : z = i - r
  OBVIOUS
<1>3. PICK y \in Int : y = h * z
  BY Multiples
<1>4. PICK w \in Int : w = h * r
  BY Multiples
<1>5. (2 * r - 1) * h = 2 * w - h /\ (2 * r + 1) * h = 2 * w + h
  BY <1>4
<1>6. x = 2 * w + 2 * y
  BY <1>2, <1>3, <1>4
<1>7. (z >= 1 => y >= h) /\ (z <= -1 => y <= -h)
  BY <1>3, Multiples
<1>8. CASE z >= 1
  BY <1>1, <1>2, <1>5, <1>6, <1>7, <1>8
<1>9. CASE z <= -1
  BY <1>1, <1>2, <1>5, <1>6, <1>7, <1>9
<1>10. CASE z = 0
  BY <1>2, <1>10
<1> QED
  BY <1>8, <1>9, <1>10


\* A number of more than 24 bits is rounded to 24, or to the power above.
LEMMA RoundedFloat ==
  ASSUME NEW n \in (2^24)..(2^29 - 1), NEW e \in 0..200
  PROVE  \E k \in 1..5 : \E r \in (2^23)..(2^24) :
           /\ Two(23 + k) <= n /\ n < Two(24 + k)
           /\ Rounds(n, Two(k - 1), r)
           /\ FloatOf(n, e) \in 0..(Inf - 1)
           /\ Agree(Sig(FloatOf(n, e)), Unit(FloatOf(n, e)), 1, r, e + k, 1)
<1>0. n \in Nat /\ n >= 2^24 /\ n < 2^29
  OBVIOUS
<1>1. n \in 1..MaxInt
  BY <1>0 DEF MaxInt
<1>2. PICK l \in 1..31 : l = BitLength(n) /\ Two(l - 1) <= n /\ n < Two(l)
  BY <1>1, BitLengthFacts
<1>3. l \in 25..29
  <2>1. ~ (l <= 24)
    <3>1. l <= 24 => Two(l) <= Two(24)
      BY TwoMonotone
    <3>2. Two(24) = 2^24 /\ Two(l) \in Int
      BY TwoTable DEF Two
    <3> QED
      BY <1>0, <1>2, <3>1, <3>2
  <2>2. ~ (l >= 30)
    <3>1. PICK j \in 0..30 : j = l - 1
      OBVIOUS
    <3>2. j >= 29 => Two(29) <= Two(j)
      BY TwoMonotone
    <3>3. Two(29) = 2^29 /\ Two(j) \in Int
      BY TwoTable DEF Two
    <3> QED
      BY <1>0, <1>2, <3>1, <3>2, <3>3
  <2> QED
    BY <2>1, <2>2
<1>4. PICK k \in 1..5 : k = l - 24
  BY <1>3
<1>5. 23 + k = l - 1 /\ 24 + k = l
  BY <1>4
<1>6. PICK r \in Nat : r = RoundShift(n, k) /\ Rounds(n, Two(k - 1), r)
  <2>1. k \in 1..30
    OBVIOUS
  <2> QED
    BY <1>0, <2>1, ShiftRounds
<1>7. r \in (2^23)..(2^24)
  <2>1. PICK h \in Nat \ {0} : h = Two(k - 1)
    <3>1. k - 1 \in 0..30
      OBVIOUS
    <3> QED
      BY <3>1, TwoNext
  <2>2. Two(l - 1) = h * 2^24
    <3>1. PICK j \in 0..4 : j = k - 1 /\ l - 1 = j + 24
      BY <1>4
    <3>2. j \in 0..31 /\ 24 \in 0..31 /\ l - 1 \in 0..31 /\ j + 24 = l - 1
      BY <3>1
    <3>3. Two(j) * Two(24) = Two(l - 1)
      BY <3>2, TwoAdd
    <3> QED
      BY <2>1, <3>1, <3>3 DEF Two
  <2>3. Two(l) = h * 2^25
    <3>1. PICK j \in 0..4 : j = k - 1 /\ l = j + 25
      BY <1>4
    <3>2. j \in 0..31 /\ 25 \in 0..31 /\ l \in 0..31 /\ j + 25 = l
      BY <3>1
    <3>3. Two(j) * Two(25) = Two(l)
      BY <3>2, TwoAdd
    <3> QED
      BY <2>1, <3>1, <3>3 DEF Two
  <2>4. (2 * r - 1) * h <= n /\ n <= (2 * r + 1) * h
    BY <1>6, <2>1 DEF Rounds
  <2>5. PICK x \in Int : x = h * r
    BY Multiples
  <2>6. 2 * x - h <= n /\ n <= 2 * x + h
    BY <2>4, <2>5
  <2>7. PICK y \in Int : y = r - 2^23
    OBVIOUS
  <2>8. PICK z \in Int : z = r - 2^24
    OBVIOUS
  <2>9. h * y = x - h * 2^23 /\ h * z = x - h * 2^24
    BY <2>5, <2>7, <2>8
  <2>10. y >= 0
    BY <1>2, <2>2, <2>6, <2>9, Multiples
  <2>11. z <= 0
    BY <1>2, <2>3, <2>6, <2>9, Multiples
  <2> QED
    BY <2>7, <2>8, <2>10, <2>11
<1>8. PICK c \in 1..205 : c = e + k
  OBVIOUS
<1>9. FloatOf(n, e) = MinOf(Inf, c * 2^23 + r)
  <2>1. MaxOf(l - 24, -e) = k /\ n # 0 /\ ~ (c > 253)
    BY <1>0, <1>4 DEF MaxOf
  <2> QED
    BY <1>2, <1>6, <1>8, <2>1, Zenon DEF FloatOf
<1>10. PICK w \in Nat : w = c * 2^23 + r /\ w < Inf /\ FloatOf(n, e) = w
  <2>1. PICK w \in Nat : w = c * 2^23 + r
    OBVIOUS
  <2>2. w < Inf /\ Inf \in Int
    BY <1>7, <2>1 DEF Inf
  <2>3. MinOf(Inf, w) = w
    BY <2>2 DEF MinOf
  <2> QED
    BY <1>9, <2>1, <2>2, <2>3
<1>11. w \in 0..(Inf - 1)
  BY <1>10 DEF Inf
<1>12. CASE r < 2^24
  <2>1. r \in Mantissa /\ r \in 0..(2^30 - 1) /\ r = r * Two(0)
    BY <1>7, <1>12, TwoValues DEF Mantissa
  <2>2. PICK d \in 1..254 : d = c + 1 /\ d - 1 = c
    OBVIOUS
  <2>3. w = Pack(d, r)
    BY <1>10, <2>2 DEF Pack
  <2>4. Sig(w) = r /\ Unit(w) = c
    BY <2>1, <2>2, <2>3, Normal
  <2>5. Agree(r, c - 0, 1, r, c, 1)
    <3>1. r \in Nat /\ 0 \in 0..23 /\ c \in Int
      OBVIOUS
    <3> QED
      BY <2>1, <3>1, AgreeExact, Zenon
  <2>6. c - 0 = c
    OBVIOUS
  <2>7. Agree(Sig(w), Unit(w), 1, r, c, 1)
    BY <2>4, <2>5, <2>6
  <2> QED
    BY <1>2, <1>5, <1>6, <1>7, <1>8, <1>10, <1>11, <2>7, Zenon
<1>13. CASE r = 2^24
  <2>1. 2^23 \in Mantissa
    BY DEF Mantissa
  <2>2. PICK d \in 1..254 : d = c + 2 /\ d - 1 = c + 1
    OBVIOUS
  <2>3. w = Pack(d, 2^23)
    BY <1>10, <1>13, <2>2 DEF Pack
  <2>4. Sig(w) = 2^23 /\ Unit(w) = c + 1
    BY <2>1, <2>2, <2>3, Normal
  <2>5. PICK s \in Nat, u \in Int : s = 2^23 /\ u = c + 1
    OBVIOUS
  <2>6. r \in 0..(2^30 - 1) /\ r = s * Two(1) /\ u - 1 = c
    BY <1>13, <2>5, TwoValues
  <2>7. Agree(r, u - 1, 1, s, u, 1)
    <3>1. 1 \in 0..23
      OBVIOUS
    <3> QED
      BY <2>6, <3>1, AgreeExact, Zenon
  <2>8. Agree(s, u, 1, r, c, 1)
    BY <2>6, <2>7 DEF Agree
  <2> QED
    BY <1>2, <1>5, <1>6, <1>7, <1>8, <1>10, <1>11, <2>4, <2>5, <2>8, Zenon
<1>14. r < 2^24 \/ r = 2^24
  BY <1>7
<1> QED
  BY <1>12, <1>13, <1>14, Zenon


\* The rounded number is on the same side of all middles, unless it meets one
\* that the number itself is not.
LEMMA AgreeRounded ==
  ASSUME NEW n \in Nat, NEW e \in Int, NEW k \in 1..5, NEW r \in (2^23)..(2^24),
         Two(23 + k) <= n, n < Two(24 + k), Rounds(n, Two(k - 1), r),
         \A d \in 12..24, t \in Nat, v \in Int :
           IsMiddle(t, v) /\ v = e + k + d /\ r = t * Two(d) => n = r * Two(k)
  PROVE  Agree(r, e + k, 1, n, e, 1)
<1> SUFFICES ASSUME NEW t \in Nat, NEW v \in Int, IsMiddle(t, v)
             PROVE  /\ Leq(r, e + k, t * 1, v) <=> Leq(n, e, t * 1, v)
                    /\ Leq(t * 1, v, r, e + k) <=> Leq(t * 1, v, n, e)
  BY Zenon DEF Agree
<1>1. t * 1 = t /\ t >= 1 /\ t < 2^12 /\ r \in Nat
  BY DEF IsMiddle
<1>2. PICK c \in Int : c = e + k
  OBVIOUS
<1>3. PICK p \in Nat \ {0} : p = Two(k)
  <2>1. k \in 0..30
    OBVIOUS
  <2> QED
    BY <2>1, TwoNext
<1>4. Two(23 + k) = 2^23 * p /\ Two(24 + k) = 2^24 * p
  <2>1. PICK a \in 0..31, b \in 0..31 : a = 23 + k /\ b = 24 + k
    OBVIOUS
  <2>2. k \in 0..31 /\ 23 \in 0..31 /\ 24 \in 0..31 /\ 23 + k = a /\ 24 + k = b
    BY <2>1
  <2>3. Two(23) * Two(k) = Two(a) /\ Two(24) * Two(k) = Two(b)
    BY <2>2, TwoAdd
  <2> QED
    BY <1>3, <2>1, <2>3 DEF Two
<1>5. 2^23 * p <= n /\ n < 2^24 * p
  BY <1>4
<1>6. ASSUME ~ Leq(r, c, t, v), Leq(t, v, r, c), ~ Leq(n, e, t, v), Leq(t, v, n, e)
      PROVE  /\ Leq(r, e + k, t * 1, v) <=> Leq(n, e, t * 1, v)
             /\ Leq(t * 1, v, r, e + k) <=> Leq(t * 1, v, n, e)
  BY <1>1, <1>2, <1>6
<1>7. ASSUME NEW q \in Nat \ {0}
      PROVE  ~ (r * q <= t) /\ t <= r * q /\ ~ (n * q <= t) /\ t <= n * q
  <2>1. r * q >= r /\ n * q >= n
    OBVIOUS
  <2>2. n >= 2^23
    BY <1>3, <1>5
  <2> QED
    BY <1>1, <2>1, <2>2
<1>8. CASE v <= c
  <2>1. PICK d \in 0..30 : d = MinOf(c - v, 30)
    BY <1>8 DEF MinOf
  <2>2. PICK x \in Nat : x = r * Two(d) /\ x > t
    <3>1. PICK q \in Nat \ {0} : q = Two(d)
      BY TwoNext
    <3>2. PICK x \in Nat : x = r * q
      BY <1>1
    <3> QED
      BY <1>1, <1>7, <3>1, <3>2
  <2>3. ~ Leq(r, c, t, v) /\ Leq(t, v, r, c)
    <3>1. /\ Leq(t, v, r, c) <=> t <= r * Two(d)
          /\ Leq(r, c, t, v) <=> r * Two(d) <= t
      BY <1>1, <1>8, <2>1, LeqCapped, Zenon
    <3> QED
      BY <2>2, <3>1
  <2>4. ~ Leq(n, e, t, v) /\ Leq(t, v, n, e)
    <3>1. CASE v <= e
      <4>1. PICK g \in 0..30 : g = MinOf(e - v, 30)
        BY <3>1 DEF MinOf
      <4>2. PICK q \in Nat \ {0} : q = Two(g)
        BY TwoNext
      <4>3. PICK y \in Nat : y = n * q
        OBVIOUS
      <4>4. ~ (y <= t) /\ t <= y
        BY <1>7, <4>3
      <4>5. /\ Leq(t, v, n, e) <=> t <= n * Two(g)
            /\ Leq(n, e, t, v) <=> n * Two(g) <= t
        BY <3>1, <4>1, LeqCapped, Zenon
      <4> QED
        BY <4>2, <4>3, <4>4, <4>5
    <3>2. CASE v > e
      <4>1. PICK g \in 0..5 : g = v - e /\ g = MinOf(v - e, 30) /\ g \in 0..30 /\ e <= v
                              /\ g <= k
        BY <1>2, <1>8, <3>2 DEF MinOf
      <4>2. PICK q \in Nat \ {0} : q = Two(g) /\ q <= p
        <5>1. g \in 0..31 /\ k \in 0..31 /\ g <= k
          BY <4>1
        <5> QED
          BY <1>3, <4>1, <5>1, TwoMonotone, TwoNext
      <4>3. PICK y \in Nat : y = t * q
        OBVIOUS
      <4>4. y < 2^12 * p
        <5>1. t * q <= 2^12 * q
          BY <1>1
        <5> QED
          BY <1>1, <1>3, <4>2, <4>3, <5>1
      <4>5. y < n
        BY <1>5, <4>4
      <4>6. /\ Leq(n, e, t, v) <=> n <= t * Two(g)
            /\ Leq(t, v, n, e) <=> t * Two(g) <= n
        BY <4>1, LeqCapped, Zenon
      <4> QED
        BY <4>2, <4>3, <4>5, <4>6
    <3> QED
      BY <3>1, <3>2
  <2> QED
    BY <1>6, <2>3, <2>4
<1>9. ASSUME v > c, v - e <= 30
      PROVE  /\ Leq(r, c, t, v) <=> Leq(n, e, t, v)
             /\ Leq(t, v, r, c) <=> Leq(t, v, n, e)
  <2>1. PICK d \in 0..30 : d = v - c /\ d = MinOf(v - c, 30) /\ c <= v /\ d >= 1
    BY <1>2, <1>9 DEF MinOf
  <2>2. PICK g \in 0..30 : g = v - e /\ g = MinOf(v - e, 30) /\ e <= v /\ g = d + k
    BY <1>2, <1>9, <2>1 DEF MinOf
  <2>3. Two(g) = Two(d) * p
    <3>1. d \in 0..31 /\ k \in 0..31 /\ g \in 0..31 /\ d + k = g
      BY <2>2
    <3> QED
      BY <1>3, <3>1, TwoAdd
  <2>4. PICK q \in Nat \ {0} : q = Two(d)
    BY TwoNext
  <2>5. PICK i \in Nat : i = t * q
    OBVIOUS
  <2>6. PICK x \in Nat : x = i * p /\ x = t * Two(g)
    <3>1. PICK x \in Nat : x = i * p
      OBVIOUS
    <3>2. (t * q) * p = t * (q * p)
      OBVIOUS
    <3> QED
      BY <2>3, <2>4, <2>5, <3>1, <3>2
  <2>7. /\ Leq(r, c, t, v) <=> r <= i
        /\ Leq(t, v, r, c) <=> i <= r
    BY <1>1, <2>1, <2>4, <2>5, LeqCapped, Zenon
  <2>8. /\ Leq(n, e, t, v) <=> n <= x
        /\ Leq(t, v, n, e) <=> x <= n
    BY <2>2, <2>6, LeqCapped, Zenon
  <2>9. r = i => n = x
    <3> SUFFICES ASSUME r = i PROVE n = x
      OBVIOUS
    <3>1. d \in 12..24
      <4>1. ~ (d <= 11)
        <5>1. d <= 11 => q <= 2^11
          BY <2>4, TwoTable
        <5>2. q <= 2^11 => t * q <= t * 2^11
          OBVIOUS
        <5> QED
          BY <1>1, <2>5, <5>1, <5>2
      <4>2. ~ (d >= 25)
        <5>1. d >= 25 => q >= 2^25
          BY <2>4, TwoTable
        <5>2. t * q >= q
          BY <1>1
        <5> QED
          BY <2>5, <5>1, <5>2
      <4> QED
        BY <4>1, <4>2
    <3>2. v = e + k + d
      BY <1>2, <2>1
    <3>3. r = t * Two(d)
      BY <2>4, <2>5
    <3>4. n = r * Two(k)
      BY <3>1, <3>2, <3>3
    <3> QED
      BY <1>3, <2>6, <3>4
  <2>10. PICK h \in Nat \ {0} : h = Two(k - 1) /\ p = 2 * h
    <3>1. PICK j \in 0..30 : j = k - 1 /\ j + 1 = k
      OBVIOUS
    <3> QED
      BY <1>3, <3>1, TwoNext
  <2>11. Rounds(n, h, r) /\ x = i * (2 * h)
    BY <2>6, <2>10
  <2>12. (r <= i <=> n <= x) /\ (i <= r <=> x <= n)
    BY <1>1, <2>9, <2>11, RoundsCompare
  <2> QED
    BY <2>7, <2>8, <2>12
<1>10. ASSUME v - e > 30
       PROVE  /\ Leq(r, c, t, v) <=> Leq(n, e, t, v)
              /\ Leq(t, v, r, c) <=> Leq(t, v, n, e)
  <2>1. PICK d \in 0..30 : d = MinOf(v - c, 30) /\ c <= v /\ d >= 25
    BY <1>2, <1>10 DEF MinOf
  <2>2. 30 = MinOf(v - e, 30) /\ e <= v /\ 30 \in 0..30
    BY <1>10 DEF MinOf
  <2>3. PICK q \in Nat \ {0} : q = Two(d) /\ q >= 2^25
    BY <2>1, TwoTable
  <2>4. PICK i \in Nat : i = t * q /\ i > r
    <3>1. PICK i \in Nat : i = t * q
      OBVIOUS
    <3>2. i >= q
      BY <1>1, <3>1
    <3> QED
      BY <2>3, <3>1, <3>2
  <2>5. PICK x \in Nat : x = t * Two(30) /\ x > n
    <3>1. n < 2^29
      <4>1. p <= 32
        BY <1>3, TwoTable
      <4> QED
        BY <1>5, <4>1
    <3>2. PICK x \in Nat : x = t * Two(30) /\ x >= 2^30
      BY <1>1 DEF Two
    <3> QED
      BY <3>1, <3>2
  <2>6. /\ Leq(r, c, t, v) <=> r <= i
        /\ Leq(t, v, r, c) <=> i <= r
    BY <1>1, <2>1, <2>3, <2>4, LeqCapped, Zenon
  <2>7. /\ Leq(n, e, t, v) <=> n <= x
        /\ Leq(t, v, n, e) <=> x <= n
    BY <2>2, <2>5, LeqCapped, Zenon
  <2> QED
    BY <1>1, <2>4, <2>5, <2>6, <2>7
<1>11. v <= c \/ v - e > 30 \/ (v > c /\ v - e <= 30)
  BY <1>2
<1> QED
  BY <1>1, <1>2, <1>8, <1>9, <1>10, <1>11, Zenon


-----------------------------------------------------------------------------
(* The operands, normalized: z * 2^U with 11 bits.                          *)

\* The half m normalized: only subnormal ones shift.
Shifted(m, z, j, U) ==
  /\ z \in (2^10)..(2^11 - 1) /\ j \in 0..10 /\ U \in 115..154
  /\ z = HalfSig(m) * Two(j) /\ HalfUnit(m) = U + j /\ HalfSig(m) \in 1..2047
  /\ j > 0 => U + j = 125

\* The float that it becomes.
Wide(m, w, z, j, U) ==
  /\ Shifted(m, z, j, U)
  /\ w \in 0..(Inf - 1) /\ Exponent(w) # 0
  /\ Sig(w) = z * 2^13 /\ Unit(w) = U - 13 /\ w = (U - 13) * 2^23 + z * 2^13

\* Every finite half but zero is normalized so.
LEMMA WideExists ==
  ASSUME NEW m \in 1..(HalfInf - 1), NEW w, Widened(m, w)
  PROVE  \E z \in Nat, j \in Nat, U \in Int : Wide(m, w, z, j, U)
<1>1. ASSUME NEW z, NEW j, NEW U, Shifted(m, z, j, U), w = Pack(U - 12, z * 2^13)
      PROVE  Wide(m, w, z, j, U)
  <2>0. z \in (2^10)..(2^11 - 1) /\ U \in 115..154
    BY <1>1 DEF Shifted
  <2>1. PICK s \in Mantissa : s = z * 2^13
    <3>1. z * 2^13 \in Mantissa
      BY <2>0 DEF Mantissa
    <3> QED
      BY <3>1, Zenon
  <2>2. PICK e \in 1..254 : e = U - 12 /\ e - 1 = U - 13 /\ e <= 142
    BY <2>0
  <2>3. w = Pack(e, s)
    BY <1>1, <2>1, <2>2
  <2>4. Sig(w) = s /\ Unit(w) = U - 13 /\ Exponent(w) # 0
    BY <2>2, <2>3, Normal
  <2>5. w \in 0..(Inf - 1) /\ w = (U - 13) * 2^23 + z * 2^13
    BY <2>0, <2>1, <2>2, <2>3 DEF Pack, Mantissa, Inf
  <2> QED
    BY <1>1, <2>1, <2>4, <2>5 DEF Wide
<1>2. CASE m \in 1..1023
  <2>1. PICK y \in 14..23 : m * Two(y) \in Mantissa /\ w = Pack(126 - y, m * Two(y))
    BY <1>2 DEF Widened
  <2>2. PICK j \in 0..10 : j = y - 13
    OBVIOUS
  <2>3. Two(y) = Two(j) * 2^13
    BY <2>2, TwoTable
  <2>4. PICK p \in Nat : p = Two(j)
    BY TwoTable
  <2>5. PICK z \in Nat : z = m * p
    OBVIOUS
  <2>6. m * Two(y) = z * 2^13
    BY <2>3, <2>4, <2>5
  <2>7. z \in (2^10)..(2^11 - 1)
    BY <2>1, <2>5, <2>6 DEF Mantissa
  <2>8. PICK U \in 115..154 : U = 125 - j /\ U - 12 = 126 - y
    BY <2>2
  <2>9. HalfSig(m) = m /\ HalfUnit(m) = 125 /\ m \in 1..2047
    BY <1>2 DEF HalfSig, HalfUnit, MaxOf
  <2>10. w = Pack(U - 12, z * 2^13) /\ z = HalfSig(m) * Two(j)
    BY <2>1, <2>4, <2>5, <2>6, <2>8, <2>9
  <2>11. HalfUnit(m) = U + j /\ (j > 0 => U + j = 125)
    BY <2>8, <2>9
  <2>12. Wide(m, w, z, j, U)
    <3>1. Shifted(m, z, j, U)
      BY <2>7, <2>9, <2>10, <2>11 DEF Shifted
    <3> QED
      BY <1>1, <2>10, <3>1, Zenon
  <2>13. j \in Nat /\ U \in Int
    OBVIOUS
  <2> QED
    BY <2>12, <2>13
<1>3. CASE m \in 2^10..(HalfInf - 1)
  <2>1. PICK e \in 1..30 :
          /\ HalfSig(m) * 2^13 \in Mantissa /\ HalfUnit(m) = e + 124
          /\ w = Pack(112 + e, HalfSig(m) * 2^13)
    BY <1>3 DEF Widened
  <2>2. PICK z \in Nat : z = HalfSig(m)
    BY <1>3 DEF HalfSig
  <2>3. z \in (2^10)..(2^11 - 1) /\ z \in 1..2047
    BY <2>1, <2>2 DEF Mantissa
  <2>4. PICK U \in 115..154 : U = e + 124 /\ U - 12 = 112 + e
    OBVIOUS
  <2>5. 0 \in 0..10 /\ ~ (0 > 0) /\ U + 0 = U /\ z * Two(0) = z /\ 0 \in Nat /\ U \in Int
    BY TwoValues
  <2>6. z = HalfSig(m) * Two(0) /\ HalfUnit(m) = U + 0 /\ HalfSig(m) \in 1..2047
    BY <2>1, <2>2, <2>3, <2>4, <2>5
  <2>7. Wide(m, w, z, 0, U)
    <3>1. Shifted(m, z, 0, U)
      BY <2>3, <2>5, <2>6 DEF Shifted
    <3>2. w = Pack(U - 12, z * 2^13)
      BY <2>1, <2>2, <2>4
    <3> QED
      BY <1>1, <3>1, <3>2, Zenon
  <2> QED
    BY <2>5, <2>7
<1> QED
  BY <1>2, <1>3 DEF HalfInf

\* The zero float.
LEMMA WideZero ==
  /\ 0 \in 0..(Inf - 1) /\ IsFinite(0) /\ Sig(0) = 0 /\ Unit(0) = 0 /\ Exponent(0) = 0
  /\ HalfSig(0) = 0 /\ HalfUnit(0) = 125
BY DEF Inf, IsFinite, Sig, Unit, Exponent, MaxOf, HalfSig, HalfUnit

\* A finite half is zero or normalized.
FiniteHalf == {h \in HalfWord : Magnitude(h) < HalfInf}

\* What the operators are called with.
LEMMA OperandParts ==
  ASSUME NEW h \in FiniteHalf
  PROVE  /\ ToFloat(h) \in FloatWord /\ ToFloat(h).neg = Negative(h)
         /\ Magnitude(h) = 0 => ToFloat(h).bits = 0
         /\ Magnitude(h) # 0 =>
              /\ Magnitude(h) \in 1..(HalfInf - 1)
              /\ \E z \in Nat, j \in Nat, U \in Int :
                   Wide(Magnitude(h), ToFloat(h).bits, z, j, U)
<1>1. h \in HalfWord /\ Magnitude(h) < HalfInf
  BY DEF FiniteHalf
<1>2. Widened(Magnitude(h), ToFloat(h).bits) /\ ToFloat(h).neg = Negative(h)
  BY <1>1, ToFloatWidens
<1>3. Magnitude(h) \in Nat
  BY <1>1, NonsignFacts
<1>4. Magnitude(h) # 0 => Magnitude(h) \in 1..(HalfInf - 1)
  BY <1>1, <1>3 DEF HalfInf
<1>5. Magnitude(h) = 0 => ToFloat(h).bits = 0
  BY <1>2, Zenon DEF Widened
<1>6. ToFloat(h) \in FloatWord
  BY <1>1, ToFloatType
<1> QED
  BY <1>2, <1>4, <1>5, <1>6, WideExists, Zenon

-----------------------------------------------------------------------------
(* Results.                                                                 *)

\* Zero is on the left of all middles.
LEMMA ZeroCompares ==
  ASSUME NEW t \in Nat \ {0}, NEW u \in Int, NEW v \in Int
  PROVE  Leq(0, u, t, v) /\ ~ Leq(t, v, 0, u)
<1>1. CASE u <= v
  <2>1. PICK d \in 0..30 : d = MinOf(v - u, 30)
    BY <1>1 DEF MinOf
  <2>2. PICK x \in Nat \ {0} : x = t * Two(d)
    <3>1. PICK p \in Nat \ {0} : p = Two(d)
      BY TwoNext
    <3>2. t * p >= p
      OBVIOUS
    <3> QED
      BY <3>1, <3>2
  <2>3. 0 \in Nat /\ t \in Nat
    OBVIOUS
  <2>4. (Leq(0, u, t, v) <=> 0 <= t * Two(d)) /\ (Leq(t, v, 0, u) <=> t * Two(d) <= 0)
    BY <1>1, <2>1, <2>3, LeqCapped, Zenon
  <2> QED
    BY <2>2, <2>4
<1>2. CASE v <= u
  <2>1. PICK d \in 0..30 : d = MinOf(u - v, 30)
    BY <1>2 DEF MinOf
  <2>2. 0 * Two(d) = 0
    <3>1. PICK p \in Nat : p = Two(d)
      BY TwoNext
    <3> QED
      BY <3>1
  <2>3. 0 \in Nat /\ t \in Nat
    OBVIOUS
  <2>4. (Leq(t, v, 0, u) <=> t <= 0 * Two(d)) /\ (Leq(0, u, t, v) <=> 0 * Two(d) <= t)
    BY <1>2, <2>1, <2>3, LeqCapped, Zenon
  <2> QED
    BY <2>2, <2>4
<1> QED
  BY <1>1, <1>2

\* Zeros agree.
LEMMA AgreeZero ==
  ASSUME NEW U \in Int, NEW u \in Int, NEW d \in Nat \ {0}
  PROVE  Agree(0, U, 1, 0, u, d)
<1> SUFFICES ASSUME NEW t \in Nat, NEW v \in Int, IsMiddle(t, v)
             PROVE  /\ Leq(0, U, t * 1, v) <=> Leq(0, u, t * d, v)
                    /\ Leq(t * 1, v, 0, U) <=> Leq(t * d, v, 0, u)
  BY Zenon DEF Agree
<1>1. t * 1 \in Nat \ {0} /\ t * d \in Nat \ {0}
  <2>1. t \in Nat \ {0}
    BY DEF IsMiddle
  <2>2. t * d >= d
    BY <2>1
  <2> QED
    BY <2>1, <2>2
<1> QED
  BY <1>1, ZeroCompares, Zenon

\* A float that agrees with a number becomes the half nearest to it.
LEMMA ResultIsNearest ==
  ASSUME NEW neg \in BOOLEAN, NEW w \in 0..(Inf - 1), NEW s, NEW u, NEW d,
         Agree(Sig(w), Unit(w), 1, s, u, d)
  PROVE  /\ Negative(ToHalf(Float(neg, w))) = neg
         /\ Nearest(s, u, d, Magnitude(ToHalf(Float(neg, w))))
<1>1. w \in 0..MaxInt /\ w < Inf
  BY DEF Inf, MaxInt
<1>2. Float(neg, w) \in FloatWord /\ Float(neg, w).bits = w /\ Float(neg, w).neg = neg
  BY <1>1 DEF FloatWord, Float
<1>3. Negative(ToHalf(Float(neg, w))) = neg /\ Magnitude(ToHalf(Float(neg, w))) = HalfOf(w)
  BY <1>2, HalfOfFloat
<1>4. HalfOf(w) \in 0..(2^15 - 1) /\ HalfOf(w) <= HalfInf
      /\ Nearest(Sig(w), Unit(w), 1, HalfOf(w))
  BY <1>1, HalfOfNearest
<1>5. HalfOf(w) \in 0..HalfInf
  BY <1>4 DEF HalfInf
<1> QED
  BY <1>3, <1>4, <1>5, AgreeNearest, Zenon

\* A number of at most 24 bits is a float.
LEMMA ShortFloat ==
  ASSUME NEW t \in 1..(2^24 - 1), NEW u \in 23..253
  PROVE  \E y \in 0..23 :
           /\ FloatOf(t, u) \in 0..(Inf - 1)
           /\ t * Two(y) \in Mantissa
           /\ Sig(FloatOf(t, u)) = t * Two(y) /\ Unit(FloatOf(t, u)) = u - y
<1>1. t \in 1..MaxInt
  BY DEF MaxInt
<1>2. PICK l \in 1..31 : l = BitLength(t) /\ Two(l - 1) <= t /\ t < Two(l)
  BY <1>1, BitLengthFacts
<1>3. l <= 24
  <2>1. PICK j \in 0..30 : j = l - 1
    OBVIOUS
  <2>2. j >= 24 => Two(24) <= Two(j)
    BY TwoMonotone
  <2>3. Two(24) = 2^24 /\ Two(j) \in Int
    BY TwoTable DEF Two
  <2> QED
    BY <1>2, <2>1, <2>2, <2>3
<1>4. PICK y \in 0..23 : y = 24 - l
  BY <1>3
<1>5. t * Two(y) \in Mantissa
  <2>1. PICK p \in Nat \ {0} : p = Two(y)
    BY TwoNext
  <2>2. PICK j \in 0..30 : j = l - 1 /\ j + y = 23 /\ l + y = 24
    BY <1>4
  <2>3. j \in 0..31 /\ y \in 0..31 /\ l \in 0..31 /\ 23 \in 0..31 /\ 24 \in 0..31
    OBVIOUS
  <2>4. Two(j) * Two(y) = Two(23) /\ Two(l) * Two(y) = Two(24)
    BY <2>2, <2>3, TwoAdd
  <2>5. PICK a \in Nat, b \in Nat : a = Two(j) /\ b = Two(l)
    <3>1. Two(j) \in Nat /\ Two(l) \in Nat
      BY <2>2, TwoNext, TwoTable
    <3> QED
      BY <3>1, Zenon
  <2>6. a <= t /\ t <= b - 1
    BY <1>2, <2>2, <2>5
  <2>7. a * p <= t * p
    BY <2>6
  <2>8. t * p <= (b - 1) * p
    BY <2>6
  <2>9. (b - 1) * p = b * p - p
    OBVIOUS
  <2>10. a * p = 2^23 /\ b * p = 2^24
    BY <2>1, <2>4, <2>5 DEF Two
  <2> QED
    BY <2>1, <2>7, <2>8, <2>9, <2>10 DEF Mantissa
<1>6. u \in 0..253 /\ u - y >= 0 /\ y \in 0..23
  OBVIOUS
<1>7. FloatOf(t, u) = Pack(u - y + 1, t * Two(y))
  BY <1>1, <1>5, <1>6, FloatOfShort
<1>8. PICK e \in 1..254 : e = u - y + 1 /\ e - 1 = u - y
  OBVIOUS
<1>9. Sig(Pack(e, t * Two(y))) = t * Two(y) /\ Unit(Pack(e, t * Two(y))) = e - 1
      /\ Pack(e, t * Two(y)) \in 0..MaxInt /\ IsFinite(Pack(e, t * Two(y)))
  BY <1>5, Normal
<1>10. Pack(e, t * Two(y)) \in 0..(Inf - 1)
  BY <1>9 DEF IsFinite, Inf, MaxInt
<1> QED
  BY <1>5, <1>7, <1>8, <1>9, <1>10

\* A multiple by a power of at most 24 bits is a float of the same value.
LEMMA ShortAgrees ==
  ASSUME NEW s \in Nat \ {0}, NEW k \in 0..23, NEW t \in 1..(2^24 - 1), t = s * Two(k),
         NEW u \in Int, u - k \in 23..253
  PROVE  /\ FloatOf(t, u - k) \in 0..(Inf - 1)
         /\ Agree(Sig(FloatOf(t, u - k)), Unit(FloatOf(t, u - k)), 1, s, u, 1)
<1>1. PICK c \in 23..253 : c = u - k
  OBVIOUS
<1>2. PICK y \in 0..23 :
        /\ FloatOf(t, c) \in 0..(Inf - 1)
        /\ t * Two(y) \in Mantissa
        /\ Sig(FloatOf(t, c)) = t * Two(y) /\ Unit(FloatOf(t, c)) = c - y
  BY ShortFloat
<1>3. PICK S \in Mantissa : S = t * Two(y)
  BY <1>2, Zenon
<1>4. k + y <= 23 /\ S = s * Two(k + y)
  <2>1. PICK p \in Nat \ {0} : p = Two(k)
    BY TwoNext
  <2>2. PICK q \in Nat \ {0} : q = Two(y)
    BY TwoNext
  <2>3. S = s * (p * q)
    BY <1>3, <2>1, <2>2
  <2>4. CASE k + y <= 31
    <3>1. PICK d \in 0..31 : d = k + y
      BY <2>4
    <3>2. k \in 0..31 /\ y \in 0..31 /\ k + y = d
      BY <3>1
    <3>3. Two(d) = p * q
      BY <2>1, <2>2, <3>2, TwoAdd
    <3>4. PICK x \in Nat : x = p * q
      OBVIOUS
    <3>5. S >= x
      <4>1. s * x >= x
        OBVIOUS
      <4> QED
        BY <2>3, <3>4, <4>1
    <3>6. x < 2^24
      BY <3>5 DEF Mantissa
    <3>7. d >= 24 => Two(d) >= 2^24
      BY TwoTable
    <3> QED
      BY <2>3, <3>1, <3>3, <3>4, <3>6, <3>7
  <2>5. CASE k + y > 31
    <3>1. PICK a \in 0..23 : a = 31 - y /\ a <= k
      BY <2>5
    <3>2. a \in 0..31 /\ y \in 0..31 /\ 31 \in 0..31 /\ a + y = 31 /\ k \in 0..31
      BY <3>1
    <3>3. Two(a) * q = Two(31) /\ Two(a) <= p
      BY <2>1, <2>2, <3>1, <3>2, TwoAdd, TwoMonotone
    <3>4. PICK b \in Nat : b = Two(a)
      BY TwoNext
    <3>5. b * q <= p * q
      BY <3>3, <3>4
    <3>6. PICK x \in Nat : x = p * q
      OBVIOUS
    <3>7. S >= x
      <4>1. s * x >= x
        OBVIOUS
      <4> QED
        BY <2>3, <3>6, <4>1
    <3> QED
      BY <3>3, <3>4, <3>5, <3>6, <3>7 DEF Two, Mantissa
  <2> QED
    BY <2>4, <2>5
<1>5. PICK d \in 0..23 : d = k + y
  BY <1>4
<1>6. S \in 0..(2^30 - 1) /\ s \in Nat
  BY DEF Mantissa
<1>7. Agree(S, u - d, 1, s, u, 1)
  BY <1>4, <1>5, <1>6, AgreeExact
<1>8. u - d = c - y
  BY <1>1, <1>5
<1> QED
  BY <1>1, <1>2, <1>3, <1>7, <1>8

-----------------------------------------------------------------------------
(* Products.                                                                *)

\* The bits that times and over calculate with.
LEMMA ShortWide ==
  ASSUME NEW m, NEW w, NEW z, NEW j, NEW U, Wide(m, w, z, j, U)
  PROVE  Short(w).sig = z /\ Short(w).unit = U
<1>1. z \in (2^10)..(2^11 - 1) /\ U \in 115..154 /\ Sig(w) = z * 2^13 /\ Unit(w) = U - 13
  BY DEF Wide, Shifted
<1>2. PICK s \in Mantissa : s = z * 2^13
  <2>1. z * 2^13 \in Mantissa
    BY <1>1 DEF Mantissa
  <2> QED
    BY <2>1, Zenon
<1>3. BitLength(Sig(w)) - 11 = 13
  BY <1>1, <1>2, MantissaLength
<1>4. RoundShift(s, 13) = z
  <2>1. s \div 2^13 = z /\ s % 2^13 = 0
    BY <1>1, <1>2
  <2> QED
    BY <2>1 DEF RoundShift
<1> QED
  BY <1>1, <1>2, <1>3, <1>4 DEF Short

\* And those of zero.
LEMMA ShortZero ==
  Short(0).sig = 0 /\ Short(0).unit \in Int
<1>1. BitLength(0) - 11 = -11 /\ Sig(0) = 0 /\ Unit(0) = 0
  BY WideZero DEF BitLength
<1>2. RoundShift(0, -11) = 0
  BY DEF RoundShift
<1> QED
  BY <1>1, <1>2 DEF Short

\* Both numbers in units, whether they are zero or not.
LEMMA HalfParts ==
  ASSUME NEW h \in FiniteHalf
  PROVE  HalfSig(Magnitude(h)) \in 0..2047 /\ HalfUnit(Magnitude(h)) \in 125..154
<1>1. CASE Magnitude(h) = 0
  BY <1>1, WideZero
<1>2. CASE Magnitude(h) # 0
  <2>1. PICK z \in Nat, j \in Nat, U \in Int :
          Wide(Magnitude(h), ToFloat(h).bits, z, j, U)
    BY <1>2, OperandParts
  <2>2. Magnitude(h) \in 1..(HalfInf - 1)
    BY <1>2, OperandParts
  <2>3. HalfSig(Magnitude(h)) \in 0..2047
    BY <2>1 DEF Wide, Shifted
  <2>4. HalfUnit(Magnitude(h)) \in 125..154
    BY <2>2 DEF HalfUnit, MaxOf, HalfInf
  <2> QED
    BY <2>3, <2>4
<1> QED
  BY <1>1, <1>2

\* The bits of any half.
LEMMA ShortHalf ==
  ASSUME NEW h \in FiniteHalf
  PROVE  /\ Short(ToFloat(h).bits).sig \in Nat
         /\ Magnitude(h) = 0 => Short(ToFloat(h).bits).sig = 0
<1>1. CASE Magnitude(h) = 0
  <2>1. ToFloat(h).bits = 0
    BY <1>1, OperandParts
  <2> QED
    BY <2>1, ShortZero
<1>2. CASE Magnitude(h) # 0
  <2>1. PICK z \in Nat, j \in Nat, U \in Int :
          Wide(Magnitude(h), ToFloat(h).bits, z, j, U)
    BY <1>2, OperandParts, Zenon
  <2>2. Short(ToFloat(h).bits).sig = z
    BY <2>1, ShortWide, Zenon
  <2> QED
    BY <1>2, <2>2
<1> QED
  BY <1>1, <1>2

\* The product of two numbers of 11 bits has 22 and is calculated exactly.
LEMMA ProductAgrees ==
  ASSUME NEW m, NEW v, NEW x, NEW i, NEW X, Wide(m, v, x, i, X),
         NEW n, NEW w, NEW y, NEW j, NEW Y, Wide(n, w, y, j, Y)
  PROVE  /\ Times(v, w) \in 0..(Inf - 1)
         /\ Agree(Sig(Times(v, w)), Unit(Times(v, w)), 1,
                  HalfSig(m) * HalfSig(n), HalfUnit(m) + HalfUnit(n) - 149, 1)
<1>1. /\ x \in (2^10)..(2^11 - 1) /\ i \in 0..10 /\ X \in 115..154
      /\ x = HalfSig(m) * Two(i) /\ HalfUnit(m) = X + i /\ HalfSig(m) \in 1..2047
  BY DEF Wide, Shifted
<1>2. /\ y \in (2^10)..(2^11 - 1) /\ j \in 0..10 /\ Y \in 115..154
      /\ y = HalfSig(n) * Two(j) /\ HalfUnit(n) = Y + j /\ HalfSig(n) \in 1..2047
  BY DEF Wide, Shifted
<1>3. PICK g \in Nat \ {0} : g = HalfSig(m)
  <2>1. HalfSig(m) \in Nat \ {0}
    BY <1>1
  <2> QED
    BY <2>1, Zenon
<1>4. PICK h \in Nat \ {0} : h = HalfSig(n)
  <2>1. HalfSig(n) \in Nat \ {0}
    BY <1>2
  <2> QED
    BY <2>1, Zenon
<1>5. PICK u \in Int : u = HalfUnit(m) + HalfUnit(n) - 149 /\ u = X + i + (Y + j) - 149
  BY <1>1, <1>2
<1>6. PICK k \in 0..23 : k = i + j /\ u - k = X + Y - 149 /\ u - k \in 23..253
  BY <1>1, <1>2, <1>5
<1>7. PICK t \in 1..(2^24 - 1) : t = x * y
  <2>1. x * y <= 2^11 * y /\ x * y >= 2^10 * y
    BY <1>1, <1>2
  <2>2. PICK t \in Int : t = x * y
    BY <1>1, <1>2
  <2>3. t \in 1..(2^24 - 1)
    BY <1>2, <2>1, <2>2
  <2> QED
    BY <2>2, <2>3
<1>8. PICK s \in Nat \ {0} : s = g * h
  <2>1. g * h >= h
    OBVIOUS
  <2> QED
    BY <2>1
<1>9. t = s * Two(k)
  <2>1. PICK p \in Nat : p = Two(i)
    BY <1>1, TwoTable
  <2>2. PICK q \in Nat : q = Two(j)
    BY <1>2, TwoTable
  <2>3. i \in 0..31 /\ j \in 0..31 /\ k \in 0..31 /\ i + j = k
    BY <1>1, <1>2, <1>6
  <2>4. p * q = Two(k)
    BY <2>1, <2>2, <2>3, TwoAdd, Zenon
  <2>5. x = g * p /\ y = h * q
    <3>1. x = HalfSig(m) * Two(i) /\ y = HalfSig(n) * Two(j)
      BY <1>1, <1>2
    <3> QED
      BY <1>3, <1>4, <2>1, <2>2, <3>1, Zenon
  <2>6. (g * p) * (h * q) = (g * h) * (p * q)
    OBVIOUS
  <2> QED
    BY <1>7, <1>8, <2>4, <2>5, <2>6, Zenon
<1>10. Times(v, w) = FloatOf(t, u - k)
  BY <1>6, <1>7, ShortWide DEF Times
<1>11. /\ FloatOf(t, u - k) \in 0..(Inf - 1)
       /\ Agree(Sig(FloatOf(t, u - k)), Unit(FloatOf(t, u - k)), 1, s, u, 1)
  <2>1. u - k \in 23..253
    BY <1>6
  <2> QED
    BY <1>9, <2>1, ShortAgrees
<1>12. s = HalfSig(m) * HalfSig(n) /\ u = HalfUnit(m) + HalfUnit(n) - 149
  BY <1>3, <1>4, <1>5, <1>8
<1> QED
  BY <1>10, <1>11, <1>12

\* A product is rounded once.
LEMMA ProductRounds ==
  ASSUME NEW a \in FiniteHalf, NEW b \in FiniteHalf
  PROVE  /\ Negative(Multiply(a, b)) = (Negative(a) # Negative(b))
         /\ Nearest(HalfSig(Magnitude(a)) * HalfSig(Magnitude(b)),
                    HalfUnit(Magnitude(a)) + HalfUnit(Magnitude(b)) - 149,
                    1, Magnitude(Multiply(a, b)))
<1>1. PICK neg \in BOOLEAN : neg = (Negative(a) # Negative(b))
  BY Zenon
<1>2. PICK w : w = Times(ToFloat(a).bits, ToFloat(b).bits)
  BY Zenon
<1>3. Multiply(a, b) = ToHalf(Float(neg, w))
  BY <1>1, <1>2, Zenon DEF Multiply
<1>4. PICK s : s = HalfSig(Magnitude(a)) * HalfSig(Magnitude(b))
  BY Zenon
<1>5. PICK u : u = HalfUnit(Magnitude(a)) + HalfUnit(Magnitude(b)) - 149
  BY Zenon
<1>6. w \in 0..(Inf - 1) /\ Agree(Sig(w), Unit(w), 1, s, u, 1)
  <2>1. CASE Magnitude(a) = 0 \/ Magnitude(b) = 0
    <3>1. s = 0 /\ u \in Int
      <4>1. HalfSig(Magnitude(a)) \in Int /\ HalfSig(Magnitude(b)) \in Int
            /\ HalfUnit(Magnitude(a)) \in Int /\ HalfUnit(Magnitude(b)) \in Int
        <5>1. \A h \in FiniteHalf : /\ HalfSig(Magnitude(h)) \in Int
                                    /\ HalfUnit(Magnitude(h)) \in Int
          BY HalfParts
        <5> QED
          BY <5>1, Zenon
      <4>2. HalfSig(Magnitude(a)) = 0 \/ HalfSig(Magnitude(b)) = 0
        BY <2>1, WideZero
      <4> QED
        BY <1>4, <1>5, <4>1, <4>2
    <3>2. PICK x \in Nat : x = Short(ToFloat(a).bits).sig /\ (Magnitude(a) = 0 => x = 0)
      BY ShortHalf
    <3>3. PICK y \in Nat : y = Short(ToFloat(b).bits).sig /\ (Magnitude(b) = 0 => y = 0)
      BY ShortHalf
    <3>4. x * y = 0
      BY <2>1, <3>2, <3>3
    <3>5. w = 0
      BY <1>2, <3>2, <3>3, <3>4 DEF Times, FloatOf
    <3>6. Sig(w) = 0 /\ Unit(w) = 0 /\ w \in 0..(Inf - 1)
      BY <3>5, WideZero
    <3>7. 0 \in Int /\ 1 \in Nat \ {0}
      OBVIOUS
    <3> QED
      BY <3>1, <3>6, <3>7, AgreeZero
  <2>2. CASE Magnitude(a) # 0 /\ Magnitude(b) # 0
    <3>1. PICK x \in Nat, i \in Nat, X \in Int :
            Wide(Magnitude(a), ToFloat(a).bits, x, i, X)
      BY <2>2, OperandParts, Zenon
    <3>2. PICK y \in Nat, j \in Nat, Y \in Int :
            Wide(Magnitude(b), ToFloat(b).bits, y, j, Y)
      BY <2>2, OperandParts, Zenon
    <3> QED
      BY <1>2, <1>4, <1>5, <3>1, <3>2, ProductAgrees, Zenon
  <2> QED
    BY <2>1, <2>2
<1>7. /\ Negative(ToHalf(Float(neg, w))) = neg
      /\ Nearest(s, u, 1, Magnitude(ToHalf(Float(neg, w))))
  BY <1>6, ResultIsNearest, Zenon
<1> QED
  BY <1>1, <1>3, <1>4, <1>5, <1>7, Zenon

-----------------------------------------------------------------------------
(* Quotients.  x * 2^27 is divided by y, and the quotient gets one more bit *)
(* that says whether anything is left.                                      *)

Divided(x, y, q, c) == q \in Nat /\ c \in Nat /\ c < y /\ x * 2^27 = y * q + c

WithRest(q, c) == 2 * q + (IF c = 0 THEN 0 ELSE 1)

\* Where over divides.
LEMMA OverDivides ==
  ASSUME NEW x \in (2^10)..(2^11 - 1), NEW y \in (2^10)..(2^11 - 1)
  PROVE  \E q \in Nat, c \in Nat :
           /\ Divided(x, y, q, c)
           /\ WithRest(q, c) \in (2^27)..(2^29 - 1)
           /\ \A v, w :
                Short(v).sig = x /\ Short(w).sig = y =>
                  Over(v, w) = FloatOf(WithRest(q, c),
                                       Short(v).unit - Short(w).unit + 149 - 28)
<1>1. PICK n \in Nat : n = x * 2^18
  OBVIOUS
<1>2. n = y * (n \div y) + (n % y) /\ n \div y \in Nat /\ n % y \in 0..(y - 1)
  OBVIOUS
<1>3. PICK q1 \in Nat : q1 = n \div y
  BY <1>2
<1>4. PICK r1 \in 0..(y - 1) : r1 = n % y
  BY <1>2
<1>5. PICK rest \in Nat : rest = r1 * 2^9
  OBVIOUS
<1>6. rest = y * (rest \div y) + (rest % y) /\ rest \div y \in Nat /\ rest % y \in 0..(y - 1)
  OBVIOUS
<1>7. PICK q2 \in Nat : q2 = rest \div y
  BY <1>6
<1>8. PICK c \in 0..(y - 1) : c = rest % y
  BY <1>6
<1>9. PICK q \in Nat : q = q1 * 2^9 + q2
  OBVIOUS
<1>10. PICK f \in Int : f = y * q1
  BY Multiples
<1>11. PICK g \in Int : g = y * q2
  BY Multiples
<1>12. y * q = f * 2^9 + g
  BY <1>9, <1>10, <1>11
<1>13. x * 2^27 = y * q + c /\ c < y /\ c \in Nat
  <2>1. n = f + r1
    BY <1>2, <1>3, <1>4, <1>10
  <2>2. rest = g + c
    BY <1>6, <1>7, <1>8, <1>11
  <2> QED
    BY <1>1, <1>5, <1>12, <2>1, <2>2
<1>14. WithRest(q, c) \in (2^27)..(2^29 - 1)
  <2>1. q >= 2^26
    <3>1. PICK z \in Int : z = q - 2^26
      OBVIOUS
    <3>2. y * z = y * q - y * 2^26
      BY <3>1
    <3>3. z <= -1 => y * z <= -y
      BY Multiples
    <3> QED
      BY <1>13, <3>1, <3>2, <3>3
  <2>2. q <= 2^28 - 1
    <3>1. q >= 2^28 => y * q >= y * 2^28
      OBVIOUS
    <3> QED
      BY <1>13, <3>1
  <2> QED
    BY <2>1, <2>2 DEF WithRest
<1>15. ASSUME NEW v, NEW w, Short(v).sig = x, Short(w).sig = y
       PROVE  Over(v, w) = FloatOf(WithRest(q, c),
                                   Short(v).unit - Short(w).unit + 149 - 28)
  <2>1. WithRest(q, c) =
          2 * ((n \div y) * 2^9 + (rest \div y)) + (IF rest % y = 0 THEN 0 ELSE 1)
    BY <1>3, <1>7, <1>8, <1>9 DEF WithRest
  <2>2. (n % y) * 2^9 = rest
    BY <1>4, <1>5
  <2> QED
    BY <1>1, <1>15, <2>1, <2>2 DEF Over
<1>16. Divided(x, y, q, c)
  BY <1>13 DEF Divided
<1> QED
  BY <1>14, <1>15, <1>16

\* With the rest the quotient compares with even numbers as the dividend does.
LEMMA QuotientCompares ==
  ASSUME NEW y \in Nat \ {0}, NEW q \in Nat, NEW c \in Nat, c < y,
         NEW n \in Nat, n = 2 * (y * q) + 2 * c, NEW i \in Nat
  PROVE  /\ WithRest(q, c) <= 2 * i <=> n <= y * (2 * i)
         /\ 2 * i <= WithRest(q, c) <=> y * (2 * i) <= n
<1>1. PICK z \in Int : z = i - q
  OBVIOUS
<1>2. PICK x \in Int : x = y * z /\ (z >= 1 => x >= y) /\ (z <= -1 => x <= -y)
  <2>1. PICK x \in Int : x = y * z
    BY Multiples
  <2> QED
    BY <2>1, Multiples
<1>3. PICK p \in Int : p = y * q
  BY Multiples
<1>4. y * (2 * i) = 2 * p + 2 * x
  BY <1>1, <1>2, <1>3
<1>5. n = 2 * p + 2 * c
  BY <1>3
<1>6. CASE z >= 1
  BY <1>1, <1>2, <1>4, <1>5, <1>6 DEF WithRest
<1>7. CASE z <= -1
  BY <1>1, <1>2, <1>4, <1>5, <1>7 DEF WithRest
<1>8. CASE z = 0
  <2>1. x = 0
    BY <1>2, <1>8
  <2> QED
    BY <1>1, <1>4, <1>5, <1>8, <2>1 DEF WithRest
<1> QED
  BY <1>6, <1>7, <1>8

\* A quotient of short numbers that is close to a multiple of 2^16 is one.
LEMMA QuotientMeets ==
  ASSUME NEW x \in Nat, NEW y \in 1..(2^11 - 1), NEW q, NEW c, Divided(x, y, q, c),
         NEW b \in Nat,
         2^16 * b - 16 <= WithRest(q, c), WithRest(q, c) <= 2^16 * b + 16
  PROVE  WithRest(q, c) = 2^16 * b
<1> USE DEF Divided
<1>1. PICK z \in Int : z = q - 2^15 * b
  OBVIOUS
<1>2. z \in -9..8
  BY <1>1 DEF WithRest
<1>3. PICK p \in Int : p = y * z /\ (z >= 1 => p >= y) /\ (z <= -1 => p <= -y)
  <2>1. y \in Nat \ {0}
    OBVIOUS
  <2>2. PICK p \in Int : p = y * z
    BY <2>1, Multiples
  <2> QED
    BY <2>1, <2>2, Multiples
<1>4. p >= -9 * y /\ p <= 8 * y
  <2>1. y * z <= y * 8 /\ y * z >= y * (-9)
    BY <1>2
  <2> QED
    BY <1>3, <2>1
<1>5. PICK d \in Int : d = y * b
  OBVIOUS
<1>6. x * 2^27 = 2^15 * d + p + c
  <2>1. y * q = y * z + 2^15 * (y * b)
    BY <1>1
  <2> QED
    BY <1>3, <1>5, <2>1
<1>7. p + c = 0
  BY <1>4, <1>6
<1>8. z = 0
  BY <1>2, <1>3, <1>7
<1>9. c = 0
  BY <1>3, <1>7, <1>8
<1> QED
  BY <1>1, <1>8, <1>9 DEF WithRest

\* Only the difference of the units counts.
LEMMA LeqMoved ==
  ASSUME NEW s, NEW t, NEW u \in Int, NEW v \in Int, NEW j \in Int
  PROVE  Leq(s, u + j, t, v + j) <=> Leq(s, u, t, v)
<1>1. (u + j <= v + j <=> u <= v) /\ (v + j) - (u + j) = v - u /\ (u + j) - (v + j) = u - v
  OBVIOUS
<1>2. (IF u + j <= v + j THEN (v + j) - (u + j) ELSE (u + j) - (v + j)) =
        (IF u <= v THEN v - u ELSE u - v)
  BY <1>1
<1> QED
  BY <1>1, <1>2, Zenon DEF Leq

\* S is s with k more bits.
Scaled(s, S, k) ==
  s \in Nat /\ k \in 0..23 /\ S \in 0..(2^30 - 1) /\ S = s * Two(k)

LEMMA LeqOfScaled ==
  ASSUME NEW s, NEW S, NEW k, Scaled(s, S, k)
  PROVE  \A u \in Int, t \in Nat, v \in Int :
           t < 2^30 =>
             /\ Leq(S, u - k, t, v) <=> Leq(s, u, t, v)
             /\ Leq(t, v, S, u - k) <=> Leq(t, v, s, u)
<1> SUFFICES ASSUME NEW u \in Int, NEW t \in Nat, NEW v \in Int, t < 2^30
             PROVE  /\ Leq(S, u - k, t, v) <=> Leq(s, u, t, v)
                    /\ Leq(t, v, S, u - k) <=> Leq(t, v, s, u)
  OBVIOUS
<1>1. s \in Nat /\ k \in 0..23 /\ S \in 0..(2^30 - 1) /\ S = s * Two(k)
  BY DEF Scaled
<1>2. t \in 0..(2^30 - 1)
  OBVIOUS
<1> QED
  BY <1>1, <1>2, LeqScaled, Zenon

\* A quotient whose parts are scaled agrees.
LEMMA AgreeScaled ==
  ASSUME NEW s \in Nat, NEW x \in 0..(2^11 - 1), NEW i \in 0..10, x = s * Two(i),
         NEW d \in Nat, NEW y \in 0..(2^11 - 1), NEW j \in 0..10, y = d * Two(j),
         NEW U \in Int, NEW u \in Int, u + j = U + i
  PROVE  Agree(x, U, y, s, u, d)
<1> SUFFICES ASSUME NEW t \in Nat, NEW v \in Int, IsMiddle(t, v)
             PROVE  /\ Leq(x, U, t * y, v) <=> Leq(s, u, t * d, v)
                    /\ Leq(t * y, v, x, U) <=> Leq(t * d, v, s, u)
  BY Zenon DEF Agree
<1>1. t <= 4095
  BY DEF IsMiddle
<1>2. PICK a \in Nat : a = t * y
  OBVIOUS
<1>0. a < 2^30
  <2>1. t * y <= 4095 * y
    BY <1>1
  <2> QED
    BY <1>2, <2>1
<1>3. PICK b \in Nat : b = t * d
  OBVIOUS
<1>4. a = b * Two(j)
  <2>1. PICK q \in Nat : q = Two(j)
    BY TwoNext
  <2>2. t * (d * q) = (t * d) * q
    OBVIOUS
  <2> QED
    BY <1>2, <1>3, <2>1, <2>2
<1>5. b < 2^30
  <2>1. PICK q \in Nat \ {0} : q = Two(j)
    BY TwoNext
  <2>2. b * q >= b
    OBVIOUS
  <2> QED
    BY <1>0, <1>4, <2>1, <2>2
<1>6. Scaled(b, a, j) /\ Scaled(s, x, i) /\ x \in Nat /\ x < 2^30 /\ j \in Int
  BY <1>0, <1>4 DEF Scaled
<1>7. PICK w \in Int : w = v + j /\ v = w - j
  OBVIOUS
<1>8. PICK W \in Int : W = U + i /\ U = W - i /\ W = u + j
  OBVIOUS
<1>9. /\ Leq(a, v, x, U) <=> Leq(b, w, x, U)
      /\ Leq(x, U, a, v) <=> Leq(x, U, b, w)
  <2>1. \A u1 \in Int, t1 \in Nat, v1 \in Int :
          t1 < 2^30 =>
            /\ Leq(a, u1 - j, t1, v1) <=> Leq(b, u1, t1, v1)
            /\ Leq(t1, v1, a, u1 - j) <=> Leq(t1, v1, b, u1)
    BY <1>6, LeqOfScaled, Zenon
  <2>2. /\ Leq(a, w - j, x, U) <=> Leq(b, w, x, U)
        /\ Leq(x, U, a, w - j) <=> Leq(x, U, b, w)
    BY <1>6, <2>1, Zenon
  <2> QED
    BY <1>7, <2>2, Zenon
<1>10. /\ Leq(x, U, b, w) <=> Leq(s, W, b, w)
       /\ Leq(b, w, x, U) <=> Leq(b, w, s, W)
  <2>1. \A u1 \in Int, t1 \in Nat, v1 \in Int :
          t1 < 2^30 =>
            /\ Leq(x, u1 - i, t1, v1) <=> Leq(s, u1, t1, v1)
            /\ Leq(t1, v1, x, u1 - i) <=> Leq(t1, v1, s, u1)
    BY <1>6, LeqOfScaled, Zenon
  <2>2. /\ Leq(x, W - i, b, w) <=> Leq(s, W, b, w)
        /\ Leq(b, w, x, W - i) <=> Leq(b, w, s, W)
    BY <1>5, <2>1, Zenon
  <2> QED
    BY <1>8, <2>2, Zenon
<1>11. /\ Leq(s, u + j, b, v + j) <=> Leq(s, u, b, v)
       /\ Leq(b, v + j, s, u + j) <=> Leq(b, v, s, u)
  BY <1>6, LeqMoved, Zenon
<1> QED
  BY <1>2, <1>3, <1>7, <1>8, <1>9, <1>10, <1>11

\* A quotient with its rest compares with the middles as x / y does.
LEMMA QuotientAgrees ==
  ASSUME NEW x \in (2^10)..(2^11 - 1), NEW y \in (2^10)..(2^11 - 1),
         NEW q, NEW c, Divided(x, y, q, c),
         NEW n \in (2^27)..(2^29 - 1), n = WithRest(q, c), NEW e \in Int
  PROVE  Agree(n, e, 1, x, e + 28, y)
<1> SUFFICES ASSUME NEW t \in Nat, NEW v \in Int, IsMiddle(t, v)
             PROVE  /\ Leq(n, e, t * 1, v) <=> Leq(x, e + 28, t * y, v)
                    /\ Leq(t * 1, v, n, e) <=> Leq(t * y, v, x, e + 28)
  BY Zenon DEF Agree
<1>1. t * 1 = t /\ t >= 1 /\ t < 2^12 /\ n \in Nat /\ x \in Nat
  BY DEF IsMiddle
<1>2. PICK u \in Int : u = e + 28
  OBVIOUS
<1>3. PICK a \in Nat : a = t * y /\ a >= y /\ a < 2^23
  <2>1. t * y <= 4095 * y /\ t * y \in Nat /\ t * y >= y
    BY <1>1
  <2> QED
    BY <2>1
<1>4. ASSUME ~ Leq(n, e, t, v), Leq(t, v, n, e), ~ Leq(x, u, a, v), Leq(a, v, x, u)
      PROVE  /\ Leq(n, e, t * 1, v) <=> Leq(x, e + 28, t * y, v)
             /\ Leq(t * 1, v, n, e) <=> Leq(t * y, v, x, e + 28)
  BY <1>1, <1>2, <1>3, <1>4
<1>5. ASSUME Leq(n, e, t, v), ~ Leq(t, v, n, e), Leq(x, u, a, v), ~ Leq(a, v, x, u)
      PROVE  /\ Leq(n, e, t * 1, v) <=> Leq(x, e + 28, t * y, v)
             /\ Leq(t * 1, v, n, e) <=> Leq(t * y, v, x, e + 28)
  BY <1>1, <1>2, <1>3, <1>5
<1>6. CASE v <= e
  <2>1. PICK d \in 0..30 : d = MinOf(e - v, 30)
    BY <1>6 DEF MinOf
  <2>2. PICK g \in 0..30 : g = MinOf(u - v, 30) /\ v <= u /\ g >= 28
    BY <1>2, <1>6 DEF MinOf
  <2>3. PICK m \in Nat : m = n * Two(d) /\ m >= n
    <3>1. PICK p \in Nat \ {0} : p = Two(d)
      BY TwoNext
    <3>2. n * p >= n /\ n * p \in Nat
      BY <1>1
    <3> QED
      BY <3>1, <3>2
  <2>4. PICK w \in Nat : w = x * Two(g) /\ w >= 2^28
    <3>1. PICK p \in Nat \ {0} : p = Two(g) /\ p >= 2^28
      BY <2>2, TwoTable
    <3>2. x * p >= p /\ x * p \in Nat
      BY <1>1
    <3> QED
      BY <3>1, <3>2
  <2>5. (Leq(t, v, n, e) <=> t <= m) /\ (Leq(n, e, t, v) <=> m <= t)
    BY <1>1, <1>6, <2>1, <2>3, LeqCapped
  <2>6. (Leq(a, v, x, u) <=> a <= w) /\ (Leq(x, u, a, v) <=> w <= a)
    BY <1>1, <2>2, <2>4, LeqCapped
  <2> QED
    BY <1>1, <1>3, <1>4, <2>3, <2>4, <2>5, <2>6
<1>7. CASE v >= e + 29
  <2>1. PICK d \in 0..30 : d = MinOf(v - e, 30) /\ d >= 29 /\ e <= v
    BY <1>7 DEF MinOf
  <2>2. PICK g \in 0..30 : g = MinOf(v - u, 30) /\ g >= 1 /\ u <= v
    BY <1>2, <1>7 DEF MinOf
  <2>3. PICK m \in Nat : m = t * Two(d) /\ m >= 2^29
    <3>1. PICK p \in Nat \ {0} : p = Two(d) /\ p >= 2^29
      BY <2>1, TwoTable
    <3>2. t * p >= p /\ t * p \in Nat
      BY <1>1
    <3> QED
      BY <3>1, <3>2
  <2>4. PICK w \in Nat : w = a * Two(g) /\ w >= 2 * a
    <3>1. PICK p \in Nat \ {0} : p = Two(g) /\ p >= 2
      BY <2>2, TwoTable
    <3>2. a * p >= a * 2 /\ a * p \in Nat
      BY <3>1
    <3> QED
      BY <3>1, <3>2
  <2>5. (Leq(n, e, t, v) <=> n <= m) /\ (Leq(t, v, n, e) <=> m <= n)
    BY <1>1, <2>1, <2>3, LeqCapped
  <2>6. (Leq(x, u, a, v) <=> x <= w) /\ (Leq(a, v, x, u) <=> w <= x)
    BY <1>1, <2>2, <2>4, LeqCapped
  <2> QED
    BY <1>3, <1>5, <2>3, <2>4, <2>5, <2>6
<1>8. CASE v > e /\ v <= e + 28
  <2>1. PICK d \in 0..30 : d = v - e /\ d = MinOf(v - e, 30) /\ e <= v /\ d \in 1..28
    BY <1>8 DEF MinOf
  <2>2. PICK g \in 0..30 : g = u - v /\ g = MinOf(u - v, 30) /\ v <= u /\ g + d = 28
    BY <1>2, <1>8, <2>1 DEF MinOf
  <2>3. PICK h \in Nat : 2 * h = Two(d)
    <3>1. PICK k \in 0..30 : k = d - 1 /\ k + 1 = d
      BY <2>1
    <3>2. PICK h \in Nat : h = Two(k)
      BY TwoNext
    <3> QED
      BY <3>1, <3>2, TwoNext
  <2>4. PICK i \in Nat : i = t * h
    OBVIOUS
  <2>5. 2 * i = t * Two(d)
    BY <2>3, <2>4
  <2>6. (Leq(n, e, t, v) <=> n <= 2 * i) /\ (Leq(t, v, n, e) <=> 2 * i <= n)
    BY <1>1, <2>1, <2>5, LeqCapped
  <2>7. PICK p \in Nat \ {0} : p = Two(g)
    BY TwoNext
  <2>8. PICK w \in Nat : w = x * p
    BY <1>1
  <2>9. (Leq(a, v, x, u) <=> a <= w) /\ (Leq(x, u, a, v) <=> w <= a)
    BY <1>1, <2>2, <2>7, <2>8, LeqCapped
  <2>10. PICK f \in Nat \ {0} : f = Two(d)
    BY TwoNext
  <2>11. p * f = 2^28
    <3>1. g \in 0..31 /\ d \in 0..31 /\ 28 \in 0..31 /\ g + d = 28
      BY <2>2
    <3>2. Two(g) * Two(d) = Two(28)
      BY <3>1, TwoAdd
    <3> QED
      BY <2>7, <2>10, <3>2 DEF Two
  <2>12. (w <= a <=> w * f <= a * f) /\ (a <= w <=> a * f <= w * f)
    <3>1. PICK z \in Int : z = a - w
      OBVIOUS
    <3>2. a * f - w * f = f * z
      BY <3>1
    <3>3. (z >= 0 => f * z >= 0) /\ (z <= 0 => f * z <= 0)
      OBVIOUS
    <3> QED
      BY <3>1, <3>2, <3>3, Multiples
  <2>13. w * f = x * 2^28
    <3>1. (x * p) * f = x * (p * f)
      BY <1>1
    <3> QED
      BY <2>8, <2>11, <3>1
  <2>14. a * f = y * (2 * i)
    <3>1. (t * y) * f = y * (t * f)
      OBVIOUS
    <3> QED
      BY <1>3, <2>5, <2>10, <3>1
  <2>15. PICK D \in Nat : D = x * 2^28
    BY <1>1
  <2>16. D = 2 * (y * q) + 2 * c /\ y \in Nat \ {0} /\ q \in Nat /\ c \in Nat /\ c < y
    BY <2>15 DEF Divided
  <2>17. (n <= 2 * i <=> D <= y * (2 * i)) /\ (2 * i <= n <=> y * (2 * i) <= D)
    BY <2>16, QuotientCompares
  <2>18. /\ Leq(n, e, t, v) <=> Leq(x, u, a, v)
         /\ Leq(t, v, n, e) <=> Leq(a, v, x, u)
    BY <2>6, <2>9, <2>12, <2>13, <2>14, <2>15, <2>17
  <2> QED
    BY <1>1, <1>2, <1>3, <2>18
<1> QED
  BY <1>6, <1>7, <1>8

\* What agrees with what agrees.
LEMMA AgreeChain ==
  ASSUME NEW S, NEW U, NEW D, NEW s, NEW u, NEW d, NEW a, NEW b, NEW c,
         Agree(S, U, D, s, u, d), Agree(s, u, d, a, b, c)
  PROVE  Agree(S, U, D, a, b, c)
BY Zenon DEF Agree

\* The quotient of two numbers of 11 bits, rounded to a float, agrees.
LEMMA QuotientRoundedAgrees ==
  ASSUME NEW x \in (2^10)..(2^11 - 1), NEW y \in (2^10)..(2^11 - 1),
         NEW q, NEW c, Divided(x, y, q, c),
         NEW n \in (2^27)..(2^29 - 1), n = WithRest(q, c), NEW e \in 0..200
  PROVE  /\ FloatOf(n, e) \in 0..(Inf - 1)
         /\ Agree(Sig(FloatOf(n, e)), Unit(FloatOf(n, e)), 1, x, e + 28, y)
<1>1. n \in (2^24)..(2^29 - 1) /\ n \in Nat /\ n >= 2^27
  OBVIOUS
<1>2. PICK k \in 1..5, r \in (2^23)..(2^24) :
        /\ Two(23 + k) <= n /\ n < Two(24 + k)
        /\ Rounds(n, Two(k - 1), r)
        /\ FloatOf(n, e) \in 0..(Inf - 1)
        /\ Agree(Sig(FloatOf(n, e)), Unit(FloatOf(n, e)), 1, r, e + k, 1)
  BY <1>1, RoundedFloat, Zenon
<1>3. k \in 4..5
  <2>1. k = 1 => Two(24 + k) = 2^25
    BY TwoTable
  <2>2. k = 2 => Two(24 + k) = 2^26
    BY TwoTable
  <2>3. k = 3 => Two(24 + k) = 2^27
    BY TwoTable
  <2> QED
    BY <1>1, <1>2, <2>1, <2>2, <2>3
<1>4. ASSUME NEW d \in 12..24, NEW t \in Nat, NEW v \in Int,
             IsMiddle(t, v) /\ v = e + k + d /\ r = t * Two(d)
      PROVE  n = r * Two(k)
  <2>1. PICK g \in 0..13 : g = d + k - 16
    BY <1>3
  <2>2. PICK f \in Nat \ {0} : f = Two(d)
    BY TwoNext
  <2>3. PICK p \in Nat \ {0} : p = Two(k)
    BY TwoNext
  <2>4. f * p = 2^16 * Two(g)
    <3>1. PICK a \in 0..31 : a = d + k
      OBVIOUS
    <3>2. d \in 0..31 /\ k \in 0..31 /\ 16 \in 0..31 /\ g \in 0..31
          /\ d + k = a /\ 16 + g = a
      BY <2>1, <3>1
    <3>3. Two(d) * Two(k) = Two(a)
      BY <3>2, TwoAdd
    <3>5. Two(16) * Two(g) = Two(a)
      BY <3>2, TwoAdd
    <3>4. Two(16) = 2^16
      BY DEF Two
    <3> QED
      BY <2>2, <2>3, <3>3, <3>4, <3>5
  <2>5. PICK b \in Nat : b = t * Two(g)
    <3>1. PICK o \in Nat : o = Two(g)
      BY TwoNext
    <3> QED
      BY <3>1
  <2>6. r * p = 2^16 * b
    <3>1. PICK o \in Nat : o = Two(g)
      BY TwoNext
    <3>2. (t * f) * p = t * (f * p) /\ t * (2^16 * o) = 2^16 * (t * o)
      OBVIOUS
    <3> QED
      BY <1>4, <2>2, <2>4, <2>5, <3>1, <3>2
  <2>7. r * p - 16 <= n /\ n <= r * p + 16
    <3>1. PICK h \in Nat \ {0} : h = Two(k - 1) /\ p = 2 * h /\ h <= 16
      BY <1>3, <2>3, TwoTable
    <3>2. (2 * r - 1) * h <= n /\ n <= (2 * r + 1) * h
      BY <1>2, <3>1 DEF Rounds
    <3>3. PICK l \in Int : l = h * r
      OBVIOUS
    <3>4. (2 * r - 1) * h = 2 * l - h /\ (2 * r + 1) * h = 2 * l + h /\ r * p = 2 * l
      BY <3>1, <3>3
    <3> QED
      BY <3>1, <3>2, <3>4
  <2>8. x \in Nat /\ y \in 1..(2^11 - 1)
    OBVIOUS
  <2>9. 2^16 * b - 16 <= WithRest(q, c) /\ WithRest(q, c) <= 2^16 * b + 16
    BY <2>6, <2>7
  <2>10. WithRest(q, c) = 2^16 * b
    BY <2>8, <2>9, QuotientMeets
  <2> QED
    BY <2>3, <2>6, <2>10
<1>5. Agree(r, e + k, 1, n, e, 1)
  <2>1. e \in Int
    OBVIOUS
  <2>2. \A d \in 12..24, t \in Nat, v \in Int :
          IsMiddle(t, v) /\ v = e + k + d /\ r = t * Two(d) => n = r * Two(k)
    BY <1>4, Zenon
  <2> QED
    BY <1>1, <1>2, <2>1, <2>2, AgreeRounded, Zenon
<1>6. Agree(n, e, 1, x, e + 28, y)
  <2>1. e \in Int
    OBVIOUS
  <2> QED
    BY <2>1, QuotientAgrees, Zenon
<1>7. Agree(Sig(FloatOf(n, e)), Unit(FloatOf(n, e)), 1, n, e, 1)
  BY <1>2, <1>5, AgreeChain, Zenon
<1>8. Agree(Sig(FloatOf(n, e)), Unit(FloatOf(n, e)), 1, x, e + 28, y)
  BY <1>6, <1>7, AgreeChain
<1> QED
  BY <1>2, <1>8, Zenon

\* The quotient of two halves, the divisor not zero.
LEMMA QuotientFloat ==
  ASSUME NEW m, NEW v, NEW x, NEW i, NEW X, Wide(m, v, x, i, X),
         NEW n, NEW w, NEW y, NEW j, NEW Y, Wide(n, w, y, j, Y)
  PROVE  /\ Over(v, w) \in 0..(Inf - 1)
         /\ Agree(Sig(Over(v, w)), Unit(Over(v, w)), 1,
                  HalfSig(m), HalfUnit(m) - HalfUnit(n) + 149, HalfSig(n))
<1>1. /\ x \in (2^10)..(2^11 - 1) /\ i \in 0..10 /\ X \in 115..154
      /\ x = HalfSig(m) * Two(i) /\ HalfUnit(m) = X + i /\ HalfSig(m) \in Nat
  BY DEF Wide, Shifted
<1>2. /\ y \in (2^10)..(2^11 - 1) /\ j \in 0..10 /\ Y \in 115..154
      /\ y = HalfSig(n) * Two(j) /\ HalfUnit(n) = Y + j /\ HalfSig(n) \in Nat
  BY DEF Wide, Shifted
<1>3. PICK q \in Nat, c \in Nat :
        /\ Divided(x, y, q, c)
        /\ WithRest(q, c) \in (2^27)..(2^29 - 1)
        /\ Short(v).sig = x /\ Short(w).sig = y =>
             Over(v, w) = FloatOf(WithRest(q, c),
                                  Short(v).unit - Short(w).unit + 149 - 28)
  <2>1. x \in (2^10)..(2^11 - 1) /\ y \in (2^10)..(2^11 - 1)
    BY <1>1, <1>2
  <2> QED
    BY <2>1, OverDivides
<1>4. PICK t \in (2^27)..(2^29 - 1) : t = WithRest(q, c)
  BY <1>3
<1>5. PICK e \in 0..200 : e = X - Y + 149 - 28
  BY <1>1, <1>2
<1>6. Over(v, w) = FloatOf(t, e)
  <2>1. Short(v).sig = x /\ Short(w).sig = y /\ Short(v).unit = X /\ Short(w).unit = Y
    BY ShortWide, Zenon
  <2> QED
    BY <1>3, <1>4, <1>5, <2>1, Zenon
<1>7. /\ FloatOf(t, e) \in 0..(Inf - 1)
      /\ Agree(Sig(FloatOf(t, e)), Unit(FloatOf(t, e)), 1, x, e + 28, y)
  BY <1>1, <1>2, <1>3, <1>4, QuotientRoundedAgrees
<1>8. PICK u \in Int : u = HalfUnit(m) - HalfUnit(n) + 149 /\ u + j = (e + 28) + i
  BY <1>1, <1>2, <1>5
<1>9. Agree(x, e + 28, y, HalfSig(m), u, HalfSig(n))
  <2>1. x \in 0..(2^11 - 1) /\ y \in 0..(2^11 - 1) /\ e + 28 \in Int
    BY <1>1, <1>2
  <2> QED
    BY <1>1, <1>2, <1>8, <2>1, AgreeScaled
<1> QED
  BY <1>6, <1>7, <1>8, <1>9, AgreeChain

\* A zero is divided.
LEMMA ZeroDivided ==
  ASSUME NEW v, NEW w, NEW d \in Nat \ {0}, Short(v).sig = 0, Short(w).sig = d
  PROVE  Over(v, w) = 0
<1>1. 0 \div d = 0 /\ 0 % d = 0
  OBVIOUS
<1>2. 0 * 2^18 = 0 /\ 0 * 2^9 = 0 /\ 2 * (0 * 2^9 + 0) + 0 = 0
  OBVIOUS
<1>3. \A u : Over(v, w) = FloatOf(0, Short(v).unit - Short(w).unit + 149 - 28)
  BY <1>1, <1>2 DEF Over
<1> QED
  BY <1>3 DEF FloatOf

\* A quotient is rounded as if once.
LEMMA QuotientRounds ==
  ASSUME NEW a \in FiniteHalf, NEW b \in FiniteHalf, Magnitude(b) # 0
  PROVE  /\ Negative(Divide(a, b)) = (Negative(a) # Negative(b))
         /\ Nearest(HalfSig(Magnitude(a)),
                    HalfUnit(Magnitude(a)) - HalfUnit(Magnitude(b)) + 149,
                    HalfSig(Magnitude(b)), Magnitude(Divide(a, b)))
<1>1. PICK neg \in BOOLEAN : neg = (Negative(a) # Negative(b))
  BY Zenon
<1>2. PICK w : w = Over(ToFloat(a).bits, ToFloat(b).bits)
  BY Zenon
<1>3. Divide(a, b) = ToHalf(Float(neg, w))
  BY <1>1, <1>2, Zenon DEF Divide
<1>4. PICK s : s = HalfSig(Magnitude(a))
  BY Zenon
<1>5. PICK u : u = HalfUnit(Magnitude(a)) - HalfUnit(Magnitude(b)) + 149
  BY Zenon
<1>6. PICK d : d = HalfSig(Magnitude(b))
  BY Zenon
<1>7. PICK y \in Nat, j \in Nat, Y \in Int :
        Wide(Magnitude(b), ToFloat(b).bits, y, j, Y)
  BY OperandParts, Zenon
<1>8. w \in 0..(Inf - 1) /\ Agree(Sig(w), Unit(w), 1, s, u, d)
  <2>1. CASE Magnitude(a) = 0
    <3>1. s = 0
      BY <1>4, <2>1, WideZero
    <3>2. u \in Int
      <4>1. \A h \in FiniteHalf : HalfUnit(Magnitude(h)) \in Int
        BY HalfParts
      <4>2. HalfUnit(Magnitude(a)) \in Int /\ HalfUnit(Magnitude(b)) \in Int
        BY <4>1, Zenon
      <4> QED
        BY <1>5, <4>2
    <3>3. d \in Nat \ {0} /\ y \in Nat \ {0}
      <4>1. HalfSig(Magnitude(b)) \in Nat \ {0} /\ y \in Nat \ {0}
        BY <1>7 DEF Wide, Shifted
      <4> QED
        BY <1>6, <4>1, Zenon
    <3>4. Short(ToFloat(a).bits).sig = 0
      BY <2>1, ShortHalf, Zenon
    <3>5. Short(ToFloat(b).bits).sig = y
      BY <1>7, ShortWide, Zenon
    <3>6. w = 0
      BY <1>2, <3>3, <3>4, <3>5, ZeroDivided, Zenon
    <3>7. Sig(w) = 0 /\ Unit(w) = 0 /\ w \in 0..(Inf - 1) /\ 0 \in Int
      BY <3>6, WideZero
    <3> QED
      BY <3>1, <3>2, <3>3, <3>7, AgreeZero
  <2>2. CASE Magnitude(a) # 0
    <3>1. PICK x \in Nat, i \in Nat, X \in Int :
            Wide(Magnitude(a), ToFloat(a).bits, x, i, X)
      BY <2>2, OperandParts, Zenon
    <3> QED
      BY <1>2, <1>4, <1>5, <1>6, <1>7, <3>1, QuotientFloat, Zenon
  <2> QED
    BY <2>1, <2>2
<1>9. /\ Negative(ToHalf(Float(neg, w))) = neg
      /\ Nearest(s, u, d, Magnitude(ToHalf(Float(neg, w))))
  BY <1>8, ResultIsNearest, Zenon
<1> QED
  BY <1>1, <1>3, <1>4, <1>5, <1>6, <1>9, Zenon

-----------------------------------------------------------------------------
(* Sums.                                                                    *)

\* Nothing is lost of a multiple.
LEMMA StickyExact ==
  ASSUME NEW s \in Nat, NEW d \in 0..29, NEW t, t = s * Two(d)
  PROVE  Sticky(t, d) = 2 * s
<1>1. PICK p \in Nat \ {0} : p = Two(d)
  BY TwoNext
<1>2. t = p * s + 0 /\ t \in Int
  BY <1>1
<1>3. t \div p = s /\ t % p = 0
  <2>1. Quotient(t, p, s, 0)
    BY <1>2 DEF Quotient
  <2>2. s \in Int /\ 0 \in 0..(p - 1)
    OBVIOUS
  <2> QED
    BY <1>2, <2>1, <2>2, QuotientIs
<1> QED
  BY <1>1, <1>3 DEF Sticky, Two

\* What is lost of s * 2^k below 2^(g + k) is what is lost of s below 2^g.
LEMMA StickyScaled ==
  ASSUME NEW s \in Nat, NEW k \in 0..26, NEW g \in 0..29, NEW t, t = s * Two(k),
         t < 2^30
  PROVE  Sticky(t, g + k) = Sticky(s, g)
<1>1. PICK p \in Nat \ {0} : p = Two(k)
  BY TwoNext
<1>2. PICK b \in Nat \ {0} : b = Two(g)
  BY TwoNext
<1>0. s = b * (s \div b) + (s % b) /\ s \div b \in Nat /\ s % b \in 0..(b - 1)
  OBVIOUS
<1>3. PICK q \in Nat : q = s \div b
  BY <1>0
<1>4. PICK r \in 0..(b - 1) : r = s % b /\ s = b * q + r
  BY <1>0, <1>3
<1>5. Sticky(s, g) = 2 * q + (IF r = 0 THEN 0 ELSE 1)
  BY <1>2, <1>3, <1>4 DEF Sticky, Two
<1>6. PICK d \in 0..55 : d = g + k
  OBVIOUS
<1>7. t \in Nat /\ t = s * p
  BY <1>1
<1>8. CASE d <= 29
  <2>1. PICK c \in Nat \ {0} : c = Two(d)
    BY <1>8, TwoNext
  <2>2. c = b * p
    <3>1. g \in 0..31 /\ k \in 0..31 /\ d \in 0..31 /\ g + k = d
      BY <1>6, <1>8
    <3> QED
      BY <1>1, <1>2, <2>1, <3>1, TwoAdd
  <2>3. PICK f \in Nat : f = r * p
    OBVIOUS
  <2>4. t = c * q + f
    <3>1. (b * q + r) * p = (b * p) * q + r * p
      OBVIOUS
    <3> QED
      BY <1>4, <1>7, <2>2, <2>3, <3>1
  <2>5. f \in 0..(c - 1) /\ (f = 0 <=> r = 0)
    <3>1. r * p <= (b - 1) * p
      OBVIOUS
    <3>2. (b - 1) * p = b * p - p
      OBVIOUS
    <3>3. r >= 1 => r * p >= p
      OBVIOUS
    <3> QED
      BY <2>2, <2>3, <3>1, <3>2, <3>3
  <2>6. t \div c = q /\ t % c = f
    <3>1. Quotient(t, c, q, f)
      BY <2>4 DEF Quotient
    <3>2. q \in Int /\ t \in Int
      BY <1>7
    <3> QED
      BY <2>5, <3>1, <3>2, QuotientIs
  <2>7. Sticky(t, d) = 2 * q + (IF f = 0 THEN 0 ELSE 1)
    BY <1>8, <2>1, <2>6 DEF Sticky, Two
  <2> QED
    BY <1>5, <1>6, <2>5, <2>7
<1>9. CASE d > 29
  <2>1. s < b
    <3>1. PICK a \in 0..29 : a = 30 - k /\ a <= g
      BY <1>6, <1>9
    <3>2. a \in 0..31 /\ k \in 0..31 /\ 30 \in 0..31 /\ a + k = 30 /\ g \in 0..31
      BY <3>1
    <3>3. Two(a) * Two(k) = Two(30)
      BY <3>2, TwoAdd
    <3>4. Two(a) <= b
      BY <1>2, <3>1, <3>2, TwoMonotone
    <3>5. PICK e \in Nat : e = Two(a)
      BY TwoNext
    <3>6. e * p <= b * p
      BY <3>4, <3>5
    <3>7. e * p = 2^30
      BY <1>1, <3>3, <3>5 DEF Two
    <3>8. s >= b => s * p >= b * p
      OBVIOUS
    <3> QED
      BY <1>7, <3>6, <3>7, <3>8
  <2>2. q = 0 /\ r = s
    <3>1. q >= 1 => b * q >= b
      OBVIOUS
    <3>2. b * 0 = 0
      OBVIOUS
    <3> QED
      BY <1>4, <2>1, <3>1, <3>2
  <2>3. t = 0 <=> s = 0
    <3>1. s >= 1 => s * p >= p
      OBVIOUS
    <3> QED
      BY <1>7, <3>1
  <2>4. Sticky(t, d) = MinOf(t, 1)
    BY <1>9 DEF Sticky
  <2> QED
    BY <1>5, <1>6, <1>7, <2>2, <2>3, <2>4 DEF MinOf
<1> QED
  BY <1>6, <1>8, <1>9

\* Little is left of a number that is shifted far.
LEMMA StickyBelow ==
  ASSUME NEW s \in 0..(2^27 - 1), NEW d \in 14..60
  PROVE  Sticky(s, d) \in 0..(2^14 - 1)
<1>1. CASE d > 29
  BY <1>1 DEF Sticky, MinOf
<1>2. CASE d <= 29
  <2>1. PICK p \in Nat \ {0} : p = Two(d) /\ p >= 2^14
    BY <1>2, TwoTable
  <2>2. s = p * (s \div p) + (s % p) /\ s \div p \in Nat /\ s % p \in Nat
    OBVIOUS
  <2>3. PICK q \in Nat : q = s \div p
    BY <2>2
  <2>4. q < 2^13
    <3>1. q >= 2^13 => p * q >= p * 2^13
      OBVIOUS
    <3>2. PICK x \in Nat : x = p * q
      OBVIOUS
    <3>3. x <= s
      BY <2>2, <2>3, <3>2
    <3> QED
      BY <2>1, <3>1, <3>2, <3>3
  <2>5. Sticky(s, d) = 2 * q + (IF s % p = 0 THEN 0 ELSE 1)
    BY <1>2, <2>1, <2>3 DEF Sticky, Two
  <2> QED
    BY <2>4, <2>5
<1> QED
  BY <1>1, <1>2

\* A multiple is rounded to itself.
LEMMA RoundsMultiple ==
  ASSUME NEW n \in Nat, NEW k \in 1..5, NEW b \in Nat, n = b * Two(k), NEW r \in Nat,
         Rounds(n, Two(k - 1), r)
  PROVE  n = r * Two(k)
<1>1. PICK h \in Nat \ {0} : h = Two(k - 1) /\ Two(k) = 2 * h
  <2>1. PICK j \in 0..30 : j = k - 1 /\ j + 1 = k
    OBVIOUS
  <2> QED
    BY <2>1, TwoNext
<1>2. (2 * r - 1) * h <= n /\ n <= (2 * r + 1) * h
  BY <1>1 DEF Rounds
<1>3. PICK z \in Int : z = b - r
  OBVIOUS
<1>4. PICK x \in Int : x = h * z
  BY Multiples
<1>5. PICK y \in Int : y = h * r
  BY Multiples
<1>6. (2 * r - 1) * h = 2 * y - h /\ (2 * r + 1) * h = 2 * y + h
  BY <1>5
<1>7. n = 2 * y + 2 * x
  <2>1. b * (2 * h) = 2 * (h * r) + 2 * (h * (b - r))
    OBVIOUS
  <2> QED
    BY <1>1, <1>3, <1>4, <1>5, <2>1
<1>8. (z >= 1 => x >= h) /\ (z <= -1 => x <= -h)
  BY <1>4, Multiples
<1>9. z = 0
  BY <1>2, <1>6, <1>7, <1>8
<1>10. b = r
  BY <1>3, <1>9
<1> QED
  BY <1>10

\* Whenever a number is rounded to a middle it is the middle.
MeetsItself(n, e) ==
  \A k \in 1..5, r \in (2^23)..(2^24), d \in 12..24, t \in Nat, v \in Int :
    /\ Two(23 + k) <= n /\ n < Two(24 + k) /\ Rounds(n, Two(k - 1), r)
    /\ IsMiddle(t, v) /\ v = e + k + d /\ r = t * Two(d)
    => n = r * Two(k)

\* The float nearest to a number agrees with it, unless it meets a middle.
LEMMA FloatAgrees ==
  ASSUME NEW n \in 0..(2^29 - 1), NEW e \in 23..200, MeetsItself(n, e)
  PROVE  /\ FloatOf(n, e) \in 0..(Inf - 1)
         /\ Agree(Sig(FloatOf(n, e)), Unit(FloatOf(n, e)), 1, n, e, 1)
<1>0. n \in Nat /\ e \in Int
  OBVIOUS
<1>1. CASE n = 0
  <2>1. FloatOf(n, e) = 0
    BY <1>1 DEF FloatOf
  <2>2. Sig(FloatOf(n, e)) = 0 /\ Unit(FloatOf(n, e)) = 0 /\ FloatOf(n, e) \in 0..(Inf - 1)
    BY <2>1, WideZero
  <2>3. 0 \in Int /\ 1 \in Nat \ {0}
    OBVIOUS
  <2> QED
    BY <1>0, <1>1, <2>2, <2>3, AgreeZero
<1>2. CASE n \in 1..(2^24 - 1)
  <2>1. n \in Nat \ {0} /\ 0 \in 0..23 /\ n = n * Two(0) /\ e - 0 = e /\ e - 0 \in 23..253
    BY <1>2, TwoValues
  <2>2. /\ FloatOf(n, e - 0) \in 0..(Inf - 1)
        /\ Agree(Sig(FloatOf(n, e - 0)), Unit(FloatOf(n, e - 0)), 1, n, e, 1)
    BY <1>0, <1>2, <2>1, ShortAgrees
  <2> QED
    BY <2>1, <2>2
<1>3. CASE n \in (2^24)..(2^29 - 1)
  <2>1. e \in 0..200
    OBVIOUS
  <2>2. PICK k \in 1..5, r \in (2^23)..(2^24) :
          /\ Two(23 + k) <= n /\ n < Two(24 + k)
          /\ Rounds(n, Two(k - 1), r)
          /\ FloatOf(n, e) \in 0..(Inf - 1)
          /\ Agree(Sig(FloatOf(n, e)), Unit(FloatOf(n, e)), 1, r, e + k, 1)
    BY <1>3, <2>1, RoundedFloat, Zenon
  <2>3. \A d \in 12..24, t \in Nat, v \in Int :
          IsMiddle(t, v) /\ v = e + k + d /\ r = t * Two(d) => n = r * Two(k)
    BY <2>2, Zenon DEF MeetsItself
  <2>4. Agree(r, e + k, 1, n, e, 1)
    BY <1>0, <2>2, <2>3, AgreeRounded, Zenon
  <2> QED
    BY <2>2, <2>4, AgreeChain
<1> QED
  BY <1>1, <1>2, <1>3

\* y is what is added to or taken from z * 2^17.
Added(n, z, y) == n = z * 2^17 + y \/ n = z * 2^17 - y

\* Close to each other, the sum is a multiple of what is rounded away.
LEMMA NearSumMeets ==
  ASSUME NEW z \in (2^10)..(2^11 - 1), NEW q \in 0..(2^11 - 1), NEW d \in 0..13,
         d = 0 => q <= z, NEW y, y = Sticky(q * 2^16, d), NEW n \in Int,
         Added(n, z, y), NEW e \in Int
  PROVE  n \in 0..(2^29 - 1) /\ MeetsItself(n, e)
<1>1. PICK g \in 3..16 : g = 16 - d
  OBVIOUS
<1>2. PICK p \in Nat \ {0} : p = Two(g) /\ p <= 2^16 /\ (d >= 1 => p <= 2^15)
                             /\ (d = 13 => p = 8)
  BY <1>1, TwoTable
<1>3. PICK x \in Nat : x = q * p
  OBVIOUS
<1>4. y = 2 * x
  <2>1. q * 2^16 = x * Two(d)
    <3>1. PICK o \in Nat : o = Two(d)
      BY TwoNext
    <3>2. g \in 0..31 /\ d \in 0..31 /\ 16 \in 0..31 /\ g + d = 16
      BY <1>1
    <3>3. Two(g) * Two(d) = Two(16)
      BY <3>2, TwoAdd
    <3>4. p * o = 2^16
      BY <1>2, <3>1, <3>3 DEF Two
    <3>5. (q * p) * o = q * (p * o)
      OBVIOUS
    <3> QED
      BY <1>3, <3>1, <3>4, <3>5
  <2>2. d \in 0..29
    OBVIOUS
  <2> QED
    BY <2>1, <2>2, StickyExact
<1>5. x <= q * 2^16 /\ (d >= 1 => x <= q * 2^15) /\ (d = 13 => x = q * 8)
  <2>1. p <= 2^16 => q * p <= q * 2^16
    OBVIOUS
  <2>2. p <= 2^15 => q * p <= q * 2^15
    OBVIOUS
  <2> QED
    BY <1>2, <1>3, <2>1, <2>2
<1>6. n \in 0..(2^29 - 1) /\ (d = 13 => n < 2^28)
  <2>1. n = z * 2^17 + 2 * x \/ n = z * 2^17 - 2 * x
    BY <1>4 DEF Added
  <2>2. 2 * x <= z * 2^17
    BY <1>5
  <2> QED
    BY <1>5, <2>1, <2>2
<1>7. ASSUME NEW k \in 1..5, NEW r \in (2^23)..(2^24),
             Two(23 + k) <= n, Rounds(n, Two(k - 1), r)
      PROVE  n = r * Two(k)
  <2>1. k <= g + 1
    <3>1. CASE k <= 4
      BY <3>1
    <3>2. CASE k = 5
      <4>1. Two(23 + k) = 2^28
        BY <3>2, TwoTable
      <4>2. d # 13
        BY <1>6, <1>7, <4>1
      <4> QED
        BY <1>1, <3>2, <4>2
    <3> QED
      BY <3>1, <3>2
  <2>2. PICK c \in 0..16 : c = g + 1 - k
    BY <2>1
  <2>3. PICK f \in 12..16 : f = 17 - k
    OBVIOUS
  <2>4. PICK m \in Nat \ {0} : m = Two(k)
    BY TwoNext
  <2>5. PICK i \in Nat : i = Two(c) /\ i * m = 2 * p
    <3>1. PICK i \in Nat : i = Two(c)
      BY TwoNext
    <3>2. g \in 0..30 /\ g + 1 \in 0..31 /\ c \in 0..31 /\ k \in 0..31 /\ c + k = g + 1
      BY <2>2
    <3>3. Two(c) * Two(k) = Two(g + 1)
      BY <3>2, TwoAdd, Zenon
    <3>4. Two(g + 1) = 2 * Two(g)
      BY <3>2, TwoNext, Zenon
    <3> QED
      BY <1>2, <2>4, <3>1, <3>3, <3>4
  <2>6. PICK j \in Nat : j = Two(f) /\ j * m = 2^17
    <3>1. PICK j \in Nat : j = Two(f)
      BY TwoNext
    <3>2. f \in 0..31 /\ k \in 0..31 /\ 17 \in 0..31 /\ f + k = 17
      BY <2>3
    <3>3. Two(f) * Two(k) = Two(17)
      BY <3>2, TwoAdd
    <3> QED
      BY <2>4, <3>1, <3>3 DEF Two
  <2>7. 2 * x = (q * i) * m
    <3>1. (q * i) * m = q * (i * m) /\ q * (2 * p) = 2 * (q * p)
      OBVIOUS
    <3> QED
      BY <1>3, <2>5, <3>1
  <2>8. z * 2^17 = (z * j) * m
    <3>1. (z * j) * m = z * (j * m)
      OBVIOUS
    <3> QED
      BY <2>6, <3>1
  <2>9. PICK b \in Int : n = b * m
    <3>1. n = z * 2^17 + 2 * x \/ n = z * 2^17 - 2 * x
      BY <1>4 DEF Added
    <3>2. PICK a \in Int, l \in Int : a = z * j /\ l = q * i
      OBVIOUS
    <3>3. a * m + l * m = (a + l) * m /\ a * m - l * m = (a - l) * m
      OBVIOUS
    <3>4. n = (a + l) * m \/ n = (a - l) * m
      BY <2>7, <2>8, <3>1, <3>2, <3>3
    <3>5. a + l \in Int /\ a - l \in Int
      OBVIOUS
    <3> QED
      BY <3>4, <3>5, Zenon
  <2>10. b \in Nat
    <3>1. b <= -1 => m * b <= -m
      BY Multiples
    <3>2. b * m = m * b
      OBVIOUS
    <3> QED
      BY <1>6, <2>9, <3>1, <3>2
  <2>11. n \in Nat /\ r \in Nat
    BY <1>6
  <2> QED
    BY <1>7, <2>4, <2>9, <2>10, <2>11, RoundsMultiple
<1> QED
  BY <1>6, <1>7, Zenon DEF MeetsItself

\* Far from each other, the sum is close to a half, and away from middles.
LEMMA FarSumMeets ==
  ASSUME NEW z \in (2^10)..(2^11 - 1), NEW U \in 129..154,
         NEW y \in 0..(2^14 - 1), NEW n \in Int, Added(n, z, y)
  PROVE  n \in 0..(2^29 - 1) /\ MeetsItself(n, U - 17)
<1>1. n >= z * 2^17 - y /\ n <= z * 2^17 + y
  BY DEF Added
<1>2. n \in 0..(2^29 - 1) /\ n >= 2^26
  BY <1>1
<1>3. ASSUME NEW k \in 1..5, NEW r \in (2^23)..(2^24), NEW d \in 12..24,
             NEW t \in Nat, NEW v \in Int,
             n < Two(24 + k), Rounds(n, Two(k - 1), r),
             IsMiddle(t, v), v = (U - 17) + k + d, r = t * Two(d)
      PROVE  FALSE
  <2>1. k >= 3
    <3>1. k = 1 => Two(24 + k) = 2^25
      BY TwoTable
    <3>2. k = 2 => Two(24 + k) = 2^26
      BY TwoTable
    <3> QED
      BY <1>2, <1>3, <3>1, <3>2
  <2>2. PICK g \in 15..29 : g = d + k
    BY <2>1
  <2>3. PICK p \in Nat \ {0} : p = Two(k)
    BY TwoNext
  <2>4. PICK f \in Nat \ {0} : f = Two(d)
    BY TwoNext
  <2>5. PICK o \in Nat \ {0} : o = Two(g)
    BY TwoNext
  <2>6. f * p = o
    <3>1. d \in 0..31 /\ k \in 0..31 /\ g \in 0..31 /\ d + k = g
      BY <2>2
    <3> QED
      BY <2>3, <2>4, <2>5, <3>1, TwoAdd
  <2>7. r * p = t * o
    <3>1. (t * f) * p = t * (f * p)
      OBVIOUS
    <3> QED
      BY <1>3, <2>4, <2>6, <3>1
  <2>8. r * p - 16 <= n /\ n <= r * p + 16
    <3>1. PICK h \in Nat \ {0} : h = Two(k - 1) /\ p = 2 * h /\ h <= 16
      BY <2>3, TwoTable
    <3>2. (2 * r - 1) * h <= n /\ n <= (2 * r + 1) * h
      BY <1>3, <3>1 DEF Rounds
    <3>3. PICK l \in Int : l = h * r
      OBVIOUS
    <3>4. (2 * r - 1) * h = 2 * l - h /\ (2 * r + 1) * h = 2 * l + h /\ r * p = 2 * l
      BY <3>1, <3>3
    <3> QED
      BY <3>1, <3>2, <3>4
  <2>9. PICK c \in 0..14 : c = g - 15
    OBVIOUS
  <2>10. PICK i \in Nat \ {0} : i = Two(c) /\ o = 2^15 * i
    <3>1. PICK i \in Nat \ {0} : i = Two(c)
      BY TwoNext
    <3>2. 15 \in 0..31 /\ c \in 0..31 /\ g \in 0..31 /\ 15 + c = g
      BY <2>9
    <3>3. Two(15) * Two(c) = Two(g)
      BY <3>2, TwoAdd
    <3>4. Two(15) = 2^15
      BY DEF Two
    <3> QED
      BY <2>5, <3>1, <3>3, <3>4
  <2>11. PICK b \in Nat : b = t * i
    OBVIOUS
  <2>12. t * o = 2^15 * b
    <3>1. t * (2^15 * i) = 2^15 * (t * i)
      OBVIOUS
    <3> QED
      BY <2>10, <2>11, <3>1
  <2>13. b = 4 * z
    BY <1>1, <2>7, <2>8, <2>12
  <2>14. t % 2 = 1 /\ t >= 1
    BY <1>3 DEF IsMiddle
  <2>15. c >= 2
    <3>1. c = 0 => i = 1
      BY <2>10, TwoValues
    <3>2. c = 1 => i = 2
      BY <2>10, TwoValues
    <3>3. i = 1 => t = 4 * z
      BY <2>11, <2>13
    <3>4. i = 2 => t = 2 * z
      BY <2>11, <2>13
    <3> QED
      BY <2>14, <3>1, <3>2, <3>3, <3>4
  <2>16. i >= 4
    BY <2>10, <2>15, TwoTable
  <2>17. t * i >= t * 4
    BY <2>16
  <2>18. t <= z
    BY <2>11, <2>13, <2>17
  <2>19. v > 124
    BY <1>3, <2>2, <2>9, <2>15
  <2> QED
    BY <1>3, <2>18, <2>19 DEF IsMiddle
<1> QED
  BY <1>2, <1>3, Zenon DEF MeetsItself

\* What is added of a half in ExactSum, in units of low - 1.
Moved(m, low) ==
  IF HalfUnit(m) >= low THEN 2 * HalfSig(m) * 2^(HalfUnit(m) - low)
  ELSE Sticky(HalfSig(m), low - HalfUnit(m))

\* low is 16 below the unit of m.
Below(m, low) == low \in Int /\ HalfUnit(m) = low + 16

\* A half that is moved to the left.
LEMMA MovedLeft ==
  ASSUME NEW m, NEW low \in Int, NEW k \in 0..31, HalfUnit(m) = low + k,
         HalfSig(m) \in Nat
  PROVE  Moved(m, low) = 2 * (HalfSig(m) * Two(k)) /\ Moved(m, low) \in Nat
<1>1. HalfUnit(m) >= low /\ HalfUnit(m) - low = k
  OBVIOUS
<1>2. PICK p \in Nat : p = Two(k)
  BY TwoTable
<1>3. PICK s \in Nat : s = HalfSig(m)
  BY Zenon
<1>4. Moved(m, low) = 2 * s * p
  BY <1>1, <1>2, <1>3 DEF Moved, Two
<1>5. 2 * s * p = 2 * (s * p) /\ 2 * (s * p) \in Nat
  OBVIOUS
<1> QED
  BY <1>2, <1>3, <1>4, <1>5

\* The greater of two floats has all its bits in the sum, as in ExactSum,
\* scaled by 2^j where the half is subnormal.
LEMMA BigPart ==
  ASSUME NEW m, NEW v, NEW z, NEW j, NEW U, Wide(m, v, z, j, U),
         NEW low, Below(m, low)
  PROVE  /\ Moved(m, low) \in Nat /\ z * 2^17 = Moved(m, low) * Two(j)
         /\ U - 17 = (low - 1) - j
<1>1. /\ z \in (2^10)..(2^11 - 1) /\ j \in 0..10 /\ U \in 115..154
      /\ z = HalfSig(m) * Two(j) /\ HalfUnit(m) = U + j /\ HalfSig(m) \in Nat
  <2>1. Shifted(m, z, j, U)
    BY DEF Wide
  <2> QED
    BY <2>1 DEF Shifted
<1>0. low \in Int /\ HalfUnit(m) = low + 16
  BY DEF Below
<1>2. PICK s \in Nat : s = HalfSig(m)
  BY <1>1, Zenon
<1>3. PICK f \in Nat \ {0} : f = Two(j)
  BY <1>1, TwoNext
<1>4. Moved(m, low) = 2 * (s * 2^16) /\ Moved(m, low) \in Nat
  <2>1. 16 \in 0..31 /\ Two(16) = 2^16
    BY DEF Two
  <2> QED
    BY <1>0, <1>1, <1>2, <2>1, MovedLeft
<1>5. z * 2^17 = Moved(m, low) * Two(j)
  <2>1. z = s * f
    BY <1>1, <1>2, <1>3
  <2>2. (s * f) * 2^17 = (2 * (s * 2^16)) * f
    OBVIOUS
  <2> QED
    BY <1>3, <1>4, <2>1, <2>2
<1> QED
  BY <1>0, <1>1, <1>4, <1>5

\* What is added of the smaller float is scaled alike.
LEMMA SumParts ==
  ASSUME NEW m, NEW v, NEW z, NEW j, NEW U, Wide(m, v, z, j, U),
         NEW n, NEW w, NEW q, NEW i, NEW V, Wide(n, w, q, i, V),
         HalfUnit(m) >= HalfUnit(0), HalfUnit(n) >= HalfUnit(0), V <= U,
         NEW low, Below(m, low)
  PROVE  /\ Moved(n, low) \in Nat
         /\ Sticky(q * 2^16, U - V) = Moved(n, low) * Two(j)
<1>1. /\ z \in (2^10)..(2^11 - 1) /\ j \in 0..10 /\ U \in 115..154
      /\ z = HalfSig(m) * Two(j) /\ HalfUnit(m) = U + j
      /\ HalfSig(m) \in Nat /\ (j > 0 => U + j = 125)
  <2>1. Shifted(m, z, j, U)
    BY DEF Wide
  <2> QED
    BY <2>1 DEF Shifted
<1>2. /\ q \in (2^10)..(2^11 - 1) /\ i \in 0..10 /\ V \in 115..154
      /\ q = HalfSig(n) * Two(i) /\ HalfUnit(n) = V + i
      /\ HalfSig(n) \in Nat /\ (i > 0 => V + i = 125)
  <2>1. Shifted(n, q, i, V)
    BY DEF Wide
  <2> QED
    BY <2>1 DEF Shifted
<1>0. low \in Int /\ HalfUnit(m) = low + 16
  BY DEF Below
<1>3. HalfUnit(m) >= HalfUnit(n)
  BY <1>1, <1>2, WideZero
<1>4. low \in Int /\ low = U + j - 16
  BY <1>0, <1>1
<1>6. PICK t \in Nat : t = HalfSig(n)
  BY <1>2, Zenon
<1>7. PICK f \in Nat \ {0} : f = Two(j)
  BY <1>1, TwoNext
<1>8. PICK g \in Nat \ {0} : g = Two(i)
  BY <1>2, TwoNext
<1>11. PICK k \in 0..39 : k = U - V
  BY <1>1, <1>2
<1>12. q = t * g
  BY <1>2, <1>6, <1>8
<1>13. PICK x \in Nat : x = q * 2^16 /\ x < 2^30
  BY <1>2
<1>14. CASE U + j - (V + i) <= 16
  <2>1. PICK l \in 0..16 : l = 16 - (U + j - (V + i)) /\ HalfUnit(n) = low + l
    BY <1>1, <1>2, <1>3, <1>4, <1>14
  <2>2. PICK p \in Nat \ {0} : p = Two(l)
    BY TwoNext
  <2>3. Moved(n, low) = 2 * (t * p) /\ Moved(n, low) \in Nat
    <3>1. l \in 0..31
      OBVIOUS
    <3> QED
      BY <1>0, <1>2, <1>6, <2>1, <2>2, <3>1, MovedLeft
  <2>4. k <= 26 /\ l + j + k = 16 + i
    BY <1>1, <1>2, <1>11, <1>14, <2>1
  <2>5. PICK o \in Nat \ {0} : o = Two(k)
    BY <2>4, TwoNext
  <2>6. (p * f) * o = 2^16 * g
    <3>1. PICK a \in 0..26 : a = l + j /\ a + k = 16 + i
      BY <1>1, <2>4
    <3>2. PICK c \in 0..26 : c = 16 + i /\ a + k = c
      BY <1>2, <3>1
    <3>3. l \in 0..31 /\ j \in 0..31 /\ a \in 0..31 /\ k \in 0..31 /\ c \in 0..31
          /\ 16 \in 0..31 /\ i \in 0..31 /\ l + j = a /\ 16 + i = c
      BY <1>1, <1>2, <2>4, <3>1, <3>2
    <3>4. Two(l) * Two(j) = Two(a)
      BY <3>3, TwoAdd, Zenon
    <3>5. Two(a) * Two(k) = Two(c)
      BY <3>2, <3>3, TwoAdd, Zenon
    <3>6. Two(16) * Two(i) = Two(c)
      BY <3>3, TwoAdd, Zenon
    <3>7. Two(16) = 2^16
      BY DEF Two
    <3> QED
      BY <1>7, <1>8, <2>2, <2>5, <3>4, <3>5, <3>6, <3>7
  <2>7. PICK b \in Nat : b = (t * p) * f
    OBVIOUS
  <2>8. x = b * o
    <3>1. ((t * p) * f) * o = t * ((p * f) * o)
      OBVIOUS
    <3>2. (t * g) * 2^16 = t * (2^16 * g)
      OBVIOUS
    <3> QED
      BY <1>12, <1>13, <2>6, <2>7, <3>1, <3>2
  <2>9. Sticky(x, k) = 2 * b
    <3>1. k \in 0..29 /\ x = b * Two(k)
      BY <2>4, <2>5, <2>8
    <3> QED
      BY <3>1, StickyExact, Zenon
  <2>10. (2 * (t * p)) * f = 2 * ((t * p) * f)
    OBVIOUS
  <2>11. Sticky(x, k) = Moved(n, low) * Two(j)
    BY <1>7, <2>3, <2>7, <2>9, <2>10
  <2> QED
    BY <1>11, <1>13, <2>3, <2>11, Zenon
<1>15. CASE U + j - (V + i) > 16
  <2>1. j = 0
    BY <1>1, <1>2, <1>15
  <2>2. f = 1
    BY <1>7, <2>1, TwoValues
  <2>3. PICK l \in 1..29 : l = low - HalfUnit(n)
    BY <1>1, <1>2, <1>4, <1>15, <2>1
  <2>4. Moved(n, low) = Sticky(t, l)
    BY <1>0, <1>2, <1>6, <2>3 DEF Moved
  <2>5. PICK c \in 16..26 : c = 16 + i /\ l + c = k
    BY <1>1, <1>2, <1>4, <1>11, <2>1, <2>3
  <2>6. x = t * Two(c)
    <3>1. i \in 0..31 /\ 16 \in 0..31 /\ c \in 0..31 /\ 16 + i = c
      BY <1>2, <2>5
    <3>2. Two(16) * Two(i) = Two(c)
      BY <3>1, TwoAdd, Zenon
    <3>3. Two(16) = 2^16
      BY DEF Two
    <3>4. (t * g) * 2^16 = t * (2^16 * g)
      OBVIOUS
    <3> QED
      BY <1>8, <1>12, <1>13, <3>2, <3>3, <3>4
  <2>7. Sticky(x, l + c) = Sticky(t, l)
    <3>1. c \in 0..26 /\ l \in 0..29
      OBVIOUS
    <3> QED
      BY <1>13, <2>6, <3>1, StickyScaled
  <2>8. Sticky(t, l) \in Nat
    <3>1. PICK p \in Nat \ {0} : p = Two(l)
      BY TwoNext
    <3>2. t \div p \in Nat
      OBVIOUS
    <3> QED
      BY <3>1, <3>2 DEF Sticky, Two
  <2>9. Sticky(x, k) = Moved(n, low) * Two(j)
    BY <1>7, <2>2, <2>4, <2>5, <2>7, <2>8
  <2> QED
    BY <1>11, <1>13, <2>4, <2>8, <2>9
<1> QED
  BY <1>1, <1>2, <1>14, <1>15

\* Floats are ordered as their bits.
LEMMA WideOrder ==
  ASSUME NEW m, NEW v, NEW z, NEW j, NEW U, Wide(m, v, z, j, U),
         NEW n, NEW w, NEW q, NEW i, NEW V, Wide(n, w, q, i, V), w <= v
  PROVE  V <= U /\ (V = U => q <= z) /\ (v = w => V = U /\ q = z)
<1>1. z \in (2^10)..(2^11 - 1) /\ U \in 115..154 /\ v = (U - 13) * 2^23 + z * 2^13
  BY DEF Wide, Shifted
<1>2. q \in (2^10)..(2^11 - 1) /\ V \in 115..154 /\ w = (V - 13) * 2^23 + q * 2^13
  BY DEF Wide, Shifted
<1> QED
  BY <1>1, <1>2

\* The sum and the difference of the floats v and w, w <= v, agree with x + y
\* and x - y.
Adds(v, w, x, y, low) ==
  /\ x \in Nat /\ y \in Nat /\ y <= x /\ (v = w => x = y)
  /\ Combine(v, w, 1) \in 0..(Inf - 1)
  /\ Agree(Sig(Combine(v, w, 1)), Unit(Combine(v, w, 1)), 1, x + y, low - 1, 1)
  /\ Combine(v, w, -1) \in 0..(Inf - 1)
  /\ Agree(Sig(Combine(v, w, -1)), Unit(Combine(v, w, -1)), 1, x - y, low - 1, 1)

\* A sum of the float z * 2^(U - 13), with what comes from the other one.
LEMMA AddedAgrees ==
  ASSUME NEW z \in (2^10)..(2^11 - 1), NEW U \in 115..154, NEW q \in 0..(2^11 - 1),
         NEW d \in 0..39, d >= 14 => U >= 129, d = 0 => q <= z,
         NEW n \in Int, Added(n, z, Sticky(q * 2^16, d)),
         NEW j \in 0..10, NEW s \in Int, n = s * Two(j),
         NEW u \in Int, U - 17 = u - j
  PROVE  /\ s \in Nat /\ FloatOf(n, U - 17) \in 0..(Inf - 1)
         /\ Agree(Sig(FloatOf(n, U - 17)), Unit(FloatOf(n, U - 17)), 1, s, u, 1)
<1>1. PICK y : y = Sticky(q * 2^16, d)
  OBVIOUS
<1>2. Added(n, z, y)
  BY <1>1
<1>3. n \in 0..(2^29 - 1) /\ MeetsItself(n, U - 17)
  <2>1. CASE d <= 13
    <3>1. d \in 0..13 /\ U - 17 \in Int
      BY <2>1
    <3> QED
      BY <1>1, <1>2, <3>1, NearSumMeets
  <2>2. CASE d >= 14
    <3>1. q * 2^16 \in 0..(2^27 - 1) /\ d \in 14..60 /\ U \in 129..154
      BY <2>2
    <3>2. y \in 0..(2^14 - 1)
      BY <1>1, <3>1, StickyBelow
    <3> QED
      BY <1>2, <3>1, <3>2, FarSumMeets
  <2> QED
    BY <2>1, <2>2
<1>4. s \in Nat
  <2>1. PICK p \in Nat \ {0} : p = Two(j)
    BY TwoNext
  <2>2. s <= -1 => p * s <= -p
    BY Multiples
  <2>3. p * s = s * p
    OBVIOUS
  <2> QED
    BY <1>3, <2>1, <2>2, <2>3
<1>5. PICK e \in 23..200 : e = U - 17 /\ e = u - j
  OBVIOUS
<1>6. /\ FloatOf(n, e) \in 0..(Inf - 1)
      /\ Agree(Sig(FloatOf(n, e)), Unit(FloatOf(n, e)), 1, n, e, 1)
  BY <1>3, <1>5, FloatAgrees
<1>7. Agree(n, u - j, 1, s, u, 1)
  <2>1. n \in 0..(2^30 - 1) /\ j \in 0..23
    BY <1>3
  <2> QED
    BY <1>4, <2>1, AgreeExact, Zenon
<1>8. Agree(Sig(FloatOf(n, e)), Unit(FloatOf(n, e)), 1, s, u, 1)
  BY <1>5, <1>6, <1>7, AgreeChain
<1> QED
  BY <1>4, <1>5, <1>6, <1>8

\* What combine calculates with.
LEMMA CombineIs ==
  ASSUME NEW v, NEW w, IsFinite(v), NEW z \in Nat, Sig(v) = z * 2^13,
         NEW q \in Nat, Sig(w) = q * 2^13, NEW U \in Int, Unit(v) = U - 13,
         NEW d \in Int, Unit(v) - Unit(w) = d
  PROVE  /\ Combine(v, w, 1) = FloatOf(z * 2^17 + 1 * Sticky(q * 2^16, d), U - 17)
         /\ Combine(v, w, -1) = FloatOf(z * 2^17 + (-1) * Sticky(q * 2^16, d), U - 17)
<1>1. 16 * Sig(v) = z * 2^17 /\ 8 * Sig(w) = q * 2^16 /\ Unit(v) - 4 = U - 17
  OBVIOUS
<1> QED
  BY <1>1 DEF Combine

\* With a part that is scaled alike, the sums are scaled alike.
LEMMA PartsAdded ==
  ASSUME NEW z \in Int, NEW y \in Int, NEW a \in Int, NEW b \in Int,
         NEW p \in Int, z = a * p, y = b * p
  PROVE  z + 1 * y = (a + b) * p /\ z + (-1) * y = (a - b) * p
<1>1. (a + b) * p = a * p + b * p /\ (a - b) * p = a * p - b * p
  OBVIOUS
<1>2. z + 1 * y = z + y /\ z + (-1) * y = z - y
  OBVIOUS
<1> QED
  BY <1>1, <1>2

\* Both halves scaled by 2^j: the sum of the floats agrees with that of the
\* halves.
LEMMA AddsScaled ==
  ASSUME NEW v, NEW w, IsFinite(v),
         NEW z \in (2^10)..(2^11 - 1), Sig(v) = z * 2^13,
         NEW q \in 0..(2^11 - 1), Sig(w) = q * 2^13,
         NEW U \in 115..154, Unit(v) = U - 13,
         NEW d \in Int, Unit(v) - Unit(w) = d,
         NEW c \in 0..39, Sticky(q * 2^16, d) = Sticky(q * 2^16, c),
         c >= 14 => U >= 129, c = 0 => q <= z,
         NEW j \in 0..10, NEW low \in Int, U - 17 = (low - 1) - j,
         NEW x \in Nat, z * 2^17 = x * Two(j),
         NEW y \in Nat, Sticky(q * 2^16, c) = y * Two(j),
         v = w => z = q /\ c = 0
  PROVE  Adds(v, w, x, y, low)
<1>1. PICK p \in Nat \ {0} : p = Two(j)
  BY TwoNext
<1>2. PICK o \in Int : o = Sticky(q * 2^16, c) /\ o = y * p
  BY <1>1
<1>3. PICK b \in Int : b = z * 2^17 /\ b = x * p
  BY <1>1
<1>4. b + 1 * o = (x + y) * p /\ b + (-1) * o = (x - y) * p
  BY <1>2, <1>3, PartsAdded
<1>5. /\ Combine(v, w, 1) = FloatOf(b + 1 * o, U - 17)
      /\ Combine(v, w, -1) = FloatOf(b + (-1) * o, U - 17)
  <2>1. z \in Nat /\ q \in Nat /\ U \in Int
    OBVIOUS
  <2>2. /\ Combine(v, w, 1) = FloatOf(z * 2^17 + 1 * Sticky(q * 2^16, d), U - 17)
        /\ Combine(v, w, -1) = FloatOf(z * 2^17 + (-1) * Sticky(q * 2^16, d), U - 17)
    BY <2>1, CombineIs
  <2> QED
    BY <1>2, <1>3, <2>2
<1>6. PICK n1 \in Int : n1 = b + 1 * o /\ n1 = (x + y) * Two(j)
  BY <1>1, <1>4
<1>7. PICK n2 \in Int : n2 = b + (-1) * o /\ n2 = (x - y) * Two(j)
  BY <1>1, <1>4
<1>8. Added(n1, z, Sticky(q * 2^16, c)) /\ Added(n2, z, Sticky(q * 2^16, c))
  BY <1>2, <1>3, <1>6, <1>7 DEF Added
<1>9. PICK u \in Int : u = low - 1
  OBVIOUS
<1>10. PICK s1 \in Int : s1 = x + y
  OBVIOUS
<1>11. PICK s2 \in Int : s2 = x - y
  OBVIOUS
<1>12. /\ FloatOf(n1, U - 17) \in 0..(Inf - 1)
       /\ Agree(Sig(FloatOf(n1, U - 17)), Unit(FloatOf(n1, U - 17)), 1, s1, u, 1)
  <2>1. n1 = s1 * Two(j) /\ U - 17 = u - j
    BY <1>6, <1>9, <1>10
  <2> QED
    BY <1>8, <2>1, AddedAgrees
<1>13. /\ s2 \in Nat
       /\ FloatOf(n2, U - 17) \in 0..(Inf - 1)
       /\ Agree(Sig(FloatOf(n2, U - 17)), Unit(FloatOf(n2, U - 17)), 1, s2, u, 1)
  <2>1. n2 = s2 * Two(j) /\ U - 17 = u - j
    BY <1>7, <1>9, <1>11
  <2> QED
    BY <1>8, <2>1, AddedAgrees
<1>14. v = w => x = y
  <2> SUFFICES ASSUME v = w PROVE x = y
    OBVIOUS
  <2>1. o = 2 * (q * 2^16)
    <3>1. PICK a \in Nat : a = q * 2^16
      OBVIOUS
    <3>2. a = a * Two(0) /\ 0 \in 0..29
      BY TwoValues
    <3>3. Sticky(a, 0) = 2 * a
      BY <3>2, StickyExact, Zenon
    <3> QED
      BY <1>2, <3>1, <3>3
  <2>2. b = o
    BY <1>3, <2>1
  <2>3. PICK t \in Int : t = x - y
    OBVIOUS
  <2>4. p * t = x * p - y * p
    BY <2>3
  <2>5. (t >= 1 => p * t >= p) /\ (t <= -1 => p * t <= -p)
    BY Multiples
  <2> QED
    BY <1>2, <1>3, <2>2, <2>3, <2>4, <2>5
<1>15. y <= x
  BY <1>11, <1>13
<1> QED
  BY <1>5, <1>6, <1>7, <1>9, <1>10, <1>11, <1>12, <1>13, <1>14, <1>15, Zenon DEF Adds

\* low of ExactSum.
IsLow(low, m, n) == low \in Int /\ low = MaxOf(HalfUnit(m), HalfUnit(n)) - 16

\* Two halves that are not zero.
LEMMA AddsWide ==
  ASSUME NEW m, NEW v, NEW z, NEW j, NEW U, Wide(m, v, z, j, U),
         NEW n, NEW w, NEW q, NEW i, NEW V, Wide(n, w, q, i, V), w <= v,
         HalfUnit(m) >= HalfUnit(0), HalfUnit(n) >= HalfUnit(0),
         NEW low \in Int, IsLow(low, m, n)
  PROVE  Adds(v, w, Moved(m, low), Moved(n, low), low)
<1>1. V <= U /\ (V = U => q <= z) /\ (v = w => V = U /\ q = z)
  BY WideOrder
<1>2. /\ z \in (2^10)..(2^11 - 1) /\ j \in 0..10 /\ U \in 115..154
      /\ HalfUnit(m) = U + j /\ (j > 0 => U + j = 125)
  <2>1. Shifted(m, z, j, U)
    BY DEF Wide
  <2> QED
    BY <2>1 DEF Shifted
<1>3. /\ q \in (2^10)..(2^11 - 1) /\ i \in 0..10 /\ V \in 115..154
      /\ HalfUnit(n) = V + i /\ (i > 0 => V + i = 125)
  <2>1. Shifted(n, q, i, V)
    BY DEF Wide
  <2> QED
    BY <2>1 DEF Shifted
<1>4. Below(m, low)
  <2>1. HalfUnit(n) <= HalfUnit(m)
    BY <1>1, <1>2, <1>3, WideZero
  <2> QED
    BY <1>2, <1>3, <2>1 DEF MaxOf, Below, IsLow
<1>5. /\ Moved(m, low) \in Nat /\ z * 2^17 = Moved(m, low) * Two(j)
      /\ U - 17 = (low - 1) - j
  BY <1>4, BigPart
<1>6. /\ Moved(n, low) \in Nat
      /\ Sticky(q * 2^16, U - V) = Moved(n, low) * Two(j)
  BY <1>1, <1>4, SumParts
<1>7. PICK x \in Nat : x = Moved(m, low)
  BY <1>5, Zenon
<1>8. PICK y \in Nat : y = Moved(n, low)
  BY <1>6, Zenon
<1>9. PICK d \in 0..39 : d = U - V
  BY <1>1, <1>2, <1>3
<1>10. IsFinite(v) /\ Sig(v) = z * 2^13 /\ Unit(v) = U - 13
  BY DEF Wide, IsFinite, Inf
<1>11. Sig(w) = q * 2^13 /\ Unit(w) = V - 13
  BY DEF Wide
<1>12. Unit(v) - Unit(w) = d /\ (d >= 14 => U >= 129) /\ (d = 0 => q <= z)
       /\ (v = w => z = q /\ d = 0) /\ q \in 0..(2^11 - 1) /\ d \in Int
  BY <1>1, <1>2, <1>3, <1>9, <1>10, <1>11
<1>13. z * 2^17 = x * Two(j) /\ Sticky(q * 2^16, d) = y * Two(j)
  BY <1>5, <1>6, <1>7, <1>8, <1>9
<1>14. z \in (2^10)..(2^11 - 1) /\ U \in 115..154 /\ j \in 0..10
       /\ U - 17 = (low - 1) - j
  BY <1>2, <1>5
<1>15. Adds(v, w, x, y, low)
  BY <1>10, <1>11, <1>12, <1>13, <1>14, AddsScaled
<1> QED
  BY <1>7, <1>8, <1>15

\* A half and a zero.
LEMMA AddsNothing ==
  ASSUME NEW m, NEW v, NEW z, NEW j, NEW U, Wide(m, v, z, j, U),
         HalfUnit(m) >= HalfUnit(0), NEW low \in Int, IsLow(low, m, 0)
  PROVE  Adds(v, 0, Moved(m, low), Moved(0, low), low)
<1>1. /\ z \in (2^10)..(2^11 - 1) /\ j \in 0..10 /\ U \in 115..154
      /\ HalfUnit(m) \in 125..154
  <2>1. Shifted(m, z, j, U)
    BY DEF Wide
  <2> QED
    BY <2>1, WideZero DEF Shifted
<1>2. HalfUnit(m) = low + 16
  BY <1>1, WideZero DEF MaxOf, IsLow
<1>3. /\ Moved(m, low) \in Nat /\ z * 2^17 = Moved(m, low) * Two(j)
      /\ U - 17 = (low - 1) - j
  <2>1. Below(m, low)
    BY <1>2 DEF Below
  <2> QED
    BY <2>1, BigPart
<1>4. Moved(0, low) = 0
  <2>1. CASE low <= 125
    <3>1. PICK k \in 0..31 : k = 125 - low /\ 125 = low + k
      BY <1>1, <1>2, <2>1
    <3>2. HalfUnit(0) = low + k /\ HalfSig(0) = 0 /\ HalfSig(0) \in Nat
      <4>1. HalfUnit(0) = 125 /\ HalfSig(0) = 0
        BY WideZero
      <4> QED
        BY <3>1, <4>1
    <3>3. Moved(0, low) = 2 * (0 * Two(k))
      BY <3>2, MovedLeft
    <3>4. PICK p \in Nat : p = Two(k)
      BY TwoTable
    <3> QED
      BY <3>3, <3>4
  <2>2. CASE low > 125
    <3>1. PICK d \in 0..29 : d = low - 125
      <4>1. low - 125 \in 0..29
        BY <1>1, <1>2, <2>2
      <4> QED
        BY <4>1
    <3>2. Moved(0, low) = Sticky(0, d)
      BY <2>2, <3>1, WideZero DEF Moved
    <3>3. 0 = 0 * Two(d) /\ 0 \in Nat
      <4>1. PICK p \in Nat : p = Two(d)
        BY TwoNext
      <4> QED
        BY <4>1
    <3>4. Sticky(0, d) = 2 * 0
      BY <3>3, StickyExact, Zenon
    <3> QED
      BY <3>2, <3>4
  <2> QED
    BY <2>1, <2>2
<1>5. PICK x \in Nat : x = Moved(m, low)
  BY <1>3, Zenon
<1>6. IsFinite(v) /\ Sig(v) = z * 2^13 /\ Unit(v) = U - 13 /\ Exponent(v) # 0
  BY DEF Wide, IsFinite, Inf
<1>7. v # 0
  BY <1>6, WideZero
<1>8. PICK d \in Int : d = U - 13 /\ d > 29 /\ Unit(v) - Unit(0) = d
  BY <1>1, <1>6, WideZero
<1>9. 0 * 2^16 = 0 /\ 0 * 2^13 = 0 /\ Sig(0) = 0
  BY WideZero
<1>10. Sticky(0 * 2^16, d) = 0 /\ Sticky(0 * 2^16, 1) = 0
  <2>1. Sticky(0, d) = 0
    BY <1>8 DEF Sticky, MinOf
  <2>2. 0 = 0 * Two(1) /\ 1 \in 0..29 /\ 0 \in Nat
    BY TwoValues
  <2>3. Sticky(0, 1) = 2 * 0
    BY <2>2, StickyExact, Zenon
  <2> QED
    BY <1>9, <2>1, <2>3
<1>11. 0 * Two(j) = 0
  <2>1. PICK p \in Nat : p = Two(j)
    BY <1>1, TwoNext
  <2> QED
    BY <2>1
<1>12. z \in (2^10)..(2^11 - 1) /\ U \in 115..154 /\ j \in 0..10
       /\ U - 17 = (low - 1) - j /\ z * 2^17 = x * Two(j)
  BY <1>1, <1>3, <1>5
<1>13. /\ 0 \in 0..(2^11 - 1) /\ 1 \in 0..39 /\ 0 \in Nat
       /\ ~ (1 >= 14) /\ ~ (1 = 0) /\ Sig(0) = 0 * 2^13
       /\ Sticky(0 * 2^16, d) = Sticky(0 * 2^16, 1)
       /\ Sticky(0 * 2^16, 1) = 0 * Two(j)
  BY <1>9, <1>10, <1>11
<1>14. Adds(v, 0, x, 0, low)
  BY <1>6, <1>7, <1>8, <1>12, <1>13, AddsScaled
<1> QED
  BY <1>4, <1>5, <1>14

\* Two zeros.
LEMMA AddsZeros ==
  ASSUME NEW low \in Int, IsLow(low, 0, 0)
  PROVE  Adds(0, 0, Moved(0, low), Moved(0, low), low)
<1>1. HalfUnit(0) = low + 16 /\ HalfSig(0) = 0 /\ HalfSig(0) \in Nat /\ 16 \in 0..31
  BY WideZero DEF IsLow, MaxOf
<1>2. Moved(0, low) = 0
  <2>1. Moved(0, low) = 2 * (0 * Two(16))
    BY <1>1, MovedLeft
  <2> QED
    BY <2>1 DEF Two
<1>3. Sticky(0, 0) = 0
  <2>1. 0 = 0 * Two(0) /\ 0 \in 0..29 /\ 0 \in Nat
    BY TwoValues
  <2>2. Sticky(0, 0) = 2 * 0
    BY <2>1, StickyExact, Zenon
  <2> QED
    BY <2>2
<1>4. Combine(0, 0, 1) = 0 /\ Combine(0, 0, -1) = 0
  <2>1. IsFinite(0) /\ 16 * Sig(0) = 0 /\ 8 * Sig(0) = 0 /\ Unit(0) - Unit(0) = 0
    BY WideZero
  <2>2. 0 + 1 * 0 = 0 /\ 0 + (-1) * 0 = 0
    OBVIOUS
  <2>3. \A u : FloatOf(0, u) = 0
    BY DEF FloatOf
  <2> QED
    BY <1>3, <2>1, <2>2, <2>3 DEF Combine
<1>5. PICK u \in Int : u = low - 1
  OBVIOUS
<1>6. Agree(Sig(0), Unit(0), 1, 0, u, 1)
  <2>1. Sig(0) = 0 /\ Unit(0) = 0 /\ 0 \in Int /\ 1 \in Nat \ {0}
    BY WideZero
  <2> QED
    BY <2>1, AgreeZero
<1>7. 0 + 0 = 0 /\ 0 - 0 = 0 /\ 0 <= 0 /\ 0 \in Nat /\ 0 \in 0..(Inf - 1)
  BY WideZero
<1> QED
  BY <1>2, <1>4, <1>5, <1>6, <1>7 DEF Adds

\* Any two halves, the float of the first not less.
LEMMA HalvesAdd ==
  ASSUME NEW a \in FiniteHalf, NEW b \in FiniteHalf, NEW v, v = ToFloat(a).bits,
         NEW w, w = ToFloat(b).bits, w <= v,
         NEW low \in Int, IsLow(low, Magnitude(a), Magnitude(b))
  PROVE  Adds(v, w, Moved(Magnitude(a), low), Moved(Magnitude(b), low), low)
<1>1. HalfUnit(Magnitude(a)) >= HalfUnit(0) /\ HalfUnit(Magnitude(b)) >= HalfUnit(0)
  <2>1. HalfUnit(Magnitude(a)) \in 125..154
    BY HalfParts
  <2>2. HalfUnit(Magnitude(b)) \in 125..154
    BY HalfParts
  <2> QED
    BY <2>1, <2>2, WideZero
<1>2. CASE Magnitude(b) = 0
  <2>1. w = 0
    BY <1>2, OperandParts, Zenon
  <2>2. CASE Magnitude(a) = 0
    <3>1. v = 0
      BY <2>2, OperandParts, Zenon
    <3> QED
      BY <1>2, <2>1, <2>2, <3>1, AddsZeros, Zenon
  <2>3. CASE Magnitude(a) # 0
    <3>1. PICK z \in Nat, j \in Nat, U \in Int : Wide(Magnitude(a), v, z, j, U)
      BY <2>3, OperandParts, Zenon
    <3>2. IsLow(low, Magnitude(a), 0)
      BY <1>2
    <3>3. Adds(v, 0, Moved(Magnitude(a), low), Moved(0, low), low)
      BY <1>1, <3>1, <3>2, AddsNothing
    <3> QED
      BY <1>2, <2>1, <3>3
  <2> QED
    BY <2>2, <2>3
<1>3. CASE Magnitude(b) # 0
  <2>1. PICK q \in Nat, i \in Nat, V \in Int : Wide(Magnitude(b), w, q, i, V)
    BY <1>3, OperandParts, Zenon
  <2>2. Magnitude(a) # 0
    <3>1. q \in (2^10)..(2^11 - 1) /\ V \in 115..154 /\ w = (V - 13) * 2^23 + q * 2^13
      BY <2>1 DEF Wide, Shifted
    <3>2. v # 0
      BY <3>1
    <3> QED
      BY <3>2, OperandParts, Zenon
  <2>3. PICK z \in Nat, j \in Nat, U \in Int : Wide(Magnitude(a), v, z, j, U)
    BY <2>2, OperandParts, Zenon
  <2> QED
    BY <1>1, <2>1, <2>3, AddsWide
<1> QED
  BY <1>2, <1>3

SignedPart(neg, x) == IF neg THEN -x ELSE x
SizeOf(i) == IF i < 0 THEN -i ELSE i
IsSignedSum(sum, f, x, g, y) == sum = SignedPart(f, x) + SignedPart(g, y)
IsSumOfSizes(h, f, v, g, w) ==
  h = ToHalf(Float(IF v = w /\ f # g THEN FALSE ELSE f,
                   Combine(v, w, IF f = g THEN 1 ELSE -1)))

\* The sum with its sign, rounded to a half.
LEMMA SignedAdds ==
  ASSUME NEW v, NEW w, NEW x, NEW y, NEW low \in Int, Adds(v, w, x, y, low),
         NEW f \in BOOLEAN, NEW g \in BOOLEAN,
         NEW sum, IsSignedSum(sum, f, x, g, y),
         NEW h, IsSumOfSizes(h, f, v, g, w)
  PROVE  /\ Nearest(SizeOf(sum), low - 1, 1, Magnitude(h))
         /\ SizeOf(sum) # 0 => (Negative(h) <=> sum < 0)
<1>1. x \in Nat /\ y \in Nat /\ y <= x /\ (v = w => x = y)
  BY DEF Adds
<1>2. CASE f = g
  <2>1. h = ToHalf(Float(f, Combine(v, w, 1)))
    BY <1>2, Zenon DEF IsSumOfSizes
  <2>2. Negative(h) = f /\ Nearest(x + y, low - 1, 1, Magnitude(h))
    BY <2>1, ResultIsNearest, Zenon DEF Adds
  <2>3. SizeOf(sum) = x + y /\ (x + y # 0 => (f <=> sum < 0))
    BY <1>1, <1>2 DEF SizeOf, SignedPart, IsSignedSum
  <2> QED
    BY <2>2, <2>3
<1>3. CASE f # g
  <2>1. PICK neg \in BOOLEAN : neg = (IF v = w /\ f # g THEN FALSE ELSE f)
    BY Zenon
  <2>2. h = ToHalf(Float(neg, Combine(v, w, -1)))
    BY <1>3, <2>1, Zenon DEF IsSumOfSizes
  <2>3. Negative(h) = neg /\ Nearest(x - y, low - 1, 1, Magnitude(h))
    BY <2>2, ResultIsNearest, Zenon DEF Adds
  <2>4. SizeOf(sum) = x - y /\ (x - y # 0 => (f <=> sum < 0))
    BY <1>1, <1>3 DEF SizeOf, SignedPart, IsSignedSum
  <2>5. x - y # 0 => neg = f
    <3>1. x - y # 0 => v # w
      BY <1>1
    <3>2. v # w => neg = f
      BY <2>1, Zenon
    <3> QED
      BY <3>1, <3>2, Zenon
  <2> QED
    BY <2>3, <2>4, <2>5
<1> QED
  BY <1>2, <1>3

\* ExactSum in these terms.
LEMMA ExactSumIs ==
  ASSUME NEW a \in FiniteHalf, NEW b \in FiniteHalf
  PROVE  \E low \in Int :
           /\ IsLow(low, Magnitude(a), Magnitude(b))
           /\ IsLow(low, Magnitude(b), Magnitude(a))
           /\ ExactSum(a, b).unit = low - 1
           /\ ExactSum(a, b).sum =
                SignedPart(Negative(a), Moved(Magnitude(a), low))
                  + SignedPart(Negative(b), Moved(Magnitude(b), low))
<1>1. PICK low : low = MaxOf(HalfUnit(Magnitude(a)), HalfUnit(Magnitude(b))) - 16
  OBVIOUS
<1>2. /\ ExactSum(a, b).unit = low - 1
      /\ ExactSum(a, b).sum =
           SignedPart(Negative(a), Moved(Magnitude(a), low))
             + SignedPart(Negative(b), Moved(Magnitude(b), low))
  BY <1>1 DEF ExactSum, SignedPart, Moved
<1>3. IsLow(low, Magnitude(a), Magnitude(b)) /\ IsLow(low, Magnitude(b), Magnitude(a))
  <2>1. HalfUnit(Magnitude(a)) \in 125..154
    BY HalfParts
  <2>2. HalfUnit(Magnitude(b)) \in 125..154
    BY HalfParts
  <2> QED
    BY <1>1, <2>1, <2>2 DEF IsLow, MaxOf
<1> QED
  BY <1>2, <1>3 DEF IsLow

\* A sum is rounded as if once.
LEMMA SumRounds ==
  ASSUME NEW a \in FiniteHalf, NEW b \in FiniteHalf
  PROVE  /\ Nearest(SizeOf(ExactSum(a, b).sum), ExactSum(a, b).unit, 1,
                    Magnitude(Plus(a, b)))
         /\ SizeOf(ExactSum(a, b).sum) # 0 =>
              (Negative(Plus(a, b)) <=> ExactSum(a, b).sum < 0)
<1>1. PICK low \in Int :
        /\ IsLow(low, Magnitude(a), Magnitude(b))
        /\ IsLow(low, Magnitude(b), Magnitude(a))
        /\ ExactSum(a, b).unit = low - 1
        /\ ExactSum(a, b).sum =
             SignedPart(Negative(a), Moved(Magnitude(a), low))
               + SignedPart(Negative(b), Moved(Magnitude(b), low))
  BY ExactSumIs
<1>2. PICK v \in Nat : v = ToFloat(a).bits
  BY OperandParts DEF FloatWord
<1>3. PICK w \in Nat : w = ToFloat(b).bits
  BY OperandParts DEF FloatWord
<1>4. PICK f \in BOOLEAN : f = Negative(a) /\ ToFloat(a).neg = f
  <2>1. ToFloat(a).neg = Negative(a)
    BY OperandParts, Zenon
  <2>2. Negative(a) \in BOOLEAN
    BY DEF FiniteHalf, HalfWord, Negative
  <2> QED
    BY <2>1, <2>2, Zenon
<1>5. PICK g \in BOOLEAN : g = Negative(b) /\ ToFloat(b).neg = g
  <2>1. ToFloat(b).neg = Negative(b)
    BY OperandParts, Zenon
  <2>2. Negative(b) \in BOOLEAN
    BY DEF FiniteHalf, HalfWord, Negative
  <2> QED
    BY <2>1, <2>2, Zenon
<1>6. PICK x : x = Moved(Magnitude(a), low)
  OBVIOUS
<1>7. PICK y : y = Moved(Magnitude(b), low)
  OBVIOUS
<1>8. PICK sum : sum = ExactSum(a, b).sum /\ IsSignedSum(sum, f, x, g, y)
  BY <1>1, <1>4, <1>5, <1>6, <1>7, Zenon DEF IsSignedSum
<1>9. PICK h : h = Plus(a, b)
  OBVIOUS
<1>10. /\ Nearest(SizeOf(sum), low - 1, 1, Magnitude(h))
       /\ SizeOf(sum) # 0 => (Negative(h) <=> sum < 0)
  <2>1. CASE w <= v
    <3>1. Adds(v, w, x, y, low)
      BY <1>1, <1>2, <1>3, <1>6, <1>7, <2>1, HalvesAdd
    <3>2. IsSumOfSizes(h, f, v, g, w)
      <4>1. v >= w
        BY <2>1
      <4> QED
        BY <1>2, <1>3, <1>4, <1>5, <1>9, <4>1, Zenon DEF Plus, SignedSum, IsSumOfSizes
    <3> QED
      BY <1>1, <1>4, <1>5, <1>8, <3>1, <3>2, SignedAdds
  <2>2. CASE ~ (w <= v)
    <3>1. v <= w /\ v # w
      BY <2>2
    <3>2. Adds(w, v, y, x, low)
      BY <1>1, <1>2, <1>3, <1>6, <1>7, <3>1, HalvesAdd
    <3>3. IsSumOfSizes(h, g, w, f, v)
      <4>1. ~ (v >= w) /\ v # w
        BY <2>2
      <4> QED
        BY <1>2, <1>3, <1>4, <1>5, <1>9, <4>1, Zenon DEF Plus, SignedSum, IsSumOfSizes
    <3>4. IsSignedSum(sum, g, y, f, x)
      <4>1. SignedPart(g, y) \in Int /\ SignedPart(f, x) \in Int
        BY <3>2 DEF Adds, SignedPart
      <4> QED
        BY <1>8, <4>1 DEF IsSignedSum
    <3> QED
      BY <1>1, <1>4, <1>5, <3>2, <3>3, <3>4, SignedAdds
  <2> QED
    BY <2>1, <2>2
<1> QED
  BY <1>1, <1>8, <1>9, <1>10, Zenon

\* To subtract is to add the opposite.
LEMMA SubtractIs ==
  ASSUME NEW a \in FiniteHalf, NEW b \in FiniteHalf
  PROVE  /\ Opposite(b) \in FiniteHalf /\ Magnitude(Opposite(b)) = Magnitude(b)
         /\ Subtract(a, b) = Plus(a, Opposite(b))
<1>1. b \in 0..(2^16 - 1) /\ Magnitude(b) < HalfInf
  BY DEF FiniteHalf, HalfWord
<1>2. /\ Opposite(b) \in 0..(2^16 - 1)
      /\ Opposite(b) % 2^15 = b % 2^15
      /\ (Opposite(b) >= 2^15) = ~ (b >= 2^15)
  BY <1>1 DEF Opposite, Negative
<1>3. Opposite(b) \in FiniteHalf /\ Magnitude(Opposite(b)) = Magnitude(b)
  BY <1>1, <1>2 DEF FiniteHalf, HalfWord, Magnitude
<1>4. ToFloat(Opposite(b)) = [ToFloat(b) EXCEPT !.neg = ~@]
  <2>1. nonsign(Opposite(b)) = nonsign(b)
    BY <1>2 DEF nonsign
  <2>2. /\ denormalized_value(Opposite(b)) = denormalized_value(b)
        /\ normalized_value(Opposite(b)) = normalized_value(b)
    BY <1>2, <2>1, Zenon DEF denormalized_value, normalized_value
  <2>3. Negative(Opposite(b)) = ~ Negative(b)
    BY <1>2 DEF Negative
  <2>4. PICK bits : /\ ToFloat(b) = Float(Negative(b), bits)
                    /\ ToFloat(Opposite(b)) = Float(Negative(Opposite(b)), bits)
    BY <2>1, <2>2, Zenon DEF ToFloat, fp16_to_fp32_value
  <2> QED
    BY <2>3, <2>4 DEF Float
<1>5. Subtract(a, b) = Plus(a, Opposite(b))
  BY <1>4, Zenon DEF Subtract, Plus
<1> QED
  BY <1>3, <1>5

\* What the operators were called with.
Calculated ==
  /\ op = "+" => \E a \in FiniteHalf, b \in FiniteHalf :
                   args = <<a, b>> /\ result = Plus(a, b)
  /\ op = "-" => \E a \in FiniteHalf, b \in FiniteHalf :
                   args = <<a, b>> /\ result = Subtract(a, b)
  /\ op = "*" => \E a \in FiniteHalf, b \in FiniteHalf :
                   args = <<a, b>> /\ result = Multiply(a, b)
  /\ op = "/" => \E a \in FiniteHalf, b \in FiniteHalf :
                   /\ args = <<a, b>> /\ result = Divide(a, b)
                   /\ Magnitude(b) # 0

LEMMA OperandsAreKept ==
  Spec => []Calculated
<1>1. Init => Calculated
  BY DEF Init, Calculated
<1>2. Calculated /\ [Next]_vars => Calculated'
  <2> SUFFICES ASSUME Calculated, [Next]_vars
               PROVE  Calculated'
    OBVIOUS
  <2>1. CASE FromBits
    BY <2>1 DEF FromBits, Call, Calculated
  <2>2. CASE Literal
    BY <2>2 DEF Literal, Call, Calculated
  <2>3. CASE Widen
    BY <2>3 DEF Widen, Call, Calculated
  <2>4. CASE Narrow
    BY <2>4 DEF Narrow, Call, Calculated
  <2>5. CASE Calculate
    <3>1. \A h \in Operands : h \in FiniteHalf
      BY HalfAssumption DEF FiniteHalf, HalfWord, Magnitude, HalfInf
    <3>2. PICK b \in Operands :
            \/ Call("+", <<result, b>>, Plus(result, b))
            \/ Call("-", <<result, b>>, Subtract(result, b))
            \/ Call("*", <<result, b>>, Multiply(result, b))
            \/ b % 2^15 # 0 /\ Call("/", <<result, b>>, Divide(result, b))
      BY <2>5, Zenon DEF Calculate
    <3>3. result \in FiniteHalf /\ b \in FiniteHalf
      BY <2>5, <3>1 DEF Calculate
    <3>4. CASE Call("+", <<result, b>>, Plus(result, b))
      BY <3>3, <3>4 DEF Call, Calculated
    <3>5. CASE Call("-", <<result, b>>, Subtract(result, b))
      BY <3>3, <3>5 DEF Call, Calculated
    <3>6. CASE Call("*", <<result, b>>, Multiply(result, b))
      BY <3>3, <3>6 DEF Call, Calculated
    <3>7. CASE b % 2^15 # 0 /\ Call("/", <<result, b>>, Divide(result, b))
      <4>1. Magnitude(b) # 0
        BY <3>7 DEF Magnitude
      <4> QED
        BY <3>3, <3>7, <4>1 DEF Call, Calculated
    <3> QED
      BY <3>2, <3>4, <3>5, <3>6, <3>7
  <2>6. CASE UNCHANGED vars
    BY <2>6 DEF vars, Calculated
  <2> QED
    BY <2>1, <2>2, <2>3, <2>4, <2>5, <2>6 DEF Next
<1> QED
  BY <1>1, <1>2, PTL DEF Spec

\* The four operators calculate with floats and round twice, and still return
\* the half nearest to the exact result, with its sign: the run calculates
\* with chosen operands, the theorem holds for all finite ones
\* (Half.h:312-326).
THEOREM RoundedAsOnce ==
  Spec => []RoundsAsOnce
<1>1. Calculated => RoundsAsOnce
  <2> SUFFICES ASSUME Calculated
               PROVE  RoundsAsOnce
    OBVIOUS
  <2>1. CASE op = "+"
    <3>1. PICK a \in FiniteHalf, b \in FiniteHalf : args = <<a, b>> /\ result = Plus(a, b)
      BY <2>1 DEF Calculated
    <3>2. args[1] = a /\ args[2] = b /\ op # "-" /\ op # "*" /\ op # "/"
      BY <2>1, <3>1
    <3>3. /\ Nearest(SizeOf(ExactSum(a, b).sum), ExactSum(a, b).unit, 1, Magnitude(result))
          /\ SizeOf(ExactSum(a, b).sum) # 0 =>
               (Negative(result) <=> ExactSum(a, b).sum < 0)
      BY <3>1, SumRounds, Zenon
    <3> QED
      BY <2>1, <3>2, <3>3, Zenon DEF RoundsAsOnce, SizeOf
  <2>2. CASE op = "-"
    <3>1. PICK a \in FiniteHalf, b \in FiniteHalf :
            args = <<a, b>> /\ result = Subtract(a, b)
      BY <2>2 DEF Calculated
    <3>2. args[1] = a /\ args[2] = b /\ op # "+" /\ op # "*" /\ op # "/"
      BY <2>2, <3>1
    <3>3. PICK c \in FiniteHalf : c = Opposite(b) /\ result = Plus(a, c)
      BY <3>1, SubtractIs, Zenon
    <3>4. /\ Nearest(SizeOf(ExactSum(a, c).sum), ExactSum(a, c).unit, 1, Magnitude(result))
          /\ SizeOf(ExactSum(a, c).sum) # 0 =>
               (Negative(result) <=> ExactSum(a, c).sum < 0)
      BY <3>3, SumRounds, Zenon
    <3> QED
      BY <2>2, <3>2, <3>3, <3>4, Zenon DEF RoundsAsOnce, SizeOf
  <2>3. CASE op = "*"
    <3>1. PICK a \in FiniteHalf, b \in FiniteHalf :
            args = <<a, b>> /\ result = Multiply(a, b)
      BY <2>3 DEF Calculated
    <3>2. args[1] = a /\ args[2] = b /\ op # "+" /\ op # "-" /\ op # "/"
      BY <2>3, <3>1
    <3>3. /\ Negative(result) = (Negative(a) # Negative(b))
          /\ Nearest(HalfSig(Magnitude(a)) * HalfSig(Magnitude(b)),
                     HalfUnit(Magnitude(a)) + HalfUnit(Magnitude(b)) - 149,
                     1, Magnitude(result))
      BY <3>1, ProductRounds, Zenon
    <3> QED
      BY <2>3, <3>2, <3>3, Zenon DEF RoundsAsOnce
  <2>4. CASE op = "/"
    <3>1. PICK a \in FiniteHalf, b \in FiniteHalf :
            args = <<a, b>> /\ result = Divide(a, b) /\ Magnitude(b) # 0
      BY <2>4 DEF Calculated
    <3>2. args[1] = a /\ args[2] = b /\ op # "+" /\ op # "-" /\ op # "*"
      BY <2>4, <3>1
    <3>3. /\ Negative(result) = (Negative(a) # Negative(b))
          /\ Nearest(HalfSig(Magnitude(a)),
                     HalfUnit(Magnitude(a)) - HalfUnit(Magnitude(b)) + 149,
                     HalfSig(Magnitude(b)), Magnitude(result))
      BY <3>1, QuotientRounds, Zenon
    <3> QED
      BY <2>4, <3>2, <3>3, Zenon DEF RoundsAsOnce
  <2>5. CASE op \notin {"+", "-", "*", "/"}
    BY <2>5 DEF RoundsAsOnce
  <2> QED
    BY <2>1, <2>2, <2>3, <2>4, <2>5
<1> QED
  BY <1>1, OperandsAreKept, PTL

=============================================================================
