------------------------------- MODULE MCHalf -------------------------------
(* All halves, and floats of every exponent with the mantissas around the   *)
(* places where a half ends.                                                *)
EXTENDS Half

MCHalfBits == 0..(2^16 - 1)

Mantissas ==
  {m \in {a * 2^p + b : a \in {0, 1, 2, 3}, p \in 11..22, b \in {-1, 0, 1}} :
     m \in 0..(2^23 - 1)}
    \cup {2^23 - 1, 2^23 - 2^12, 2^23 - 2^12 - 1, 2^23 - 2^13}
MCFloatBits == {e * 2^23 + m : e \in 0..255, m \in Mantissas}

\* Zeros, subnormals, ones, and the ends of several exponents.
MCOperands ==
  {s * 2^15 + e * 2^10 + m : s \in {0, 1}, e \in {0, 1, 4, 13, 14, 15, 28, 30},
                             m \in {0, 1, 2, 511, 512, 1022, 1023}}

=============================================================================
