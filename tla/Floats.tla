------------------------------- MODULE Floats -------------------------------
(***************************************************************************)
(* The two solved puzzles of the data lab, floatScale2 and floatFloat2Int  *)
(* (datalab-handout/bits.c), and the functions they are compared with      *)
(* (tests.c), on floats with ExpBits bits of exponent and FracBits bits of *)
(* fraction.  The code has 8 and 23.  As there, an integer has the width   *)
(* of a float, and the exponents reach well past the integers.             *)
(***************************************************************************)
EXTENDS Integers

CONSTANTS ExpBits, FracBits

Width  == 1 + ExpBits + FracBits
Bias   == 2 ^ (ExpBits - 1) - 1
MaxExp == 2 ^ ExpBits - 1            \* 0xFF
Ones   == 2 ^ FracBits               \* the implied one, 1 << 23
SignBit == 2 ^ (Width - 1)

ASSUME FloatAssumption == /\ ExpBits \in Nat \ {0} /\ FracBits \in Nat \ {0}
                          /\ Bias > Width

\* What ^ means: a power is repeated doubling.
ASSUME PowerAssumption ==
    2 ^ 0 = 1 /\ \A k \in (0 .. Width) \cup (0 .. MaxExp) : 2 ^ (k + 1) = 2 * 2 ^ k

Bits == 0 .. 2 ^ Width - 1
TMin == -(2 ^ (Width - 1))
TMax == 2 ^ (Width - 1) - 1

\* Bits read as an int.
AsInt(u) == IF u >= SignBit THEN u - 2 ^ Width ELSE u

sign(uf)     == uf \div SignBit
exponent(uf) == (uf \div Ones) % (MaxExp + 1)
frac(uf)     == uf % Ones
Packed(s, e, f) == s * SignBit + e * Ones + f

-----------------------------------------------------------------------------
(* bits.c                                                                  *)

\* The fraction of the greatest denormalized numbers grows into the exponent
\* field, which is 0 then.
floatScale2(uf) ==
    IF (exponent(uf) = 0 /\ frac(uf) = 0) \/ exponent(uf) = MaxExp THEN uf
    ELSE IF exponent(uf) = 0 THEN Packed(sign(uf), 0, 2 * frac(uf))
    ELSE Packed(sign(uf), exponent(uf) + 1, frac(uf))

\* Mutant: the bits of the fraction are counted with the implied one.
Shifted_OffByOne(M, E) == IF E > FracBits THEN AsInt((M * 2 ^ (E - FracBits - 1)) % 2 ^ Width)
                          ELSE M \div 2 ^ (FracBits - E)

\* Truncation of M * 2^E.  M <<= E - 23 is a product in Width bits.
Shifted(M, E) == IF E > FracBits THEN AsInt((M * 2 ^ (E - FracBits)) % 2 ^ Width)
                 ELSE M \div 2 ^ (FracBits - E)

Negated(n) == IF n = TMin THEN TMin ELSE -n

floatFloat2Int(uf) ==
    LET E == exponent(uf) - Bias
        M == Shifted(frac(uf) + Ones, E)
    IN  IF exponent(uf) = MaxExp THEN TMin
        ELSE IF exponent(uf) = 0 \/ E < 0 THEN 0
        ELSE IF E > Width - 1 THEN TMin
        ELSE IF sign(uf) = 1 THEN Negated(M) ELSE M

-----------------------------------------------------------------------------
(* tests.c.  The arithmetic of the machine is defined by the values of the *)
(* numbers; Magnitude is in units of the smallest denormalized number.     *)

Finite(uf) == exponent(uf) # MaxExp
IsNan(uf)  == ~Finite(uf) /\ frac(uf) # 0

Magnitude(uf) == IF exponent(uf) = 0 THEN frac(uf)
                 ELSE (Ones + frac(uf)) * 2 ^ (exponent(uf) - 1)

\* The float of this sign and magnitude, infinity if it is out of range.
Encoded(s, m) ==
    LET fits == {u \in Bits : Finite(u) /\ sign(u) = s /\ Magnitude(u) = m}
    IN  IF fits = {} THEN Packed(s, MaxExp, 0) ELSE CHOOSE u \in fits : TRUE

\* 2*f
test_floatScale2(uf) ==
    IF Finite(uf) THEN Encoded(sign(uf), 2 * Magnitude(uf)) ELSE uf

Truncated(uf) == LET n == Magnitude(uf) \div 2 ^ (Bias - 1 + FracBits)
                 IN  IF sign(uf) = 1 THEN -n ELSE n

\* (int) f truncates; out of range and for NaN the instruction gives TMin.
test_floatFloat2Int(uf) ==
    IF Finite(uf) /\ Truncated(uf) \in TMin .. TMax THEN Truncated(uf) ELSE TMin

-----------------------------------------------------------------------------
\* The exact result is a finite float, or an int.
HasDouble(uf)  == Finite(uf) /\ Finite(test_floatScale2(uf))
HasInteger(uf) == Finite(uf) /\ Truncated(uf) \in TMin .. TMax

=============================================================================
