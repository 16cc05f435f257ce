----------------------------- MODULE Conversion -----------------------------
(***************************************************************************)
(* Conversions between 64-bit integers and floating point:  __floatdisf    *)
(* and __floatundisf, which round an integer to a float, __floatdidf and   *)
(* __floatundidf, which round it to a double, and __fixunsdfdi and         *)
(* __fixdfdi, which cut a double off (core/src/Runtime.cpp; __fixunssfdi   *)
(* and __fixsfdi are the same on the double their float argument becomes). *)
(*                                                                         *)
(* H is the width of half an integer, S and D the significant bits of a    *)
(* float and of a double.  An integer argument is the unsigned number with *)
(* its bits; a double that is cut off is given in quarters.                *)
(***************************************************************************)
EXTENDS Integers

CONSTANTS
    H,      \* 32 in the code
    S,      \* dstMantDig: 24
    D       \* 53
ASSUME FormatAssumption == /\ H \in Nat \ {0} /\ S \in Nat \ {0} /\ D \in Nat
                           /\ S + 2 < 2 * H /\ D < 2 * H  \* some integers need rounding
                           /\ H < D            \* a half fits the mantissa of a double

Bits == 2 * H
Ints == 0 .. 2^Bits - 1
Signed(x) == IF x >= 2^(Bits - 1) THEN x - 2^Bits ELSE x

\* The number of significant bits of v > 0: srcBits - __builtin_clzll(v).
Length(v) == CHOOSE k \in 1 .. Bits : 2^(k - 1) <= v /\ v < 2^k

----------------------------------------------------------------------------
(* __floatdisf *)

SetLowBit(x, cond) == IF cond /\ x % 2 = 0 THEN x + 1 ELSE x

\* The leading S bits of v, the next one (Q) and one (R) for all that follow.
WithGuardBits(v, sd) ==
    CASE sd = S + 1 -> 2 * v
      [] sd = S + 2 -> v
      [] sd > S + 2 -> SetLowBit(v \div 2^(sd - (S + 2)), v % 2^(sd - (S + 2)) # 0)

\* (A variant with a bug: ties are rounded up.)
RoundOffUp(x) == (x + 2) \div 4

\* Or the last bit kept (P) into R, add one, drop Q and R.
RoundOff(x) == (SetLowBit(x, (x \div 4) % 2 = 1) + 1) \div 4

\* Significand and exponent; rounding up may add a bit.
Significand(v) ==
    LET sd == Length(v)
        x  == RoundOff(WithGuardBits(v, sd))
    IN  IF sd > S
        THEN IF x >= 2^S THEN [sig |-> x \div 2, exp |-> sd] ELSE [sig |-> x, exp |-> sd - 1]
        ELSE [sig |-> v * 2^(S - sd), exp |-> sd - 1]

\* The float that is packed: the leading bit of the significand is implied.
ValueOf(f) == ((2^(S - 1) + (f.sig % 2^(S - 1))) * 2^f.exp) \div 2^(S - 1)

FloatDiSf(x) ==
    LET v == Signed(x)
    IN  CASE v = 0 -> 0
          [] v > 0 -> ValueOf(Significand(v))
          [] v < 0 -> -ValueOf(Significand(-v))

FloatUnDiSf(x) == FloatDiSf(x)

----------------------------------------------------------------------------
(* __floatdidf, __floatundidf *)

\* What a correctly rounded format of p bits makes of a natural number: ties
\* go to the even significand.
Nearest(p, v) ==
    IF v < 2^p THEN v
    ELSE LET unit == 2^(Length(v) - p)
             low  == v % unit
             down == v - low
         IN  IF 2 * low < unit \/ (2 * low = unit /\ (down \div unit) % 2 = 0)
             THEN down ELSE down + unit
RoundTo(p, v) == IF v < 0 THEN -Nearest(p, -v) ELSE Nearest(p, v)

\* + and - of doubles.
Plus(v, w) == RoundTo(D, v + w)

\* twop52 and twop84: the powers of two at which a double's last bit is worth 1
\* and 2^H. Or-ing a half into the mantissa of one adds that many units.
TwoP52 == 2^(D - 1)
TwoP84 == 2^(D - 1 + H)

FloatDiDf(x) ==
    LET high == (Signed(x) \div 2^H) * 2^H
        low  == TwoP52 + (x % 2^H)
    IN  Plus(Plus(high, -TwoP52), low)

\* (A variant with a bug: the high half is taken for signed.)
FloatUnDiDfSigned(x) ==
    LET high == TwoP84 + (Signed(x) \div 2^H) * 2^H
        low  == TwoP52 + (x % 2^H)
    IN  Plus(Plus(high, -(TwoP84 + TwoP52)), low)

FloatUnDiDf(x) ==
    LET high == TwoP84 + (x \div 2^H) * 2^H
        low  == TwoP52 + (x % 2^H)
    IN  Plus(Plus(high, -(TwoP84 + TwoP52)), low)

----------------------------------------------------------------------------
(* __fixunsdfdi, __fixdfdi *)

\* A double of k quarters; dividing by a power of two is exact, and so is the
\* subtraction. A negative one becomes 0.
FixUnsDfDi(k) ==
    IF k <= 0 THEN 0
    ELSE LET high == k \div (4 * 2^H)
             low  == (k - 4 * high * 2^H) \div 4
         IN  high * 2^H + low

\* (A variant with a bug: a negative number is not negated first.)
FixDfDiUnsigned(k) == FixUnsDfDi(k)

FixDfDi(k) == IF k < 0 THEN (-FixUnsDfDi(-k)) % 2^Bits ELSE FixUnsDfDi(k)

----------------------------------------------------------------------------
(* One conversion after another *)

VARIABLES function, arg, converted
convVars == <<function, arg, converted>>

IntFunctions == {"__floatdisf", "__floatundisf", "__floatdidf", "__floatundidf"}
FixFunctions == {"__fixunsdfdi", "__fixdfdi"}

\* The doubles for which the conversion to an integer is defined.
Quarters(f) == IF f = "__fixdfdi" THEN -4 * 2^(Bits - 1) .. 4 * 2^(Bits - 1) - 1
                                  ELSE -4 .. 4 * 2^Bits - 1

ConvInit == function = "none" /\ arg = 0 /\ converted = 0

ToFloat(f, x) ==
    /\ function' = f /\ arg' = x
    /\ converted' = CASE f = "__floatdisf"   -> FloatDiSf(x)
                      [] f = "__floatundisf" -> FloatUnDiSf(x)
                      [] f = "__floatdidf"   -> FloatDiDf(x)
                      [] f = "__floatundidf" -> FloatUnDiDf(x)

ToInt(f, k) ==
    /\ function' = f /\ arg' = k
    /\ converted' = IF f = "__fixdfdi" THEN FixDfDi(k) ELSE FixUnsDfDi(k)

ConvNext == /\ function = "none"
            /\ \/ \E f \in IntFunctions, x \in Ints : ToFloat(f, x)
               \/ \E f \in FixFunctions : \E k \in Quarters(f) : ToInt(f, k)

ConvSpec == ConvInit /\ [][ConvNext]_convVars

----------------------------------------------------------------------------

\* A signed integer becomes the nearest float, to even between two, though the
\* code rounds by hand with three guard bits.
SignedToNearest ==
    function = "__floatdisf" => converted = RoundTo(S, Signed(arg))

\* So does an unsigned one, as compiler-rt's function of that name has it.
UnsignedToNearest ==
    function = "__floatundisf" => converted = RoundTo(S, arg)

\* What is cut off is the fraction, for either sign and across the halves.
CutOff == /\ function = "__fixunsdfdi" => converted = (IF arg < 0 THEN 0 ELSE arg \div 4)
          /\ function = "__fixdfdi" =>
                 Signed(converted) = IF arg < 0 THEN -((-arg) \div 4) ELSE arg \div 4

\* An integer too long for a double becomes the nearest one as well.
DoubleToNearest ==
    /\ function = "__floatdidf" => converted = RoundTo(D, Signed(arg))
    /\ function = "__floatundidf" => converted = RoundTo(D, arg)
=============================================================================
