------------------------------ MODULE Division ------------------------------
(***************************************************************************)
(* 64-bit division in 32-bit halves: __udivmoddi4, the shift-and-subtract  *)
(* loop behind it, and the four functions the compiler calls,              *)
(* __udivdi3, __umoddi3, __divdi3 and __moddi3 (core/src/Runtime.cpp).     *)
(*                                                                         *)
(* W is the width of a half, n_uword_bits.  A signed argument or result is *)
(* the unsigned number with the same bits.  Division by zero is undefined  *)
(* in C and never asked for.                                               *)
(***************************************************************************)
EXTENDS Integers

CONSTANT W          \* 32 in the code
ASSUME WidthAssumption == W \in Nat /\ W >= 2

Half == 0 .. 2^W - 1
Dword == 0 .. 2^(2 * W) - 1

High(x) == x \div 2^W
Low(x) == x % 2^W
Join(high, low) == high * 2^W + low

\* << and >> on a half. Shifting by W or more is undefined; -1 stands for it.
Shl(x, k) == IF k \in 0 .. W - 1 THEN (x * 2^k) % 2^W ELSE -1
Shr(x, k) == IF k \in 0 .. W - 1 THEN x \div 2^k ELSE -1

\* (A variant with a bug: the second half is forgotten.)
OrFirst(x, y) == x

\* | of two halves without a common bit.
Or(x, y) == x + y

\* __builtin_clz and __builtin_ctz of a half other than 0.
Clz(x) == CHOOSE k \in 0 .. W - 1 : 2^(W - 1 - k) <= x /\ x < 2^(W - k)
Ctz(x) == CHOOSE k \in 0 .. W - 1 : x % 2^k = 0 /\ x % 2^(k + 1) # 0
PowerOf2(x) == x = 2^Ctz(x)

\* Differences of unsigned ints wrap.
USub(x, y) == (x - y) % 2^W

Ops == {"__udivdi3", "__umoddi3", "__divdi3", "__moddi3"}
IsSigned(op) == op \in {"__divdi3", "__moddi3"}
Negative(x) == x >= 2^(2 * W - 1)
Negate(x) == (-x) % 2^(2 * W)
Magnitude(op, x) == IF IsSigned(op) /\ Negative(x) THEN Negate(x) ELSE x

VARIABLES
    pc,         \* "call", "loop" or "done"
    op, a, b,   \* the function called and its arguments
    n, d,       \* numerator and denominator of __udivmoddi4
    q, r, sr, carry,
    result      \* what the function returns

vars == <<pc, op, a, b, n, d, q, r, sr, carry, result>>

\* (A variant with a bug: the remainder has the sign of the divisor.)
SignsOfDivisor(quotient, remainder) ==
    CASE op = "__udivdi3" -> quotient
      [] op = "__umoddi3" -> remainder
      [] op = "__divdi3"  -> IF Negative(a) # Negative(b) THEN Negate(quotient) ELSE quotient
      [] op = "__moddi3"  -> IF Negative(b) THEN Negate(remainder) ELSE remainder

\* The remainder has the sign of a, the quotient the product of the signs.
Signs(quotient, remainder) ==
    CASE op = "__udivdi3" -> quotient
      [] op = "__umoddi3" -> remainder
      [] op = "__divdi3"  -> IF Negative(a) # Negative(b) THEN Negate(quotient) ELSE quotient
      [] op = "__moddi3"  -> IF Negative(a) THEN Negate(remainder) ELSE remainder

Return(quotient, remainder) ==
    /\ result' = Signs(quotient, remainder)
    /\ pc' = "done"

Init ==
    /\ pc = "call"
    /\ op \in Ops /\ a \in Dword /\ b \in Dword \ {0}
    /\ n = Magnitude(op, a) /\ d = Magnitude(op, b)
    /\ q = 0 /\ r = 0 /\ sr = 0 /\ carry = 0 /\ result = 0

----------------------------------------------------------------------------
(* The special cases of __udivmoddi4 *)

\* 0 X / 0 X and 0 X / K X
SmallNumerator ==
    /\ pc = "call" /\ High(n) = 0
    /\ IF High(d) = 0 THEN Return(Low(n) \div Low(d), Low(n) % Low(d)) ELSE Return(0, Low(n))
    /\ UNCHANGED <<op, a, b, n, d, q, r, sr, carry>>

\* K 0 / K 0, and K K / K 0 for a power of 2
HighDenominator ==
    /\ pc = "call" /\ High(n) # 0 /\ Low(d) = 0
    /\ \/ Low(n) = 0 /\ Return(High(n) \div High(d), Join(High(n) % High(d), 0))
       \/ /\ Low(n) # 0 /\ PowerOf2(High(d))
          /\ Return(Shr(High(n), Ctz(High(d))), Join(High(n) % High(d), Low(n)))
    /\ UNCHANGED <<op, a, b, n, d, q, r, sr, carry>>

\* K X / 0 K for a power of 2
PowerDenominator ==
    /\ pc = "call" /\ High(n) # 0 /\ High(d) = 0 /\ PowerOf2(Low(d))
    /\ LET k == Ctz(Low(d))
       IN  IF Low(d) = 1
           THEN Return(n, 0)
           ELSE Return(Join(Shr(High(n), k), Or(Shl(High(n), W - k), Shr(Low(n), k))),
                       Low(n) % Low(d))
    /\ UNCHANGED <<op, a, b, n, d, q, r, sr, carry>>

\* No special case has answered yet, and the denominator has a high half or not.
General == /\ pc = "call" /\ High(n) # 0
           /\ ~(Low(d) = 0 /\ (Low(n) = 0 \/ PowerOf2(High(d))))
           /\ ~(High(d) = 0 /\ PowerOf2(Low(d)))
Wide == High(d) # 0

\* The difference of leading zeros, large when the denominator is the longer one.
ZerosMore == USub(Clz(High(d)), Clz(High(n)))
Longer == ZerosMore > (IF Low(d) = 0 THEN W - 2 ELSE W - 1)

\* (A variant with a bug: sr is not incremented.)
DistanceShort == IF Wide THEN ZerosMore ELSE 1 + W + Clz(Low(d)) - Clz(High(n))

Distance == IF Wide THEN ZerosMore + 1 ELSE 1 + W + Clz(Low(d)) - Clz(High(n))

DenominatorIsLonger ==
    /\ General /\ Wide /\ Longer
    /\ Return(0, n)
    /\ UNCHANGED <<op, a, b, n, d, q, r, sr, carry>>

----------------------------------------------------------------------------
(* The loop *)

\* q and r start as the two parts of n, put together from halves.
Setup ==
    /\ General /\ ~(Wide /\ Longer)
    /\ sr' = Distance
    /\ LET k == Distance
       IN  CASE k = W -> /\ q' = Join(Low(n), 0)
                         /\ r' = Join(0, High(n))
             [] k < W -> /\ q' = Join(Shl(Low(n), W - k), 0)
                         /\ r' = Join(Shr(High(n), k), Or(Shl(High(n), W - k), Shr(Low(n), k)))
             [] k > W -> /\ q' = Join(Or(Shl(High(n), 2 * W - k), Shr(Low(n), k - W)),
                                      Shl(Low(n), 2 * W - k))
                         /\ r' = Join(0, Shr(High(n), k - W))
    /\ carry' = 0
    /\ pc' = "loop"
    /\ UNCHANGED <<op, a, b, n, d, result>>

\* r:q moves left by a bit, carry comes in on the right.
Shifted(x, bit) == (2 * x + bit) % 2^(2 * W)
TopBit(x) == x \div 2^(2 * W - 1)

\* (A variant with a bug: d does not fit into itself.)
DFitsStrictly(rem) == Negative((d - rem) % 2^(2 * W))

\* The sign of d - r - 1 tells whether d still fits into r.
DFits(rem) == Negative((d - rem - 1) % 2^(2 * W))

Iterate ==
    /\ pc = "loop" /\ sr > 0
    /\ LET rem == Shifted(r, TopBit(q))
       IN  /\ carry' = IF DFits(rem) THEN 1 ELSE 0
           /\ r' = IF DFits(rem) THEN (rem - d) % 2^(2 * W) ELSE rem
    /\ q' = Shifted(q, carry)
    /\ sr' = sr - 1
    /\ UNCHANGED <<pc, op, a, b, n, d, result>>

LoopEnds ==
    /\ pc = "loop" /\ sr = 0
    /\ q' = Shifted(q, carry)
    /\ Return(q', r)
    /\ UNCHANGED <<op, a, b, n, d, r, sr, carry>>

Returned == pc = "done" /\ UNCHANGED vars

Next == \/ SmallNumerator \/ HighDenominator \/ PowerDenominator \/ DenominatorIsLonger
        \/ Setup \/ Iterate \/ LoopEnds \/ Returned

Spec == Init /\ [][Next]_vars

----------------------------------------------------------------------------
(* What division promises *)

\* The sign-and-magnitude value of a bit pattern.
Value(x) == IF IsSigned(op) /\ Negative(x) THEN x - 2^(2 * W) ELSE x
AbsOf(v) == IF v < 0 THEN -v ELSE v

\* Halves and double words stay in their widths: no shift was undefined.
TypeOK ==
    /\ pc \in {"call", "loop", "done"} /\ op \in Ops
    /\ a \in Dword /\ b \in Dword \ {0} /\ n \in Dword /\ d \in Dword \ {0}
    /\ q \in Dword /\ r \in Dword /\ carry \in {0, 1}
    /\ sr \in 0 .. 2 * W - 1
    /\ result \in Dword

\* Every function returns what C asks of / and %: the quotient is truncated
\* towards zero and the remainder has the sign of the dividend. The one
\* quotient that does not fit wraps.
QuotientOf(x, y) == IF (x < 0) # (y < 0) THEN -(AbsOf(x) \div AbsOf(y)) ELSE AbsOf(x) \div AbsOf(y)
DividesCorrectly ==
    pc = "done" =>
        LET x == Value(a) y == Value(b) z == QuotientOf(x, y)
        IN  result = (IF op \in {"__udivdi3", "__divdi3"} THEN z ELSE x - y * z) % 2^(2 * W)

\* In each round of the loop the leading bits of n are divided: the quotient
\* bits gathered so far, times d, plus r, are n without its last sr bits, and r
\* is smaller than d.
PartialQuotient == (2 * q + carry) % 2^(Distance - sr)
LeadingBitsDivided ==
    pc = "loop" => r < d /\ n \div 2^sr = d * PartialQuotient + r

\* The comment "q and r are initialized with q.all = n.all << (n_udword_bits -
\* sr), r.all = n.all >> sr, 1 <= sr <= n_udword_bits - 1", for all ways into the
\* loop.
EntersAsCommented ==
    pc = "loop" /\ sr = Distance =>
        /\ q = (n * 2^(2 * W - sr)) % 2^(2 * W)
        /\ r = n \div 2^sr
        /\ sr \in 1 .. 2 * W - 1
=============================================================================
