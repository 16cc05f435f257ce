--------------------------- MODULE RuntimeProofs ---------------------------
(***************************************************************************)
(* Division, for every width of a half: the special cases and the loop of  *)
(* __udivmoddi4 yield quotient and remainder, and its four callers give    *)
(* them the signs that C asks for.  Conversion, for all widths of integers *)
(* and significands: rounded to the nearest or cut off.  And the C library *)
(* functions, for strings of every length: what C says of their results.   *)
(***************************************************************************)
EXTENDS Division, Conversion, Libc, FiniteSetTheorems, SequenceTheorems, WellFoundedInduction, TLAPS

----------------------------------------------------------------------------
(* Powers of two.  A power of two is the number of subsets of a set.       *)

\* The sets of a + b things are the pairs of a set of a and a set of b of them.
LEMMA PowerOfSum == ASSUME NEW i \in Nat, NEW j \in Nat PROVE 2^(i + j) = 2^i * 2^j
<1> DEFINE A == 1 .. i
           B == i + 1 .. i + j
           C == 1 .. i + j
           f == [s \in SUBSET C |-> <<s \cap A, s \cap B>>]
<1>1. /\ IsFiniteSet(A) /\ Cardinality(A) = i
      /\ IsFiniteSet(B) /\ Cardinality(B) = j
      /\ IsFiniteSet(C) /\ Cardinality(C) = i + j
      <2>1. /\ IsFiniteSet(A) /\ Cardinality(A) = IF 1 > i THEN 0 ELSE i - 1 + 1
            /\ IsFiniteSet(B)
            /\ Cardinality(B) = IF i + 1 > i + j THEN 0 ELSE (i + j) - (i + 1) + 1
            /\ IsFiniteSet(C) /\ Cardinality(C) = IF 1 > i + j THEN 0 ELSE (i + j) - 1 + 1
            <3>1. 1 \in Int /\ i \in Int /\ i + 1 \in Int /\ i + j \in Int
                  OBVIOUS
            <3> QED BY <3>1, FS_Interval
      <2> QED BY <2>1
<1>2. C = A \cup B /\ A \cap B = {}
      OBVIOUS
<1> HIDE DEF A, B, C
<1>3. /\ IsFiniteSet(SUBSET A) /\ Cardinality(SUBSET A) = 2^i
      /\ IsFiniteSet(SUBSET B) /\ Cardinality(SUBSET B) = 2^j
      /\ IsFiniteSet(SUBSET C) /\ Cardinality(SUBSET C) = 2^(i + j)
      BY <1>1, FS_SUBSET
<1>4. f \in Bijection(SUBSET C, (SUBSET A) \X (SUBSET B))
      <2>1. f \in [SUBSET C -> (SUBSET A) \X (SUBSET B)]
            OBVIOUS
      <2>2. ASSUME NEW s \in SUBSET C, NEW t \in SUBSET C, f[s] = f[t] PROVE s = t
            <3>1. s \cap A = t \cap A /\ s \cap B = t \cap B
                  BY <2>2
            <3> QED BY <1>2, <3>1
      <2>3. ASSUME NEW p \in (SUBSET A) \X (SUBSET B)
            PROVE  \E s \in SUBSET C : f[s] = p
            <3>1. PICK x \in SUBSET A, y \in SUBSET B : p = <<x, y>>
                  OBVIOUS
            <3>2. x \cup y \in SUBSET C
                  BY <1>2
            <3>3. (x \cup y) \cap A = x /\ (x \cup y) \cap B = y
                  BY <1>2
            <3> QED BY <3>1, <3>2, <3>3
      <2> HIDE DEF f
      <2>4. IsInjective(f)
            BY <2>1, <2>2 DEF IsInjective
      <2>5. f \in Injection(SUBSET C, (SUBSET A) \X (SUBSET B))
            BY <2>1, <2>4 DEF Injection
      <2>6. f \in Surjection(SUBSET C, (SUBSET A) \X (SUBSET B))
            BY <2>1, <2>3 DEF Surjection
      <2> QED BY <2>5, <2>6 DEF Bijection
<1>5. Cardinality((SUBSET A) \X (SUBSET B)) = Cardinality(SUBSET C)
      <2>1. ExistsBijection(SUBSET C, (SUBSET A) \X (SUBSET B))
            BY <1>4 DEF ExistsBijection
      <2> QED BY <1>3, <2>1, FS_Bijection
<1>6. Cardinality((SUBSET A) \X (SUBSET B)) = Cardinality(SUBSET A) * Cardinality(SUBSET B)
      BY <1>3, FS_Product
<1> QED BY <1>3, <1>5, <1>6

\* There is at least the empty set.
LEMMA PowerIsPositive == ASSUME NEW i \in Nat PROVE 2^i \in Nat \ {0}
<1>1. IsFiniteSet(1 .. i) /\ Cardinality(1 .. i) = i
      <2>1. IsFiniteSet(1 .. i) /\ Cardinality(1 .. i) = IF 1 > i THEN 0 ELSE i - 1 + 1
            BY FS_Interval
      <2> QED BY <2>1
<1>2. IsFiniteSet(SUBSET (1 .. i)) /\ Cardinality(SUBSET (1 .. i)) = 2^i
      BY <1>1, FS_SUBSET
<1>3. SUBSET (1 .. i) # {}
      OBVIOUS
<1>4. Cardinality(SUBSET (1 .. i)) # 0 /\ Cardinality(SUBSET (1 .. i)) \in Nat
      BY <1>2, <1>3, FS_EmptySet, FS_CardinalityType
<1> QED BY <1>2, <1>4

\* The next power is twice as large, and a later one no smaller than that.
LEMMA PowersGrow ==
    /\ 2^0 = 1 /\ 2^1 = 2
    /\ \A i \in Nat : 2^(i + 1) = 2 * 2^i
    /\ \A i, j \in Nat : i < j => 2 * 2^i <= 2^j
    /\ \A i, j \in Nat : i <= j => 2^i <= 2^j
<1>1. 2^0 = 1 /\ 2^1 = 2
      OBVIOUS
<1>2. ASSUME NEW i \in Nat PROVE 2^(i + 1) = 2 * 2^i
      <2>1. 2^(i + 1) = 2^i * 2^1
            BY PowerOfSum
      <2> QED BY <1>1, <2>1, PowerIsPositive
<1>3. ASSUME NEW i \in Nat, NEW j \in Nat, i <= j PROVE 2^i <= 2^j
      <2> DEFINE k == j - i
      <2>1. k \in Nat /\ j = i + k
            BY <1>3
      <2> HIDE DEF k
      <2>2. 2^j = 2^i * 2^k
            BY <2>1, PowerOfSum
      <2>3. 2^i \in Nat \ {0} /\ 2^k \in Nat \ {0}
            BY <2>1, PowerIsPositive
      <2>4. \A m, l \in Nat \ {0} : m <= m * l
            OBVIOUS
      <2> QED BY <2>2, <2>3, <2>4
<1>4. ASSUME NEW i \in Nat, NEW j \in Nat, i < j PROVE 2 * 2^i <= 2^j
      <2>1. i + 1 \in Nat /\ i + 1 <= j
            BY <1>4
      <2>2. 2^(i + 1) <= 2^j
            BY <1>3, <2>1
      <2> QED BY <1>2, <2>2
<1> QED BY <1>1, <1>2, <1>3, <1>4

\* A set of numbers has a least one.
LEMMA LeastNumber ==
    ASSUME NEW T \in SUBSET Nat, T # {}
    PROVE  \E x \in T : \A y \in T : x <= y
<1> DEFINE R == {p \in Nat \X Nat : p[1] < p[2]}
<1>1. IsWellFoundedOn(R, Nat)
      BY NatLessThanWellFounded DEF OpToRel
<1>2. \A x, y \in Nat : y < x => <<y, x>> \in R
      OBVIOUS
<1> HIDE DEF R
<1>3. PICK x \in T : \A y \in T : ~(<<y, x>> \in R)
      BY <1>1, WFMin
<1>4. ASSUME NEW y \in T PROVE x <= y
      <2>1. x \in Nat /\ y \in Nat
            OBVIOUS
      <2>2. ~(y < x)
            BY <1>2, <1>3, <2>1
      <2> QED BY <2>1, <2>2
<1> QED BY <1>4

\* A number is smaller than its power.
LEMMA PowerIsLarger == ASSUME NEW n0 \in Nat PROVE n0 < 2^n0
<1> DEFINE T == {k \in Nat : ~(k < 2^k)}
<1>1. ASSUME T # {} PROVE FALSE
      <2>1. PICK k \in T : \A y \in T : k <= y
            BY <1>1, LeastNumber
      <2>2. k \in Nat /\ ~(k < 2^k)
            BY <2>1
      <2>3. k # 0
            <3>1. 0 < 2^0
                  BY PowersGrow
            <3> QED BY <2>2, <3>1
      <2>4. k - 1 \in Nat /\ ~(k <= k - 1)
            BY <2>2, <2>3
      <2>5. k - 1 < 2^(k - 1)
            BY <2>1, <2>4
      <2>6. 2 * 2^(k - 1) <= 2^k
            BY <2>2, <2>4, PowersGrow
      <2>7. 2^(k - 1) \in Nat /\ 2^k \in Nat
            BY <2>2, <2>4, PowerIsPositive
      <2> QED BY <2>2, <2>3, <2>5, <2>6, <2>7
<1> QED BY <1>1

----------------------------------------------------------------------------
(* Quotients and remainders *)

\* There is only one way to divide.
LEMMA DivUnique ==
    ASSUME NEW m \in Nat \ {0}, NEW x \in Int, NEW k \in Int, NEW y \in 0 .. m - 1, x = k * m + y
    PROVE  x \div m = k /\ x % m = y
<1> DEFINE c == x \div m
           e == x % m
<1>1. c \in Int /\ e \in 0 .. m - 1 /\ x = c * m + e
      OBVIOUS
<1>2. \A t \in Int : t >= 1 => t * m >= m
      OBVIOUS
<1>3. \A t \in Int : t <= -1 => t * m <= -m
      OBVIOUS
<1> HIDE DEF c, e
<1>4. c - k \in Int /\ (c - k) * m = y - e
      BY <1>1
<1>5. y - e < m /\ y - e > -m
      BY <1>1
<1>6. ~(c - k >= 1) /\ ~(c - k <= -1)
      BY <1>2, <1>3, <1>4, <1>5
<1>7. c = k
      BY <1>1, <1>6
<1>8. e = y
      BY <1>1, <1>7
<1> QED BY <1>7, <1>8 DEF c, e

\* What a natural number is divided into.
LEMMA DivParts ==
    ASSUME NEW m \in Nat \ {0}, NEW x \in Nat
    PROVE  /\ x \div m \in Nat /\ x % m \in 0 .. m - 1
           /\ x = (x \div m) * m + (x % m)
           /\ x \div m <= x
<1> DEFINE c == x \div m
           e == x % m
<1>1. c \in Int /\ e \in 0 .. m - 1 /\ x = c * m + e
      OBVIOUS
<1>2. \A t \in Int : t <= -1 => t * m <= -m
      OBVIOUS
<1>3. \A t \in Nat : t <= t * m
      OBVIOUS
<1> HIDE DEF c, e
<1>4. c \in Nat
      BY <1>1, <1>2
<1>5. c <= x
      BY <1>1, <1>3, <1>4
<1> QED BY <1>1, <1>4, <1>5 DEF c, e

\* The number of values of a half and of a double word.
Radix == 2^W
Modulus == 2^(2 * W)

\* A double word is two halves.
LEMMA Sizes ==
    /\ W \in Nat /\ W >= 2
    /\ Radix \in Nat \ {0} /\ Modulus \in Nat \ {0} /\ Modulus = Radix * Radix
    /\ Half = 0 .. Radix - 1 /\ Dword = 0 .. Modulus - 1
    /\ 2^(2 * W - 1) \in Nat \ {0} /\ Modulus = 2 * 2^(2 * W - 1)
    /\ 4 <= Radix /\ 16 <= Modulus
<1>1. W \in Nat /\ W >= 2
      BY WidthAssumption
<1>2. 2 * W = W + W /\ 2 * W \in Nat /\ 2 * W - 1 \in Nat
      BY <1>1
<1>3. Modulus = Radix * Radix
      BY <1>1, <1>2, PowerOfSum DEF Radix, Modulus
<1>4. Radix \in Nat \ {0} /\ Modulus \in Nat \ {0} /\ 2^(2 * W - 1) \in Nat \ {0}
      BY <1>1, <1>2, PowerIsPositive DEF Radix, Modulus
<1>5. Modulus = 2 * 2^(2 * W - 1)
      <2>1. (2 * W - 1) + 1 = 2 * W
            BY <1>1
      <2> QED BY <1>2, <2>1, PowersGrow DEF Modulus
<1>6. 4 <= Radix
      <2>1. 2^2 = 4 /\ 2 \in Nat
            OBVIOUS
      <2> QED BY <1>1, <2>1, PowersGrow DEF Radix
<1>7. 16 <= Modulus
      <2>1. \A x \in Nat : 4 <= x => 16 <= x * x
            OBVIOUS
      <2> QED BY <1>3, <1>4, <1>6, <2>1
<1> QED BY <1>1, <1>3, <1>4, <1>5, <1>6, <1>7 DEF Half, Dword, Radix, Modulus

\* The two halves of a double word put it together.
LEMMA Halves ==
    ASSUME NEW x \in Dword
    PROVE  /\ High(x) \in 0 .. Radix - 1 /\ Low(x) \in 0 .. Radix - 1
           /\ x = High(x) * Radix + Low(x)
<1>1. x \in Nat /\ x < Radix * Radix /\ Radix \in Nat \ {0}
      BY Sizes
<1>2. High(x) = x \div Radix /\ Low(x) = x % Radix
      BY DEF High, Low, Radix
<1>3. High(x) \in Nat /\ Low(x) \in 0 .. Radix - 1 /\ x = High(x) * Radix + Low(x)
      BY <1>1, <1>2, DivParts
<1>4. ~(High(x) >= Radix)
      <2>1. \A h, m \in Nat : h >= m => h * m >= m * m
            OBVIOUS
      <2> QED BY <1>1, <1>3, <2>1
<1> QED BY <1>1, <1>3, <1>4

\* Two halves are a double word, with these halves.
LEMMA Joined ==
    ASSUME NEW h \in 0 .. Radix - 1, NEW l \in 0 .. Radix - 1
    PROVE  /\ Join(h, l) = h * Radix + l /\ Join(h, l) \in Dword
           /\ High(Join(h, l)) = h /\ Low(Join(h, l)) = l
<1>1. Radix \in Nat \ {0} /\ Modulus = Radix * Radix /\ Dword = 0 .. Modulus - 1
      BY Sizes
<1>2. Join(h, l) = h * Radix + l
      BY DEF Join, Radix
<1>3. ASSUME NEW m \in Nat, NEW y \in 0 .. m - 1, NEW z \in 0 .. m - 1
      PROVE  y * m + z >= 0 /\ y * m + z < m * m
      <2>1. y * m <= (m - 1) * m /\ y * m >= 0
            OBVIOUS
      <2>2. (m - 1) * m = m * m - m
            OBVIOUS
      <2> QED BY <2>1, <2>2
<1>4. Join(h, l) \in Dword
      <2>1. h * Radix \in Int /\ Radix * Radix \in Int
            BY <1>1
      <2> QED BY <1>1, <1>2, <1>3, <2>1
<1>5. Join(h, l) \in Int /\ h \in Int
      BY <1>1, <1>2
<1>6. Join(h, l) \div Radix = h /\ Join(h, l) % Radix = l
      BY <1>1, <1>2, <1>5, DivUnique
<1> QED BY <1>2, <1>4, <1>6 DEF High, Low, Radix

\* The number of leading zeros says between which powers a number lies.
LEMMA ClzIs ==
    ASSUME NEW x \in 1 .. Radix - 1
    PROVE  /\ Clz(x) \in 0 .. W - 1
           /\ 2^(W - 1 - Clz(x)) <= x /\ x < 2^(W - Clz(x))
<1> DEFINE T == {k \in Nat : x < 2^k}
<1>1. W \in Nat /\ Radix \in Nat /\ x \in Nat /\ x < 2^W
      BY Sizes DEF Radix
<1>2. PICK m \in T : \A k \in T : m <= k
      <2>1. T # {}
            BY <1>1
      <2> QED BY <2>1, LeastNumber
<1>3. m \in Nat /\ x < 2^m /\ m <= W
      BY <1>1, <1>2
<1>4. m # 0
      <2>1. ~(x < 2^0)
            BY PowersGrow
      <2> QED BY <1>3, <2>1
<1>5. m - 1 \in Nat /\ ~(x < 2^(m - 1)) /\ 2^(m - 1) \in Nat
      <2>1. m - 1 \in Nat /\ ~(m <= m - 1)
            BY <1>3, <1>4
      <2> QED BY <1>2, <2>1, PowerIsPositive
<1>6. 2^(m - 1) <= x
      BY <1>1, <1>5
<1>7. \E k \in 0 .. W - 1 : 2^(W - 1 - k) <= x /\ x < 2^(W - k)
      <2> DEFINE k == W - m
      <2>1. k \in 0 .. W - 1 /\ W - 1 - k = m - 1 /\ W - k = m
            BY <1>1, <1>3, <1>4
      <2> QED BY <1>3, <1>6, <2>1
<1> QED BY <1>7 DEF Clz

\* The number of trailing zeros.
LEMMA CtzIs ==
    ASSUME NEW x \in 1 .. Radix - 1
    PROVE  Ctz(x) \in 0 .. W - 1 /\ x % 2^Ctz(x) = 0
<1> DEFINE T == {k \in Nat : x % 2^(k + 1) # 0}
<1>1. W \in Nat /\ W >= 2 /\ Radix \in Nat \ {0} /\ x \in Nat
      BY Sizes
<1>2. x % Radix = x
      <2>1. x \in Int /\ x \in 0 .. Radix - 1 /\ 0 \in Int /\ x = 0 * Radix + x
            BY <1>1
      <2> QED BY <1>1, <2>1, DivUnique
<1>3. W - 1 \in T
      <2>1. W - 1 \in Nat /\ (W - 1) + 1 = W
            BY <1>1
      <2> QED BY <1>1, <1>2, <2>1 DEF Radix
<1>4. PICK m \in T : \A k \in T : m <= k
      BY <1>3, LeastNumber
<1>5. m \in Nat /\ m <= W - 1 /\ x % 2^(m + 1) # 0
      BY <1>3, <1>4
<1>6. x % 2^m = 0
      <2>1. CASE m = 0
            <3>1. 2^0 = 1 /\ x % 1 = 0
                  BY <1>1
            <3> QED BY <2>1, <3>1
      <2>2. CASE m # 0
            <3>1. m - 1 \in Nat /\ ~(m <= m - 1) /\ (m - 1) + 1 = m
                  BY <1>5, <2>2
            <3> QED BY <1>4, <3>1
      <2> QED BY <2>1, <2>2
<1>7. \E k \in 0 .. W - 1 : x % 2^k = 0 /\ x % 2^(k + 1) # 0
      BY <1>1, <1>5, <1>6
<1> QED BY <1>7 DEF Ctz

----------------------------------------------------------------------------
(* Shifts over the border of the halves *)

\* The powers that make up a half.
LEMMA HalfSplits ==
    ASSUME NEW k \in 1 .. W - 1
    PROVE  /\ 2^k \in Nat \ {0} /\ 2^(W - k) \in Nat \ {0} /\ Radix = 2^k * 2^(W - k)
           /\ k \in Nat /\ W - k \in 1 .. W - 1
<1>1. k \in Nat /\ W - k \in Nat /\ k + (W - k) = W /\ W - k \in 1 .. W - 1
      BY Sizes
<1>2. 2^W = 2^k * 2^(W - k)
      BY <1>1, PowerOfSum
<1> QED BY <1>1, <1>2, PowerIsPositive DEF Radix

\* A left shift keeps the low bits.
LEMMA ShlIs ==
    ASSUME NEW x \in 0 .. Radix - 1, NEW k \in 1 .. W - 1
    PROVE  /\ Shl(x, W - k) = (x % 2^k) * 2^(W - k)
           /\ Shl(x, W - k) \in 0 .. Radix - 2^(W - k)
<1> DEFINE u == 2^k
           v == 2^(W - k)
           x1 == x \div u
           x0 == x % u
<1>1. u \in Nat \ {0} /\ v \in Nat \ {0} /\ Radix = u * v /\ Radix \in Nat \ {0}
      BY HalfSplits, Sizes
<1>2. Shl(x, W - k) = (x * v) % Radix
      <2>1. W - k \in 0 .. W - 1
            BY HalfSplits
      <2> QED BY <2>1 DEF Shl, Radix
<1> HIDE DEF u, v
<1>3. x1 \in Nat /\ x0 \in 0 .. u - 1 /\ x = x1 * u + x0
      <2>1. x \in Nat
            BY <1>1
      <2> QED BY <1>1, <2>1, DivParts
<1> HIDE DEF x1, x0
<1>4. x * v = x1 * Radix + x0 * v
      BY <1>1, <1>3
<1>5. x0 * v \in 0 .. Radix - v
      <2>1. x0 * v <= (u - 1) * v /\ x0 * v >= 0
            BY <1>1, <1>3
      <2>2. (u - 1) * v = Radix - v
            BY <1>1
      <2>3. x0 * v \in Int
            BY <1>1, <1>3
      <2> QED BY <1>1, <2>1, <2>2, <2>3
<1>6. (x * v) % Radix = x0 * v
      <2> DEFINE z == x0 * v
                 w == x * v
      <2>1. w \in Int /\ z \in 0 .. Radix - 1 /\ w = x1 * Radix + z /\ x1 \in Int
            BY <1>1, <1>3, <1>4, <1>5
      <2> HIDE DEF z, w
      <2>2. w % Radix = z
            BY <1>1, <2>1, DivUnique
      <2> QED BY <2>2 DEF z, w
<1> QED BY <1>2, <1>5, <1>6 DEF u, v, x0

\* A right shift keeps the high bits.
LEMMA ShrIs ==
    ASSUME NEW x \in 0 .. Radix - 1, NEW k \in 1 .. W - 1
    PROVE  /\ Shr(x, k) = x \div 2^k
           /\ Shr(x, k) \in 0 .. 2^(W - k) - 1
<1> DEFINE u == 2^k
           v == 2^(W - k)
           x1 == x \div u
<1>1. u \in Nat \ {0} /\ v \in Nat \ {0} /\ Radix = u * v
      BY HalfSplits
<1>2. Shr(x, k) = x1
      BY Sizes DEF Shr
<1> HIDE DEF u, v
<1>3. x1 \in Nat /\ x % u \in 0 .. u - 1 /\ x = x1 * u + (x % u)
      <2>1. x \in Nat
            BY Sizes
      <2> QED BY <1>1, <2>1, DivParts
<1> HIDE DEF x1
<1>4. ~(x1 >= v)
      <2>1. x1 >= v => x1 * u >= v * u
            BY <1>1, <1>3
      <2>2. v * u = Radix /\ x1 * u \in Nat /\ Radix \in Nat
            BY <1>1, <1>3, Sizes
      <2> QED BY <1>3, <2>1, <2>2
<1> QED BY <1>1, <1>2, <1>3, <1>4 DEF u, v, x1

\* A double word shifted right by less than a half, put together from halves.
LEMMA ShiftedByLess ==
    ASSUME NEW x \in Dword, NEW k \in 1 .. W - 1
    PROVE  /\ x \div 2^k = Join(Shr(High(x), k), Or(Shl(High(x), W - k), Shr(Low(x), k)))
           /\ x % 2^k = Low(x) % 2^k
           /\ Shr(High(x), k) \in 0 .. Radix - 1
           /\ Or(Shl(High(x), W - k), Shr(Low(x), k)) \in 0 .. Radix - 1
<1> DEFINE u == 2^k
           v == 2^(W - k)
           h == High(x)
           l == Low(x)
           h1 == h \div u
           h0 == h % u
           l1 == l \div u
           l0 == l % u
<1>1. u \in Nat \ {0} /\ v \in Nat \ {0} /\ Radix = u * v /\ Radix \in Nat \ {0}
      BY HalfSplits, Sizes
<1>2. h \in 0 .. Radix - 1 /\ l \in 0 .. Radix - 1 /\ x = h * Radix + l
      BY Halves
<1>3. /\ Shr(h, k) = h1 /\ h1 \in 0 .. v - 1
      /\ Shr(l, k) = l1 /\ l1 \in 0 .. v - 1
      /\ Shl(h, W - k) = h0 * v /\ h0 * v \in 0 .. Radix - v
      BY <1>2, ShlIs, ShrIs
<1> HIDE DEF u, v, h, l
<1>4. /\ h0 \in 0 .. u - 1 /\ h = h1 * u + h0
      /\ l0 \in 0 .. u - 1 /\ l = l1 * u + l0
      <2>1. h \in Nat /\ l \in Nat
            BY <1>1, <1>2
      <2> QED BY <1>1, <2>1, DivParts
<1> HIDE DEF h1, h0, l1, l0
<1>5. Shr(h, k) \in 0 .. Radix - 1
      <2>1. v <= u * v
            BY <1>1
      <2> QED BY <1>1, <1>3, <2>1
<1>6. Or(Shl(h, W - k), Shr(l, k)) = h0 * v + l1 /\ h0 * v + l1 \in 0 .. Radix - 1
      <2>1. Or(Shl(h, W - k), Shr(l, k)) = h0 * v + l1
            BY <1>3 DEF Or
      <2> QED BY <1>1, <1>3, <2>1
<1>7. Join(Shr(h, k), Or(Shl(h, W - k), Shr(l, k))) = h1 * Radix + (h0 * v + l1)
      BY <1>3, <1>6 DEF Join, Radix
<1>8. x = (h1 * Radix + (h0 * v + l1)) * u + l0
      <2>1. h * Radix = h1 * u * Radix + h0 * Radix
            BY <1>1, <1>3, <1>4
      <2>2. h0 * Radix = h0 * v * u
            BY <1>1, <1>4
      <2>3. x = h1 * u * Radix + h0 * v * u + l1 * u + l0
            BY <1>1, <1>2, <1>3, <1>4, <2>1, <2>2
      <2> QED BY <1>1, <1>3, <1>4, <2>3
<1>9. x \div u = h1 * Radix + (h0 * v + l1) /\ x % u = l0
      <2> DEFINE z == h1 * Radix + (h0 * v + l1)
      <2>1. z \in Int /\ x \in Int
            BY <1>1, <1>3, <1>6, Sizes
      <2>2. x = z * u + l0
            BY <1>8
      <2> HIDE DEF z
      <2>3. x \div u = z /\ x % u = l0
            BY <1>1, <1>4, <2>1, <2>2, DivUnique
      <2> QED BY <2>3 DEF z
<1> QED BY <1>5, <1>6, <1>7, <1>9 DEF u, h, l, l0

\* A double word shifted right by more than a half.
LEMMA ShiftedByMore ==
    ASSUME NEW x \in Dword, NEW k \in 1 .. W - 1
    PROVE  /\ x \div 2^(W + k) = Join(0, Shr(High(x), k))
           /\ (x % 2^(W + k)) * 2^(W - k) =
                  Join(Or(Shl(High(x), W - k), Shr(Low(x), k)), Shl(Low(x), W - k))
           /\ Shr(High(x), k) \in 0 .. Radix - 1
           /\ Or(Shl(High(x), W - k), Shr(Low(x), k)) \in 0 .. Radix - 1
           /\ Shl(Low(x), W - k) \in 0 .. Radix - 1
<1> DEFINE u == 2^k
           v == 2^(W - k)
           h == High(x)
           l == Low(x)
           h1 == h \div u
           h0 == h % u
           l1 == l \div u
           l0 == l % u
<1>1. u \in Nat \ {0} /\ v \in Nat \ {0} /\ Radix = u * v /\ Radix \in Nat \ {0}
      BY HalfSplits, Sizes
<1>2. h \in 0 .. Radix - 1 /\ l \in 0 .. Radix - 1 /\ x = h * Radix + l
      BY Halves
<1>3. /\ Shr(h, k) = h1 /\ h1 \in 0 .. v - 1
      /\ Shr(l, k) = l1
      /\ Shl(l, W - k) = l0 * v /\ l0 * v \in 0 .. Radix - v
      /\ Shl(h, W - k) = h0 * v
      BY <1>2, ShlIs, ShrIs
<1>4. /\ Shr(h, k) \in 0 .. Radix - 1
      /\ Or(Shl(h, W - k), Shr(l, k)) \in 0 .. Radix - 1
      BY ShiftedByLess
<1>5. 2^(W + k) = Radix * u
      <2>1. W \in Nat /\ k \in Nat
            BY Sizes
      <2> QED BY <2>1, PowerOfSum DEF Radix
<1> HIDE DEF u, v, h, l
<1>6. /\ h0 \in 0 .. u - 1 /\ h = h1 * u + h0
      /\ l0 \in 0 .. u - 1 /\ l1 \in Nat /\ l = l1 * u + l0
      <2>1. h \in Nat /\ l \in Nat
            BY <1>1, <1>2
      <2> QED BY <1>1, <2>1, DivParts
<1> HIDE DEF h1, h0, l1, l0
<1> DEFINE M == Radix * u
           y == h0 * Radix + l
<1>7. M \in Nat \ {0} /\ y \in 0 .. M - 1
      <2>1. h0 * Radix <= (u - 1) * Radix /\ h0 * Radix >= 0 /\ h0 * Radix \in Int
            BY <1>1, <1>6
      <2>2. (u - 1) * Radix = Radix * u - Radix /\ Radix * u \in Nat \ {0}
            BY <1>1
      <2> QED BY <1>1, <1>2, <2>1, <2>2
<1>8. x = h1 * M + y
      <2>1. h * Radix = h1 * (Radix * u) + h0 * Radix
            BY <1>1, <1>3, <1>6
      <2>2. h1 * (Radix * u) \in Int /\ h0 * Radix \in Int
            BY <1>1, <1>3, <1>6
      <2> QED BY <1>2, <2>1, <2>2
<1>9. x \div M = h1 /\ x % M = y
      <2>1. x \in Int /\ h1 \in Int
            BY <1>3, Sizes
      <2> HIDE DEF M, y
      <2> QED BY <1>7, <1>8, <2>1, DivUnique
<1>10. Join(0, Shr(h, k)) = h1
      <2>1. 0 * Radix = 0 /\ 0 + h1 = h1
            BY <1>1, <1>3
      <2> QED BY <1>3, <2>1 DEF Join, Radix
<1>11. Join(Or(Shl(h, W - k), Shr(l, k)), Shl(l, W - k)) = (h0 * v + l1) * Radix + l0 * v
      BY <1>3 DEF Join, Or, Radix
<1>12. y * v = (h0 * v + l1) * Radix + l0 * v
      <2>1. y * v = h0 * v * Radix + l * v
            BY <1>1, <1>2, <1>6
      <2>2. l * v = l1 * Radix + l0 * v
            BY <1>1, <1>6
      <2>3. (h0 * v + l1) * Radix = h0 * v * Radix + l1 * Radix
            BY <1>1, <1>6
      <2>4. h0 * v * Radix \in Int /\ l1 * Radix \in Int /\ l0 * v \in Int
            BY <1>1, <1>6
      <2> HIDE DEF y
      <2> QED BY <2>1, <2>2, <2>3, <2>4
<1>13. Shl(l, W - k) \in 0 .. Radix - 1
      BY <1>1, <1>3
<1> QED BY <1>4, <1>5, <1>9, <1>10, <1>11, <1>12, <1>13 DEF u, v, h, l

----------------------------------------------------------------------------
(* How far the divisor is moved *)

\* The leading zeros of a double word.
LeadingZeros(x) == IF High(x) # 0 THEN Clz(High(x)) ELSE W + Clz(Low(x))

\* The leading zeros of a double word say between which powers it lies.
LEMMA LeadingZerosIs ==
    ASSUME NEW x \in Dword, x # 0
    PROVE  /\ LeadingZeros(x) \in 0 .. 2 * W - 1
           /\ 2^(2 * W - 1 - LeadingZeros(x)) <= x /\ x < 2^(2 * W - LeadingZeros(x))
<1>1. /\ High(x) \in 0 .. Radix - 1 /\ Low(x) \in 0 .. Radix - 1
      /\ x = High(x) * Radix + Low(x)
      BY Halves
<1>2. W \in Nat /\ W >= 2 /\ Radix \in Nat \ {0}
      BY Sizes
<1>3. CASE High(x) # 0
      <2> DEFINE z == Clz(High(x))
                 p == W - 1 - z
                 h == High(x)
      <2>1. z \in 0 .. W - 1 /\ 2^p <= h /\ h < 2^(W - z)
            <3>1. High(x) \in 1 .. Radix - 1
                  BY <1>1, <1>3
            <3> QED BY <3>1, ClzIs
      <2>2. LeadingZeros(x) = z
            BY <1>3 DEF LeadingZeros
      <2> HIDE DEF z
      <2>3. /\ p \in Nat /\ W - z \in Nat
            /\ 2 * W - 1 - z = p + W /\ 2 * W - z = (W - z) + W
            BY <1>2, <2>1
      <2>4. /\ 2^(2 * W - 1 - z) = 2^p * Radix /\ 2^(2 * W - z) = 2^(W - z) * Radix
            /\ 2^p \in Nat /\ 2^(W - z) \in Nat
            BY <1>2, <2>3, PowerOfSum, PowerIsPositive DEF Radix
      <2>5. ASSUME NEW s \in Nat, NEW t \in Nat, NEW m \in Nat \ {0}, NEW y \in 0 .. m - 1,
                   NEW g \in Nat, s <= g, g < t
            PROVE  s * m <= g * m + y /\ g * m + y < t * m
            <3>1. s * m <= g * m
                  BY <2>5
            <3>2. (g + 1) * m <= t * m /\ (g + 1) * m = g * m + m
                  BY <2>5
            <3>3. s * m \in Int /\ g * m \in Int /\ t * m \in Int
                  OBVIOUS
            <3> QED BY <3>1, <3>2, <3>3
      <2>6. 2^p * Radix <= x /\ x < 2^(W - z) * Radix
            <3>1. h \in Nat
                  BY <1>1
            <3> QED BY <1>1, <1>2, <2>1, <2>4, <2>5, <3>1
      <2>7. z \in 0 .. 2 * W - 1
            BY <1>2, <2>1
      <2> QED BY <2>2, <2>4, <2>6, <2>7
<1>4. CASE High(x) = 0
      <2> DEFINE z == Clz(Low(x))
      <2>1. x = Low(x) /\ x \in 1 .. Radix - 1
            BY <1>1, <1>2, <1>4
      <2>2. z \in 0 .. W - 1 /\ 2^(W - 1 - z) <= x /\ x < 2^(W - z)
            BY <2>1, ClzIs
      <2>3. LeadingZeros(x) = W + z
            BY <1>4 DEF LeadingZeros
      <2> HIDE DEF z
      <2>4. 2 * W - 1 - (W + z) = W - 1 - z /\ 2 * W - (W + z) = W - z /\ W + z \in 0 .. 2 * W - 1
            BY <1>2, <2>2
      <2> QED BY <2>2, <2>3, <2>4
<1> QED BY <1>3, <1>4

\* One is a power of two, and the only number of a half with W - 1 leading zeros.
LEMMA OneIsPower ==
    /\ PowerOf2(1)
    /\ \A x \in 1 .. Radix - 1 : Clz(x) = W - 1 => x = 1
<1>1. W \in Nat /\ W >= 2 /\ Radix \in Nat /\ 4 <= Radix
      BY Sizes
<1>2. PowerOf2(1)
      <2> DEFINE k == Ctz(1)
      <2>1. k \in 0 .. W - 1 /\ 1 % 2^k = 0
            BY <1>1, CtzIs
      <2> HIDE DEF k
      <2>2. ASSUME k # 0 PROVE FALSE
            <3>1. k \in Nat /\ 1 <= k
                  BY <2>1, <2>2
            <3>2. 2^k \in Nat /\ 2 <= 2^k
                  BY <3>1, PowersGrow, PowerIsPositive
            <3>3. 1 % 2^k = 1
                  <4>1. \A m \in Nat : 2 <= m => 1 % m = 1
                        <5> TAKE m \in Nat
                        <5> HAVE 2 <= m
                        <5>1. m \in Nat \ {0} /\ 1 \in 0 .. m - 1 /\ 1 = 0 * m + 1
                              OBVIOUS
                        <5> QED BY <5>1, DivUnique
                  <4> QED BY <3>2, <4>1
            <3> QED BY <2>1, <3>3
      <2>3. 1 = 2^k
            BY <2>2, PowersGrow
      <2> QED BY <2>3 DEF PowerOf2, k
<1>3. ASSUME NEW x \in 1 .. Radix - 1, Clz(x) = W - 1 PROVE x = 1
      <2>1. x < 2^(W - (W - 1))
            BY <1>3, ClzIs
      <2>2. W - (W - 1) = 1
            BY <1>1
      <2> QED BY <1>1, <2>1, <2>2, PowersGrow
<1> QED BY <1>2, <1>3

\* A difference of leading zeros wraps to a number too large for one.
LEMMA USubIs ==
    ASSUME NEW y \in 0 .. W - 1, NEW z \in 0 .. W - 1
    PROVE  /\ y >= z => USub(y, z) = y - z
           /\ y < z => USub(y, z) \in Nat /\ USub(y, z) > W - 1
<1>1. W \in Nat /\ W >= 2 /\ Radix \in Nat \ {0}
      BY Sizes
<1>2. 2 * W - 2 < Radix
      <2>1. W - 1 \in Nat /\ (W - 1) + 1 = W
            BY <1>1
      <2>2. W - 1 < 2^(W - 1) /\ 2^(W - 1) \in Nat
            BY <2>1, PowerIsLarger, PowerIsPositive
      <2>3. Radix = 2 * 2^(W - 1)
            BY <2>1, PowersGrow DEF Radix
      <2> QED BY <1>1, <2>2, <2>3
<1>3. USub(y, z) = (y - z) % Radix
      BY DEF USub, Radix
<1>4. CASE y >= z
      <2> DEFINE t == y - z
      <2>1. t \in Int /\ t \in 0 .. Radix - 1 /\ t = 0 * Radix + t /\ 0 \in Int
            BY <1>1, <1>2, <1>4
      <2> HIDE DEF t
      <2>2. t % Radix = t
            BY <1>1, <2>1, DivUnique
      <2>3. USub(y, z) = y - z
            BY <1>3, <2>2 DEF t
      <2> QED BY <1>1, <1>4, <2>3
<1>5. CASE y < z
      <2>1. /\ y - z \in Int /\ (y - z) + Radix \in 0 .. Radix - 1
            /\ y - z = (-1) * Radix + ((y - z) + Radix)
            BY <1>1, <1>2, <1>5
      <2>2. (y - z) % Radix = (y - z) + Radix
            BY <1>1, <2>1, DivUnique
      <2> QED BY <1>1, <1>2, <1>3, <1>5, <2>1, <2>2
<1>6. y \in Int /\ z \in Int
      BY <1>1
<1> QED BY <1>4, <1>5, <1>6

\* Without a special case, the denominator is the longer one or its distance
\* from the numerator is one that moves it over the numerator.
LEMMA DistanceIs ==
    ASSUME n \in Dword, d \in Dword \ {0}, General
    PROVE  /\ Wide /\ Longer => n < d
           /\ ~(Wide /\ Longer) =>
                 /\ Distance \in 1 .. 2 * W - 1
                 /\ n < 2^Distance * d
                 /\ 2 * d >= Modulus => Distance = 1 /\ 2 * n >= Modulus
<1> DEFINE LN == LeadingZeros(n)
           LD == LeadingZeros(d)
<1>1. W \in Nat /\ W >= 2 /\ Radix \in Nat \ {0} /\ 4 <= Radix
      BY Sizes
<1>2. /\ High(n) \in 1 .. Radix - 1 /\ Low(n) \in 0 .. Radix - 1
      /\ n \in Nat /\ n # 0
      <2>1. High(n) \in 0 .. Radix - 1 /\ Low(n) \in 0 .. Radix - 1 /\ n = High(n) * Radix + Low(n)
            BY Halves
      <2>2. High(n) # 0
            BY DEF General
      <2>3. \A x, y \in Nat \ {0} : x * y # 0 /\ x * y \in Nat
            OBVIOUS
      <2>4. High(n) * Radix # 0 /\ High(n) * Radix \in Nat
            BY <1>1, <2>1, <2>2, <2>3
      <2> QED BY <2>1, <2>2, <2>4
<1>3. /\ High(d) \in 0 .. Radix - 1 /\ Low(d) \in 0 .. Radix - 1
      /\ d \in Nat /\ d # 0
      /\ High(d) = 0 => Low(d) \in 1 .. Radix - 1
      <2>1. High(d) \in 0 .. Radix - 1 /\ Low(d) \in 0 .. Radix - 1 /\ d = High(d) * Radix + Low(d)
            BY Halves
      <2>2. d \in Nat
            BY Sizes
      <2> QED BY <1>1, <2>1, <2>2
<1>4. /\ LN \in 0 .. 2 * W - 1 /\ 2^(2 * W - 1 - LN) <= n /\ n < 2^(2 * W - LN)
      /\ LD \in 0 .. 2 * W - 1 /\ 2^(2 * W - 1 - LD) <= d /\ d < 2^(2 * W - LD)
      BY <1>2, <1>3, LeadingZerosIs
<1>5. LN = Clz(High(n)) /\ LN \in 0 .. W - 1
      BY <1>2, ClzIs DEF LeadingZeros
<1>6. ASSUME Wide
      PROVE  /\ Longer => LD < LN
             /\ ~Longer => Distance \in 1 .. 2 * W - 1 /\ Distance = LD - LN + 1
      <2>1. High(d) \in 1 .. Radix - 1 /\ LD = Clz(High(d)) /\ LD \in 0 .. W - 1
            <3>1. High(d) # 0
                  BY <1>6 DEF Wide
            <3> QED BY <1>3, <3>1, ClzIs DEF LeadingZeros
      <2>2. ZerosMore = USub(LD, LN)
            BY <1>5, <2>1 DEF ZerosMore
      <2>3. ~(Low(d) = 0 /\ LD = W - 1)
            BY <2>1, OneIsPower DEF General
      <2> HIDE DEF LN, LD
      <2>4. Longer <=> LD < LN
            <3>1. CASE LD < LN
                  <4>1. ZerosMore \in Nat /\ ZerosMore > W - 1
                        BY <1>5, <2>1, <2>2, <3>1, USubIs
                  <4>2. ZerosMore > W - 2
                        BY <1>1, <4>1
                  <4> QED BY <3>1, <4>1, <4>2 DEF Longer
            <3>2. CASE LD >= LN
                  <4>1. ZerosMore = LD - LN
                        BY <1>5, <2>1, <2>2, <3>2, USubIs
                  <4>2. ~(ZerosMore > W - 1) /\ (Low(d) = 0 => ~(ZerosMore > W - 2))
                        BY <1>1, <1>5, <2>1, <2>3, <4>1
                  <4> QED BY <1>5, <2>1, <3>2, <4>2 DEF Longer
            <3> QED BY <1>5, <2>1, <3>1, <3>2
      <2>5. ~Longer => LD >= LN /\ Distance = LD - LN + 1
            <3>1. LD >= LN => ZerosMore = LD - LN
                  BY <1>5, <2>1, <2>2, USubIs
            <3> QED BY <1>5, <1>6, <2>1, <2>4, <3>1 DEF Distance
      <2> QED BY <1>1, <1>5, <2>1, <2>4, <2>5
<1>7. ASSUME ~Wide PROVE Distance \in 1 .. 2 * W - 1 /\ Distance = LD - LN + 1
      <2>1. High(d) = 0 /\ Low(d) \in 1 .. Radix - 1 /\ ~PowerOf2(Low(d))
            BY <1>3, <1>7 DEF Wide, General
      <2>2. LD = W + Clz(Low(d)) /\ Clz(Low(d)) \in 0 .. W - 1 /\ Clz(Low(d)) # W - 1
            BY <2>1, ClzIs, OneIsPower DEF LeadingZeros
      <2>3. Distance = 1 + W + Clz(Low(d)) - Clz(High(n))
            BY <1>7 DEF Distance
      <2> HIDE DEF LN, LD
      <2> QED BY <1>1, <1>5, <2>2, <2>3
<1> DEFINE K == Distance
<1> HIDE DEF LN, LD, K
<1>8. ASSUME LD < LN PROVE n < d
      <2>1. 2 * W - LN \in Nat /\ 2 * W - 1 - LD \in Nat /\ 2 * W - LN <= 2 * W - 1 - LD
            BY <1>1, <1>4, <1>8
      <2>2. /\ 2^(2 * W - LN) <= 2^(2 * W - 1 - LD)
            /\ 2^(2 * W - LN) \in Nat /\ 2^(2 * W - 1 - LD) \in Nat
            BY <2>1, PowersGrow, PowerIsPositive
      <2> QED BY <1>2, <1>3, <1>4, <2>2
<1>9. ASSUME K \in 1 .. 2 * W - 1, K = LD - LN + 1 PROVE n < 2^K * d
      <2>1. K \in Nat /\ 2 * W - 1 - LD \in Nat /\ 2 * W - LN = K + (2 * W - 1 - LD)
            BY <1>1, <1>4, <1>9
      <2>2. /\ 2^(2 * W - LN) = 2^K * 2^(2 * W - 1 - LD)
            /\ 2^K \in Nat /\ 2^(2 * W - 1 - LD) \in Nat
            BY <2>1, PowerOfSum, PowerIsPositive
      <2>3. \A x, y, z \in Nat : y <= z => x * y <= x * z /\ x * y \in Nat /\ x * z \in Nat
            OBVIOUS
      <2> QED BY <1>2, <1>3, <1>4, <2>2, <2>3
<1>10. ASSUME K \in 1 .. 2 * W - 1, K = LD - LN + 1, 2 * d >= Modulus
       PROVE  K = 1 /\ 2 * n >= Modulus
      <2>1. LD = 0
            <3>1. ASSUME LD # 0 PROVE FALSE
                  <4>1. 2 * W - LD \in Nat /\ 2 * W \in Nat /\ 2 * W - LD < 2 * W
                        BY <1>1, <1>4, <3>1
                  <4>2. 2 * 2^(2 * W - LD) <= Modulus /\ 2^(2 * W - LD) \in Nat
                        BY <4>1, PowersGrow, PowerIsPositive DEF Modulus
                  <4> QED BY <1>3, <1>4, <1>10, <4>2, Sizes
            <3> QED BY <3>1
      <2>2. LN = 0 /\ K = 1
            BY <1>1, <1>4, <1>10, <2>1
      <2>3. 2^(2 * W - 1) <= n
            <3>1. 2 * W - 1 - LN = 2 * W - 1
                  BY <1>1, <2>2
            <3> QED BY <1>4, <3>1
      <2> QED BY <1>2, <2>2, <2>3, Sizes
<1>11. Wide /\ Longer => n < d
      BY <1>6, <1>8
<1>12. ~(Wide /\ Longer) => K \in 1 .. 2 * W - 1 /\ K = LD - LN + 1
      BY <1>6, <1>7 DEF K
<1> QED BY <1>9, <1>10, <1>11, <1>12 DEF K

----------------------------------------------------------------------------
(* A round of the loop *)

\* Another bit of a number.
LEMMA NextBit ==
    ASSUME NEW x \in Nat, NEW u \in Nat \ {0}
    PROVE  \E bit \in {0, 1} : /\ x \div u = 2 * (x \div (2 * u)) + bit
                               /\ x % (2 * u) = bit * u + (x % u)
<1> DEFINE v == 2 * u
           c == x \div v
           e == x % v
           bit == e \div u
           f == e % u
<1>1. v \in Nat \ {0}
      OBVIOUS
<1>2. v = 2 * u
      OBVIOUS
<1> HIDE DEF v
<1>3. c \in Nat /\ e \in 0 .. v - 1 /\ x = c * v + e
      BY <1>1, DivParts
<1> HIDE DEF c, e
<1>4. e \in Nat
      BY <1>1, <1>3
<1>5. bit \in Nat /\ f \in 0 .. u - 1 /\ e = bit * u + f
      BY <1>4, DivParts
<1> HIDE DEF bit, f
<1>6. bit \in {0, 1}
      <2>1. bit >= 2 => bit * u >= 2 * u
            BY <1>5
      <2>2. bit * u \in Nat
            BY <1>5
      <2> QED BY <1>2, <1>3, <1>5, <2>1, <2>2
<1>7. x = (2 * c + bit) * u + f
      <2>1. c * v = 2 * c * u
            BY <1>2, <1>3
      <2>2. (2 * c + bit) * u = 2 * c * u + bit * u
            BY <1>3, <1>5
      <2>3. 2 * c * u \in Int /\ bit * u \in Int
            BY <1>3, <1>5
      <2> QED BY <1>3, <1>5, <2>1, <2>2, <2>3
<1>8. x \div u = 2 * c + bit /\ x % u = f
      <2> DEFINE k == 2 * c + bit
      <2>1. k \in Int /\ x \in Int /\ x = k * u + f
            BY <1>3, <1>5, <1>7
      <2> HIDE DEF k
      <2>2. x \div u = k /\ x % u = f
            BY <1>5, <2>1, DivUnique
      <2> QED BY <2>2 DEF k
<1> QED BY <1>2, <1>5, <1>6, <1>8 DEF c, e

\* When q holds the last bits of a number, and below them some bits of a
\* quotient, a shift takes the first of these bits of the number out of it and
\* the carry in.
LEMMA QueueMoves ==
    ASSUME NEW x \in Nat, NEW i \in 0 .. 2 * W - 1,
           NEW q1 \in 0 .. 2^(2 * W - 1 - i) - 1, NEW q0, NEW c \in {0, 1},
           q0 = (x % 2^(i + 1)) * 2^(2 * W - 1 - i) + q1
    PROVE  /\ q0 \in Dword /\ TopBit(q0) \in {0, 1}
           /\ x \div 2^i = 2 * (x \div 2^(i + 1)) + TopBit(q0)
           /\ Shifted(q0, c) = (x % 2^i) * 2^(2 * W - i) + (2 * q1 + c)
<1> DEFINE u == 2^i
           v == 2^(2 * W - 1 - i)
           T == 2^(2 * W - 1)
           y == x % u
<1>1. /\ i \in Nat /\ 2 * W - 1 - i \in Nat /\ i + (2 * W - 1 - i) = 2 * W - 1
      /\ (2 * W - 1 - i) + 1 = 2 * W - i
      BY Sizes
<1>2. u \in Nat \ {0} /\ v \in Nat \ {0} /\ T = u * v /\ T \in Nat \ {0} /\ Modulus = 2 * T
      <2>1. u \in Nat \ {0} /\ v \in Nat \ {0}
            BY <1>1, PowerIsPositive
      <2>2. T = u * v
            <3>1. 2^(i + (2 * W - 1 - i)) = u * v
                  BY <1>1, PowerOfSum
            <3> QED BY <1>1, <3>1
      <2>3. T \in Nat \ {0} /\ Modulus = 2 * T
            BY Sizes
      <2> QED BY <2>1, <2>2, <2>3
<1>3. 2^(i + 1) = 2 * u /\ 2^(2 * W - i) = 2 * v
      BY <1>1, PowersGrow
<1>4. q1 \in 0 .. v - 1
      OBVIOUS
<1> HIDE DEF u, v, T
<1>5. PICK bit \in {0, 1} : /\ x \div u = 2 * (x \div (2 * u)) + bit
                            /\ x % (2 * u) = bit * u + (x % u)
      BY <1>2, NextBit
<1>6. y \in 0 .. u - 1
      BY <1>2, DivParts
<1> HIDE DEF y
<1> DEFINE z == y * v + q1
<1>7. z \in 0 .. T - 1
      <2>1. y * v <= (u - 1) * v /\ y * v >= 0 /\ y * v \in Int
            BY <1>2, <1>6
      <2>2. (u - 1) * v = u * v - v /\ u * v \in Int
            BY <1>2
      <2> QED BY <1>2, <1>4, <2>1, <2>2
<1>8. q0 = bit * T + z
      <2>1. q0 = (bit * u + y) * v + q1
            BY <1>3, <1>5 DEF y, v
      <2>2. (bit * u + y) * v = bit * (u * v) + y * v
            BY <1>2, <1>5, <1>6
      <2>3. bit * T \in Int /\ y * v \in Int
            BY <1>2, <1>5, <1>6
      <2> QED BY <1>2, <1>4, <2>1, <2>2, <2>3
<1>9. 2 * z + c = y * (2 * v) + (2 * q1 + c)
      <2>1. y * (2 * v) = 2 * (y * v) /\ y * v \in Int
            BY <1>2, <1>6
      <2> QED BY <1>4, <2>1
<1> HIDE DEF z
<1>10. q0 \in Int /\ q0 \in 0 .. Modulus - 1
      BY <1>2, <1>5, <1>7, <1>8
<1>11. TopBit(q0) = bit
      <2>1. T \in Nat \ {0} /\ q0 \in Int /\ bit \in Int
            BY <1>2, <1>5, <1>10
      <2>2. q0 \div T = bit
            BY <1>7, <1>8, <2>1, DivUnique
      <2> QED BY <2>2 DEF TopBit, T
<1>12. Shifted(q0, c) = 2 * z + c
      <2> DEFINE w == 2 * q0 + c
                 t == 2 * z + c
      <2>1. w \in Int /\ t \in 0 .. Modulus - 1 /\ w = bit * Modulus + t /\ bit \in Int
            BY <1>2, <1>5, <1>7, <1>8, <1>10
      <2>2. Shifted(q0, c) = w % Modulus /\ Modulus \in Nat \ {0}
            BY Sizes DEF Shifted, Modulus
      <2> HIDE DEF w, t
      <2>3. w % Modulus = t
            BY <2>1, <2>2, DivUnique
      <2> QED BY <2>2, <2>3 DEF t
<1>13. q0 \in Dword
      BY <1>10, Sizes
<1> QED BY <1>3, <1>5, <1>9, <1>11, <1>12, <1>13 DEF u, y

\* The sign of d - rem - 1 tells whether d fits, as long as the remainder is
\* below 2 * d and, where d needs all bits, needs them too.
LEMMA FitsIs ==
    ASSUME d \in Dword \ {0}, NEW x \in Dword, x < 2 * d, 2 * d >= Modulus => 2 * x >= Modulus
    PROVE  DFits(x) <=> d <= x
<1> DEFINE T == 2^(2 * W - 1)
           t == d - x - 1
<1>1. /\ d \in 1 .. Modulus - 1 /\ x \in 0 .. Modulus - 1
      /\ T \in Nat \ {0} /\ Modulus = 2 * T /\ Modulus \in Nat \ {0}
      BY Sizes
<1>2. DFits(x) <=> t % Modulus >= T
      BY DEF DFits, Negative, Modulus
<1> HIDE DEF T
<1>3. CASE d <= x
      <2>1. t \in Int /\ t + Modulus \in 0 .. Modulus - 1 /\ t = (-1) * Modulus + (t + Modulus)
            /\ -1 \in Int /\ t + Modulus >= T
            BY <1>1, <1>3
      <2> HIDE DEF t
      <2>2. t % Modulus = t + Modulus
            BY <1>1, <2>1, DivUnique
      <2> QED BY <1>2, <1>3, <2>1, <2>2
<1>4. CASE ~(d <= x)
      <2>1. t \in Int /\ t \in 0 .. Modulus - 1 /\ t = 0 * Modulus + t /\ 0 \in Int /\ ~(t >= T)
            BY <1>1, <1>4
      <2> HIDE DEF t
      <2>2. t % Modulus = t
            BY <1>1, <2>1, DivUnique
      <2> QED BY <1>2, <1>4, <2>1, <2>2
<1> QED BY <1>3, <1>4

----------------------------------------------------------------------------
(* The signs *)

\* A number of a double word is its own remainder.
LEMMA FitsInDword == ASSUME NEW x \in Dword PROVE x % Modulus = x
<1>1. x \in Int /\ x \in 0 .. Modulus - 1 /\ x = 0 * Modulus + x /\ 0 \in Int /\ Modulus \in Nat \ {0}
      BY Sizes
<1> QED BY <1>1, DivUnique

\* Remainders are double words.
LEMMA RemainderIsDword == \A x \in Int : x % Modulus \in Dword
<1>1. Modulus \in Nat \ {0} /\ Dword = 0 .. Modulus - 1
      BY Sizes
<1>2. \A x \in Int, m \in Nat \ {0} : x % m \in 0 .. m - 1
      OBVIOUS
<1> QED BY <1>1, <1>2

\* What is divided in place of an argument is its absolute value.
LEMMA MagnitudeIs ==
    ASSUME NEW x \in Dword
    PROVE  /\ Value(x) \in Int
           /\ Value(x) < 0 <=> IsSigned(op) /\ Negative(x)
           /\ Magnitude(op, x) = AbsOf(Value(x)) /\ Magnitude(op, x) \in Dword
           /\ x # 0 => Magnitude(op, x) # 0
<1> DEFINE T == 2^(2 * W - 1)
<1>1. /\ x \in 0 .. Modulus - 1 /\ Dword = 0 .. Modulus - 1
      /\ T \in Nat \ {0} /\ Modulus = 2 * T /\ Modulus \in Nat \ {0}
      BY Sizes
<1>2. Negative(x) <=> x >= T
      BY DEF Negative
<1>3. Value(x) = IF IsSigned(op) /\ Negative(x) THEN x - Modulus ELSE x
      BY DEF Value, Modulus
<1>4. CASE IsSigned(op) /\ Negative(x)
      <2> HIDE DEF T
      <2> DEFINE t == -x
      <2>1. /\ t \in Int /\ t + Modulus \in 0 .. Modulus - 1 /\ t = (-1) * Modulus + (t + Modulus)
            /\ -1 \in Int /\ Modulus \in Nat \ {0}
            BY <1>1, <1>2, <1>4
      <2>2. Negate(x) = t % Modulus
            BY DEF Negate, Modulus
      <2> HIDE DEF t
      <2>3. t % Modulus = t + Modulus
            BY <2>1, DivUnique
      <2>4. Magnitude(op, x) = t + Modulus
            BY <1>4, <2>2, <2>3 DEF Magnitude
      <2>5. Value(x) = x - Modulus /\ Value(x) < 0 /\ Value(x) \in Int
            BY <1>1, <1>3, <1>4
      <2>6. AbsOf(Value(x)) = Modulus - x /\ Modulus - x # 0
            BY <1>1, <2>5 DEF AbsOf
      <2>7. Magnitude(op, x) = Modulus - x /\ Modulus - x \in Dword
            BY <1>1, <2>1, <2>4 DEF t
      <2> QED BY <1>4, <2>5, <2>6, <2>7
<1>5. CASE ~(IsSigned(op) /\ Negative(x))
      <2>1. Value(x) = x /\ Magnitude(op, x) = x
            BY <1>3, <1>5 DEF Magnitude
      <2>2. x \in Int /\ ~(x < 0)
            BY <1>1
      <2> QED BY <1>5, <2>1, <2>2 DEF AbsOf
<1> QED BY <1>4, <1>5

\* What C asks of a result.
Promised(x) ==
    LET v == Value(a) y == Value(b) z == QuotientOf(v, y)
    IN  x = (IF op \in {"__udivdi3", "__divdi3"} THEN z ELSE v - y * z) % 2^(2 * W)

\* The arguments of a call.
Args ==
    /\ op \in Ops /\ a \in Dword /\ b \in Dword \ {0}
    /\ n = Magnitude(op, a) /\ d = Magnitude(op, b)

\* Numerator and denominator are double words, and the latter is not 0.
LEMMA ArgsFit == Args => n \in Dword /\ d \in Dword \ {0}
BY MagnitudeIs DEF Args

\* With its sign, a correct result of __udivmoddi4 is what C asks of the
\* function that was called.
LEMMA SignsAreRight ==
    ASSUME Args, NEW Q \in Nat, NEW R \in 0 .. d - 1, n = Q * d + R
    PROVE  Signs(Q, R) \in Dword /\ Promised(Signs(Q, R))
<1> DEFINE x == Value(a)
           y == Value(b)
           z == QuotientOf(x, y)
<1>1. /\ x \in Int /\ y \in Int /\ n = AbsOf(x) /\ d = AbsOf(y)
      /\ x < 0 <=> IsSigned(op) /\ Negative(a)
      /\ y < 0 <=> IsSigned(op) /\ Negative(b)
      BY MagnitudeIs DEF Args
<1>2. /\ n \in 0 .. Modulus - 1 /\ d \in 1 .. Modulus - 1 /\ Modulus \in Nat \ {0}
      /\ Dword = 0 .. Modulus - 1
      BY ArgsFit, Sizes
<1>3. n \div d = Q
      <2>1. d \in Nat \ {0} /\ n \in Int /\ Q \in Int
            BY <1>2
      <2> QED BY <2>1, DivUnique
<1>4. Q \in Dword /\ R \in Dword
      <2>1. Q * d >= Q
            BY <1>2
      <2>2. Q * d \in Int
            BY <1>2
      <2> QED BY <1>2, <2>1, <2>2
<1> HIDE DEF x, y
<1>5. z = IF (x < 0) # (y < 0) THEN -Q ELSE Q
      BY <1>1, <1>3 DEF QuotientOf
<1> HIDE DEF z
<1>6. z \in Int /\ x - y * z = IF x < 0 THEN -R ELSE R
      <2>1. Q * d \in Int /\ d * Q = Q * d /\ d \in Int /\ Q \in Int /\ R \in Int
            BY <1>2
      <2>2. /\ (x < 0 => x = -n) /\ (~(x < 0) => x = n)
            /\ (y < 0 => y = -d) /\ (~(y < 0) => y = d)
            BY <1>1 DEF AbsOf
      <2>3. (-d) * Q = -(Q * d) /\ (-d) * (-Q) = Q * d /\ d * (-Q) = -(Q * d)
            BY <2>1
      <2>4. CASE x < 0 /\ y < 0
            <3>1. z = Q /\ y * z = -(Q * d)
                  BY <1>5, <2>2, <2>3, <2>4
            <3> QED BY <1>2, <2>1, <2>2, <2>4, <3>1
      <2>5. CASE x < 0 /\ ~(y < 0)
            <3>1. z = -Q /\ y * z = -(Q * d)
                  BY <1>5, <2>2, <2>3, <2>5
            <3> QED BY <1>2, <2>1, <2>2, <2>5, <3>1
      <2>6. CASE ~(x < 0) /\ y < 0
            <3>1. z = -Q /\ y * z = Q * d
                  BY <1>5, <2>2, <2>3, <2>6
            <3> QED BY <1>2, <2>1, <2>2, <2>6, <3>1
      <2>7. CASE ~(x < 0) /\ ~(y < 0)
            <3>1. z = Q /\ y * z = Q * d
                  BY <1>5, <2>1, <2>2, <2>7
            <3> QED BY <1>2, <2>1, <2>2, <2>7, <3>1
      <2> QED BY <2>4, <2>5, <2>6, <2>7
<1>7. \A t : Promised(t) <=> t = (IF op \in {"__udivdi3", "__divdi3"} THEN z ELSE x - y * z) % Modulus
      BY DEF Promised, x, y, z, Modulus
<1>8. Q % Modulus = Q /\ R % Modulus = R
      BY <1>4, FitsInDword
<1>9. Negate(Q) = (-Q) % Modulus /\ Negate(R) = (-R) % Modulus
      BY DEF Negate, Modulus
<1>10. Negate(Q) \in Dword /\ Negate(R) \in Dword
      <2>1. -Q \in Int /\ -R \in Int
            BY <1>2
      <2> QED BY <1>9, <2>1, RemainderIsDword
<1>11. CASE op = "__udivdi3"
      <2>1. ~(x < 0) /\ ~(y < 0) /\ z = Q
            BY <1>1, <1>5, <1>11 DEF IsSigned
      <2>2. Signs(Q, R) = Q
            BY <1>11 DEF Signs
      <2> QED BY <1>4, <1>7, <1>8, <1>11, <2>1, <2>2
<1>12. CASE op = "__umoddi3"
      <2>1. ~(x < 0) /\ x - y * z = R
            BY <1>1, <1>6, <1>12 DEF IsSigned
      <2>2. Signs(Q, R) = R
            BY <1>12 DEF Signs
      <2> QED BY <1>4, <1>7, <1>8, <1>12, <2>1, <2>2
<1>13. CASE op = "__divdi3"
      <2>1. (x < 0 <=> Negative(a)) /\ (y < 0 <=> Negative(b))
            BY <1>1, <1>13 DEF IsSigned
      <2>2. Signs(Q, R) = IF Negative(a) # Negative(b) THEN Negate(Q) ELSE Q
            BY <1>13 DEF Signs
      <2>3. Signs(Q, R) = z % Modulus
            <3>1. CASE x < 0 /\ y < 0
                  BY <1>5, <1>8, <2>1, <2>2, <3>1 DEF Negative
            <3>2. CASE x < 0 /\ ~(y < 0)
                  BY <1>5, <1>9, <2>1, <2>2, <3>2 DEF Negative
            <3>3. CASE ~(x < 0) /\ y < 0
                  BY <1>5, <1>9, <2>1, <2>2, <3>3 DEF Negative
            <3>4. CASE ~(x < 0) /\ ~(y < 0)
                  BY <1>5, <1>8, <2>1, <2>2, <3>4 DEF Negative
            <3> QED BY <3>1, <3>2, <3>3, <3>4
      <2> QED BY <1>6, <1>7, <1>13, <2>3, RemainderIsDword
<1>14. CASE op = "__moddi3"
      <2>1. x < 0 <=> Negative(a)
            BY <1>1, <1>14 DEF IsSigned
      <2>2. Signs(Q, R) = IF Negative(a) THEN Negate(R) ELSE R
            BY <1>14 DEF Signs
      <2>3. Signs(Q, R) = (x - y * z) % Modulus
            BY <1>6, <1>8, <1>9, <2>1, <2>2
      <2>4. Signs(Q, R) \in Dword
            BY <1>4, <1>10, <2>2
      <2> QED BY <1>7, <1>14, <2>3, <2>4
<1> QED BY <1>11, <1>12, <1>13, <1>14 DEF Args, Ops

----------------------------------------------------------------------------
(* The special cases *)

\* What a special case answers is a quotient and its remainder.
Answered ==
    \E Q \in Nat : \E R \in 0 .. d - 1 : n = Q * d + R /\ Return(Q, R)

\* Dividing is such an answer.
LEMMA DividingAnswers ==
    ASSUME n \in Dword, d \in Dword \ {0}, Return(n \div d, n % d) PROVE Answered
<1>1. n \in Nat /\ d \in Nat \ {0}
      BY Sizes
<1>2. n \div d \in Nat /\ n % d \in 0 .. d - 1 /\ n = (n \div d) * d + (n % d)
      BY <1>1, DivParts
<1> QED BY <1>2 DEF Answered

\* 0 X / 0 X is divided in halves, and in 0 X / K X nothing fits.
LEMMA SmallNumeratorAnswers ==
    ASSUME n \in Dword, d \in Dword \ {0}, SmallNumerator PROVE Answered
<1>1. /\ High(n) \in 0 .. Radix - 1 /\ Low(n) \in 0 .. Radix - 1
      /\ n = High(n) * Radix + Low(n)
      /\ High(d) \in 0 .. Radix - 1 /\ Low(d) \in 0 .. Radix - 1
      /\ d = High(d) * Radix + Low(d)
      BY Halves
<1>2. Radix \in Nat \ {0}
      BY Sizes
<1>3. n = Low(n)
      BY <1>1, <1>2 DEF SmallNumerator
<1>4. CASE High(d) = 0
      <2>1. d = Low(d)
            BY <1>1, <1>2, <1>4
      <2> QED BY <1>3, <1>4, <2>1, DividingAnswers DEF SmallNumerator
<1>5. CASE High(d) # 0
      <2>1. Return(0, n)
            BY <1>3, <1>5 DEF SmallNumerator
      <2>2. n \in 0 .. d - 1 /\ n = 0 * d + n
            <3>1. High(d) * Radix >= Radix /\ High(d) * Radix \in Int
                  BY <1>1, <1>2, <1>5
            <3>2. d \in Int
                  BY Sizes
            <3> QED BY <1>1, <1>2, <1>3, <3>1, <3>2
      <2> QED BY <2>1, <2>2 DEF Answered
<1> QED BY <1>4, <1>5

\* Without low halves the high ones are divided; a power of two leaves the low
\* half of n to the remainder.
LEMMA HighDenominatorAnswers ==
    ASSUME n \in Dword, d \in Dword \ {0}, HighDenominator PROVE Answered
<1> DEFINE h == High(n)
           l == Low(n)
           g == High(d)
           Q == h \div g
           e == h % g
           R == e * Radix + l
<1>1. /\ h \in 0 .. Radix - 1 /\ l \in 0 .. Radix - 1 /\ n = h * Radix + l
      /\ g \in 0 .. Radix - 1 /\ d = g * Radix + Low(d)
      BY Halves
<1>2. Radix \in Nat \ {0}
      BY Sizes
<1>3. Low(d) = 0
      BY DEF HighDenominator
<1>4. g \in 1 .. Radix - 1 /\ d = g * Radix
      BY <1>1, <1>2, <1>3
<1>5. Return(Q, R)
      <2>1. CASE Low(n) = 0 /\ Return(High(n) \div High(d), Join(High(n) % High(d), 0))
            <3>1. Join(High(n) % High(d), 0) = R
                  BY <2>1 DEF Join, Radix
            <3> QED BY <2>1, <3>1
      <2>2. CASE /\ PowerOf2(High(d))
                 /\ Return(Shr(High(n), Ctz(High(d))), Join(High(n) % High(d), Low(n)))
            <3>1. Shr(h, Ctz(g)) = Q
                  <4>1. Ctz(g) \in 0 .. W - 1 /\ g = 2^Ctz(g)
                        BY <1>4, <2>2, CtzIs DEF PowerOf2
                  <4> QED BY <4>1 DEF Shr
            <3>2. Join(High(n) % High(d), Low(n)) = R
                  BY DEF Join, Radix
            <3> QED BY <2>2, <3>1, <3>2
      <2> QED BY <2>1, <2>2 DEF HighDenominator
<1> HIDE DEF h, l, g
<1>6. Q \in Nat /\ e \in 0 .. g - 1 /\ h = Q * g + e
      <2>1. h \in Nat /\ g \in Nat \ {0}
            BY <1>1, <1>2, <1>4
      <2> QED BY <2>1, DivParts
<1> HIDE DEF Q, e
<1>7. n = Q * d + R
      <2>1. h * Radix = Q * (g * Radix) + e * Radix
            BY <1>2, <1>4, <1>6
      <2>2. Q * (g * Radix) \in Int /\ e * Radix \in Int
            BY <1>2, <1>4, <1>6
      <2> QED BY <1>1, <1>4, <2>1, <2>2
<1>8. R \in 0 .. d - 1
      <2>1. e * Radix <= (g - 1) * Radix /\ e * Radix >= 0 /\ e * Radix \in Int
            BY <1>2, <1>4, <1>6
      <2>2. (g - 1) * Radix = g * Radix - Radix /\ g * Radix \in Int
            BY <1>2, <1>4
      <2> QED BY <1>1, <1>2, <1>4, <2>1, <2>2
<1> HIDE DEF R
<1> QED BY <1>5, <1>6, <1>7, <1>8 DEF Answered

\* Division by a power of two is a shift over the border of the halves.
LEMMA PowerDenominatorAnswers ==
    ASSUME n \in Dword, d \in Dword \ {0}, PowerDenominator PROVE Answered
<1> DEFINE k == Ctz(Low(d))
<1>1. /\ High(d) \in 0 .. Radix - 1 /\ Low(d) \in 0 .. Radix - 1
      /\ d = High(d) * Radix + Low(d)
      BY Halves
<1>2. Radix \in Nat \ {0} /\ n \in Nat /\ W \in Nat
      BY Sizes
<1>3. d = Low(d) /\ d \in 1 .. Radix - 1
      BY <1>1, <1>2 DEF PowerDenominator
<1>4. k \in 0 .. W - 1 /\ d = 2^k
      BY <1>3, CtzIs DEF PowerDenominator, PowerOf2
<1>5. CASE d = 1
      <2>1. Return(n, 0)
            BY <1>3, <1>5 DEF PowerDenominator
      <2>2. 0 \in 0 .. d - 1 /\ n = n * d + 0
            BY <1>2, <1>5
      <2> QED BY <1>2, <2>1, <2>2 DEF Answered
<1>6. CASE d # 1
      <2>1. k \in 1 .. W - 1
            <3>1. k # 0
                  BY <1>4, <1>6, PowersGrow
            <3> QED BY <1>2, <1>4, <3>1
      <2>2. Return(Join(Shr(High(n), k), Or(Shl(High(n), W - k), Shr(Low(n), k))), Low(n) % d)
            BY <1>3, <1>6 DEF PowerDenominator
      <2>3. /\ n \div d = Join(Shr(High(n), k), Or(Shl(High(n), W - k), Shr(Low(n), k)))
            /\ n % d = Low(n) % d
            BY <1>4, <2>1, ShiftedByLess
      <2> QED BY <2>2, <2>3, DividingAnswers
<1> QED BY <1>5, <1>6

\* A denominator that is the longer number does not fit at all.
LEMMA DenominatorIsLongerAnswers ==
    ASSUME n \in Dword, d \in Dword \ {0}, DenominatorIsLonger PROVE Answered
<1>1. n < d
      BY DistanceIs DEF DenominatorIsLonger
<1>2. n \in 0 .. d - 1 /\ n = 0 * d + n /\ 0 \in Nat
      BY <1>1, Sizes
<1> QED BY <1>2 DEF Answered, DenominatorIsLonger

\* However sr compares with a half, r and q start as the two parts of n.
LEMMA SetupSplits ==
    ASSUME n \in Dword, Distance \in 1 .. 2 * W - 1, Setup
    PROVE  /\ q' = (n % 2^Distance) * 2^(2 * W - Distance) /\ q' \in Dword
           /\ r' = n \div 2^Distance
<1> DEFINE K == Distance
<1>1. /\ High(n) \in 0 .. Radix - 1 /\ Low(n) \in 0 .. Radix - 1
      /\ W \in Nat /\ Radix \in Nat \ {0} /\ 0 \in 0 .. Radix - 1
      BY Halves, Sizes
<1>2. CASE K = W
      <2>1. q' = Join(Low(n), 0) /\ r' = Join(0, High(n))
            <3>1. K = W /\ ~(K < W) /\ ~(K > W)
                  BY <1>1, <1>2
            <3> QED BY <3>1 DEF Setup
      <2>2. Join(Low(n), 0) = Low(n) * Radix + 0 /\ Join(0, High(n)) = 0 * Radix + High(n)
            BY <1>1, Joined
      <2>3. q' = Low(n) * Radix /\ r' = High(n)
            BY <1>1, <2>1, <2>2
      <2>4. 2 * W - K = W
            BY <1>1, <1>2
      <2>5. q' \in Dword
            BY <1>1, <2>1, Joined
      <2> QED BY <1>2, <2>3, <2>4, <2>5 DEF High, Low, Radix
<1>3. CASE K < W
      <2>1. K \in 1 .. W - 1
            BY <1>1, <1>3
      <2>2. /\ q' = Join(Shl(Low(n), W - K), 0)
            /\ r' = Join(Shr(High(n), K), Or(Shl(High(n), W - K), Shr(Low(n), K)))
            <3>1. K < W /\ ~(K > W) /\ K # W
                  BY <1>1, <1>3, <2>1
            <3> QED BY <3>1 DEF Setup
      <2> HIDE DEF K
      <2>3. r' = n \div 2^K /\ n % 2^K = Low(n) % 2^K
            BY <2>1, <2>2, ShiftedByLess
      <2>4. /\ Shl(Low(n), W - K) = (n % 2^K) * 2^(W - K)
            /\ Shl(Low(n), W - K) \in 0 .. Radix - 1
            <3>1. 2^(W - K) \in Nat \ {0}
                  BY <2>1, HalfSplits
            <3>2. /\ Shl(Low(n), W - K) = (Low(n) % 2^K) * 2^(W - K)
                  /\ Shl(Low(n), W - K) \in 0 .. Radix - 2^(W - K)
                  BY <1>1, <2>1, ShlIs
            <3> QED BY <1>1, <2>3, <3>1, <3>2
      <2>5. q' = (n % 2^K) * 2^(W - K) * Radix + 0 /\ q' \in Dword
            BY <1>1, <2>2, <2>4, Joined
      <2>6. 2^(2 * W - K) = 2^(W - K) * Radix /\ 2^(W - K) \in Nat
            <3>1. W - K \in Nat /\ 2 * W - K = (W - K) + W
                  BY <1>1, <2>1
            <3> QED BY <1>1, <3>1, PowerOfSum, PowerIsPositive DEF Radix
      <2>7. n % 2^K \in Int
            <3>1. 2^K \in Nat \ {0} /\ n \in Nat
                  BY <2>1, HalfSplits, Sizes
            <3> QED BY <3>1
      <2>8. q' = (n % 2^K) * 2^(2 * W - K)
            BY <1>1, <2>5, <2>6, <2>7
      <2> QED BY <2>3, <2>5, <2>8 DEF K
<1>4. CASE K > W
      <2> DEFINE j == K - W
      <2>1. j \in 1 .. W - 1 /\ K = W + j /\ 2 * W - K = W - j /\ ~(K < W) /\ K # W
            BY <1>1, <1>4
      <2>2. /\ q' = Join(Or(Shl(High(n), 2 * W - K), Shr(Low(n), K - W)),
                         Shl(Low(n), 2 * W - K))
            /\ r' = Join(0, Shr(High(n), K - W))
            BY <1>4, <2>1 DEF Setup
      <2>3. /\ q' = Join(Or(Shl(High(n), W - j), Shr(Low(n), j)), Shl(Low(n), W - j))
            /\ r' = Join(0, Shr(High(n), j))
            BY <2>1, <2>2
      <2> HIDE DEF K, j
      <2>4. /\ r' = n \div 2^(W + j)
            /\ q' = (n % 2^(W + j)) * 2^(W - j)
            /\ q' \in Dword
            BY <2>1, <2>3, ShiftedByMore, Joined
      <2> QED BY <2>1, <2>4 DEF K
<1>5. K \in Int /\ W \in Int
      BY <1>1
<1> QED BY <1>2, <1>3, <1>4, <1>5

----------------------------------------------------------------------------
(* The invariant *)

\* Above the carry, q still holds the last sr bits of n, and below them the
\* quotient of its other bits; r is the remainder of those.
LoopInv ==
    pc = "loop" =>
        /\ Distance \in 1 .. 2 * W - 1
        /\ 2 * d >= Modulus => Distance = 1 /\ 2 * n >= Modulus
        /\ sr \in 0 .. Distance
        /\ r \in 0 .. d - 1
        /\ \E q1 \in Nat : /\ q = (n % 2^sr) * 2^(2 * W - sr) + q1
                           /\ 2 * q1 + carry < 2^(Distance - sr)
                           /\ n \div 2^sr = (2 * q1 + carry) * d + r

Finished == pc = "done" => Promised(result)

DivInv == TypeOK /\ Args /\ LoopInv /\ Finished

\* What a call answers is what C asks of it.
LEMMA AnswersKeepDivInv ==
    ASSUME DivInv, Answered, UNCHANGED <<op, a, b, n, d>>,
           q' \in Dword, UNCHANGED <<r, sr, carry>>
    PROVE  DivInv'
<1>1. PICK Q \in Nat : \E R \in 0 .. d - 1 : n = Q * d + R /\ Return(Q, R)
      BY DEF Answered
<1>2. PICK R \in 0 .. d - 1 : n = Q * d + R /\ Return(Q, R)
      BY <1>1
<1>3. result' = Signs(Q, R) /\ pc' = "done"
      BY <1>2 DEF Return
<1>4. result' \in Dword /\ Promised(result')
      BY <1>2, <1>3, SignsAreRight DEF DivInv
<1>5. TypeOK'
      BY <1>3, <1>4 DEF DivInv, TypeOK
<1>6. Args'
      BY DEF DivInv, Args
<1>7. Finished'
      <2>1. Promised(result)'
            BY <1>4 DEF Promised, Value, QuotientOf
      <2> QED BY <2>1 DEF Finished
<1>8. LoopInv'
      BY <1>3 DEF LoopInv
<1> QED BY <1>5, <1>6, <1>7, <1>8 DEF DivInv

\* The loop starts with none of the quotient gathered.
LEMMA SetupKeepsDivInv == ASSUME DivInv, Setup PROVE DivInv'
<1>1. n \in Dword /\ d \in Dword \ {0} /\ General /\ ~(Wide /\ Longer)
      BY DEF DivInv, TypeOK, Setup
<1> DEFINE K == Distance
<1>2. /\ K \in 1 .. 2 * W - 1 /\ n < 2^K * d
      /\ 2 * d >= Modulus => K = 1 /\ 2 * n >= Modulus
      BY <1>1, DistanceIs
<1>3. /\ q' = (n % 2^K) * 2^(2 * W - K) /\ q' \in Dword
      /\ r' = n \div 2^K
      BY <1>1, <1>2, SetupSplits
<1>4. /\ UNCHANGED <<op, a, b, n, d, result>> /\ sr' = K /\ carry' = 0 /\ pc' = "loop"
      BY DEF Setup
<1>5. K' = K
      BY <1>4 DEF Distance, Wide, ZerosMore
<1> HIDE DEF K
<1>6. n \in Nat /\ d \in 1 .. Modulus - 1 /\ W \in Nat /\ K \in Nat /\ 2^K \in Nat \ {0}
      BY <1>1, <1>2, Sizes, PowerIsPositive
<1>7. n \div 2^K \in 0 .. d - 1 /\ n % 2^K \in Nat
      <2> DEFINE c == n \div 2^K
                 m == 2^K
      <2> HIDE DEF m
      <2>1. m \in Nat \ {0} /\ n < m * d
            BY <1>2, <1>6 DEF m
      <2>2. n \div m \in Nat /\ n % m \in 0 .. m - 1 /\ n = (n \div m) * m + (n % m)
            BY <1>6, <2>1, DivParts
      <2>3. \A x \in Nat : x >= d => x * m >= d * m
            BY <1>6, <2>1
      <2>4. (n \div m) * m \in Int /\ d * m \in Int /\ m * d = d * m
            BY <1>6, <2>1, <2>2
      <2>5. ~(n \div m >= d)
            BY <1>6, <2>1, <2>2, <2>3, <2>4
      <2> QED BY <1>6, <2>1, <2>2, <2>5 DEF m
<1>8. r' \in 0 .. d - 1 /\ r' \in Dword
      BY <1>3, <1>6, <1>7, Sizes
<1>9. TypeOK'
      BY <1>2, <1>3, <1>4, <1>6, <1>8 DEF DivInv, TypeOK
<1>10. Args' /\ Finished'
      BY <1>4 DEF DivInv, Args, Finished
<1>11. LoopInv'
      <2> DEFINE w == (n % 2^K) * 2^(2 * W - K)
      <2>1. q' = w /\ w \in Int
            BY <1>3, Sizes
      <2> HIDE DEF w
      <2>2. q' = w + 0 /\ 2 * 0 + carry' = 0 /\ K \in 0 .. K
            BY <1>4, <1>6, <2>1
      <2>3. 2 * 0 + carry' < 2^(K - K)
            <3>1. K - K = 0
                  BY <1>6
            <3>2. 2^(K - K) = 1
                  BY <3>1, PowersGrow
            <3> QED BY <2>2, <3>2
      <2>4. n \div 2^K = (2 * 0 + carry') * d + r'
            <3>1. \A x \in Int : x = 0 * d + x
                  BY <1>6
            <3> QED BY <1>3, <1>7, <2>2, <3>1
      <2>5. \E q1 \in Nat : /\ q' = (n' % 2^sr') * 2^(2 * W - sr') + q1
                            /\ 2 * q1 + carry' < 2^(K' - sr')
                            /\ n' \div 2^sr' = (2 * q1 + carry') * d' + r'
            BY <1>4, <1>5, <2>2, <2>3, <2>4 DEF w
      <2>6. /\ K' \in 1 .. 2 * W - 1 /\ sr' \in 0 .. K' /\ r' \in 0 .. d' - 1
            /\ 2 * d' >= Modulus => K' = 1 /\ 2 * n' >= Modulus
            BY <1>2, <1>4, <1>5, <1>8, <2>2
      <2> QED BY <2>5, <2>6 DEF LoopInv, K
<1> QED BY <1>9, <1>10, <1>11 DEF DivInv

\* A round takes a bit out of q into r, subtracts d if it fits, and lets the
\* carry of the round before into q.
LEMMA IterateKeepsDivInv == ASSUME DivInv, Iterate PROVE DivInv'
<1> DEFINE K == Distance
           i == sr - 1
           bit == TopBit(q)
           x == 2 * r + bit
<1>1. pc = "loop" /\ sr > 0
      BY DEF Iterate
<1>2. /\ n \in Dword /\ d \in 1 .. Modulus - 1 /\ carry \in {0, 1} /\ W \in Nat /\ W >= 2
      /\ n \in Nat /\ n < Modulus /\ Modulus \in Nat \ {0}
      BY Sizes DEF DivInv, TypeOK
<1>3. /\ K \in 1 .. 2 * W - 1 /\ sr \in 0 .. K /\ r \in 0 .. d - 1
      /\ 2 * d >= Modulus => K = 1 /\ 2 * n >= Modulus
      BY <1>1 DEF DivInv, LoopInv
<1>4. PICK q1 \in Nat : /\ q = (n % 2^sr) * 2^(2 * W - sr) + q1
                        /\ 2 * q1 + carry < 2^(K - sr)
                        /\ n \div 2^sr = (2 * q1 + carry) * d + r
      BY <1>1 DEF DivInv, LoopInv
<1> DEFINE P == 2 * q1 + carry
<1>5. Distance' = K
      BY DEF Distance, Wide, ZerosMore, Iterate
<1> HIDE DEF K
<1>6. /\ i \in 0 .. 2 * W - 1 /\ i \in Nat /\ i + 1 = sr /\ 2 * W - sr = 2 * W - 1 - i
      /\ i \in 0 .. K /\ K - sr \in Nat /\ K - i = (K - sr) + 1
      /\ 2 * W - 1 - i \in Nat /\ K - sr <= 2 * W - 1 - i
      BY <1>1, <1>2, <1>3
<1> HIDE DEF i
<1>7. P \in Nat /\ q1 <= P /\ P < 2^(K - sr)
      BY <1>2, <1>4
<1>8. q1 \in 0 .. 2^(2 * W - 1 - i) - 1
      <2>1. 2^(K - sr) \in Nat /\ 2^(2 * W - 1 - i) \in Nat /\ 2^(K - sr) <= 2^(2 * W - 1 - i)
            BY <1>6, PowersGrow, PowerIsPositive
      <2> QED BY <1>4, <1>7, <2>1
<1>9. /\ bit \in {0, 1}
      /\ n \div 2^i = 2 * (n \div 2^sr) + bit
      /\ Shifted(q, carry) = (n % 2^i) * 2^(2 * W - i) + P
      <2>1. q = (n % 2^(i + 1)) * 2^(2 * W - 1 - i) + q1
            BY <1>4, <1>6
      <2>2. /\ bit \in {0, 1}
            /\ n \div 2^i = 2 * (n \div 2^(i + 1)) + bit
            /\ Shifted(q, carry) = (n % 2^i) * 2^(2 * W - i) + (2 * q1 + carry)
            BY <1>2, <1>6, <1>8, <2>1, QueueMoves
      <2> QED BY <1>6, <2>2
<1> HIDE DEF bit
<1>10. n \div 2^sr = P * d + r
      BY <1>4
<1> HIDE DEF P
<1>11. n \div 2^i = (2 * P) * d + x /\ P * d \in Nat
      <2>1. P * d \in Nat /\ (2 * P) * d = 2 * (P * d)
            BY <1>2, <1>7
      <2> QED BY <1>2, <1>3, <1>9, <1>10, <2>1
<1>12. x \in Nat /\ x < 2 * d /\ x <= n
      <2>1. x \in Nat /\ x < 2 * d
            BY <1>2, <1>3, <1>9
      <2>2. 2^i \in Nat \ {0}
            BY <1>6, PowerIsPositive
      <2>3. n \div 2^i <= n
            BY <1>2, <2>2, DivParts
      <2>4. (2 * P) * d = 2 * (P * d)
            BY <1>2, <1>7
      <2> QED BY <1>2, <1>11, <2>1, <2>3, <2>4
<1>13. x \in Dword
      BY <1>2, <1>12, Sizes
<1>14. Shifted(r, bit) = x
      <2>1. Shifted(r, bit) = x % Modulus
            BY DEF Shifted, Modulus
      <2> QED BY <1>13, <2>1, FitsInDword
<1>15. 2 * d >= Modulus => 2 * x >= Modulus
      <2> HAVE 2 * d >= Modulus
      <2>1. K = 1 /\ sr = 1 /\ i = 0 /\ K - sr = 0 /\ 2 * n >= Modulus
            BY <1>1, <1>3, <1>6
      <2>2. 2^0 = 1
            BY PowersGrow
      <2>3. P = 0
            BY <1>7, <2>1, <2>2
      <2>4. n \div 2^i = n
            BY <1>2, <2>1, <2>2
      <2>5. (2 * P) * d = 0
            BY <1>2, <2>3
      <2>6. n = x
            BY <1>11, <1>12, <2>4, <2>5
      <2> QED BY <2>1, <2>6
<1> HIDE DEF x
<1>16. DFits(x) <=> d <= x
      <2>1. d \in Dword \ {0}
            BY DEF DivInv, TypeOK
      <2> QED BY <1>12, <1>13, <1>15, <2>1, FitsIs
<1>17. /\ carry' = (IF DFits(x) THEN 1 ELSE 0)
       /\ r' = (IF DFits(x) THEN (x - d) % Modulus ELSE x)
       /\ q' = Shifted(q, carry) /\ sr' = i
       /\ UNCHANGED <<pc, op, a, b, n, d, result>>
      BY <1>14 DEF Iterate, Modulus, bit, i
<1>18. carry' \in {0, 1} /\ r' \in 0 .. d - 1 /\ x = carry' * d + r'
      <2>1. CASE d <= x
            <3>1. x - d \in Dword /\ x - d \in 0 .. d - 1
                  BY <1>2, <1>12, <1>13, <2>1, Sizes
            <3>2. carry' = 1 /\ r' = x - d
                  BY <1>16, <1>17, <2>1, <3>1, FitsInDword
            <3> QED BY <1>2, <1>12, <3>1, <3>2
      <2>2. CASE ~(d <= x)
            <3>1. carry' = 0 /\ r' = x
                  BY <1>16, <1>17, <2>2
            <3> QED BY <1>2, <1>12, <2>2, <3>1
      <2> QED BY <2>1, <2>2
<1>19. n \div 2^i = (2 * P + carry') * d + r'
      <2>1. (2 * P + carry') * d = (2 * P) * d + carry' * d
            BY <1>2, <1>7, <1>18
      <2>2. (2 * P) * d \in Int /\ carry' * d \in Int
            BY <1>2, <1>7, <1>18
      <2> QED BY <1>2, <1>11, <1>18, <2>1, <2>2
<1>20. 2 * P + carry' < 2^(K - i)
      <2>1. 2^(K - i) = 2 * 2^(K - sr) /\ 2^(K - sr) \in Nat
            BY <1>6, PowersGrow, PowerIsPositive
      <2> QED BY <1>7, <1>18, <2>1
<1>21. TypeOK'
      <2>1. q' \in Dword
            <3>1. q \in Nat /\ 2 * q + carry \in Int
                  BY <1>2, Sizes DEF DivInv, TypeOK
            <3>2. Shifted(q, carry) = (2 * q + carry) % Modulus
                  BY DEF Shifted, Modulus
            <3> QED BY <1>17, <3>1, <3>2, RemainderIsDword
      <2>2. r' \in Dword
            BY <1>2, <1>18, Sizes
      <2>3. sr' \in 0 .. 2 * W - 1
            BY <1>6, <1>17
      <2> QED BY <1>17, <1>18, <2>1, <2>2, <2>3 DEF DivInv, TypeOK
<1>22. Args' /\ Finished'
      BY <1>1, <1>17 DEF DivInv, Args, Finished
<1>23. LoopInv'
      <2>1. \E y \in Nat : /\ q' = (n' % 2^sr') * 2^(2 * W - sr') + y
                           /\ 2 * y + carry' < 2^(K - sr')
                           /\ n' \div 2^sr' = (2 * y + carry') * d' + r'
            BY <1>7, <1>9, <1>17, <1>19, <1>20
      <2>2. /\ sr' \in 0 .. K /\ r' \in 0 .. d' - 1
            /\ 2 * d' >= Modulus => K = 1 /\ 2 * n' >= Modulus
            BY <1>3, <1>6, <1>17, <1>18
      <2> QED BY <1>3, <1>5, <2>1, <2>2 DEF LoopInv
<1> QED BY <1>21, <1>22, <1>23 DEF DivInv

\* After the last round, q with the carry is the quotient and r the remainder.
LEMMA LoopEndsAnswers ==
    ASSUME DivInv, LoopEnds
    PROVE  Answered /\ q' \in Dword
<1> DEFINE K == Distance
<1>1. pc = "loop" /\ sr = 0 /\ q' = Shifted(q, carry) /\ Return(q', r)
      BY DEF LoopEnds
<1>2. /\ d \in 1 .. Modulus - 1 /\ carry \in {0, 1} /\ W \in Nat
      /\ n \in Nat /\ Modulus \in Nat \ {0} /\ Dword = 0 .. Modulus - 1
      BY Sizes DEF DivInv, TypeOK
<1>3. K \in 1 .. 2 * W - 1 /\ r \in 0 .. d - 1
      BY <1>1 DEF DivInv, LoopInv
<1>4. PICK q1 \in Nat : /\ q = (n % 2^sr) * 2^(2 * W - sr) + q1
                        /\ 2 * q1 + carry < 2^(K - sr)
                        /\ n \div 2^sr = (2 * q1 + carry) * d + r
      BY <1>1 DEF DivInv, LoopInv
<1> DEFINE P == 2 * q1 + carry
<1> HIDE DEF K
<1>5. P \in Nat /\ P < 2^K
      <2>1. K - sr = K
            BY <1>1, <1>2, <1>3
      <2> QED BY <1>2, <1>4, <2>1
<1>6. P \in Dword
      <2>1. K \in Nat /\ 2 * W \in Nat /\ K <= 2 * W
            BY <1>2, <1>3
      <2>2. 2^K <= Modulus /\ 2^K \in Nat
            BY <2>1, PowersGrow, PowerIsPositive DEF Modulus
      <2> QED BY <1>2, <1>5, <2>2
<1>7. 2^sr = 1 /\ 2^(2 * W - sr) \in Nat
      <2>1. 2 * W - sr \in Nat
            BY <1>1, <1>2
      <2> QED BY <1>1, <2>1, PowersGrow, PowerIsPositive
<1>8. q = q1 /\ n = P * d + r
      <2>1. n % 1 = 0 /\ n \div 1 = n
            BY <1>2
      <2>2. \A y \in Nat : 0 * y = 0
            OBVIOUS
      <2> QED BY <1>4, <1>7, <2>1, <2>2
<1>9. q' = P
      <2>1. q' = P % Modulus
            BY <1>1, <1>8 DEF Shifted, Modulus
      <2> QED BY <1>6, <2>1, FitsInDword
<1> HIDE DEF P
<1> QED BY <1>1, <1>3, <1>5, <1>6, <1>8, <1>9 DEF Answered

\* A call establishes the invariant.
LEMMA InitDivInv == Init => DivInv
<1> HAVE Init
<1>1. Args
      BY DEF Init, Args
<1>2. n \in Dword /\ d \in Dword \ {0}
      BY <1>1, ArgsFit
<1>3. 0 \in Dword /\ 0 \in 0 .. 2 * W - 1
      BY Sizes
<1>4. TypeOK
      BY <1>2, <1>3 DEF Init, TypeOK
<1>5. LoopInv /\ Finished
      BY DEF Init, LoopInv, Finished
<1> QED BY <1>1, <1>4, <1>5 DEF DivInv

\* Every step keeps the invariant.
LEMMA NextKeepsDivInv == DivInv /\ [Next]_vars => DivInv'
<1> SUFFICES ASSUME DivInv, [Next]_vars PROVE DivInv'
    OBVIOUS
<1>1. n \in Dword /\ d \in Dword \ {0} /\ q \in Dword
      BY DEF DivInv, TypeOK
<1>2. CASE SmallNumerator
      BY <1>1, <1>2, SmallNumeratorAnswers, AnswersKeepDivInv DEF SmallNumerator
<1>3. CASE HighDenominator
      BY <1>1, <1>3, HighDenominatorAnswers, AnswersKeepDivInv DEF HighDenominator
<1>4. CASE PowerDenominator
      BY <1>1, <1>4, PowerDenominatorAnswers, AnswersKeepDivInv DEF PowerDenominator
<1>5. CASE DenominatorIsLonger
      BY <1>1, <1>5, DenominatorIsLongerAnswers, AnswersKeepDivInv DEF DenominatorIsLonger
<1>6. CASE Setup
      BY <1>6, SetupKeepsDivInv
<1>7. CASE Iterate
      BY <1>7, IterateKeepsDivInv
<1>8. CASE LoopEnds
      BY <1>8, LoopEndsAnswers, AnswersKeepDivInv DEF LoopEnds
<1>9. CASE Returned \/ UNCHANGED vars
      <2>1. UNCHANGED vars
            BY <1>9 DEF Returned
      <2>2. UNCHANGED <<pc, op, a, b, n, d, q, r, sr, carry, result>>
            BY <2>1 DEF vars
      <2>3. TypeOK'
            BY <2>2 DEF DivInv, TypeOK
      <2>4. Args'
            BY <2>2 DEF DivInv, Args
      <2>5. LoopInv'
            <3>1. Distance' = Distance
                  BY <2>2 DEF Distance, Wide, ZerosMore
            <3> QED BY <2>2, <3>1 DEF DivInv, LoopInv
      <2>6. Finished'
            BY <2>2 DEF DivInv, Finished, Promised, Value, QuotientOf
      <2> QED BY <2>3, <2>4, <2>5, <2>6 DEF DivInv
<1> QED BY <1>2, <1>3, <1>4, <1>5, <1>6, <1>7, <1>8, <1>9 DEF Next

\* The invariant holds throughout.
LEMMA SpecKeepsDivInv == Spec => []DivInv
BY InitDivInv, NextKeepsDivInv, PTL DEF Spec

----------------------------------------------------------------------------
(* What division promises *)

\* Halves and double words stay in their widths: no shift is by W or more, the
\* case in which Shl and Shr have no value of a half.
THEOREM StaysInWidth == Spec => []TypeOK
<1>1. DivInv => TypeOK
      BY DEF DivInv
<1> QED BY <1>1, SpecKeepsDivInv, PTL

\* __udivdi3, __umoddi3, __divdi3 and __moddi3 return the quotient truncated
\* towards zero and the remainder with the sign of the dividend, whatever the
\* width of a half.
THEOREM QuotientsAreRight == Spec => []DividesCorrectly
<1>1. DivInv => DividesCorrectly
      BY DEF DivInv, Finished, Promised, DividesCorrectly
<1> QED BY <1>1, SpecKeepsDivInv, PTL

\* In each round of the loop of __udivmoddi4 the leading bits of n are divided:
\* the bits of the quotient gathered so far, times d, plus r, are n without its
\* last sr bits.
THEOREM RoundsDivide == Spec => []LeadingBitsDivided
<1>1. ASSUME DivInv, pc = "loop"
      PROVE  r < d /\ n \div 2^sr = d * PartialQuotient + r
      <2> DEFINE K == Distance
                 m == 2^(K - sr)
                 e == n % 2^sr
                 v == 2^(2 * W - sr)
                 w == 2^(2 * W + 1 - K)
      <2>1. /\ d \in 1 .. Modulus - 1 /\ carry \in {0, 1} /\ W \in Nat
            /\ n \in Nat
            BY <1>1, Sizes DEF DivInv, TypeOK
      <2>2. K \in 1 .. 2 * W - 1 /\ sr \in 0 .. K /\ r \in 0 .. d - 1
            BY <1>1 DEF DivInv, LoopInv
      <2>3. PICK q1 \in Nat : /\ q = (n % 2^sr) * 2^(2 * W - sr) + q1
                              /\ 2 * q1 + carry < 2^(K - sr)
                              /\ n \div 2^sr = (2 * q1 + carry) * d + r
            BY <1>1 DEF DivInv, LoopInv
      <2> DEFINE P == 2 * q1 + carry
      <2>4. PartialQuotient = (2 * q + carry) % m
            BY DEF PartialQuotient
      <2> HIDE DEF K
      <2>5. /\ sr \in Nat /\ K - sr \in Nat /\ 2 * W - sr \in Nat /\ 2 * W + 1 - K \in Nat
            /\ (2 * W - sr) + 1 = (K - sr) + (2 * W + 1 - K)
            BY <2>1, <2>2
      <2>6. m \in Nat \ {0} /\ v \in Nat /\ w \in Nat /\ 2 * v = m * w
            <3>1. 2^((2 * W - sr) + 1) = 2 * v
                  BY <2>5, PowersGrow
            <3>2. 2^((K - sr) + (2 * W + 1 - K)) = m * w
                  BY <2>5, PowerOfSum
            <3> QED BY <2>5, <3>1, <3>2, PowerIsPositive
      <2>7. e \in Nat
            <3>1. 2^sr \in Nat \ {0}
                  BY <2>5, PowerIsPositive
            <3>2. \A y \in Nat \ {0} : n % y \in Nat
                  BY <2>1
            <3> QED BY <3>1, <3>2
      <2>8. q = e * v + q1 /\ P \in 0 .. m - 1
            BY <2>1, <2>3, <2>6
      <2> HIDE DEF m, e, v, w
      <2>9. 2 * q + carry = (e * w) * m + P
            <3>1. 2 * (e * v) = (e * w) * m /\ e * v \in Int
                  <4>1. 2 * (e * v) = e * (2 * v)
                        BY <2>6, <2>7
                  <4>2. e * (m * w) = (e * w) * m
                        BY <2>6, <2>7
                  <4> QED BY <2>6, <2>7, <4>1, <4>2
            <3> QED BY <2>1, <2>8, <3>1
      <2>10. (2 * q + carry) % m = P
            <3> DEFINE t == 2 * q + carry
                       y == e * w
            <3>1. y \in Int /\ t = y * m + P
                  BY <2>6, <2>7, <2>9
            <3>2. t \in Int
                  BY <1>1, <2>1, Sizes DEF DivInv, TypeOK
            <3> HIDE DEF t, y, P
            <3>3. t % m = P
                  BY <2>6, <2>8, <3>1, <3>2, DivUnique
            <3> QED BY <3>3 DEF t
      <2>11. P * d = d * P
            BY <2>1, <2>3
      <2>12. n \div 2^sr = P * d + r /\ PartialQuotient = P
            BY <2>3, <2>4, <2>10
      <2>13. r < d
            BY <2>1, <2>2
      <2> HIDE DEF P
      <2> QED BY <2>11, <2>12, <2>13
<1>2. DivInv => LeadingBitsDivided
      BY <1>1 DEF LeadingBitsDivided
<1> QED BY <1>2, SpecKeepsDivInv, PTL

\* On each of the ways into the loop, q and r start as the comment of
\* __udivmoddi4 says: n shifted left by what sr leaves of the width, and n
\* shifted right by sr.
THEOREM LoopStartsAsCommented == Spec => []EntersAsCommented
<1>1. ASSUME DivInv, pc = "loop", sr = Distance
      PROVE  /\ q = (n * 2^(2 * W - sr)) % 2^(2 * W)
             /\ r = n \div 2^sr
             /\ sr \in 1 .. 2 * W - 1
      <2> DEFINE u == 2^sr
                 v == 2^(2 * W - sr)
                 c == n \div u
                 e == n % u
      <2>1. d \in 1 .. Modulus - 1 /\ carry \in {0, 1} /\ W \in Nat /\ n \in Nat
            BY <1>1, Sizes DEF DivInv, TypeOK
      <2>2. sr \in 1 .. 2 * W - 1 /\ r \in 0 .. d - 1
            BY <1>1 DEF DivInv, LoopInv
      <2>3. PICK q1 \in Nat : /\ q = e * v + q1
                              /\ 2 * q1 + carry < 2^(sr - sr)
                              /\ c = (2 * q1 + carry) * d + r
            BY <1>1 DEF DivInv, LoopInv
      <2>4. /\ sr \in Nat /\ 2 * W - sr \in Nat /\ sr + (2 * W - sr) = 2 * W
            /\ sr - sr = 0
            BY <2>1, <2>2
      <2>5. u \in Nat \ {0} /\ v \in Nat \ {0} /\ Modulus = u * v
            BY <2>4, PowerOfSum, PowerIsPositive DEF Modulus
      <2> HIDE DEF u, v
      <2>6. c \in Nat /\ e \in 0 .. u - 1 /\ n = c * u + e
            BY <2>1, <2>5, DivParts
      <2> HIDE DEF c, e
      <2>7. q1 = 0 /\ carry = 0
            <3>1. 2^(sr - sr) = 1
                  BY <2>4, PowersGrow
            <3> QED BY <2>1, <2>3, <3>1
      <2>8. r = c
            BY <2>1, <2>2, <2>3, <2>7
      <2>9. q = e * v /\ e * v \in Nat
            BY <2>3, <2>5, <2>6, <2>7
      <2> DEFINE t == n * v
      <2>10. t \in Int /\ t = c * Modulus + q
            <3>1. n * v = c * (u * v) + e * v
                  BY <2>5, <2>6
            <3> QED BY <2>1, <2>5, <2>9, <3>1
      <2> HIDE DEF t
      <2>11. t % Modulus = q
            <3>1. q \in 0 .. Modulus - 1 /\ Modulus \in Nat \ {0} /\ c \in Int
                  BY <1>1, <2>6, Sizes DEF DivInv, TypeOK
            <3> QED BY <2>10, <3>1, DivUnique
      <2> QED BY <2>2, <2>8, <2>11 DEF t, c, u, v, Modulus
<1>2. DivInv => EntersAsCommented
      BY <1>1 DEF EntersAsCommented
<1> QED BY <1>2, SpecKeepsDivInv, PTL

----------------------------------------------------------------------------
(* The widths of Conversion *)

LEMMA FormatSizes ==
    /\ H \in Nat \ {0} /\ S \in Nat \ {0} /\ D \in Nat /\ H < D
    /\ Bits \in Nat \ {0} /\ Bits = H + H /\ S + 2 < Bits /\ D < Bits
    /\ 2^H \in Nat \ {0} /\ 2^(H - 1) \in Nat \ {0} /\ 2^H = 2 * 2^(H - 1)
    /\ 2^Bits \in Nat \ {0} /\ 2^(Bits - 1) \in Nat \ {0} /\ 2^Bits = 2 * 2^(Bits - 1)
    /\ 2^Bits = 2^H * 2^H /\ 2^(Bits - 1) = 2^(H - 1) * 2^H
    /\ 2^S \in Nat \ {0} /\ 2^(S - 1) \in Nat \ {0} /\ 2^S = 2 * 2^(S - 1)
    /\ 2^D \in Nat \ {0} /\ 2^(D - 1) \in Nat \ {0} /\ 2^D = 2 * 2^(D - 1)
<1>1. /\ H \in Nat \ {0} /\ S \in Nat \ {0} /\ D \in Nat /\ H < D
      /\ Bits \in Nat \ {0} /\ Bits = H + H /\ S + 2 < Bits /\ D < Bits
      BY FormatAssumption DEF Bits
<1> HIDE DEF Bits
<1>2. /\ H - 1 \in Nat /\ Bits - 1 \in Nat /\ S - 1 \in Nat /\ D - 1 \in Nat
      /\ H = (H - 1) + 1 /\ Bits = (Bits - 1) + 1 /\ S = (S - 1) + 1 /\ D = (D - 1) + 1
      /\ Bits - 1 = (H - 1) + H
      BY <1>1
<1>3. /\ 2^H \in Nat \ {0} /\ 2^(H - 1) \in Nat \ {0}
      /\ 2^Bits \in Nat \ {0} /\ 2^(Bits - 1) \in Nat \ {0}
      /\ 2^S \in Nat \ {0} /\ 2^(S - 1) \in Nat \ {0}
      /\ 2^D \in Nat \ {0} /\ 2^(D - 1) \in Nat \ {0}
      BY <1>1, <1>2, PowerIsPositive
<1>4. \A i \in Nat : 2^(i + 1) = 2 * 2^i
      BY PowersGrow
<1>5. 2^H = 2 * 2^(H - 1)
      BY <1>2, <1>4
<1>6. 2^Bits = 2 * 2^(Bits - 1)
      BY <1>2, <1>4
<1>7. 2^S = 2 * 2^(S - 1)
      BY <1>2, <1>4
<1>8. 2^D = 2 * 2^(D - 1)
      BY <1>2, <1>4
<1>9. 2^Bits = 2^H * 2^H
      BY <1>1, PowerOfSum
<1>10. 2^(Bits - 1) = 2^(H - 1) * 2^H
      BY <1>1, <1>2, PowerOfSum
<1> QED BY <1>1, <1>3, <1>5, <1>6, <1>7, <1>8, <1>9, <1>10

\* An argument as a signed number, and back.
LEMMA SignedRange ==
    ASSUME NEW x \in Ints
    PROVE  /\ x \in Nat /\ x < 2^Bits
           /\ Signed(x) \in Int /\ -(2^(Bits - 1)) <= Signed(x) /\ Signed(x) < 2^(Bits - 1)
           /\ \/ Signed(x) = x
              \/ Signed(x) = x - 2^Bits
<1>1. x \in Nat /\ x < 2^Bits
      BY FormatSizes DEF Ints
<1>2. 2^(Bits - 1) \in Nat /\ 2^Bits \in Nat /\ 2^Bits = 2 * 2^(Bits - 1)
      BY FormatSizes
<1>3. CASE x >= 2^(Bits - 1)
      <2>1. Signed(x) = x - 2^Bits
            BY <1>3 DEF Signed
      <2> QED BY <1>1, <1>2, <1>3, <2>1
<1>4. CASE ~(x >= 2^(Bits - 1))
      <2>1. Signed(x) = x
            BY <1>4 DEF Signed
      <2> QED BY <1>1, <1>2, <1>4, <2>1
<1> QED BY <1>3, <1>4

\* The number of bits is found: it is one more than that of the highest power below.
LEMMA LengthIs ==
    ASSUME NEW v \in Nat \ {0}, v < 2^Bits
    PROVE  /\ Length(v) \in 1 .. Bits
           /\ 2^(Length(v) - 1) <= v /\ v < 2^Length(v)
<1> DEFINE T == {k \in Nat : v < 2^k}
<1>1. T \in SUBSET Nat /\ Bits \in T
      BY FormatSizes
<1>2. PICK k \in T : \A y \in T : k <= y
      BY <1>1, LeastNumber
<1>3. k \in Nat /\ v < 2^k /\ k <= Bits
      BY <1>1, <1>2
<1>4. k # 0
      <2>1. ASSUME k = 0 PROVE v < 1
            <3>1. 2^k = 1
                  BY <2>1, PowersGrow
            <3> QED BY <1>3, <3>1
      <2> QED BY <2>1
<1>5. k - 1 \in Nat /\ ~(k <= k - 1)
      BY <1>3, <1>4
<1>6. ~(v < 2^(k - 1))
      BY <1>2, <1>5
<1>7. 2^(k - 1) \in Nat
      BY <1>5, PowerIsPositive
<1>8. 2^(k - 1) <= v
      BY <1>6, <1>7
<1>9. k \in 1 .. Bits
      BY <1>3, <1>4, FormatSizes
<1>10. \E i \in 1 .. Bits : 2^(i - 1) <= v /\ v < 2^i
      BY <1>3, <1>8, <1>9
<1> QED BY <1>10 DEF Length

----------------------------------------------------------------------------
(* Cutting off *)

\* High and low half together are the number without its quarters.
LEMMA FixUnsDfDiIs == ASSUME NEW k \in Nat PROVE FixUnsDfDi(k) = k \div 4
<1> DEFINE B == 2^H
           h == k \div (4 * B)
           e == k % (4 * B)
           l == e \div 4
           f == e % 4
<1>1. B \in Nat \ {0}
      BY FormatSizes
<1>2. FixUnsDfDi(k) = IF k <= 0 THEN 0 ELSE h * B + ((k - 4 * h * B) \div 4)
      BY DEF FixUnsDfDi
<1> HIDE DEF B
<1>3. 4 * B \in Nat \ {0}
      BY <1>1
<1>4. h \in Nat /\ e \in Nat /\ k = h * (4 * B) + e
      <2> DEFINE c == 4 * B
      <2>1. c \in Nat \ {0}
            BY <1>3
      <2> HIDE DEF c
      <2>2. /\ k \div c \in Nat /\ k % c \in 0 .. c - 1
            /\ k = (k \div c) * c + (k % c)
            BY <2>1, DivParts
      <2>3. k % c \in Nat
            BY <2>1, <2>2
      <2> QED BY <2>2, <2>3 DEF c
<1> HIDE DEF h, e
<1>5. l \in Nat /\ f \in 0 .. 3 /\ e = l * 4 + f
      <2>1. 4 \in Nat \ {0}
            OBVIOUS
      <2>2. l \in Nat /\ f \in 0 .. 4 - 1 /\ e = l * 4 + f
            BY <1>4, <2>1, DivParts
      <2> QED BY <2>2
<1>6. k - 4 * h * B = e
      BY <1>1, <1>4
<1>7. CASE k <= 0
      BY <1>2, <1>7
<1>8. CASE ~(k <= 0)
      <2>1. FixUnsDfDi(k) = h * B + l
            BY <1>2, <1>6, <1>8
      <2> HIDE DEF l, f
      <2>2. k = (h * B + l) * 4 + f
            BY <1>1, <1>4, <1>5
      <2>3. h * B + l \in Int /\ k \in Int /\ 4 \in Nat \ {0} /\ f \in 0 .. 4 - 1
            BY <1>1, <1>4, <1>5
      <2>4. k \div 4 = h * B + l
            BY <2>2, <2>3, DivUnique
      <2> QED BY <2>1, <2>4
<1> QED BY <1>7, <1>8

\* A negated number is read as the negative one it stands for.
LEMMA SignedOfNegated ==
    ASSUME NEW w \in Nat, w <= 2^(Bits - 1)
    PROVE  Signed((-w) % 2^Bits) = -w
<1> DEFINE M == 2^Bits
           K == 2^(Bits - 1)
<1>1. M \in Nat \ {0} /\ K \in Nat \ {0} /\ M = 2 * K /\ w <= K
      BY FormatSizes
<1>2. Signed((-w) % M) = IF (-w) % M >= K THEN ((-w) % M) - M ELSE (-w) % M
      BY DEF Signed
<1> HIDE DEF M, K
<1>3. CASE w = 0
      <2>1. (-w) = 0 * M + 0 /\ 0 \in 0 .. M - 1 /\ -w \in Int
            BY <1>1, <1>3
      <2>2. (-w) % M = 0
            BY <1>1, <2>1, DivUnique
      <2> QED BY <1>1, <1>2, <1>3, <2>2 DEF M
<1>4. CASE w > 0
      <2>1. (-w) = (-1) * M + (M - w) /\ M - w \in 0 .. M - 1 /\ -w \in Int /\ -1 \in Int
            BY <1>1, <1>4
      <2>2. (-w) % M = M - w
            BY ONLY <1>1, <2>1, DivUnique
      <2>3. M - w >= K /\ (M - w) - M = -w
            BY <1>1
      <2>4. Signed((-w) % M) = (M - w) - M
            BY <1>2, <2>2, <2>3
      <2> QED BY <2>3, <2>4 DEF M
<1> QED BY <1>3, <1>4

\* A number below half the range is read as itself.
LEMMA SignedOfSmall ==
    ASSUME NEW w \in Nat, w < 2^(Bits - 1)
    PROVE  Signed(w) = w
BY FormatSizes DEF Signed

\* What __fixdfdi yields, of every double it is defined for.
LEMMA FixDfDiIs ==
    ASSUME NEW k \in Int, -4 * 2^(Bits - 1) <= k, k < 4 * 2^(Bits - 1)
    PROVE  Signed(FixDfDi(k)) = IF k < 0 THEN -((-k) \div 4) ELSE k \div 4
<1> DEFINE K == 2^(Bits - 1)
<1>1. K \in Nat \ {0}
      BY FormatSizes
<1>2. CASE k < 0
      <2>1. -k \in Nat
            BY <1>2
      <2>2. FixUnsDfDi(-k) = (-k) \div 4
            BY <2>1, FixUnsDfDiIs
      <2>3. (-k) \div 4 \in Nat /\ (-k) \div 4 <= K
            <3>1. -k <= 4 * K
                  BY <1>1
            <3> HIDE DEF K
            <3> QED BY <1>1, <2>1, <3>1
      <2>4. FixDfDi(k) = (-((-k) \div 4)) % 2^Bits
            BY <1>2, <2>2 DEF FixDfDi
      <2> QED BY <1>2, <2>3, <2>4, SignedOfNegated
<1>3. CASE ~(k < 0)
      <2>1. k \in Nat
            BY <1>3
      <2>2. FixDfDi(k) = k \div 4
            BY <1>3, <2>1, FixUnsDfDiIs DEF FixDfDi
      <2>3. k \div 4 \in Nat /\ k \div 4 < K
            <3>1. k < 4 * K
                  OBVIOUS
            <3> HIDE DEF K
            <3> QED BY <1>1, <2>1, <3>1
      <2> QED BY <1>3, <2>2, <2>3, SignedOfSmall
<1> QED BY <1>2, <1>3

----------------------------------------------------------------------------
(* Doubles *)

\* The parts of Nearest, with the number of bits that are dropped.
LEMMA NearestIs ==
    ASSUME NEW p \in Nat, NEW v \in Nat, NEW unit \in Nat \ {0}, v >= 2^p,
           unit = 2^(Length(v) - p),
           NEW m \in Nat, NEW low \in 0 .. unit - 1, v = m * unit + low
    PROVE  /\ 2 * low < unit => Nearest(p, v) = m * unit
           /\ 2 * low = unit /\ m % 2 = 0 => Nearest(p, v) = m * unit
           /\ 2 * low = unit /\ m % 2 # 0 => Nearest(p, v) = (m + 1) * unit
           /\ 2 * low > unit => Nearest(p, v) = (m + 1) * unit
<1> DEFINE down == m * unit
<1>1. v % unit = low
      BY DivUnique
<1>2. v - low = down /\ down \in Nat
      OBVIOUS
<1>3. down \div unit = m
      <2>1. down = m * unit + 0 /\ 0 \in 0 .. unit - 1 /\ m \in Int /\ down \in Int
            OBVIOUS
      <2> HIDE DEF down
      <2> QED BY <2>1, DivUnique
<1>4. Nearest(p, v) = IF 2 * low < unit \/ (2 * low = unit /\ m % 2 = 0)
                      THEN down ELSE down + unit
      <2>1. ~(v < 2^p)
            BY PowerIsPositive
      <2> QED BY <1>1, <1>2, <1>3, <2>1 DEF Nearest
<1>5. down + unit = (m + 1) * unit
      OBVIOUS
<1> HIDE DEF down
<1>6. /\ 2 * low < unit => Nearest(p, v) = down
      /\ 2 * low = unit /\ m % 2 = 0 => Nearest(p, v) = down
      /\ 2 * low = unit /\ m % 2 # 0 => Nearest(p, v) = down + unit
      /\ 2 * low > unit => Nearest(p, v) = down + unit
      BY <1>2, <1>4
<1> QED BY <1>5, <1>6 DEF down

\* A multiple of 2^H whose factor fits a double is not rounded.
LEMMA MultipleIsExact ==
    ASSUME NEW u \in Nat, u < 2^D, u * 2^H < 2^Bits
    PROVE  Nearest(D, u * 2^H) = u * 2^H
<1> DEFINE v == u * 2^H
           len == Length(v)
           unit == 2^(len - D)
           j == D + H - len
<1>1. v \in Nat /\ v < 2^Bits
      BY FormatSizes
<1>2. CASE v < 2^D
      BY <1>2 DEF Nearest
<1>3. CASE ~(v < 2^D)
      <2>1. D \in Nat /\ H \in Nat /\ Bits \in Nat /\ 2^D \in Nat \ {0} /\ 2^H \in Nat \ {0}
            BY FormatSizes
      <2>2. v >= 2^D /\ v \in Nat \ {0}
            <3> HIDE DEF v
            <3> QED BY <1>1, <1>3, <2>1
      <2>3. len \in 1 .. Bits /\ 2^(len - 1) <= v /\ v < 2^len
            <3> HIDE DEF v
            <3> QED BY <1>1, <2>2, LengthIs
      <2>4. v < 2^(D + H)
            <3>1. 2^(D + H) = 2^D * 2^H
                  BY <2>1, PowerOfSum
            <3>2. \A x, y, z \in Nat : x < y /\ z > 0 => x * z < y * z
                  OBVIOUS
            <3> QED BY <2>1, <3>1, <3>2
      <2> HIDE DEF v, len
      <2>5. len \in Nat /\ len - 1 \in Nat /\ 2^(len - 1) \in Nat /\ 2^len \in Nat
            <3>1. len \in Nat /\ len - 1 \in Nat
                  BY <2>1, <2>3
            <3> QED BY <3>1, PowerIsPositive
      <2>6. len > D
            <3>1. ASSUME len <= D PROVE FALSE
                  <4>1. 2^len <= 2^D
                        BY <2>1, <2>5, <3>1, PowersGrow
                  <4> QED BY <1>1, <2>1, <2>2, <2>3, <2>5, <4>1
            <3> QED BY <2>1, <2>5, <3>1
      <2>7. len <= D + H
            <3>1. ASSUME D + H <= len - 1 PROVE FALSE
                  <4>1. D + H \in Nat
                        BY <2>1
                  <4>2. 2^(D + H) <= 2^(len - 1) /\ 2^(D + H) \in Nat
                        BY <2>5, <3>1, <4>1, PowersGrow, PowerIsPositive
                  <4> QED BY <1>1, <2>3, <2>4, <2>5, <4>2
            <3> QED BY <2>1, <2>5, <3>1
      <2>8. len - D \in Nat /\ j \in Nat /\ H = (len - D) + j
            BY <2>1, <2>5, <2>6, <2>7
      <2> HIDE DEF j
      <2>9. unit \in Nat \ {0} /\ 2^j \in Nat \ {0} /\ 2^H = unit * 2^j
            BY <2>8, PowerIsPositive, PowerOfSum
      <2> HIDE DEF unit
      <2>10. u * 2^j \in Nat /\ v = (u * 2^j) * unit + 0
            BY <2>9 DEF v
      <2> DEFINE m == u * 2^j
      <2> HIDE DEF m
      <2>11. m \in Nat /\ v = m * unit + 0 /\ 0 \in 0 .. unit - 1 /\ 2 * 0 < unit
            BY <2>9, <2>10 DEF m
      <2>12. unit = 2^(Length(v) - D)
            BY DEF unit, len
      <2>13. Nearest(D, v) = m * unit
            BY <1>1, <2>1, <2>2, <2>9, <2>11, <2>12, NearestIs
      <2>14. m * unit = v
            BY <2>9, <2>11
      <2> QED BY <2>13, <2>14 DEF v
<1> QED BY <1>2, <1>3

\* So a sum of two doubles that is such a multiple, of either sign, is exact.
LEMMA SumIsExact ==
    ASSUME NEW y \in Int, NEW z \in Int, NEW u \in Int, y + z = u * 2^H,
           -(2^D) < u, u < 2^D, -(2^Bits) < y + z, y + z < 2^Bits
    PROVE  Plus(y, z) = y + z
<1> DEFINE B == 2^H
<1>1. B \in Nat \ {0} /\ 2^D \in Nat /\ 2^Bits \in Nat
      BY FormatSizes
<1> HIDE DEF B
<1>2. CASE u < 0
      <2>1. -u \in Nat /\ -u < 2^D /\ (-u) * B = -(y + z)
            BY <1>1, <1>2 DEF B
      <2>2. y + z < 0
            <3>1. \A x \in Nat \ {0} : x * B >= 1
                  BY <1>1
            <3> QED BY <1>2, <2>1, <3>1
      <2>3. (-u) * B < 2^Bits
            BY <1>1, <2>1
      <2>4. Nearest(D, (-u) * B) = (-u) * B
            <3> DEFINE w == -u
            <3>1. w \in Nat /\ w < 2^D /\ w * 2^H < 2^Bits
                  BY <2>1, <2>3 DEF B
            <3> HIDE DEF w
            <3>2. Nearest(D, w * 2^H) = w * 2^H
                  BY <3>1, MultipleIsExact
            <3> QED BY <3>2 DEF w, B
      <2>5. Plus(y, z) = -Nearest(D, -(y + z))
            BY <2>2 DEF Plus, RoundTo
      <2> QED BY <2>1, <2>4, <2>5
<1>3. CASE ~(u < 0)
      <2>1. u \in Nat /\ y + z = u * B
            BY <1>3 DEF B
      <2>2. ~(y + z < 0)
            BY <1>1, <2>1
      <2>3. Nearest(D, u * B) = u * B
            BY <2>1, MultipleIsExact DEF B
      <2> QED BY <2>1, <2>2, <2>3 DEF Plus, RoundTo
<1> QED BY <1>2, <1>3

\* 2^(D - 1) is such a multiple, of a factor at most half as large as may be.
LEMMA TwoP52Is ==
    \E t \in Nat \ {0} : TwoP52 = t * 2^H /\ 2 * t <= 2^(D - 1)
<1>1. /\ H \in Nat \ {0} /\ D - 1 \in Nat /\ D - 1 - H \in Nat
      /\ (D - 1 - H) + H = D - 1 /\ (D - 1 - H) + 1 \in Nat /\ (D - 1 - H) + 1 <= D - 1
      BY FormatSizes
<1> DEFINE t == 2^(D - 1 - H)
<1>2. t \in Nat \ {0} /\ 2^(D - 1) = t * 2^H
      BY <1>1, PowerOfSum, PowerIsPositive
<1>3. D - 1 - H < D - 1
      BY <1>1
<1>4. 2 * t <= 2^(D - 1)
      BY <1>1, <1>3, PowersGrow
<1> HIDE DEF t
<1> QED BY <1>2, <1>4 DEF TwoP52

\* Taking 2^(D - 1) away is exact, so only the second sum is rounded.
LEMMA OneRounding ==
    ASSUME NEW g \in Int, -(2^(H - 1)) <= g, g < 2^H, NEW l \in Nat,
           NEW y \in Int, NEW z \in Int, y + z = g * 2^H - TwoP52
    PROVE  Plus(Plus(y, z), TwoP52 + l) = RoundTo(D, g * 2^H + l)
<1> DEFINE B == 2^H
           K == 2^(H - 1)
           E == 2^(D - 1)
<1>1. PICK t \in Nat \ {0} : TwoP52 = t * B /\ 2 * t <= E
      BY TwoP52Is
<1>2. /\ B \in Nat \ {0} /\ K \in Nat \ {0} /\ E \in Nat \ {0}
      /\ B = 2 * K /\ 2^D = 2 * E /\ 2^Bits = B * B /\ 2^(Bits - 1) = K * B
      /\ 2^Bits = 2 * 2^(Bits - 1) /\ 2^(Bits - 1) \in Nat
      BY FormatSizes
<1>3. B <= E
      <2>1. H \in Nat /\ D - 1 \in Nat /\ H <= D - 1
            BY FormatSizes
      <2> QED BY <2>1, PowersGrow
<1>4. 2 * E <= 2^(Bits - 1)
      <2>1. D - 1 \in Nat /\ Bits - 1 \in Nat /\ D - 1 < Bits - 1
            BY FormatSizes
      <2> QED BY <2>1, PowersGrow
<1>5. TwoP52 = E
      BY DEF TwoP52
<1>6. y + z = g * B - E
      BY <1>5
<1>7. -K <= g /\ g < B
      OBVIOUS
<1> DEFINE u == g - t
<1>8. u \in Int /\ y + z = u * B
      BY <1>1, <1>2, <1>5, <1>6
<1>9. -(2 * E) < u /\ u < 2 * E
      <2> HIDE DEF B, K, E
      <2> QED BY <1>1, <1>2, <1>3, <1>7
<1>10. -(2^Bits) < g * B - E /\ g * B - E < 2^Bits
      <2> DEFINE F == 2^(Bits - 1)
      <2>1. 2^Bits = B * B /\ F = K * B /\ 2 * E <= F /\ 2^Bits = 2 * F /\ F \in Nat
            BY <1>2, <1>4
      <2> HIDE DEF B, K, E, F
      <2>2. -F <= g * B
            <3>1. \A i, j \in Int : -i <= j => -(i * B) <= j * B
                  BY <1>2
            <3> QED BY <1>2, <1>7, <2>1, <3>1
      <2>3. g * B <= B * B
            <3>1. \A i, j \in Int : i < j => i * B <= j * B
                  BY <1>2
            <3> QED BY <1>2, <1>7, <3>1
      <2>4. g * B \in Int /\ B * B \in Int
            BY <1>2
      <2> QED BY <1>2, <2>1, <2>2, <2>3, <2>4
<1>11. Plus(y, z) = y + z
      <2>1. -(2^D) < u /\ u < 2^D
            BY <1>2, <1>9
      <2>2. -(2^Bits) < y + z /\ y + z < 2^Bits
            BY <1>6, <1>10
      <2> HIDE DEF u
      <2> QED BY <1>8, <2>1, <2>2, SumIsExact
<1>12. (y + z) + (TwoP52 + l) = g * B + l
      <2> HIDE DEF B, K, E
      <2> QED BY <1>2, <1>5, <1>6
<1> QED BY <1>11, <1>12 DEF Plus

\* The halves of a signed argument are its number.
LEMMA SignedHalves ==
    ASSUME NEW x \in Ints
    PROVE  /\ Signed(x) \div 2^H \in Int
           /\ -(2^(H - 1)) <= Signed(x) \div 2^H /\ Signed(x) \div 2^H < 2^H
           /\ x % 2^H \in Nat
           /\ Signed(x) = (Signed(x) \div 2^H) * 2^H + (x % 2^H)
<1> DEFINE B == 2^H
           K == 2^(H - 1)
           c == x \div B
           l == x % B
           s == Signed(x)
<1>1. /\ B \in Nat \ {0} /\ K \in Nat \ {0} /\ B = 2 * K
      /\ 2^Bits = B * B /\ 2^(Bits - 1) = K * B
      BY FormatSizes
<1>2. /\ x \in Nat /\ s \in Int /\ -(K * B) <= s /\ s < K * B
      /\ s = x \/ s = x - B * B
      BY <1>1, SignedRange
<1> HIDE DEF B, K, s
<1>3. c \in Nat /\ l \in 0 .. B - 1 /\ x = c * B + l
      BY <1>1, <1>2, DivParts
<1> HIDE DEF c, l
<1>4. \E e \in Int : s = e * B + l
      <2>1. CASE s = x
            BY <1>3, <2>1
      <2>2. CASE s = x - B * B
            <3>1. c - B \in Int /\ s = (c - B) * B + l
                  BY <1>1, <1>3, <2>2
            <3> QED BY <3>1
      <2> QED BY <1>2, <2>1, <2>2
<1>5. PICK e \in Int : s = e * B + l
      BY <1>4
<1>6. s \div B = e
      BY <1>1, <1>2, <1>3, <1>5, DivUnique
<1>7. -K <= e
      <2>1. ASSUME e < -K PROVE FALSE
            <3>1. \A i \in Int : i < -K => i * B <= -(K * B) - B
                  BY <1>1
            <3>2. e * B <= -(K * B) - B
                  BY <2>1, <3>1
            <3>3. e * B \in Int /\ K * B \in Int /\ l < B /\ l \in Nat
                  BY <1>1, <1>3
            <3> QED BY <1>1, <1>2, <1>5, <3>2, <3>3
      <2> QED BY <1>1, <2>1
<1>8. e < B
      <2>1. ASSUME e >= B PROVE FALSE
            <3>1. \A i \in Int : i >= B => i * B >= K * B
                  BY <1>1
            <3>2. e * B >= K * B
                  BY <2>1, <3>1
            <3>3. e * B \in Int /\ K * B \in Int /\ l \in Nat
                  BY <1>1, <1>3
            <3> QED BY <1>1, <1>2, <1>5, <3>2, <3>3
      <2> QED BY <1>1, <2>1
<1>9. l \in Nat
      BY <1>1, <1>3
<1> QED BY <1>5, <1>6, <1>7, <1>8, <1>9 DEF B, K, l, s

LEMMA FloatDiDfIs == ASSUME NEW x \in Ints PROVE FloatDiDf(x) = RoundTo(D, Signed(x))
<1> DEFINE g == Signed(x) \div 2^H
           l == x % 2^H
           y == g * 2^H
           z == -TwoP52
<1>1. /\ g \in Int /\ -(2^(H - 1)) <= g /\ g < 2^H /\ l \in Nat /\ Signed(x) = g * 2^H + l
      BY SignedHalves
<1>2. FloatDiDf(x) = Plus(Plus(y, z), TwoP52 + l)
      BY DEF FloatDiDf
<1>3. TwoP52 \in Int /\ 2^H \in Int
      BY FormatSizes DEF TwoP52
<1> HIDE DEF g, l
<1>4. y \in Int /\ z \in Int /\ y + z = g * 2^H - TwoP52
      BY <1>1, <1>3
<1> HIDE DEF y, z
<1>5. Plus(Plus(y, z), TwoP52 + l) = RoundTo(D, g * 2^H + l)
      BY <1>1, <1>4, OneRounding
<1> QED BY <1>1, <1>2, <1>5

LEMMA FloatUnDiDfIs == ASSUME NEW x \in Ints PROVE FloatUnDiDf(x) = RoundTo(D, x)
<1> DEFINE B == 2^H
           g == x \div B
           l == x % B
           y == TwoP84 + g * 2^H
           z == -(TwoP84 + TwoP52)
<1>1. B \in Nat \ {0} /\ 2^Bits = B * B /\ 2^(H - 1) \in Nat
      BY FormatSizes
<1>2. x \in Nat /\ x < B * B
      BY <1>1, SignedRange
<1>3. FloatUnDiDf(x) = Plus(Plus(y, z), TwoP52 + l)
      BY DEF FloatUnDiDf
<1>4. TwoP52 \in Int /\ TwoP84 \in Int
      <2>1. D - 1 + H \in Nat
            BY FormatSizes
      <2> QED BY <2>1, FormatSizes, PowerIsPositive DEF TwoP52, TwoP84
<1> HIDE DEF B
<1>5. g \in Nat /\ l \in 0 .. B - 1 /\ x = g * B + l
      BY <1>1, <1>2, DivParts
<1> HIDE DEF g, l
<1>6. g < B
      <2>1. ASSUME g >= B PROVE FALSE
            <3>1. \A i \in Nat : i >= B => i * B >= B * B
                  BY <1>1
            <3>2. g * B >= B * B
                  BY <1>5, <2>1, <3>1
            <3>3. g * B \in Nat /\ B * B \in Nat /\ l \in Nat
                  BY <1>1, <1>5
            <3> QED BY <1>2, <1>5, <3>2, <3>3
      <2> QED BY <1>1, <1>5, <2>1
<1>7. y \in Int /\ z \in Int /\ y + z = g * B - TwoP52
      BY <1>1, <1>4, <1>5 DEF B
<1> HIDE DEF y, z
<1>8. g \in Int /\ l \in Nat /\ -(2^(H - 1)) <= g /\ g < 2^H
      BY <1>1, <1>5, <1>6 DEF B
<1>9. Plus(Plus(y, z), TwoP52 + l) = RoundTo(D, g * 2^H + l)
      BY <1>7, <1>8, OneRounding DEF B
<1> QED BY <1>3, <1>5, <1>9 DEF B

----------------------------------------------------------------------------
(* Floats *)

\* For a number with more than S bits:  4m + t, where m are its leading S bits
\* and t tells how the rest compares with half of the last bit kept.
Guards(v, unit, m, low, t) ==
    /\ t \in 0 .. 3
    /\ t < 2 <=> 2 * low < unit
    /\ t = 2 <=> 2 * low = unit
    /\ t = 3 <=> 2 * low > unit
    /\ WithGuardBits(v, Length(v)) = 4 * m + t

LEMMA GuardBitsAre ==
    ASSUME NEW v \in Nat, NEW len \in Nat, len = Length(v), len > S,
           NEW unit \in Nat \ {0}, unit = 2^(len - S),
           NEW m \in Nat, NEW low \in 0 .. unit - 1, v = m * unit + low
    PROVE  \E t \in 0 .. 3 : Guards(v, unit, m, low, t)
<1>1. S \in Nat /\ 2^1 = 2 /\ \A i \in Nat : 2^(i + 1) = 2 * 2^i
      BY FormatSizes, PowersGrow
<1>2. CASE len = S + 1
      <2>1. len - S = 1 /\ unit = 2
            <3>1. len - S = 1
                  BY <1>1, <1>2
            <3> QED BY <1>1, <3>1
      <2>2. WithGuardBits(v, len) = 2 * v
            BY <1>1, <1>2 DEF WithGuardBits
      <2>3. low \in 0 .. 1 /\ 2 * v = 4 * m + 2 * low
            BY <2>1
      <2>4. 2 * low \in 0 .. 3
            BY <2>3
      <2>5. /\ 2 * low < 2 <=> 2 * low < unit
            /\ 2 * low = 2 <=> 2 * low = unit
            /\ 2 * low = 3 <=> 2 * low > unit
            BY <2>1, <2>3
      <2>6. Guards(v, unit, m, low, 2 * low)
            BY <2>2, <2>3, <2>4, <2>5 DEF Guards
      <2> QED BY <2>4, <2>6
<1>3. CASE len = S + 2
      <2>1. len - S = 1 + 1 /\ 1 \in Nat
            BY <1>1, <1>3
      <2>2. unit = 4
            <3>1. 2^(1 + 1) = 2 * 2^1
                  BY <1>1, <2>1
            <3>2. 2^(len - S) = 2 * 2^1
                  BY <2>1, <3>1
            <3> QED BY <1>1, <3>2
      <2>3. WithGuardBits(v, len) = v
            BY <1>1, <1>3 DEF WithGuardBits
      <2>4. low \in 0 .. 3 /\ v = 4 * m + low
            BY <2>2
      <2>5. /\ low < 2 <=> 2 * low < unit
            /\ low = 2 <=> 2 * low = unit
            /\ low = 3 <=> 2 * low > unit
            BY <2>2, <2>4
      <2>6. Guards(v, unit, m, low, low)
            BY <2>3, <2>4, <2>5 DEF Guards
      <2> QED BY <2>4, <2>6
<1>4. CASE len > S + 2
      <2> DEFINE k == len - (S + 2)
                 g == 2^k
                 w == v \div g
                 e == v % g
                 f == low \div g
      <2>1. k \in Nat /\ k + 1 \in Nat /\ len - S = (k + 1) + 1
            BY <1>1, <1>4
      <2>2. WithGuardBits(v, len) = SetLowBit(w, e # 0)
            BY <1>1, <1>4 DEF WithGuardBits
      <2> HIDE DEF k
      <2>3. g \in Nat \ {0}
            BY <2>1, PowerIsPositive
      <2>4. unit = 4 * g
            <3>1. 2^((k + 1) + 1) = 2 * 2^(k + 1) /\ 2^(k + 1) = 2 * 2^k
                  BY <1>1, <2>1
            <3> QED BY <2>1, <2>3, <3>1
      <2> HIDE DEF g
      <2>5. low \in Nat /\ low < 4 * g
            BY <2>3, <2>4
      <2> DEFINE i == low % g
      <2>6. f \in Nat /\ i \in 0 .. g - 1 /\ low = f * g + i
            BY <2>3, <2>5, DivParts
      <2> HIDE DEF f, i
      <2>7. f < 4
            <3>1. \A j \in Nat : j >= 4 => j * g >= 4 * g
                  BY <2>3
            <3>2. f * g \in Nat /\ f * g <= low
                  BY <2>3, <2>6
            <3> QED BY <2>3, <2>5, <2>6, <3>1, <3>2
      <2>8. v = (4 * m + f) * g + i /\ 4 * m + f \in Int
            <3>1. m * (4 * g) = (4 * m) * g
                  BY <2>3
            <3>2. (4 * m + f) * g = (4 * m) * g + f * g
                  BY <2>3, <2>6
            <3>3. (4 * m) * g \in Nat /\ f * g \in Nat
                  BY <2>3, <2>6
            <3> QED BY <2>3, <2>4, <2>6, <3>1, <3>2, <3>3
      <2>9. w = 4 * m + f /\ e = i
            <3> DEFINE x == 4 * m + f
            <3>1. v = x * g + i
                  BY ONLY <2>8 DEF x
            <3>2. x \in Int /\ v \in Int /\ g \in Nat \ {0} /\ i \in 0 .. g - 1
                  BY <2>3, <2>6, <2>8
            <3> HIDE DEF x
            <3>3. v \div g = x /\ v % g = i
                  BY ONLY <3>1, <3>2, DivUnique
            <3> QED BY <3>3 DEF x
      <2>10. WithGuardBits(v, len) = SetLowBit(4 * m + f, i # 0)
            BY <2>2, <2>9
      <2>11. f = 0 \/ f = 1 \/ f = 2 \/ f = 3
            BY <2>6, <2>7
      <2>12. i \in Nat /\ i < g
            BY <2>3, <2>6
      <2> DEFINE t == IF i # 0 /\ f % 2 = 0 THEN f + 1 ELSE f
      <2>13. t \in 0 .. 3 /\ SetLowBit(4 * m + f, i # 0) = 4 * m + t
            <3>1. (4 * m + f) % 2 = f % 2
                  BY <2>11
            <3> QED BY <2>11, <3>1 DEF SetLowBit
      <2>14. /\ t < 2 <=> 2 * low < unit
             /\ t = 2 <=> 2 * low = unit
             /\ t = 3 <=> 2 * low > unit
            <3>0. i \in Nat /\ i < g /\ g \in Nat /\ unit = 4 * g /\ low = f * g + i
                  BY <2>3, <2>4, <2>6, <2>12
            <3>1. CASE f = 0
                  <4>1. low = 0 * g + i
                        BY <3>0, <3>1
                  <4>2. t = IF i # 0 THEN 1 ELSE 0
                        BY <3>1
                  <4> HIDE DEF t
                  <4> QED BY <3>0, <4>1, <4>2
            <3>2. CASE f = 1
                  <4>1. low = 1 * g + i
                        BY <3>0, <3>2
                  <4>2. t = 1
                        BY <3>2
                  <4> HIDE DEF t
                  <4> QED BY <3>0, <4>1, <4>2
            <3>3. CASE f = 2
                  <4>1. low = 2 * g + i
                        BY <3>0, <3>3
                  <4>2. t = IF i # 0 THEN 3 ELSE 2
                        BY <3>3
                  <4> HIDE DEF t
                  <4> QED BY <3>0, <4>1, <4>2
            <3>4. CASE f = 3
                  <4>1. low = 3 * g + i
                        BY <3>0, <3>4
                  <4>2. t = 3
                        BY <3>4
                  <4> HIDE DEF t
                  <4> QED BY <3>0, <4>1, <4>2
            <3> QED BY <2>11, <3>1, <3>2, <3>3, <3>4
      <2> HIDE DEF t
      <2>15. Guards(v, unit, m, low, t)
            BY <2>10, <2>13, <2>14 DEF Guards
      <2> QED BY <2>13, <2>15
<1> QED BY <1>1, <1>2, <1>3, <1>4

\* Rounding off keeps m or makes it one more, as the rest and its last bit ask.
LEMMA RoundOffIs ==
    ASSUME NEW m \in Nat, NEW t \in 0 .. 3
    PROVE  RoundOff(4 * m + t) = IF t = 3 \/ (t = 2 /\ m % 2 # 0) THEN m + 1 ELSE m
<1>1. t = 0 \/ t = 1 \/ t = 2 \/ t = 3
      OBVIOUS
<1>2. (4 * m + t) \div 4 = m /\ (4 * m + t) % 2 = t % 2
      BY <1>1
<1>3. m % 2 = 0 \/ m % 2 = 1
      OBVIOUS
<1>4. RoundOff(4 * m + t) =
          ((IF m % 2 = 1 /\ t % 2 = 0 THEN 4 * m + t + 1 ELSE 4 * m + t) + 1) \div 4
      BY <1>2 DEF RoundOff, SetLowBit
<1>5. /\ (4 * m + 1) \div 4 = m /\ (4 * m + 2) \div 4 = m /\ (4 * m + 3) \div 4 = m
      /\ (4 * m + 4) \div 4 = m + 1
      OBVIOUS
<1>6. CASE t = 0
      BY <1>3, <1>4, <1>5, <1>6
<1>7. CASE t = 1
      BY <1>3, <1>4, <1>5, <1>7
<1>8. CASE t = 2
      BY <1>3, <1>4, <1>5, <1>8
<1>9. CASE t = 3
      BY <1>3, <1>4, <1>5, <1>9
<1> QED BY <1>1, <1>6, <1>7, <1>8, <1>9

\* A significand of S bits is packed without loss.
LEMMA ValueOfIs ==
    ASSUME NEW sig \in Nat, NEW exp \in Nat, 2^(S - 1) <= sig, sig < 2^S,
           NEW y \in Nat, sig * 2^exp = y * 2^(S - 1)
    PROVE  ValueOf([sig |-> sig, exp |-> exp]) = y
<1> DEFINE E == 2^(S - 1)
           e == 2^exp
<1>1. E \in Nat \ {0} /\ 2^S = 2 * E /\ e \in Nat
      BY FormatSizes, PowerIsPositive
<1>2. ValueOf([sig |-> sig, exp |-> exp]) = ((E + (sig % E)) * e) \div E
      BY DEF ValueOf
<1>3. sig * e = y * E
      OBVIOUS
<1>4. E <= sig /\ sig < 2 * E
      BY <1>1
<1> HIDE DEF E, e
<1>5. sig % E = sig - E
      <2>1. sig = 1 * E + (sig - E) /\ sig - E \in 0 .. E - 1 /\ sig \in Int /\ 1 \in Int
            BY <1>1, <1>4
      <2> QED BY ONLY <1>1, <2>1, DivUnique
<1>6. E + (sig % E) = sig
      BY <1>1, <1>5
<1> DEFINE x == y * E
<1>7. x = y * E + 0 /\ x \in Int /\ 0 \in 0 .. E - 1 /\ y \in Int
      BY <1>1
<1> HIDE DEF x
<1>8. x \div E = y
      BY <1>1, <1>7, DivUnique
<1>9. (E + (sig % E)) * e = x
      BY <1>3, <1>6 DEF x
<1> QED BY <1>2, <1>8, <1>9

\* A number of at most S bits is kept.
LEMMA ShortIsKept ==
    ASSUME NEW v \in Nat \ {0}, v < 2^Bits, Length(v) <= S
    PROVE  ValueOf(Significand(v)) = v /\ v < 2^S
<1> DEFINE len == Length(v)
           E == 2^(S - 1)
           a1 == 2^(len - 1)
           b1 == 2^(S - len)
           c1 == 2^len
           sig1 == v * b1
<1>1. len \in 1 .. Bits /\ a1 <= v /\ v < c1
      BY LengthIs
<1>2. S \in Nat \ {0} /\ E \in Nat \ {0} /\ 2^S \in Nat \ {0} /\ len <= S /\ Bits \in Nat
      BY FormatSizes
<1>3. Significand(v) = [sig |-> v * 2^(S - len), exp |-> len - 1]
      <2>1. ~(len > S)
            BY <1>1, <1>2
      <2> QED BY <2>1 DEF Significand
<1> HIDE DEF len
<1>4. /\ len \in Nat /\ len - 1 \in Nat /\ S - len \in Nat
      /\ (len - 1) + (S - len) = S - 1 /\ len + (S - len) = S
      BY <1>1, <1>2
<1>5. a1 \in Nat \ {0} /\ b1 \in Nat \ {0} /\ c1 \in Nat \ {0}
      BY <1>4, PowerIsPositive
<1>6. E = a1 * b1
      BY <1>4, PowerOfSum
<1>7. 2^S = c1 * b1
      BY <1>4, PowerOfSum
<1>8. c1 <= 2^S
      BY <1>2, <1>4, PowersGrow
<1>9. v < 2^S
      <2> HIDE DEF a1, c1
      <2> QED BY <1>1, <1>2, <1>5, <1>8
<1>10. sig1 \in Nat /\ E <= sig1 /\ sig1 < 2^S
      <2> HIDE DEF a1, b1, c1, E
      <2>1. \A x, y \in Nat : /\ x <= y => x * b1 <= y * b1
                              /\ x < y => x * b1 < y * b1
            BY <1>5
      <2>2. a1 * b1 <= v * b1 /\ v * b1 < c1 * b1
            BY <1>1, <1>5, <2>1
      <2>3. v * b1 \in Nat
            BY <1>5
      <2> QED BY <1>6, <1>7, <2>2, <2>3
<1>11. sig1 * a1 = v * E
      <2> HIDE DEF a1, b1, c1, E
      <2> QED BY <1>5, <1>6
<1> HIDE DEF sig1
<1>12. ValueOf([sig |-> sig1, exp |-> len - 1]) = v
      BY <1>4, <1>10, <1>11, ValueOfIs
<1> QED BY <1>3, <1>9, <1>12 DEF sig1

\* A longer one becomes the nearest number of S bits.
LEMMA LongIsRounded ==
    ASSUME NEW v \in Nat \ {0}, v < 2^Bits, Length(v) > S
    PROVE  ValueOf(Significand(v)) = Nearest(S, v)
<1> DEFINE len == Length(v)
           E == 2^(S - 1)
           a1 == 2^(len - 1)
           c1 == 2^len
           unit == 2^(len - S)
           m == v \div unit
           low == v % unit
<1>1. len \in 1 .. Bits /\ a1 <= v /\ v < c1
      BY LengthIs
<1>2. /\ S \in Nat \ {0} /\ S - 1 \in Nat /\ E \in Nat \ {0} /\ len > S /\ Bits \in Nat
      /\ 2^S \in Nat \ {0} /\ 2^S = 2 * E
      BY FormatSizes
<1>3. /\ len \in Nat /\ len - 1 \in Nat /\ len - S \in Nat /\ S <= len - 1
      /\ (S - 1) + (len - S) = len - 1 /\ S + (len - S) = len
      BY <1>1, <1>2
<1> DEFINE x1 == RoundOff(WithGuardBits(v, len))
<1>4. Significand(v) = IF x1 >= 2^S THEN [sig |-> x1 \div 2, exp |-> len]
                                    ELSE [sig |-> x1, exp |-> len - 1]
      BY <1>2 DEF Significand
<1> HIDE DEF len
<1>5. a1 \in Nat \ {0} /\ c1 \in Nat \ {0} /\ unit \in Nat \ {0}
      BY <1>3, PowerIsPositive
<1>6. a1 = E * unit
      BY <1>2, <1>3, PowerOfSum
<1>7. c1 = 2^S * unit
      BY <1>2, <1>3, PowerOfSum
<1>8. v >= 2^S
      <2>1. 2^S <= a1
            BY <1>2, <1>3, PowersGrow
      <2> HIDE DEF a1
      <2> QED BY <1>1, <1>2, <1>5, <2>1
<1> HIDE DEF E, a1, c1
<1>9. unit = 2^(Length(v) - S)
      BY DEF len
<1> HIDE DEF unit
<1>10. m \in Nat /\ low \in 0 .. unit - 1 /\ v = m * unit + low
      BY <1>5, DivParts
<1> HIDE DEF m, low
<1>11. low \in Nat /\ low < unit
      BY <1>5, <1>10
<1>12. E <= m
      <2>1. ASSUME m < E PROVE FALSE
            <3>1. \A y, z \in Nat : y < z => y * unit + unit <= z * unit
                  BY <1>5
            <3>2. m * unit + unit <= E * unit
                  BY <1>2, <1>10, <2>1, <3>1
            <3>3. m * unit \in Nat /\ E * unit \in Nat
                  BY <1>2, <1>5, <1>10
            <3> QED BY <1>1, <1>5, <1>6, <1>10, <1>11, <3>2, <3>3
      <2> QED BY <1>2, <1>10, <2>1
<1>13. m < 2 * E
      <2>1. ASSUME m >= 2 * E PROVE FALSE
            <3>1. \A y, z \in Nat : y >= z => y * unit >= z * unit
                  BY <1>5
            <3>2. 2 * E \in Nat /\ m * unit >= (2 * E) * unit
                  BY <1>2, <1>10, <2>1, <3>1
            <3>3. m * unit \in Nat /\ (2 * E) * unit \in Nat /\ c1 = (2 * E) * unit
                  BY <1>2, <1>5, <1>7, <1>10
            <3> QED BY <1>1, <1>5, <1>10, <1>11, <3>2, <3>3
      <2> QED BY <1>2, <1>10, <2>1
<1>14. PICK t \in 0 .. 3 : Guards(v, unit, m, low, t)
      <2>1. len = Length(v) /\ unit = 2^(len - S)
            BY <1>9 DEF len
      <2> QED BY <1>2, <1>3, <1>5, <1>10, <2>1, GuardBitsAre
<1>15. x1 = IF t = 3 \/ (t = 2 /\ m % 2 # 0) THEN m + 1 ELSE m
      <2>1. WithGuardBits(v, len) = 4 * m + t
            BY <1>14 DEF Guards, len
      <2> QED BY <1>10, <2>1, RoundOffIs
<1>16. Nearest(S, v) = x1 * unit
      <2>1. /\ 2 * low < unit => Nearest(S, v) = m * unit
            /\ 2 * low = unit /\ m % 2 = 0 => Nearest(S, v) = m * unit
            /\ 2 * low = unit /\ m % 2 # 0 => Nearest(S, v) = (m + 1) * unit
            /\ 2 * low > unit => Nearest(S, v) = (m + 1) * unit
            BY <1>2, <1>5, <1>8, <1>9, <1>10, NearestIs
      <2>2. /\ t < 2 <=> 2 * low < unit
            /\ t = 2 <=> 2 * low = unit
            /\ t = 3 <=> 2 * low > unit
            /\ t < 2 \/ t = 2 \/ t = 3
            BY <1>14 DEF Guards
      <2> HIDE DEF x1
      <2>3. CASE t < 2
            BY <1>15, <2>1, <2>2, <2>3
      <2>4. CASE t = 2
            BY <1>15, <2>1, <2>2, <2>4
      <2>5. CASE t = 3
            BY <1>15, <2>1, <2>2, <2>5
      <2> QED BY <2>2, <2>3, <2>4, <2>5
<1> HIDE DEF x1
<1>17. x1 \in Nat /\ E <= x1 /\ x1 <= 2 * E
      BY <1>2, <1>10, <1>12, <1>13, <1>15
<1> DEFINE near == x1 * unit
<1>18. near \in Nat
      BY <1>5, <1>17
<1>19. CASE x1 >= 2^S
      <2>1. x1 = 2 * E /\ x1 \div 2 = E
            BY <1>2, <1>17, <1>19
      <2>2. Significand(v) = [sig |-> E, exp |-> len]
            BY <1>4, <1>19, <2>1
      <2>3. E * c1 = near * E
            <3>1. c1 = near
                  BY <1>2, <1>7, <2>1
            <3> HIDE DEF near
            <3> QED BY ONLY <1>2, <1>18, <3>1
      <2>4. 2^(S - 1) <= E /\ E < 2^S /\ E * 2^len = near * 2^(S - 1)
            BY <1>2, <2>3 DEF E, c1
      <2> HIDE DEF near
      <2>5. ValueOf([sig |-> E, exp |-> len]) = near
            <3>1. E \in Nat /\ len \in Nat /\ near \in Nat
                  BY <1>2, <1>3, <1>18
            <3> QED BY ONLY <2>4, <3>1, ValueOfIs
      <2> QED BY <1>16, <2>2, <2>5 DEF near
<1>20. CASE ~(x1 >= 2^S)
      <2>1. x1 < 2^S
            BY <1>2, <1>17, <1>20
      <2>2. Significand(v) = [sig |-> x1, exp |-> len - 1]
            BY <1>4, <1>20
      <2>3. x1 * a1 = near * E
            BY <1>2, <1>5, <1>6, <1>17
      <2>4. 2^(S - 1) <= x1 /\ x1 * 2^(len - 1) = near * 2^(S - 1)
            BY <1>17, <2>3 DEF E, a1
      <2> HIDE DEF near
      <2>5. ValueOf([sig |-> x1, exp |-> len - 1]) = near
            <3>1. x1 \in Nat /\ len - 1 \in Nat /\ near \in Nat
                  BY <1>3, <1>17, <1>18
            <3> QED BY ONLY <2>1, <2>4, <3>1, ValueOfIs
      <2> QED BY <1>16, <2>2, <2>5 DEF near
<1> QED BY <1>19, <1>20

LEMMA SignificandIsNearest ==
    ASSUME NEW v \in Nat \ {0}, v < 2^Bits
    PROVE  ValueOf(Significand(v)) = Nearest(S, v)
<1>1. CASE Length(v) <= S
      BY <1>1, ShortIsKept DEF Nearest
<1>2. CASE Length(v) > S
      BY <1>2, LongIsRounded
<1>3. Length(v) \in Int /\ S \in Int
      BY LengthIs, FormatSizes
<1> QED BY <1>1, <1>2, <1>3

LEMMA FloatDiSfIs == ASSUME NEW x \in Ints PROVE FloatDiSf(x) = RoundTo(S, Signed(x))
<1> DEFINE v == Signed(x)
<1>1. /\ v \in Int /\ -(2^(Bits - 1)) <= v /\ v < 2^(Bits - 1)
      /\ 2^(Bits - 1) \in Nat \ {0} /\ 2^Bits = 2 * 2^(Bits - 1)
      BY SignedRange, FormatSizes
<1>2. FloatDiSf(x) = CASE v = 0 -> 0
                       [] v > 0 -> ValueOf(Significand(v))
                       [] v < 0 -> -ValueOf(Significand(-v))
      BY DEF FloatDiSf
<1>3. RoundTo(S, v) = IF v < 0 THEN -Nearest(S, -v) ELSE Nearest(S, v)
      BY DEF RoundTo
<1> HIDE DEF v
<1>4. CASE v = 0
      <2>1. 0 < 2^S
            BY FormatSizes
      <2>2. Nearest(S, 0) = 0
            BY <2>1 DEF Nearest
      <2> QED BY <1>2, <1>3, <1>4, <2>2 DEF v
<1>5. CASE v > 0
      <2>1. v \in Nat \ {0} /\ v < 2^Bits
            BY <1>1, <1>5
      <2>2. ValueOf(Significand(v)) = Nearest(S, v)
            BY <2>1, SignificandIsNearest
      <2> QED BY <1>1, <1>2, <1>3, <1>5, <2>2 DEF v
<1>6. CASE v < 0
      <2> DEFINE w == -v
      <2>1. w \in Nat \ {0} /\ w < 2^Bits
            BY <1>1, <1>6
      <2> HIDE DEF w
      <2>2. ValueOf(Significand(w)) = Nearest(S, w)
            BY <2>1, SignificandIsNearest
      <2>3. FloatDiSf(x) = -ValueOf(Significand(w)) /\ RoundTo(S, v) = -Nearest(S, w)
            BY <1>1, <1>2, <1>3, <1>6 DEF w
      <2> QED BY <2>2, <2>3 DEF v
<1> QED BY <1>1, <1>4, <1>5, <1>6

----------------------------------------------------------------------------
(* The conversions *)

\* Every call answers as the code's function of its argument, of the range that
\* the function is defined for; nothing is called twice.
LEMMA StepIsCall ==
    ASSUME ConvNext
    PROVE  \/ \E x \in Ints : /\ function' = "__floatdisf" /\ arg' = x
                              /\ converted' = FloatDiSf(x)
           \/ \E x \in Ints : /\ function' = "__floatundisf" /\ arg' = x
           \/ \E x \in Ints : /\ function' = "__floatdidf" /\ arg' = x
                              /\ converted' = FloatDiDf(x)
           \/ \E x \in Ints : /\ function' = "__floatundidf" /\ arg' = x
                              /\ converted' = FloatUnDiDf(x)
           \/ \E k \in Int : /\ function' = "__fixunsdfdi" /\ arg' = k
                             /\ converted' = FixUnsDfDi(k)
           \/ \E k \in Int : /\ -4 * 2^(Bits - 1) <= k /\ k < 4 * 2^(Bits - 1)
                             /\ function' = "__fixdfdi" /\ arg' = k
                             /\ converted' = FixDfDi(k)
<1>1. CASE \E f \in IntFunctions, x \in Ints : ToFloat(f, x)
      <2>1. PICK f \in IntFunctions, x \in Ints : ToFloat(f, x)
            BY <1>1
      <2>2. CASE f = "__floatdisf"
            BY <2>1, <2>2 DEF ToFloat
      <2>3. CASE f = "__floatundisf"
            BY <2>1, <2>3 DEF ToFloat
      <2>4. CASE f = "__floatdidf"
            BY <2>1, <2>4 DEF ToFloat
      <2>5. CASE f = "__floatundidf"
            BY <2>1, <2>5 DEF ToFloat
      <2> QED BY <2>2, <2>3, <2>4, <2>5 DEF IntFunctions
<1>2. CASE \E f \in FixFunctions : \E k \in Quarters(f) : ToInt(f, k)
      <2>1. PICK f \in FixFunctions : \E k \in Quarters(f) : ToInt(f, k)
            BY <1>2
      <2>2. PICK k \in Quarters(f) : ToInt(f, k)
            BY <2>1
      <2>3. 2^(Bits - 1) \in Nat /\ 2^Bits \in Nat
            BY FormatSizes
      <2>4. k \in Int
            BY <2>2, <2>3 DEF Quarters
      <2>5. CASE f = "__fixunsdfdi"
            BY <2>2, <2>4, <2>5 DEF ToInt
      <2>6. CASE f = "__fixdfdi"
            <3>1. -4 * 2^(Bits - 1) <= k /\ k < 4 * 2^(Bits - 1)
                  <4>1. k \in -4 * 2^(Bits - 1) .. 4 * 2^(Bits - 1) - 1
                        BY <2>2, <2>6 DEF Quarters
                  <4> QED BY <2>3, <2>4, <4>1
            <3> QED BY <2>2, <2>4, <2>6, <3>1 DEF ToInt
      <2> QED BY <2>5, <2>6 DEF FixFunctions
<1> QED BY <1>1, <1>2 DEF ConvNext

\* The three properties hold of every answer, so they are inductive.
LEMMA AnswersAreRight ==
    ASSUME ConvNext
    PROVE  SignedToNearest' /\ DoubleToNearest' /\ CutOff'
<1>1. CASE \E x \in Ints : /\ function' = "__floatdisf" /\ arg' = x
                           /\ converted' = FloatDiSf(x)
      BY <1>1, FloatDiSfIs DEF SignedToNearest, DoubleToNearest, CutOff
<1>2. CASE \E x \in Ints : function' = "__floatundisf" /\ arg' = x
      BY <1>2 DEF SignedToNearest, DoubleToNearest, CutOff
<1>3. CASE \E x \in Ints : /\ function' = "__floatdidf" /\ arg' = x
                           /\ converted' = FloatDiDf(x)
      BY <1>3, FloatDiDfIs DEF SignedToNearest, DoubleToNearest, CutOff
<1>4. CASE \E x \in Ints : /\ function' = "__floatundidf" /\ arg' = x
                           /\ converted' = FloatUnDiDf(x)
      BY <1>4, FloatUnDiDfIs DEF SignedToNearest, DoubleToNearest, CutOff
<1>5. CASE \E k \in Int : /\ function' = "__fixunsdfdi" /\ arg' = k
                          /\ converted' = FixUnsDfDi(k)
      <2>1. PICK k \in Int : /\ function' = "__fixunsdfdi" /\ arg' = k
                             /\ converted' = FixUnsDfDi(k)
            BY <1>5
      <2>2. FixUnsDfDi(k) = IF k < 0 THEN 0 ELSE k \div 4
            <3>1. CASE k < 0
                  BY <3>1 DEF FixUnsDfDi
            <3>2. CASE ~(k < 0)
                  BY <3>2, FixUnsDfDiIs
            <3> QED BY <3>1, <3>2
      <2> QED BY <2>1, <2>2 DEF SignedToNearest, DoubleToNearest, CutOff
<1>6. CASE \E k \in Int : /\ -4 * 2^(Bits - 1) <= k /\ k < 4 * 2^(Bits - 1)
                          /\ function' = "__fixdfdi" /\ arg' = k
                          /\ converted' = FixDfDi(k)
      BY <1>6, FixDfDiIs DEF SignedToNearest, DoubleToNearest, CutOff
<1> QED BY <1>1, <1>2, <1>3, <1>4, <1>5, <1>6, StepIsCall

LEMMA InitiallyRight == ConvInit => SignedToNearest /\ DoubleToNearest /\ CutOff
BY DEF ConvInit, SignedToNearest, DoubleToNearest, CutOff

LEMMA StutterIsRight ==
    UNCHANGED convVars =>
        /\ SignedToNearest => SignedToNearest'
        /\ DoubleToNearest => DoubleToNearest'
        /\ CutOff => CutOff'
BY DEF convVars, SignedToNearest, DoubleToNearest, CutOff

\* What __floatdisf returns is the float nearest to its argument, the even one of
\* two, whatever the sizes: three guard bits, of which the last stands for all
\* that follow, are enough, and a carry into the exponent is made good.
THEOREM FloatsAreNearest == ConvSpec => []SignedToNearest
<1>1. SignedToNearest /\ [ConvNext]_convVars => SignedToNearest'
      BY AnswersAreRight, StutterIsRight
<1> QED BY <1>1, InitiallyRight, PTL DEF ConvSpec

\* What __floatdidf and __floatundidf return is the double nearest to their
\* argument: of the two sums they make only the second is ever rounded.
THEOREM DoublesAreNearest == ConvSpec => []DoubleToNearest
<1>1. DoubleToNearest /\ [ConvNext]_convVars => DoubleToNearest'
      BY AnswersAreRight, StutterIsRight
<1> QED BY <1>1, InitiallyRight, PTL DEF ConvSpec

\* __fixunsdfdi and __fixdfdi cut the fraction off, of every double for which the
\* conversion is defined, the most negative one among them.
THEOREM FractionsAreCutOff == ConvSpec => []CutOff
<1>1. CutOff /\ [ConvNext]_convVars => CutOff'
      BY AnswersAreRight, StutterIsRight
<1> QED BY <1>1, InitiallyRight, PTL DEF ConvSpec

----------------------------------------------------------------------------
(* The C library.  A loop goes round until the first place at which it     *)
(* stops.                                                                  *)

LEMMA FirstRound ==
    ASSUME NEW max \in Nat, NEW T \in SUBSET (0 .. max), T # {}
    PROVE  \E i \in T : \A j \in 0 .. i - 1 : j \notin T
<1>1. T \in SUBSET Nat
      OBVIOUS
<1>2. PICK i \in T : \A j \in T : i <= j
      BY <1>1, LeastNumber
<1>3. ASSUME NEW j \in 0 .. i - 1 PROVE j \notin T
      <2>1. i \in 0 .. max
            OBVIOUS
      <2>2. ~(i <= j)
            BY <2>1
      <2> QED BY <1>2, <2>2
<1> QED BY <1>3

LEMMA BytesAre ==
    ASSUME NEW s \in Bytes
    PROVE  /\ Len(s) \in Nat /\ DOMAIN s = 1 .. Len(s)
           /\ \A i \in 1 .. Len(s) : s[i] \in 0 .. 255
BY LenProperties, ElementOfSeq DEF Bytes

LEMMA CStringIs ==
    ASSUME NEW s \in CString
    PROVE  /\ s \in Bytes /\ Len(s) \in Nat /\ Len(s) >= 1 /\ DOMAIN s = 1 .. Len(s)
           /\ s[Len(s)] = NUL
           /\ \A i \in 1 .. Len(s) : s[i] = NUL <=> i = Len(s)
           /\ \A i \in 1 .. Len(s) : s[i] \in 0 .. 255
<1>1. s \in Bytes /\ s # <<>> /\ \A i \in DOMAIN s : s[i] = NUL <=> i = Len(s)
      BY DEF CString
<1>2. Len(s) \in Nat /\ Len(s) >= 1
      BY <1>1, EmptySeq DEF Bytes
<1>3. DOMAIN s = 1 .. Len(s) /\ \A i \in 1 .. Len(s) : s[i] \in 0 .. 255
      BY <1>1, BytesAre
<1>4. Len(s) \in 1 .. Len(s)
      BY <1>2
<1> QED BY <1>1, <1>2, <1>3, <1>4

LEMMA CountedIs ==
    ASSUME NEW n0 \in Nat, NEW s \in Counted(n0)
    PROVE  /\ s \in Bytes /\ Len(s) \in Nat /\ DOMAIN s = 1 .. Len(s)
           /\ \A i \in 1 .. Len(s) : s[i] \in 0 .. 255
           /\ \A i \in 1 .. Len(s) : s[i] = NUL => i = Len(s)
           /\ Len(s) < n0 => Len(s) >= 1 /\ s[Len(s)] = NUL
<1>1. CASE s \in CString
      <2>1. /\ s \in Bytes /\ Len(s) \in Nat /\ Len(s) >= 1 /\ DOMAIN s = 1 .. Len(s)
            /\ s[Len(s)] = NUL
            /\ \A i \in 1 .. Len(s) : s[i] = NUL => i = Len(s)
            /\ \A i \in 1 .. Len(s) : s[i] \in 0 .. 255
            BY <1>1, CStringIs
      <2> QED BY ONLY <2>1, Zenon
<1>2. CASE s \notin CString
      <2>1. s \in Bytes /\ Len(s) >= n0 /\ \A i \in DOMAIN s : s[i] # NUL
            BY <1>2 DEF Counted
      <2>2. /\ Len(s) \in Nat /\ DOMAIN s = 1 .. Len(s)
            /\ \A i \in 1 .. Len(s) : s[i] \in 0 .. 255
            BY <2>1, BytesAre
      <2>3. ~(Len(s) < n0)
            BY <2>1, <2>2
      <2>4. \A i \in 1 .. Len(s) : s[i] # NUL
            BY <2>1, <2>2
      <2> QED BY <2>1, <2>2, <2>3, <2>4, Zenon
<1> QED BY <1>1, <1>2

LEMMA TextIs ==
    ASSUME NEW s \in CString
    PROVE  /\ Text(s) \in Seq(0 .. 255) /\ Len(Text(s)) = Len(s) - 1
           /\ \A i \in 1 .. Len(s) - 1 : Text(s)[i] = s[i]
           /\ DOMAIN Text(s) = 1 .. Len(s) - 1
<1> DEFINE l == Len(s) - 1
           t == SubSeq(s, 1, l)
<1>1. /\ Len(s) \in Nat /\ Len(s) >= 1
      /\ \A i \in 1 .. Len(s) : s[i] \in 0 .. 255
      BY CStringIs
<1>2. l \in Nat /\ \A i \in 1 .. l : s[i] \in 0 .. 255
      BY <1>1
<1> HIDE DEF l
<1>3. 1 \in Int /\ l \in Int
      BY <1>2
<1>4. /\ t \in Seq(0 .. 255) /\ Len(t) = IF 1 <= l THEN l - 1 + 1 ELSE 0
      /\ \A i \in 1 .. l - 1 + 1 : t[i] = s[1 + i - 1]
      BY ONLY <1>2, <1>3, SubSeqProperties
<1> HIDE DEF t
<1>5. Len(t) = l /\ \A i \in 1 .. l : t[i] = s[i]
      BY <1>2, <1>4
<1>6. DOMAIN t = 1 .. Len(t)
      BY <1>4, LenProperties
<1> QED BY <1>4, <1>5, <1>6 DEF Text, t, l

LEMMA StrlenIs == ASSUME NEW s \in CString PROVE strlen(s) = Len(s) - 1
<1> DEFINE Is(i) == s[i + 1] = NUL /\ \A j \in 0 .. i - 1 : ~(s[j + 1] = NUL)
<1>1. /\ Len(s) \in Nat /\ Len(s) >= 1
      /\ \A i \in 1 .. Len(s) : s[i] = NUL <=> i = Len(s)
      BY CStringIs
<1>2. Len(s) - 1 \in 0 .. Len(s) /\ Is(Len(s) - 1)
      <2>1. ASSUME NEW j \in 0 .. Len(s) - 1 PROVE s[j + 1] = NUL <=> j = Len(s) - 1
            <3>1. j + 1 \in 1 .. Len(s)
                  BY <1>1
            <3> QED BY <1>1, <3>1
      <2> QED BY <1>1, <2>1
<1>3. ASSUME NEW i \in 0 .. Len(s), Is(i) PROVE i = Len(s) - 1
      <2>1. CASE i < Len(s)
            <3>1. i + 1 \in 1 .. Len(s)
                  BY <1>1, <2>1
            <3> QED BY <1>1, <1>3, <3>1
      <2>2. CASE i = Len(s)
            <3>1. Len(s) - 1 \in 0 .. i - 1 /\ Len(s) - 1 + 1 = Len(s) /\ Len(s) \in 1 .. Len(s)
                  BY <1>1, <2>2
            <3> QED BY <1>1, <1>3, <3>1
      <2> QED BY <1>1, <2>1, <2>2
<1> HIDE DEF Is
<1>4. (CHOOSE i \in 0 .. Len(s) : Is(i)) = Len(s) - 1
      BY <1>2, <1>3
<1> QED BY <1>4 DEF strlen, Rounds, Is

LEMMA MemchrIs ==
    ASSUME NEW s \in Bytes, NEW c \in Int
    PROVE  IsFirst(memchr(s, c, Len(s)), {i \in 0 .. Len(s) - 1 : s[i + 1] = c % 256})
<1> DEFINE count == Len(s)
           wanted == c % 256
           Stop(j) == IF j < count THEN s[j + 1] = wanted ELSE TRUE
           Is(k) == Stop(k) /\ \A j \in 0 .. k - 1 : ~Stop(j)
           i == CHOOSE k \in 0 .. count : Is(k)
           T == {j \in 0 .. count : Stop(j)}
<1>1. count \in Nat
      BY BytesAre
<1>2. \E k \in 0 .. count : Is(k)
      <2>1. count \in T
            BY <1>1
      <2>2. T \in SUBSET (0 .. count)
            OBVIOUS
      <2>3. PICK k \in T : \A j \in 0 .. k - 1 : j \notin T
            <3> HIDE DEF T, count
            <3> QED BY ONLY <1>1, <2>1, <2>2, FirstRound
      <2>4. k \in 0 .. count /\ \A j \in 0 .. k - 1 : j \in 0 .. count
            BY <1>1
      <2> HIDE DEF Stop
      <2> QED BY <2>3, <2>4
<1>3. i \in 0 .. count /\ Is(i)
      <2> HIDE DEF Is
      <2> QED BY <1>2
<1>4. memchr(s, c, count) = IF i < count THEN i ELSE NULL
      BY DEF memchr, Rounds
<1> HIDE DEF i
<1> DEFINE P == {k \in 0 .. count - 1 : s[k + 1] = wanted}
<1>5. \A k \in P : ~(k < i)
      <2> TAKE k \in P
      <2>1. k \in 0 .. count - 1 /\ s[k + 1] = wanted
            OBVIOUS
      <2>2. Stop(k)
            BY <1>1, <2>1
      <2>3. k < i => k \in 0 .. i - 1
            BY <1>1, <1>3, <2>1
      <2> QED BY <1>3, <2>2, <2>3
<1>6. CASE i < count
      <2>1. i \in P
            BY <1>1, <1>3, <1>6
      <2>2. \A k \in P : i <= k
            BY <1>1, <1>3, <1>5
      <2>3. IsFirst(memchr(s, c, count), P)
            <3> HIDE DEF P
            <3> QED BY <1>4, <1>6, <2>1, <2>2 DEF IsFirst
      <2> QED BY <2>3
<1>7. CASE ~(i < count)
      <2>1. P = {}
            BY <1>1, <1>3, <1>5, <1>7
      <2>2. IsFirst(memchr(s, c, count), P)
            <3> HIDE DEF P
            <3> QED BY <1>4, <1>7, <2>1 DEF IsFirst
      <2> QED BY <2>2
<1> QED BY <1>6, <1>7

LEMMA StrchrIs ==
    ASSUME NEW s \in CString, NEW c \in Int
    PROVE  IsFirst(strchr(s, c), {i \in 0 .. Len(s) - 1 : s[i + 1] = c % 256})
<1> DEFINE max == Len(s)
           wanted == c % 256
           Stop(j) == s[j + 1] = NUL \/ s[j + 1] = wanted
           Is(k) == Stop(k) /\ \A j \in 0 .. k - 1 : ~Stop(j)
           i == CHOOSE k \in 0 .. max : Is(k)
           T == {j \in 0 .. max : Stop(j)}
           P == {k \in 0 .. max - 1 : s[k + 1] = wanted}
<1>1. /\ max \in Nat /\ max >= 1 /\ s[max] = NUL
      /\ \A k \in 1 .. max : s[k] = NUL <=> k = max
      BY CStringIs
<1>2. \E k \in 0 .. max : Is(k)
      <2>1. max - 1 \in T
            BY <1>1
      <2>2. T \in SUBSET (0 .. max)
            OBVIOUS
      <2>3. PICK k \in T : \A j \in 0 .. k - 1 : j \notin T
            <3> HIDE DEF T, max
            <3> QED BY ONLY <1>1, <2>1, <2>2, FirstRound
      <2>4. k \in 0 .. max /\ \A j \in 0 .. k - 1 : j \in 0 .. max
            BY <1>1
      <2> HIDE DEF Stop
      <2> QED BY <2>3, <2>4
<1>3. i \in 0 .. max /\ Is(i)
      <2> HIDE DEF Is
      <2> QED BY <1>2
<1>4. strchr(s, c) = IF s[i + 1] = wanted THEN i ELSE NULL
      BY DEF strchr, Rounds
<1> HIDE DEF i
<1>5. i <= max - 1
      <2>1. i = max => max - 1 \in 0 .. i - 1 /\ Stop(max - 1)
            BY <1>1
      <2> QED BY <1>1, <1>3, <2>1
<1>6. \A k \in P : ~(k < i)
      <2> TAKE k \in P
      <2>1. k \in 0 .. max - 1 /\ Stop(k)
            OBVIOUS
      <2>2. k < i => k \in 0 .. i - 1
            BY <1>1, <1>3, <2>1
      <2> QED BY <1>3, <2>1, <2>2
<1>7. CASE s[i + 1] = wanted
      <2>1. i \in P
            BY <1>1, <1>3, <1>5, <1>7
      <2>2. \A k \in P : i <= k
            BY <1>1, <1>3, <1>6
      <2>3. IsFirst(strchr(s, c), P)
            <3> HIDE DEF P
            <3> QED BY <1>4, <1>7, <2>1, <2>2 DEF IsFirst
      <2> QED BY <2>3
<1>8. CASE s[i + 1] # wanted
      <2>1. i + 1 \in 1 .. max /\ s[i + 1] = NUL
            BY <1>1, <1>3, <1>5, <1>8
      <2>2. i = max - 1
            BY <1>1, <1>3, <2>1
      <2>3. \A k \in P : k \in 0 .. max - 1 /\ k = i
            BY <1>1, <1>3, <1>6, <2>2
      <2>4. P = {}
            BY <1>8, <2>3
      <2>5. IsFirst(strchr(s, c), P)
            <3> HIDE DEF P
            <3> QED BY <1>4, <1>8, <2>4 DEF IsFirst
      <2> QED BY <2>5
<1> QED BY <1>7, <1>8

LEMMA StrpbrkOfStrings ==
    ASSUME NEW s \in CString, NEW t \in CString
    PROVE  IsFirst(strpbrk(s, t), {i \in 0 .. Len(s) - 2 : \E j \in DOMAIN Text(t) : s[i + 1] = t[j]})
<1> DEFINE max == Len(s)
           InSet(ch) == \E j \in 0 .. strlen(t) - 1 : t[j + 1] = ch
           Stop(j) == s[j + 1] = NUL \/ InSet(s[j + 1])
           Is(k) == Stop(k) /\ \A j \in 0 .. k - 1 : ~Stop(j)
           i == CHOOSE k \in 0 .. max : Is(k)
           T == {j \in 0 .. max : Stop(j)}
           P == {k \in 0 .. max - 2 : \E j \in DOMAIN Text(t) : s[k + 1] = t[j]}
<1>1. /\ max \in Nat /\ max >= 1 /\ s[max] = NUL
      /\ \A k \in 1 .. max : s[k] = NUL <=> k = max
      BY CStringIs
<1>2. \A ch : InSet(ch) <=> \E j \in DOMAIN Text(t) : ch = t[j]
      <2>1. strlen(t) = Len(t) - 1 /\ DOMAIN Text(t) = 1 .. Len(t) - 1 /\ Len(t) \in Nat
            BY StrlenIs, TextIs, CStringIs
      <2> TAKE ch
      <2>2. ASSUME NEW j \in 0 .. Len(t) - 1 - 1, t[j + 1] = ch PROVE \E l \in 1 .. Len(t) - 1 : ch = t[l]
            <3>1. j + 1 \in 1 .. Len(t) - 1
                  BY <2>1
            <3> QED BY <2>2, <3>1
      <2>3. ASSUME NEW l \in 1 .. Len(t) - 1, ch = t[l] PROVE \E j \in 0 .. Len(t) - 1 - 1 : t[j + 1] = ch
            <3>1. l - 1 \in 0 .. Len(t) - 1 - 1 /\ l - 1 + 1 = l
                  BY <2>1
            <3> QED BY <2>3, <3>1
      <2> QED BY <2>1, <2>2, <2>3
<1>3. \E k \in 0 .. max : Is(k)
      <2>1. max - 1 \in T
            BY <1>1
      <2>2. T \in SUBSET (0 .. max)
            OBVIOUS
      <2>3. PICK k \in T : \A j \in 0 .. k - 1 : j \notin T
            <3> HIDE DEF T, max
            <3> QED BY ONLY <1>1, <2>1, <2>2, FirstRound
      <2>4. k \in 0 .. max /\ \A j \in 0 .. k - 1 : j \in 0 .. max
            BY <1>1
      <2> HIDE DEF Stop
      <2> QED BY <2>3, <2>4
<1>4. i \in 0 .. max /\ Is(i)
      <2> HIDE DEF Is
      <2> QED BY <1>3
<1>5. strpbrk(s, t) = IF s[i + 1] = NUL THEN NULL ELSE i
      <2>1. NoString \notin {s, t}
            BY DEF NoString, CString
      <2> QED BY <2>1 DEF strpbrk, Rounds
<1> HIDE DEF i, InSet
<1>6. i <= max - 1
      <2>1. i = max => max - 1 \in 0 .. i - 1 /\ Stop(max - 1)
            BY <1>1
      <2> QED BY <1>1, <1>4, <2>1
<1>7. \A k \in P : k \in 0 .. max - 2 /\ ~(k < i)
      <2> TAKE k \in P
      <2>1. k \in 0 .. max - 2 /\ Stop(k)
            BY <1>2
      <2>2. k < i => k \in 0 .. i - 1
            BY <1>1, <1>4, <2>1
      <2> QED BY <1>4, <2>1, <2>2
<1>8. i + 1 \in 1 .. max
      BY <1>1, <1>4, <1>6
<1>9. CASE s[i + 1] # NUL
      <2>1. i \in 0 .. max - 2
            BY <1>1, <1>4, <1>8, <1>9
      <2>2. i \in P
            BY <1>2, <1>4, <1>9, <2>1
      <2>3. \A k \in P : i <= k
            BY <1>1, <1>4, <1>7
      <2>4. IsFirst(strpbrk(s, t), P)
            <3> HIDE DEF P
            <3> QED BY <1>5, <1>9, <2>2, <2>3 DEF IsFirst
      <2> QED BY <2>4
<1>10. CASE s[i + 1] = NUL
      <2>1. i = max - 1
            BY <1>1, <1>4, <1>8, <1>10
      <2>2. \A k \in P : FALSE
            <3> HIDE DEF P
            <3> QED BY <1>1, <1>7, <2>1
      <2>3. P = {}
            BY <2>2
      <2>4. IsFirst(strpbrk(s, t), P)
            <3> HIDE DEF P
            <3> QED BY <1>5, <1>10, <2>3 DEF IsFirst
      <2> QED BY <2>4
<1> QED BY <1>9, <1>10

LEMMA StrpbrkIs ==
    ASSUME NEW s \in CString \cup {NoString}, NEW t \in CString \cup {NoString}
    PROVE  IsFirst(strpbrk(s, t), {i \in 0 .. Len(s) - 2 : \E j \in DOMAIN Text(t) : s[i + 1] = t[j]})
<1> DEFINE P == {i \in 0 .. Len(s) - 2 : \E j \in DOMAIN Text(t) : s[i + 1] = t[j]}
<1>1. CASE s = NoString \/ t = NoString
      <2>1. strpbrk(s, t) = NULL
            BY <1>1 DEF strpbrk
      <2>2. s = NoString => 0 .. Len(s) - 2 = {}
            BY DEF NoString
      <2>3. t = NoString => DOMAIN Text(t) = {}
            BY DEF NoString, Text
      <2>4. P = {}
            BY <1>1, <2>2, <2>3
      <2>5. IsFirst(strpbrk(s, t), P)
            <3> HIDE DEF P
            <3> QED BY <2>1, <2>4 DEF IsFirst
      <2> QED BY <2>5
<1>2. CASE s \in CString /\ t \in CString
      BY <1>2, StrpbrkOfStrings
<1> QED BY <1>1, <1>2

LEMMA StrncpyIs ==
    ASSUME NEW n0 \in Nat, NEW s \in Counted(n0)
    PROVE  /\ Len(strncpy(s, n0)) = n0
           /\ \A i \in 1 .. n0 : strncpy(s, n0)[i] = IF i <= Len(s) THEN s[i] ELSE NUL
<1> DEFINE Stop(j) == IF j = n0 THEN TRUE ELSE IF j = 0 THEN FALSE ELSE s[j] = NUL
           Is(k) == Stop(k) /\ \A j \in 0 .. k - 1 : ~Stop(j)
           copied == CHOOSE k \in 0 .. n0 : Is(k)
           T == {j \in 0 .. n0 : Stop(j)}
<1>1. /\ Len(s) \in Nat
      /\ \A i \in 1 .. Len(s) : s[i] = NUL => i = Len(s)
      /\ Len(s) < n0 => Len(s) >= 1 /\ s[Len(s)] = NUL
      BY CountedIs
<1>2. \E k \in 0 .. n0 : Is(k)
      <2>1. n0 \in T
            OBVIOUS
      <2>2. T \in SUBSET (0 .. n0)
            OBVIOUS
      <2>3. PICK k \in T : \A j \in 0 .. k - 1 : j \notin T
            <3> HIDE DEF T
            <3> QED BY ONLY <2>1, <2>2, n0 \in Nat, FirstRound
      <2>4. k \in 0 .. n0 /\ \A j \in 0 .. k - 1 : j \in 0 .. n0
            OBVIOUS
      <2> HIDE DEF Stop
      <2> QED BY <2>3, <2>4
<1>3. copied \in 0 .. n0 /\ Is(copied)
      <2> HIDE DEF Is
      <2> QED BY <1>2
<1>4. strncpy(s, n0) = [i \in 1 .. n0 |-> IF i <= copied THEN s[i] ELSE NUL]
      BY DEF strncpy, Rounds
<1> HIDE DEF copied
<1>5. Len(strncpy(s, n0)) = n0
      BY <1>4
<1>6. ASSUME NEW i \in 1 .. n0
      PROVE  (IF i <= copied THEN s[i] ELSE NUL) = (IF i <= Len(s) THEN s[i] ELSE NUL)
      <2>1. CASE i <= copied /\ ~(i <= Len(s))
            <3>1. Len(s) < n0 /\ Len(s) \in 0 .. copied - 1 /\ Stop(Len(s))
                  BY <1>1, <1>3, <2>1
            <3> QED BY <1>3, <3>1
      <2>2. CASE ~(i <= copied) /\ i <= Len(s)
            <3>1. copied # n0
                  BY <1>3, <2>2
            <3>2. copied # 0 /\ s[copied] = NUL
                  BY <1>3, <3>1
            <3>3. copied \in 1 .. Len(s)
                  BY <1>1, <1>3, <2>2, <3>2
            <3>4. copied = Len(s)
                  BY <1>1, <3>2, <3>3
            <3> QED BY <1>1, <1>3, <2>2, <3>4
      <2> QED BY <2>1, <2>2
<1> QED BY <1>4, <1>5, <1>6

LEMMA StrcpyIs == ASSUME NEW s \in CString PROVE strcpy(s) = s
<1> DEFINE max == Len(s)
           Stop(j) == j > 0 /\ s[j] = NUL
           Is(k) == Stop(k) /\ \A j \in 0 .. k - 1 : ~Stop(j)
<1>1. /\ max \in Nat /\ max >= 1 /\ s[max] = NUL /\ s \in Bytes
      /\ \A k \in 1 .. max : s[k] = NUL <=> k = max
      BY CStringIs
<1>2. max \in 0 .. max /\ Is(max)
      <2>1. ASSUME NEW j \in 0 .. max - 1, Stop(j) PROVE FALSE
            <3>1. j \in 1 .. max
                  BY <1>1, <2>1
            <3> QED BY <1>1, <2>1, <3>1
      <2> QED BY <1>1, <2>1
<1>3. ASSUME NEW i \in 0 .. max, Is(i) PROVE i = max
      <2>1. i \in 1 .. max
            BY <1>1, <1>3
      <2> QED BY <1>1, <1>3, <2>1
<1> HIDE DEF Is
<1>4. (CHOOSE i \in 0 .. max : Is(i)) = max
      BY <1>2, <1>3
<1>5. strcpy(s) = SubSeq(s, 1, CHOOSE i \in 0 .. max : Is(i))
      BY DEF strcpy, Rounds, Is
<1>6. SubSeq(s, 1, Len(s)) = s
      BY <1>1, SubSeqFull DEF Bytes
<1> QED BY <1>4, <1>5, <1>6

\* A string is its characters and the end.
LEMMA TextAndEnd == ASSUME NEW s \in CString PROVE Text(s) \o <<NUL>> = s
<1> DEFINE e == <<NUL>>
           u == Text(s) \o e
<1>1. /\ Text(s) \in Seq(0 .. 255) /\ Len(Text(s)) = Len(s) - 1
      /\ \A i \in 1 .. Len(s) - 1 : Text(s)[i] = s[i]
      BY TextIs
<1>2. /\ s \in Seq(0 .. 255) /\ Len(s) \in Nat /\ Len(s) >= 1 /\ s[Len(s)] = NUL
      BY CStringIs DEF Bytes
<1>3. e \in Seq(0 .. 255) /\ Len(e) = 1 /\ e[1] = NUL
      <2>1. NUL \in 0 .. 255
            BY DEF NUL
      <2> QED BY <2>1
<1> HIDE DEF e
<1>4. /\ u \in Seq(0 .. 255) /\ Len(u) = Len(Text(s)) + Len(e)
      /\ \A i \in 1 .. Len(Text(s)) + Len(e) : u[i] = IF i <= Len(Text(s)) THEN Text(s)[i] ELSE e[i - Len(Text(s))]
      <2> DEFINE t == Text(s)
                 B == 0 .. 255
      <2>1. t \in Seq(B) /\ e \in Seq(B)
            BY <1>1, <1>3
      <2> HIDE DEF t, B
      <2>2. /\ t \o e \in Seq(B) /\ Len(t \o e) = Len(t) + Len(e)
            /\ \A i \in 1 .. Len(t) + Len(e) : (t \o e)[i] = IF i <= Len(t) THEN t[i] ELSE e[i - Len(t)]
            BY ONLY <2>1, ConcatProperties, Zenon
      <2> QED BY <2>2 DEF t, B
<1> HIDE DEF u
<1>5. Len(u) = Len(s)
      BY <1>1, <1>2, <1>3, <1>4
<1>6. ASSUME NEW i \in 1 .. Len(u) PROVE u[i] = s[i]
      <2>1. CASE i <= Len(s) - 1
            BY <1>1, <1>2, <1>3, <1>4, <1>5, <2>1
      <2>2. CASE i = Len(s)
            <3>1. i \in 1 .. Len(Text(s)) + Len(e) /\ ~(i <= Len(Text(s))) /\ i - Len(Text(s)) = 1
                  BY <1>1, <1>2, <1>3, <2>2
            <3> QED BY <1>2, <1>3, <1>4, <2>2, <3>1
      <2> QED BY <1>2, <1>5, <2>1, <2>2
<1>7. u = s
      BY <1>2, <1>4, <1>5, <1>6, SeqEqual
<1> QED BY <1>7 DEF u, e

LEMMA StrcatIs == ASSUME NEW s \in CString, NEW t \in CString PROVE strcat(s, t) = Text(s) \o t
<1>1. \A u \in CString : SubSeq(u, 1, Rounds(LAMBDA i : u[i + 1] = NUL, Len(u))) = Text(u)
      <2> TAKE u \in CString
      <2>1. strlen(u) = Len(u) - 1
            BY StrlenIs
      <2> QED BY <2>1 DEF strlen, Text
<1>2. strcat(s, t) = Text(s) \o Text(t) \o <<NUL>>
      BY <1>1 DEF strcat
<1> DEFINE x == Text(s)
           y == Text(t)
           e == <<NUL>>
<1>3. x \in Seq(0 .. 255) /\ y \in Seq(0 .. 255) /\ e \in Seq(0 .. 255)
      <2>1. NUL \in 0 .. 255
            BY DEF NUL
      <2> QED BY <2>1, TextIs
<1>4. (x \o y) \o e = x \o (y \o e)
      <2> HIDE DEF x, y, e
      <2> QED BY <1>3, ConcatAssociative
<1> QED BY <1>2, <1>4, TextAndEnd

\* Two that agree in k0 characters are ordered by the next.
LEMMA OrdersAre ==
    ASSUME NEW u, NEW v, NEW n0 \in Nat, NEW k0 \in 0 .. n0, NEW y,
           \A i \in 1 .. n0 : u[i] \in 0 .. 255 /\ v[i] \in 0 .. 255,
           \A i \in 1 .. k0 : u[i] = v[i],
           k0 < n0 => u[k0 + 1] # v[k0 + 1] /\ y = u[k0 + 1] - v[k0 + 1],
           k0 = n0 => y = 0
    PROVE  Orders(y, u, v, n0)
<1> DEFINE differ == {i \in 1 .. n0 : u[i] # v[i]}
<1>1. \A i \in differ : i \in 1 .. n0 /\ ~(i <= k0)
      OBVIOUS
<1>2. CASE k0 = n0
      <2>1. differ = {}
            BY <1>1, <1>2
      <2> HIDE DEF differ
      <2>2. Orders(y, u, v, n0) <=> IF differ = {} THEN y = 0
                ELSE \E i \in differ : (\A j \in differ : i <= j) /\ (y < 0 <=> u[i] < v[i]) /\ y # 0
            BY Zenon DEF Orders, differ
      <2> QED BY <1>2, <2>1, <2>2
<1>3. CASE k0 < n0
      <2> DEFINE i == k0 + 1
      <2>1. i \in differ /\ u[i] \in 0 .. 255 /\ v[i] \in 0 .. 255 /\ u[i] # v[i] /\ y = u[i] - v[i]
            BY <1>3
      <2>2. \A j \in differ : i <= j
            BY <1>1
      <2> HIDE DEF i
      <2> DEFINE p == u[i]
                 e1 == v[i]
      <2>3. (y < 0 <=> p < e1) /\ y # 0
            <3>1. p \in 0 .. 255 /\ e1 \in 0 .. 255 /\ p # e1 /\ y = p - e1
                  BY <2>1
            <3> HIDE DEF p, e1
            <3> QED BY <3>1
      <2> HIDE DEF differ
      <2>4. Orders(y, u, v, n0) <=> IF differ = {} THEN y = 0
                ELSE \E l \in differ : (\A j \in differ : l <= j) /\ (y < 0 <=> u[l] < v[l]) /\ y # 0
            BY Zenon DEF Orders, differ
      <2> QED BY <2>1, <2>2, <2>3, <2>4
<1> QED BY <1>2, <1>3

LEMMA ShorterIs ==
    ASSUME NEW m0 \in Nat, NEW n0 \in Nat
    PROVE  /\ Shorter(m0, n0) \in Nat /\ Shorter(m0, n0) <= m0 /\ Shorter(m0, n0) <= n0
           /\ Shorter(m0, n0) \in {m0, n0}
BY DEF Shorter

LEMMA StrcmpIs ==
    ASSUME NEW u \in CString, NEW v \in CString
    PROVE  Orders(strcmp(u, v), u, v, Shorter(Len(u), Len(v)))
<1> DEFINE max == Len(u)
           Stop(j) == u[j + 1] = NUL \/ u[j + 1] # v[j + 1]
           Is(k) == Stop(k) /\ \A j \in 0 .. k - 1 : ~Stop(j)
           i == CHOOSE k \in 0 .. max : Is(k)
           T == {j \in 0 .. max : Stop(j)}
           m == Shorter(Len(u), Len(v))
<1>1. /\ max \in Nat /\ max >= 1 /\ u[max] = NUL
      /\ \A k \in 1 .. max : u[k] = NUL <=> k = max
      /\ \A k \in 1 .. max : u[k] \in 0 .. 255
      BY CStringIs
<1>2. /\ Len(v) \in Nat /\ Len(v) >= 1 /\ v[Len(v)] = NUL
      /\ \A k \in 1 .. Len(v) : v[k] = NUL <=> k = Len(v)
      /\ \A k \in 1 .. Len(v) : v[k] \in 0 .. 255
      BY CStringIs
<1>3. \E k \in 0 .. max : Is(k)
      <2>1. max - 1 \in T
            BY <1>1
      <2>2. T \in SUBSET (0 .. max)
            OBVIOUS
      <2>3. PICK k \in T : \A j \in 0 .. k - 1 : j \notin T
            <3> HIDE DEF T, max
            <3> QED BY ONLY <1>1, <2>1, <2>2, FirstRound
      <2>4. k \in 0 .. max /\ \A j \in 0 .. k - 1 : j \in 0 .. max
            BY <1>1
      <2> HIDE DEF Stop
      <2> QED BY <2>3, <2>4
<1>4. i \in 0 .. max /\ Is(i)
      <2> HIDE DEF Is
      <2> QED BY <1>3
<1>5. strcmp(u, v) = u[i + 1] - v[i + 1]
      BY DEF strcmp, Rounds
<1> HIDE DEF i
<1>6. i <= max - 1
      <2>1. i = max => max - 1 \in 0 .. i - 1 /\ Stop(max - 1)
            BY <1>1
      <2> QED BY <1>1, <1>4, <2>1
<1>7. i <= Len(v) - 1
      <2>1. i > Len(v) - 1 => Len(v) - 1 \in 0 .. i - 1 /\ Len(v) - 1 + 1 = Len(v)
            BY <1>2, <1>4
      <2>2. Stop(Len(v) - 1)
            BY <1>2
      <2>3. ~(i > Len(v) - 1)
            <3> HIDE DEF Stop
            <3> QED BY <1>4, <2>1, <2>2
      <2>4. i \in Int /\ Len(v) \in Int
            BY <1>2, <1>4
      <2> QED BY ONLY <2>3, <2>4
<1>8. m \in Nat /\ m <= max /\ m <= Len(v) /\ m \in {max, Len(v)}
      BY <1>1, <1>2, ShorterIs
<1> HIDE DEF m
<1>9. i + 1 \in 1 .. max /\ i + 1 \in 1 .. Len(v) /\ i < m
      BY <1>1, <1>2, <1>4, <1>6, <1>7, <1>8
<1>10. \A j \in 1 .. i : u[j] = v[j]
      <2> TAKE j \in 1 .. i
      <2>1. j - 1 \in 0 .. i - 1 /\ j - 1 + 1 = j
            BY <1>4
      <2> QED BY <1>4, <2>1
<1>11. \A j \in 1 .. m : u[j] \in 0 .. 255 /\ v[j] \in 0 .. 255
      <2> TAKE j \in 1 .. m
      <2>1. j \in 1 .. max /\ j \in 1 .. Len(v)
            BY <1>1, <1>2, <1>8
      <2> QED BY <1>1, <1>2, <2>1
<1>12. Orders(strcmp(u, v), u, v, m)
      <2>1. CASE u[i + 1] # v[i + 1]
            <3>1. i \in 0 .. m /\ i # m
                  BY <1>1, <1>4, <1>8, <1>9
            <3> QED BY ONLY <1>5, <1>8, <1>9, <1>10, <1>11, <2>1, <3>1, OrdersAre
      <2>2. CASE u[i + 1] = v[i + 1]
            <3>1. u[i + 1] = NUL /\ v[i + 1] = NUL
                  BY <1>4, <2>2
            <3>2. i + 1 = max /\ i + 1 = Len(v)
                  BY <1>1, <1>2, <1>9, <3>1
            <3>3. m = i + 1
                  BY <1>8, <3>2
            <3>4. \A j \in 1 .. m : u[j] = v[j]
                  BY <1>4, <1>10, <2>2, <3>3
            <3>5. strcmp(u, v) = 0
                  BY <1>5, <3>1 DEF NUL
            <3>6. m \in 0 .. m /\ ~(m < m)
                  BY <1>8
            <3> QED BY ONLY <1>8, <1>11, <3>4, <3>5, <3>6, OrdersAre
      <2> QED BY <2>1, <2>2
<1> QED BY <1>12 DEF m

LEMMA StrncmpIs ==
    ASSUME NEW n0 \in Nat, NEW u \in Counted(n0), NEW v \in Counted(n0)
    PROVE  Orders(strncmp(u, v, n0), u, v, Shorter(n0, Shorter(Len(u), Len(v))))
<1> DEFINE Stop(j) == u[j + 1] # v[j + 1] \/ n0 - (j + 1) = 0 \/ u[j + 1] = NUL
           Is(k) == Stop(k) /\ \A j \in 0 .. k - 1 : ~Stop(j)
           i == CHOOSE k \in 0 .. n0 : Is(k)
           T == {j \in 0 .. n0 : Stop(j)}
           m == Shorter(n0, Shorter(Len(u), Len(v)))
<1>1. /\ Len(u) \in Nat
      /\ \A k \in 1 .. Len(u) : u[k] \in 0 .. 255
      /\ \A k \in 1 .. Len(u) : u[k] = NUL => k = Len(u)
      /\ Len(u) < n0 => Len(u) >= 1 /\ u[Len(u)] = NUL
      BY CountedIs
<1>2. /\ Len(v) \in Nat
      /\ \A k \in 1 .. Len(v) : v[k] \in 0 .. 255
      /\ \A k \in 1 .. Len(v) : v[k] = NUL => k = Len(v)
      /\ Len(v) < n0 => Len(v) >= 1 /\ v[Len(v)] = NUL
      BY CountedIs
<1>3. /\ m \in Nat /\ m <= n0 /\ m <= Len(u) /\ m <= Len(v)
      /\ m \in {n0, Len(u), Len(v)}
      <2> DEFINE l == Shorter(Len(u), Len(v))
      <2>1. l \in Nat /\ l <= Len(u) /\ l <= Len(v) /\ l \in {Len(u), Len(v)}
            BY <1>1, <1>2, ShorterIs
      <2> HIDE DEF l
      <2>2. m = Shorter(n0, l)
            BY DEF l
      <2>3. m \in Nat /\ m <= n0 /\ m <= l /\ m \in {n0, l}
            BY <2>1, <2>2, ShorterIs
      <2> HIDE DEF m
      <2> QED BY <1>1, <1>2, <2>1, <2>3
<1> HIDE DEF m
<1>4. \A j \in 1 .. m : u[j] \in 0 .. 255 /\ v[j] \in 0 .. 255
      <2> TAKE j \in 1 .. m
      <2>1. j \in 1 .. Len(u) /\ j \in 1 .. Len(v)
            BY <1>1, <1>2, <1>3
      <2> QED BY <1>1, <1>2, <2>1
<1>5. CASE n0 = 0
      <2>1. strncmp(u, v, n0) = 0 /\ m = 0 /\ 0 \in 0 .. m /\ ~(0 < m) /\ \A j \in 1 .. 0 : u[j] = v[j]
            BY <1>3, <1>5 DEF strncmp
      <2>2. Orders(strncmp(u, v, n0), u, v, m)
            BY ONLY <1>3, <1>4, <2>1, OrdersAre
      <2> QED BY <2>2 DEF m
<1>6. CASE n0 # 0
  <2>1. \E k \in 0 .. n0 : Is(k)
      <3>1. n0 - 1 \in T
            BY <1>6
      <3>2. T \in SUBSET (0 .. n0)
            OBVIOUS
      <3>3. PICK k \in T : \A j \in 0 .. k - 1 : j \notin T
            <4> HIDE DEF T
            <4> QED BY ONLY n0 \in Nat, <3>1, <3>2, FirstRound
      <3>4. k \in 0 .. n0 /\ \A j \in 0 .. k - 1 : j \in 0 .. n0
            OBVIOUS
      <3> HIDE DEF Stop
      <3> QED BY <3>3, <3>4
  <2>2. i \in 0 .. n0 /\ Is(i)
      <3> HIDE DEF Is
      <3> QED BY <2>1
  <2>3. strncmp(u, v, n0) = u[i + 1] - v[i + 1]
      BY <1>6 DEF strncmp, Rounds
  <2> HIDE DEF i
  <2>4. i <= n0 - 1
      <3>1. i = n0 => n0 - 1 \in 0 .. i - 1 /\ Stop(n0 - 1)
            BY <1>6
      <3> QED BY <2>2, <3>1
  <2>5. i <= Len(u) - 1
      <3>1. i > Len(u) - 1 => Len(u) >= 1 /\ u[Len(u)] = NUL /\ Len(u) - 1 \in 0 .. i - 1 /\ Len(u) - 1 + 1 = Len(u)
            BY <1>1, <2>2, <2>4
      <3>2. i > Len(u) - 1 => Stop(Len(u) - 1)
            BY <3>1
      <3>3. ~(i > Len(u) - 1)
            <4> HIDE DEF Stop
            <4> QED BY <2>2, <3>1, <3>2
      <3>4. i \in Int /\ Len(u) \in Int
            BY <1>1, <2>2
      <3> QED BY ONLY <3>3, <3>4
  <2>6. i <= Len(v) - 1
      <3>1. i > Len(v) - 1 => Len(v) >= 1 /\ v[Len(v)] = NUL /\ Len(v) - 1 \in 0 .. i - 1 /\ Len(v) - 1 + 1 = Len(v)
            BY <1>2, <2>2, <2>4
      <3>2. i > Len(v) - 1 => Stop(Len(v) - 1)
            BY <3>1
      <3>3. ~(i > Len(v) - 1)
            <4> HIDE DEF Stop
            <4> QED BY <2>2, <3>1, <3>2
      <3>4. i \in Int /\ Len(v) \in Int
            BY <1>2, <2>2
      <3> QED BY ONLY <3>3, <3>4
  <2>7. i + 1 \in 1 .. Len(u) /\ i + 1 \in 1 .. Len(v) /\ i < m /\ i \in 0 .. m /\ i # m
      BY <1>1, <1>2, <1>3, <2>2, <2>4, <2>5, <2>6
  <2>8. \A j \in 1 .. i : u[j] = v[j]
      <3> TAKE j \in 1 .. i
      <3>1. j - 1 \in 0 .. i - 1 /\ j - 1 + 1 = j
            BY <2>2
      <3> QED BY <2>2, <3>1
  <2>9. Orders(strncmp(u, v, n0), u, v, m)
      <3>1. CASE u[i + 1] # v[i + 1]
            BY ONLY <1>3, <1>4, <2>3, <2>7, <2>8, <3>1, OrdersAre
      <3>2. CASE u[i + 1] = v[i + 1]
            <4>1. u[i + 1] = NUL \/ i + 1 = n0
                  BY <2>2, <3>2
            <4>3. m = i + 1
                  <5>1. CASE i + 1 = n0
                        BY <1>3, <2>2, <2>7, <5>1
                  <5>2. CASE u[i + 1] = NUL
                        <6>1. i + 1 = Len(u)
                              BY <1>1, <2>7, <5>2
                        <6> QED BY <1>3, <2>2, <2>7, <6>1
                  <5> QED BY <4>1, <5>1, <5>2
            <4>4. \A j \in 1 .. m : u[j] = v[j]
                  BY <2>2, <2>8, <3>2, <4>3
            <4>5. u[i + 1] \in 0 .. 255
                  BY <1>1, <2>7
            <4>6. strncmp(u, v, n0) = 0
                  BY <2>3, <3>2, <4>5
            <4>7. m \in 0 .. m /\ ~(m < m)
                  BY <1>3
            <4> QED BY ONLY <1>3, <1>4, <4>4, <4>6, <4>7, OrdersAre
      <3> QED BY <3>1, <3>2
  <2> QED BY <2>9 DEF m
<1> QED BY <1>5, <1>6

LEMMA MemcmpIs ==
    ASSUME NEW u \in Bytes, NEW v \in Bytes, NEW n0 \in 0 .. Len(u), n0 <= Len(v)
    PROVE  Orders(memcmp(u, v, n0), u, v, n0)
<1> DEFINE Stop(j) == IF j = n0 THEN TRUE ELSE u[j + 1] # v[j + 1]
           Is(k) == Stop(k) /\ \A j \in 0 .. k - 1 : ~Stop(j)
           i == CHOOSE k \in 0 .. n0 : Is(k)
           T == {j \in 0 .. n0 : Stop(j)}
<1>1. Len(u) \in Nat /\ Len(v) \in Nat /\ n0 \in Nat
      BY BytesAre
<1>2. \A j \in 1 .. n0 : u[j] \in 0 .. 255 /\ v[j] \in 0 .. 255
      <2>1. (\A j \in 1 .. Len(u) : u[j] \in 0 .. 255) /\ \A j \in 1 .. Len(v) : v[j] \in 0 .. 255
            BY BytesAre
      <2> TAKE j \in 1 .. n0
      <2>2. j \in 1 .. Len(u) /\ j \in 1 .. Len(v)
            BY <1>1
      <2> QED BY <2>1, <2>2
<1>3. \E k \in 0 .. n0 : Is(k)
      <2>1. n0 \in T
            BY <1>1
      <2>2. T \in SUBSET (0 .. n0)
            OBVIOUS
      <2>3. PICK k \in T : \A j \in 0 .. k - 1 : j \notin T
            <3> HIDE DEF T
            <3> QED BY ONLY <1>1, <2>1, <2>2, FirstRound
      <2>4. k \in 0 .. n0 /\ \A j \in 0 .. k - 1 : j \in 0 .. n0
            BY <1>1
      <2> HIDE DEF Stop
      <2> QED BY <2>3, <2>4
<1>4. i \in 0 .. n0 /\ Is(i)
      <2> HIDE DEF Is
      <2> QED BY <1>3
<1>5. memcmp(u, v, n0) = IF i = n0 THEN 0 ELSE u[i + 1] - v[i + 1]
      BY DEF memcmp, Rounds
<1> HIDE DEF i
<1>6. \A j \in 1 .. i : u[j] = v[j]
      <2> TAKE j \in 1 .. i
      <2>1. j - 1 \in 0 .. i - 1 /\ j - 1 + 1 = j /\ j - 1 # n0
            BY <1>1, <1>4
      <2> QED BY <1>4, <2>1
<1>7. i < n0 => u[i + 1] # v[i + 1] /\ i # n0
      BY <1>1, <1>4
<1> QED BY ONLY <1>1, <1>2, <1>4, <1>5, <1>6, <1>7, OrdersAre

\* strstr compares, at a place before the end of the text, the whole of what
\* it looks for.
LEMMA FoundHereIs ==
    ASSUME NEW s \in CString, NEW t \in CString, t[1] # NUL, NEW h \in 0 .. Len(s) - 2,
           NEW m0,
           m0 = CHOOSE k \in 0 .. Len(t) :
                    /\ k > 0 /\ (t[k + 1] = NUL \/ s[h + k + 1] # t[k + 1])
                    /\ \A j \in 0 .. k - 1 : ~(j > 0 /\ (t[j + 1] = NUL \/ s[h + j + 1] # t[j + 1]))
    PROVE  (s[h + 1] = t[1] /\ t[m0 + 1] = NUL) <=>
               h <= Len(s) - Len(t) /\ \A j \in 1 .. Len(t) - 1 : s[h + j] = t[j]
<1> DEFINE max == Len(t)
           Stop(i) == i > 0 /\ (t[i + 1] = NUL \/ s[h + i + 1] # t[i + 1])
           Is(k) == Stop(k) /\ \A j \in 0 .. k - 1 : ~Stop(j)
           T == {j \in 0 .. max : Stop(j)}
<1>1. /\ max \in Nat /\ max >= 1 /\ t[max] = NUL
      /\ \A k \in 1 .. max : t[k] = NUL <=> k = max
      BY CStringIs
<1>2. /\ Len(s) \in Nat /\ Len(s) >= 1 /\ s[Len(s)] = NUL
      /\ \A k \in 1 .. Len(s) : s[k] = NUL <=> k = Len(s)
      BY CStringIs
<1>3. max >= 2 /\ h \in Nat
      BY <1>1, <1>2
<1>4. \E k \in 0 .. max : Is(k)
      <2>1. max - 1 \in T
            BY <1>1, <1>3
      <2>2. T \in SUBSET (0 .. max)
            OBVIOUS
      <2>3. PICK k \in T : \A j \in 0 .. k - 1 : j \notin T
            <3> HIDE DEF T, max
            <3> QED BY ONLY <1>1, <2>1, <2>2, FirstRound
      <2>4. k \in 0 .. max /\ \A j \in 0 .. k - 1 : j \in 0 .. max
            BY <1>1
      <2> HIDE DEF Stop
      <2> QED BY <2>3, <2>4
<1>5. m0 = CHOOSE k \in 0 .. max : Is(k)
      OBVIOUS
<1>6. m0 \in 0 .. max /\ Is(m0)
      <2> HIDE DEF Is
      <2> QED BY <1>4, <1>5
<1>7. m0 \in 1 .. max - 1
      <2>1. m0 = max => max - 1 \in 0 .. m0 - 1 /\ max - 1 + 1 = max /\ max - 1 > 0
            <3>1. max \in Nat /\ max >= 2
                  BY <1>1, <1>3
            <3> HIDE DEF max
            <3> QED BY ONLY <3>1
      <2>2. max - 1 > 0 => Stop(max - 1)
            BY <1>1
      <2>3. m0 # max
            <3> HIDE DEF Stop
            <3> QED BY <1>6, <2>1, <2>2
      <2>4. m0 > 0 /\ m0 \in 0 .. max
            BY <1>6
      <2>5. max \in Nat
            BY <1>1
      <2> HIDE DEF max
      <2> QED BY ONLY <2>3, <2>4, <2>5
<1>8. \A j \in 1 .. m0 - 1 : t[j + 1] # NUL /\ s[h + j + 1] = t[j + 1]
      <2> TAKE j \in 1 .. m0 - 1
      <2>1. j \in 0 .. m0 - 1 /\ j > 0
            BY <1>7
      <2> QED BY <1>6, <2>1
<1>9. ASSUME s[h + 1] = t[1] /\ t[m0 + 1] = NUL
      PROVE  h <= Len(s) - Len(t) /\ \A j \in 1 .. Len(t) - 1 : s[h + j] = t[j]
      <2>1. m0 + 1 = max
            <3>1. m0 + 1 \in 1 .. max
                  BY <1>1, <1>7
            <3> QED BY <1>1, <1>9, <3>1
      <2>2. \A j \in 1 .. max - 1 : s[h + j] = t[j]
            <3> TAKE j \in 1 .. max - 1
            <3>1. CASE j = 1
                  BY <1>9, <3>1
            <3>2. CASE j # 1
                  <4>1. j - 1 \in 1 .. m0 - 1 /\ j - 1 + 1 = j /\ h + (j - 1) + 1 = h + j
                        <5>1. j \in 1 .. m0 /\ m0 \in Nat
                              <6>1. max \in Nat
                                    BY <1>1
                              <6>2. j \in 1 .. max - 1
                                    OBVIOUS
                              <6> HIDE DEF max
                              <6> QED BY ONLY <1>7, <2>1, <6>1, <6>2
                        <5> QED BY ONLY <1>3, <3>2, <5>1
                  <4> QED BY <1>8, <4>1
            <3> QED BY <3>1, <3>2
      <2>3. ASSUME h > Len(s) - max PROVE FALSE
            <3>1. Len(s) - h \in 1 .. max - 1 /\ h + (Len(s) - h) = Len(s)
                  BY <1>1, <1>2, <1>3, <2>3
            <3>2. t[Len(s) - h] = NUL
                  BY <1>2, <2>2, <3>1
            <3> DEFINE l == Len(s) - h
            <3>3. l \in 1 .. max /\ l # max
                  <4>1. max \in Nat /\ l \in 1 .. max - 1
                        BY <1>1, <3>1
                  <4> HIDE DEF max, l
                  <4> QED BY ONLY <4>1
            <3> QED BY <1>1, <3>2, <3>3
      <2>4. h \in Int /\ Len(s) \in Int /\ max \in Int
            BY <1>1, <1>2, <1>3
      <2>5. h <= Len(s) - max
            BY ONLY <2>3, <2>4
      <2> QED BY <2>2, <2>5
<1>10. ASSUME \A j \in 1 .. Len(t) - 1 : s[h + j] = t[j]
       PROVE  s[h + 1] = t[1] /\ t[m0 + 1] = NUL
      <2>1. s[h + 1] = t[1]
            <3>1. 1 \in 1 .. max - 1
                  BY <1>1, <1>3
            <3> QED BY <1>10, <3>1
      <2>2. ASSUME t[m0 + 1] # NUL PROVE FALSE
            <3>1. s[h + m0 + 1] # t[m0 + 1]
                  BY <1>6, <2>2
            <3>2. m0 + 1 # max
                  BY <1>1, <2>2
            <3>3. m0 + 1 \in 1 .. max - 1 /\ h + (m0 + 1) = h + m0 + 1
                  BY <1>1, <1>3, <1>7, <3>2
            <3> QED BY <1>10, <3>1, <3>3
      <2> QED BY <2>1, <2>2
<1> QED BY <1>9, <1>10

\* Part of a string is a text if their characters are equal.
LEMMA PartIsText ==
    ASSUME NEW s \in CString, NEW t \in CString, NEW i \in 0 .. Len(s) - Len(t)
    PROVE  SubSeq(s, i + 1, i + Len(t) - 1) = Text(t) <=> \A j \in 1 .. Len(t) - 1 : s[i + j] = t[j]
<1> DEFINE u == SubSeq(s, i + 1, i + Len(t) - 1)
<1>1. Len(t) \in Nat /\ Len(t) >= 1
      BY CStringIs
<1>2. /\ Len(s) \in Nat
      /\ \A k \in 1 .. Len(s) : s[k] \in 0 .. 255
      BY CStringIs
<1>3. i + 1 \in Int /\ i + Len(t) - 1 \in Int
      BY <1>1, <1>2
<1>4. \A k \in i + 1 .. i + Len(t) - 1 : s[k] \in 0 .. 255
      <2> TAKE k \in i + 1 .. i + Len(t) - 1
      <2>1. k \in 1 .. Len(s)
            BY <1>1, <1>2
      <2> QED BY <1>2, <2>1
<1>5. /\ u \in Seq(0 .. 255)
      /\ Len(u) = IF i + 1 <= i + Len(t) - 1 THEN i + Len(t) - 1 - (i + 1) + 1 ELSE 0
      /\ \A j \in 1 .. i + Len(t) - 1 - (i + 1) + 1 : u[j] = s[i + 1 + j - 1]
      BY ONLY <1>3, <1>4, SubSeqProperties
<1> HIDE DEF u
<1>6. Len(u) = Len(t) - 1
      <2>1. CASE Len(t) = 1
            <3>1. ~(i + 1 <= i + Len(t) - 1)
                  BY <1>2, <2>1
            <3> QED BY <1>5, <2>1, <3>1
      <2>2. CASE Len(t) # 1
            <3>1. i + 1 <= i + Len(t) - 1 /\ i + Len(t) - 1 - (i + 1) + 1 = Len(t) - 1
                  <4> DEFINE l == Len(t)
                  <4>1. i \in Int /\ l \in Nat /\ l >= 1 /\ l # 1
                        BY <1>1, <1>2, <2>2
                  <4> HIDE DEF l
                  <4>2. i + 1 <= i + l - 1 /\ i + l - 1 - (i + 1) + 1 = l - 1
                        BY ONLY <4>1
                  <4> QED BY <4>2 DEF l
            <3> QED BY <1>5, <3>1
      <2> QED BY <2>1, <2>2
<1>7. \A j \in 1 .. Len(t) - 1 : u[j] = s[i + j]
      <2> TAKE j \in 1 .. Len(t) - 1
      <2>1. j \in 1 .. i + Len(t) - 1 - (i + 1) + 1 /\ i + 1 + j - 1 = i + j
            BY <1>1, <1>2
      <2> QED BY <1>5, <2>1
<1>8. /\ Text(t) \in Seq(0 .. 255) /\ Len(Text(t)) = Len(t) - 1
      /\ \A j \in 1 .. Len(t) - 1 : Text(t)[j] = t[j]
      BY TextIs
<1>9. (\A j \in 1 .. Len(u) : u[j] = Text(t)[j]) => u = Text(t)
      BY ONLY <1>5, <1>6, <1>8, SeqEqual
<1> QED BY <1>6, <1>7, <1>8, <1>9 DEF u

LEMMA StrstrIs ==
    ASSUME NEW s \in CString, NEW t \in CString
    PROVE  IsFirst(strstr(s, t), {i \in 0 .. Len(s) - Len(t) : SubSeq(s, i + 1, i + Len(t) - 1) = Text(t)})
<1> DEFINE max == Len(s)
           Matched(h) == Rounds(LAMBDA i : i > 0 /\ (t[i + 1] = NUL \/ s[h + i + 1] # t[i + 1]), Len(t))
           Here(h) == s[h + 1] = t[1] /\ t[Matched(h) + 1] = NUL
           Stop(j) == s[j + 1] = NUL \/ Here(j)
           Is(k) == Stop(k) /\ \A j \in 0 .. k - 1 : ~Stop(j)
           i == CHOOSE k \in 0 .. max : Is(k)
           T == {j \in 0 .. max : Stop(j)}
           P == {k \in 0 .. Len(s) - Len(t) : SubSeq(s, k + 1, k + Len(t) - 1) = Text(t)}
<1>1. /\ max \in Nat /\ max >= 1 /\ s[max] = NUL
      /\ \A k \in 1 .. max : s[k] = NUL <=> k = max
      BY CStringIs
<1>2. /\ Len(t) \in Nat /\ Len(t) >= 1 /\ t[Len(t)] = NUL
      /\ \A k \in 1 .. Len(t) : t[k] = NUL <=> k = Len(t)
      BY CStringIs
<1>3. \A k \in 0 .. max - Len(t) : k \in P <=> \A j \in 1 .. Len(t) - 1 : s[k + j] = t[j]
      BY PartIsText
<1>4. strstr(s, t) = IF t[1] = NUL THEN 0 ELSE IF s[i + 1] = NUL THEN NULL ELSE i
      BY DEF strstr, Rounds
<1>5. CASE t[1] = NUL
      <2>1. Len(t) = 1
            <3>1. 1 \in 1 .. Len(t)
                  BY <1>2
            <3> QED BY <1>2, <1>5, <3>1
      <2>2. 0 \in P
            <3>1. 0 \in 0 .. max - Len(t)
                  BY <1>1, <2>1
            <3> QED BY <1>3, <2>1, <3>1
      <2>3. \A k \in P : 0 <= k
            BY <1>1, <1>2
      <2>4. IsFirst(strstr(s, t), P)
            <3> HIDE DEF P, i
            <3> QED BY <1>4, <1>5, <2>2, <2>3 DEF IsFirst
      <2> QED BY <2>4
<1>6. CASE t[1] # NUL
  <2>1. \A h \in 0 .. max - 2 : Here(h) <=> h \in P
      <3> TAKE h \in 0 .. max - 2
      <3> DEFINE m1 == Matched(h)
      <3>4. m1 = CHOOSE k \in 0 .. Len(t) :
                    /\ k > 0 /\ (t[k + 1] = NUL \/ s[h + k + 1] # t[k + 1])
                    /\ \A j \in 0 .. k - 1 : ~(j > 0 /\ (t[j + 1] = NUL \/ s[h + j + 1] # t[j + 1]))
            BY DEF Rounds
      <3> HIDE DEF m1
      <3>5. (s[h + 1] = t[1] /\ t[m1 + 1] = NUL) <=>
               h <= Len(s) - Len(t) /\ \A j \in 1 .. Len(t) - 1 : s[h + j] = t[j]
            <4>1. \A m2 : (m2 = CHOOSE k \in 0 .. Len(t) :
                    /\ k > 0 /\ (t[k + 1] = NUL \/ s[h + k + 1] # t[k + 1])
                    /\ \A j \in 0 .. k - 1 : ~(j > 0 /\ (t[j + 1] = NUL \/ s[h + j + 1] # t[j + 1]))) =>
                      ((s[h + 1] = t[1] /\ t[m2 + 1] = NUL) <=>
                       h <= Len(s) - Len(t) /\ \A j \in 1 .. Len(t) - 1 : s[h + j] = t[j])
                  BY <1>6, FoundHereIs, Zenon
            <4> QED BY ONLY <3>4, <4>1, Zenon
      <3>1. Here(h) <=> h <= Len(s) - Len(t) /\ \A j \in 1 .. Len(t) - 1 : s[h + j] = t[j]
            BY <3>5 DEF m1
      <3>2. h <= Len(s) - Len(t) <=> h \in 0 .. max - Len(t)
            BY <1>1, <1>2
      <3>3. h \in P => h \in 0 .. max - Len(t)
            OBVIOUS
      <3> HIDE DEF P, Here
      <3> QED BY <1>3, <3>1, <3>2, <3>3
  <2>2. \A k \in P : k \in 0 .. max - 2
      <3>1. Len(t) # 1
            BY <1>2, <1>6
      <3> TAKE k \in P
      <3>2. k \in 0 .. max - Len(t)
            OBVIOUS
      <3>3. Len(t) \in Nat /\ Len(t) >= 2 /\ max \in Nat
            <4> DEFINE l == Len(t)
            <4>1. l \in Nat /\ l >= 1 /\ l # 1
                  BY <1>2, <3>1
            <4> HIDE DEF l
            <4>2. l \in Nat /\ l >= 2
                  BY ONLY <4>1
            <4> QED BY <1>1, <4>2 DEF l
      <3> QED BY ONLY <3>2, <3>3
  <2>3. \E k \in 0 .. max : Is(k)
      <3>1. max - 1 \in T
            <4> HIDE DEF Here
            <4> QED BY <1>1
      <3>2. T \in SUBSET (0 .. max)
            OBVIOUS
      <3>3. PICK k \in T : \A j \in 0 .. k - 1 : j \notin T
            <4> HIDE DEF T, max
            <4> QED BY ONLY <1>1, <3>1, <3>2, FirstRound
      <3>4. k \in 0 .. max /\ \A j \in 0 .. k - 1 : j \in 0 .. max
            BY <1>1
      <3> HIDE DEF Stop
      <3> QED BY <3>3, <3>4
  <2>4. i \in 0 .. max /\ Is(i)
      <3> HIDE DEF Is
      <3> QED BY <2>3
  <2> HIDE DEF i, P, Here
  <2>5. i <= max - 1
      <3>1. i = max => max - 1 \in 0 .. i - 1 /\ max - 1 + 1 = max
            BY <1>1
      <3>2. s[max] = NUL /\ max - 1 + 1 = max => Stop(max - 1)
            OBVIOUS
      <3>3. i # max
            <4> HIDE DEF Stop
            <4> QED BY <1>1, <2>4, <3>1, <3>2
      <3> QED BY <1>1, <2>4, <3>3
  <2>6. \A k \in P : k \in 0 .. max - 2 /\ ~(k < i)
      <3> TAKE k \in P
      <3>1. k \in 0 .. max - 2 /\ Stop(k)
            BY <2>1, <2>2
      <3>2. k < i => k \in 0 .. i - 1
            BY <1>1, <2>4, <3>1
      <3> QED BY <2>4, <3>1, <3>2
  <2>7. i + 1 \in 1 .. max
      BY <1>1, <2>4, <2>5
  <2>8. CASE s[i + 1] # NUL
      <3>1. i \in 0 .. max - 2
            BY <1>1, <2>4, <2>7, <2>8
      <3>2. i \in P
            BY <2>1, <2>4, <2>8, <3>1
      <3>3. \A k \in P : i <= k
            BY <1>1, <2>4, <2>6
      <3> QED BY <1>4, <1>6, <2>8, <3>2, <3>3 DEF IsFirst, P
  <2>9. CASE s[i + 1] = NUL
      <3>1. i = max - 1
            BY <1>1, <2>4, <2>7, <2>9
      <3>2. \A k \in P : FALSE
            BY <1>1, <2>6, <3>1
      <3>3. P = {}
            BY <3>2
      <3>4. IsFirst(strstr(s, t), P)
            BY <1>4, <1>6, <2>9, <3>3 DEF IsFirst
      <3> QED BY <3>4 DEF P
  <2> QED BY <2>8, <2>9
<1> QED BY <1>5, <1>6

----------------------------------------------------------------------------
(* The table of islower: its runs, put together, have the bit of a lower   *)
(* case letter at 99 to 124 alone.                                         *)

Lower(u) == u \in Seq(Nat) /\ \A k \in 1 .. Len(u) : u[k] % 4 = 2 <=> k \in 99 .. 124

\* A run from a place on keeps to the lower case letters or to the others.
Fits(place, l0, bits) ==
    IF bits % 4 = 2 THEN place >= 98 /\ place + l0 <= 124 ELSE place + l0 <= 98 \/ place >= 124

LEMMA OfIs ==
    ASSUME NEW l0 \in Nat, NEW bits \in Nat
    PROVE  Of(l0, bits) \in Seq(Nat) /\ Len(Of(l0, bits)) = l0 /\ \A k \in 1 .. l0 : Of(l0, bits)[k] = bits
<1>1. Of(l0, bits) \in Seq(Nat)
      BY IsASeq DEF Of
<1> QED BY <1>1 DEF Of

LEMMA LowerAppended ==
    ASSUME NEW u, NEW w, Lower(u), NEW l0 \in Nat, NEW bits \in Nat, w = u \o Of(l0, bits),
           Fits(Len(u), l0, bits)
    PROVE  Lower(w) /\ Len(w) = Len(u) + l0
<1> DEFINE o == Of(l0, bits)
<1>1. o \in Seq(Nat) /\ Len(o) = l0 /\ \A k \in 1 .. l0 : o[k] = bits
      BY OfIs
<1>2. u \in Seq(Nat) /\ Len(u) \in Nat
      BY LenProperties DEF Lower
<1> HIDE DEF o
<1>3. /\ w \in Seq(Nat) /\ Len(w) = Len(u) + Len(o)
      /\ \A k \in 1 .. Len(u) + Len(o) : w[k] = IF k <= Len(u) THEN u[k] ELSE o[k - Len(u)]
      <2>1. w = u \o o
            BY DEF o
      <2> QED BY ONLY <1>1, <1>2, <2>1, ConcatProperties
<1>4. ASSUME NEW k \in 1 .. Len(w) PROVE w[k] % 4 = 2 <=> k \in 99 .. 124
      <2>1. k \in 1 .. Len(u) + Len(o)
            BY <1>3
      <2>2. CASE k <= Len(u)
            <3>1. k \in 1 .. Len(u) /\ w[k] = u[k]
                  BY <1>1, <1>2, <1>3, <2>1, <2>2
            <3> QED BY <3>1 DEF Lower
      <2>3. CASE ~(k <= Len(u))
            <3>1. k - Len(u) \in 1 .. l0 /\ k \in Len(u) + 1 .. Len(u) + l0
                  BY <1>1, <1>2, <2>1, <2>3
            <3>2. w[k] = bits
                  BY <1>1, <1>3, <2>1, <2>3, <3>1
            <3>3. bits % 4 = 2 <=> k \in 99 .. 124
                  BY <1>2, <3>1 DEF Fits
            <3> QED BY <3>2, <3>3
      <2> QED BY <2>2, <2>3
<1> QED BY <1>1, <1>3, <1>4 DEF Lower

LEMMA ToupperIs ==
    ASSUME NEW c \in -1 .. 255
    PROVE  toupper(c) = IF c >= ca /\ c <= cz THEN c - 32 ELSE c
<1> DEFINE t1 == Of(1, 0)
           t2 == t1 \o Of(9, 32)
           t3 == t2 \o Of(5, 40)
           t4 == t3 \o Of(18, 32)
           t5 == t4 \o Of(1, 136)
           t6 == t5 \o Of(15, 16)
           t7 == t6 \o Of(10, 4)
           t8 == t7 \o Of(7, 16)
           t9 == t8 \o Of(6, 65)
           t10 == t9 \o Of(20, 1)
           t11 == t10 \o Of(6, 16)
           t12 == t11 \o Of(6, 66)
           t13 == t12 \o Of(20, 2)
           t14 == t13 \o Of(4, 16)
           t15 == t14 \o Of(1, 32)
           t16 == t15 \o Of(128, 0)
<1>1. ctype = t16
      <2>1. /\ Class.U = 1 /\ Class.L = 2 /\ Class.N = 4 /\ Class.S = 8 /\ Class.P = 16 /\ Class.C = 32
            /\ Class.X = 64 /\ Class.B = 128
            BY DEF Class
      <2>2. Class.C + Class.S = 40 /\ Class.S + Class.B = 136 /\ Class.U + Class.X = 65 /\ Class.L + Class.X = 66
            BY <2>1
      <2> QED BY <2>1, <2>2, Zenon DEF ctype
<1> HIDE DEF t1, t2, t3, t4, t5, t6, t7, t8, t9, t10, t11, t12, t13, t14, t15, t16
<1>2. Lower(t1) /\ Len(t1) = 1
      <2>1. t1 \in Seq(Nat) /\ Len(t1) = 1 /\ \A k \in 1 .. 1 : t1[k] = 0
            BY OfIs DEF t1
      <2> QED BY <2>1 DEF Lower
<1>3. Lower(t2) /\ Len(t2) = 10
      <2> DEFINE l0 == 9
                 b0 == 32
      <2>1. l0 \in Nat /\ b0 \in Nat /\ t2 = t1 \o Of(l0, b0)
            BY DEF t2
      <2>2. Fits(Len(t1), l0, b0) /\ Lower(t1)
            BY <1>2 DEF Fits
      <2> HIDE DEF l0, b0
      <2>3. Lower(t2) /\ Len(t2) = Len(t1) + l0
            BY ONLY <2>1, <2>2, LowerAppended, Zenon
      <2> QED BY <1>2, <2>3 DEF l0
<1>4. Lower(t3) /\ Len(t3) = 15
      <2> DEFINE l0 == 5
                 b0 == 40
      <2>1. l0 \in Nat /\ b0 \in Nat /\ t3 = t2 \o Of(l0, b0)
            BY DEF t3
      <2>2. Fits(Len(t2), l0, b0) /\ Lower(t2)
            BY <1>3 DEF Fits
      <2> HIDE DEF l0, b0
      <2>3. Lower(t3) /\ Len(t3) = Len(t2) + l0
            BY ONLY <2>1, <2>2, LowerAppended, Zenon
      <2> QED BY <1>3, <2>3 DEF l0
<1>5. Lower(t4) /\ Len(t4) = 33
      <2> DEFINE l0 == 18
                 b0 == 32
      <2>1. l0 \in Nat /\ b0 \in Nat /\ t4 = t3 \o Of(l0, b0)
            BY DEF t4
      <2>2. Fits(Len(t3), l0, b0) /\ Lower(t3)
            BY <1>4 DEF Fits
      <2> HIDE DEF l0, b0
      <2>3. Lower(t4) /\ Len(t4) = Len(t3) + l0
            BY ONLY <2>1, <2>2, LowerAppended, Zenon
      <2> QED BY <1>4, <2>3 DEF l0
<1>6. Lower(t5) /\ Len(t5) = 34
      <2> DEFINE l0 == 1
                 b0 == 136
      <2>1. l0 \in Nat /\ b0 \in Nat /\ t5 = t4 \o Of(l0, b0)
            BY DEF t5
      <2>2. Fits(Len(t4), l0, b0) /\ Lower(t4)
            BY <1>5 DEF Fits
      <2> HIDE DEF l0, b0
      <2>3. Lower(t5) /\ Len(t5) = Len(t4) + l0
            BY ONLY <2>1, <2>2, LowerAppended, Zenon
      <2> QED BY <1>5, <2>3 DEF l0
<1>7. Lower(t6) /\ Len(t6) = 49
      <2> DEFINE l0 == 15
                 b0 == 16
      <2>1. l0 \in Nat /\ b0 \in Nat /\ t6 = t5 \o Of(l0, b0)
            BY DEF t6
      <2>2. Fits(Len(t5), l0, b0) /\ Lower(t5)
            BY <1>6 DEF Fits
      <2> HIDE DEF l0, b0
      <2>3. Lower(t6) /\ Len(t6) = Len(t5) + l0
            BY ONLY <2>1, <2>2, LowerAppended, Zenon
      <2> QED BY <1>6, <2>3 DEF l0
<1>8. Lower(t7) /\ Len(t7) = 59
      <2> DEFINE l0 == 10
                 b0 == 4
      <2>1. l0 \in Nat /\ b0 \in Nat /\ t7 = t6 \o Of(l0, b0)
            BY DEF t7
      <2>2. Fits(Len(t6), l0, b0) /\ Lower(t6)
            BY <1>7 DEF Fits
      <2> HIDE DEF l0, b0
      <2>3. Lower(t7) /\ Len(t7) = Len(t6) + l0
            BY ONLY <2>1, <2>2, LowerAppended, Zenon
      <2> QED BY <1>7, <2>3 DEF l0
<1>9. Lower(t8) /\ Len(t8) = 66
      <2> DEFINE l0 == 7
                 b0 == 16
      <2>1. l0 \in Nat /\ b0 \in Nat /\ t8 = t7 \o Of(l0, b0)
            BY DEF t8
      <2>2. Fits(Len(t7), l0, b0) /\ Lower(t7)
            BY <1>8 DEF Fits
      <2> HIDE DEF l0, b0
      <2>3. Lower(t8) /\ Len(t8) = Len(t7) + l0
            BY ONLY <2>1, <2>2, LowerAppended, Zenon
      <2> QED BY <1>8, <2>3 DEF l0
<1>10. Lower(t9) /\ Len(t9) = 72
      <2> DEFINE l0 == 6
                 b0 == 65
      <2>1. l0 \in Nat /\ b0 \in Nat /\ t9 = t8 \o Of(l0, b0)
            BY DEF t9
      <2>2. Fits(Len(t8), l0, b0) /\ Lower(t8)
            BY <1>9 DEF Fits
      <2> HIDE DEF l0, b0
      <2>3. Lower(t9) /\ Len(t9) = Len(t8) + l0
            BY ONLY <2>1, <2>2, LowerAppended, Zenon
      <2> QED BY <1>9, <2>3 DEF l0
<1>11. Lower(t10) /\ Len(t10) = 92
      <2> DEFINE l0 == 20
                 b0 == 1
      <2>1. l0 \in Nat /\ b0 \in Nat /\ t10 = t9 \o Of(l0, b0)
            BY DEF t10
      <2>2. Fits(Len(t9), l0, b0) /\ Lower(t9)
            BY <1>10 DEF Fits
      <2> HIDE DEF l0, b0
      <2>3. Lower(t10) /\ Len(t10) = Len(t9) + l0
            BY ONLY <2>1, <2>2, LowerAppended, Zenon
      <2> QED BY <1>10, <2>3 DEF l0
<1>12. Lower(t11) /\ Len(t11) = 98
      <2> DEFINE l0 == 6
                 b0 == 16
      <2>1. l0 \in Nat /\ b0 \in Nat /\ t11 = t10 \o Of(l0, b0)
            BY DEF t11
      <2>2. Fits(Len(t10), l0, b0) /\ Lower(t10)
            BY <1>11 DEF Fits
      <2> HIDE DEF l0, b0
      <2>3. Lower(t11) /\ Len(t11) = Len(t10) + l0
            BY ONLY <2>1, <2>2, LowerAppended, Zenon
      <2> QED BY <1>11, <2>3 DEF l0
<1>13. Lower(t12) /\ Len(t12) = 104
      <2> DEFINE l0 == 6
                 b0 == 66
      <2>1. l0 \in Nat /\ b0 \in Nat /\ t12 = t11 \o Of(l0, b0)
            BY DEF t12
      <2>2. Fits(Len(t11), l0, b0) /\ Lower(t11)
            BY <1>12 DEF Fits
      <2> HIDE DEF l0, b0
      <2>3. Lower(t12) /\ Len(t12) = Len(t11) + l0
            BY ONLY <2>1, <2>2, LowerAppended, Zenon
      <2> QED BY <1>12, <2>3 DEF l0
<1>14. Lower(t13) /\ Len(t13) = 124
      <2> DEFINE l0 == 20
                 b0 == 2
      <2>1. l0 \in Nat /\ b0 \in Nat /\ t13 = t12 \o Of(l0, b0)
            BY DEF t13
      <2>2. Fits(Len(t12), l0, b0) /\ Lower(t12)
            BY <1>13 DEF Fits
      <2> HIDE DEF l0, b0
      <2>3. Lower(t13) /\ Len(t13) = Len(t12) + l0
            BY ONLY <2>1, <2>2, LowerAppended, Zenon
      <2> QED BY <1>13, <2>3 DEF l0
<1>15. Lower(t14) /\ Len(t14) = 128
      <2> DEFINE l0 == 4
                 b0 == 16
      <2>1. l0 \in Nat /\ b0 \in Nat /\ t14 = t13 \o Of(l0, b0)
            BY DEF t14
      <2>2. Fits(Len(t13), l0, b0) /\ Lower(t13)
            BY <1>14 DEF Fits
      <2> HIDE DEF l0, b0
      <2>3. Lower(t14) /\ Len(t14) = Len(t13) + l0
            BY ONLY <2>1, <2>2, LowerAppended, Zenon
      <2> QED BY <1>14, <2>3 DEF l0
<1>16. Lower(t15) /\ Len(t15) = 129
      <2> DEFINE l0 == 1
                 b0 == 32
      <2>1. l0 \in Nat /\ b0 \in Nat /\ t15 = t14 \o Of(l0, b0)
            BY DEF t15
      <2>2. Fits(Len(t14), l0, b0) /\ Lower(t14)
            BY <1>15 DEF Fits
      <2> HIDE DEF l0, b0
      <2>3. Lower(t15) /\ Len(t15) = Len(t14) + l0
            BY ONLY <2>1, <2>2, LowerAppended, Zenon
      <2> QED BY <1>15, <2>3 DEF l0
<1>17. Lower(t16) /\ Len(t16) = 257
      <2> DEFINE l0 == 128
                 b0 == 0
      <2>1. l0 \in Nat /\ b0 \in Nat /\ t16 = t15 \o Of(l0, b0)
            BY DEF t16
      <2>2. Fits(Len(t15), l0, b0) /\ Lower(t15)
            BY <1>16 DEF Fits
      <2> HIDE DEF l0, b0
      <2>3. Lower(t16) /\ Len(t16) = Len(t15) + l0
            BY ONLY <2>1, <2>2, LowerAppended, Zenon
      <2> QED BY <1>16, <2>3 DEF l0
<1>18. c + 1 + 1 \in 1 .. Len(t16)
      BY <1>17
<1>19. islower(c) <=> c + 1 + 1 \in 99 .. 124
      <2>1. islower(c) <=> t16[c + 1 + 1] % 4 = 2
            BY <1>1 DEF islower, Class
      <2> DEFINE k == c + 1 + 1
      <2>2. islower(c) <=> t16[k] % 4 = 2
            BY <2>1
      <2>3. k \in 1 .. Len(t16)
            BY <1>18
      <2> HIDE DEF k
      <2>4. t16[k] % 4 = 2 <=> k \in 99 .. 124
            BY ONLY <1>17, <2>3, ZenonT(60) DEF Lower
      <2>5. islower(c) <=> k \in 99 .. 124
            BY ONLY <2>2, <2>4
      <2> QED BY <2>5 DEF k
<1>20. islower(c) <=> c >= 97 /\ c <= 122
      BY <1>19
<1> QED BY <1>20 DEF toupper, ca, cA, cz

----------------------------------------------------------------------------
(* Every call that C defines is answered as C says, because each of the    *)
(* functions does: what is answered is the answer of the call.             *)

CallAnswered == answer = "none" \/ (call \in Calls /\ answer = <<Answer(call)>>)

LEMMA AnsweredAsInC ==
    ASSUME call \in Calls, answer = <<Answer(call)>>
    PROVE  ResultsAsInC
<1> DEFINE x == call
           s == x.s1
           t == x.s2
           n0 == x.n
           r0 == answer[1]
<1>1. Defined(x)
      BY CallsAssumption
<1>2. r0 = Answer(x)
      OBVIOUS
<1>3. CASE x.f = "strlen"
      <2>1. r0 = strlen(s)
            BY <1>2, <1>3 DEF Answer
      <2>2. s \in CString
            BY <1>1, <1>3 DEF Defined
      <2>3. r0 = Len(Text(s))
            <3> HIDE DEF s, t, n0, r0
            <3> QED BY ONLY <2>1, <2>2, StrlenIs, TextIs
      <2> QED BY <1>3, <2>3 DEF ResultsAsInC
<1>4. CASE x.f = "memchr"
      <2>1. r0 = memchr(s, n0, Len(s))
            BY <1>2, <1>4 DEF Answer
      <2>2. s \in Bytes /\ n0 \in Int
            BY <1>1, <1>4 DEF Defined
      <2>3. IsFirst(r0, {i \in 0 .. Len(s) - 1 : s[i + 1] = n0 % 256})
            <3> HIDE DEF s, t, n0, r0
            <3> QED BY ONLY <2>1, <2>2, MemchrIs
      <2> QED BY <1>4, <2>3 DEF ResultsAsInC
<1>5. CASE x.f = "strchr"
      <2>1. r0 = strchr(s, n0)
            BY <1>2, <1>5 DEF Answer
      <2>2. s \in CString /\ n0 \in Int
            BY <1>1, <1>5 DEF Defined
      <2>3. IsFirst(r0, {i \in 0 .. Len(s) - 1 : s[i + 1] = n0 % 256})
            <3> HIDE DEF s, t, n0, r0
            <3> QED BY ONLY <2>1, <2>2, StrchrIs
      <2> QED BY <1>5, <2>3 DEF ResultsAsInC
<1>6. CASE x.f = "strstr"
      <2>1. r0 = strstr(s, t)
            BY <1>2, <1>6 DEF Answer
      <2>2. s \in CString /\ t \in CString
            BY <1>1, <1>6 DEF Defined
      <2>3. IsFirst(r0, {i \in 0 .. Len(s) - Len(t) : SubSeq(s, i + 1, i + Len(t) - 1) = Text(t)})
            <3> HIDE DEF s, t, n0, r0
            <3> QED BY ONLY <2>1, <2>2, StrstrIs
      <2> QED BY <1>6, <2>3 DEF ResultsAsInC
<1>7. CASE x.f = "strpbrk"
      <2>1. r0 = strpbrk(s, t)
            BY <1>2, <1>7 DEF Answer
      <2>2. s \in CString \cup {NoString} /\ t \in CString \cup {NoString}
            BY <1>1, <1>7 DEF Defined
      <2>3. IsFirst(r0, {i \in 0 .. Len(s) - 2 : \E j \in DOMAIN Text(t) : s[i + 1] = t[j]})
            <3> HIDE DEF s, t, n0, r0
            <3> QED BY ONLY <2>1, <2>2, StrpbrkIs
      <2> QED BY <1>7, <2>3 DEF ResultsAsInC
<1>8. CASE x.f = "strncpy"
      <2>1. r0 = strncpy(s, n0)
            BY <1>2, <1>8 DEF Answer
      <2>2. n0 \in Nat /\ s \in Counted(n0)
            BY <1>1, <1>8 DEF Defined
      <2>3. Len(r0) = n0 /\ \A i \in 1 .. n0 : r0[i] = IF i <= Len(s) THEN s[i] ELSE NUL
            <3> HIDE DEF s, t, n0, r0
            <3> QED BY ONLY <2>1, <2>2, StrncpyIs
      <2> QED BY <1>8, <2>3 DEF ResultsAsInC
<1>9. CASE x.f = "strcpy"
      <2>1. r0 = strcpy(s)
            BY <1>2, <1>9 DEF Answer
      <2>2. s \in CString
            BY <1>1, <1>9 DEF Defined
      <2>3. r0 = s
            <3> HIDE DEF s, t, n0, r0
            <3> QED BY ONLY <2>1, <2>2, StrcpyIs
      <2> QED BY <1>9, <2>3 DEF ResultsAsInC
<1>10. CASE x.f = "strcat"
      <2>1. r0 = strcat(s, t)
            BY <1>2, <1>10 DEF Answer
      <2>2. s \in CString /\ t \in CString
            BY <1>1, <1>10 DEF Defined
      <2>3. r0 = Text(s) \o t
            <3> HIDE DEF s, t, n0, r0
            <3> QED BY ONLY <2>1, <2>2, StrcatIs
      <2> QED BY <1>10, <2>3 DEF ResultsAsInC
<1>11. CASE x.f = "strcmp"
      <2>1. r0 = strcmp(s, t)
            BY <1>2, <1>11 DEF Answer
      <2>2. s \in CString /\ t \in CString
            BY <1>1, <1>11 DEF Defined
      <2>3. Orders(r0, s, t, Shorter(Len(s), Len(t)))
            <3> HIDE DEF s, t, n0, r0
            <3> QED BY ONLY <2>1, <2>2, StrcmpIs
      <2> QED BY <1>11, <2>3 DEF ResultsAsInC
<1>12. CASE x.f = "strncmp"
      <2>1. r0 = strncmp(s, t, n0)
            BY <1>2, <1>12 DEF Answer
      <2>2. n0 \in Nat /\ s \in Counted(n0) /\ t \in Counted(n0)
            BY <1>1, <1>12 DEF Defined
      <2>3. Orders(r0, s, t, Shorter(n0, Shorter(Len(s), Len(t))))
            <3> HIDE DEF s, t, n0, r0
            <3> QED BY ONLY <2>1, <2>2, StrncmpIs
      <2> QED BY <1>12, <2>3 DEF ResultsAsInC
<1>13. CASE x.f = "memcmp"
      <2>1. r0 = memcmp(s, t, n0)
            BY <1>2, <1>13 DEF Answer
      <2>2. s \in Bytes /\ t \in Bytes /\ n0 \in 0 .. Len(s) /\ n0 <= Len(t)
            BY <1>1, <1>13 DEF Defined
      <2>3. Orders(r0, s, t, n0)
            <3> HIDE DEF s, t, n0, r0
            <3> QED BY ONLY <2>1, <2>2, MemcmpIs
      <2> QED BY <1>13, <2>3 DEF ResultsAsInC
<1>14. CASE x.f = "toupper"
      <2>1. r0 = toupper(n0)
            BY <1>2, <1>14 DEF Answer
      <2>2. n0 \in -1 .. 255
            BY <1>1, <1>14 DEF Defined
      <2>3. r0 = IF n0 >= ca /\ n0 <= cz THEN n0 - 32 ELSE n0
            <3> HIDE DEF s, t, n0, r0
            <3> QED BY ONLY <2>1, <2>2, ToupperIs
      <2> QED BY <1>14, <2>3 DEF ResultsAsInC
<1>15. CASE x.f \notin {"strlen", "memchr", "strchr", "strstr", "strpbrk", "strncpy", "strcpy", "strcat", "strcmp", "strncmp", "memcmp", "toupper"}
      BY <1>15 DEF ResultsAsInC
<1> QED BY <1>3, <1>4, <1>5, <1>6, <1>7, <1>8, <1>9, <1>10, <1>11, <1>12, <1>13, <1>14, <1>15

\* Every function gives what the C standard says, for every call that C
\* defines, strings and bytes of every length.
THEOREM CallsAsInC == LibcSpec => []ResultsAsInC
<1>1. LibcInit => CallAnswered
      BY DEF LibcInit, CallAnswered
<1>2. CallAnswered /\ [LibcNext]_libcVars => CallAnswered'
      BY DEF CallAnswered, LibcNext, LibcCall, libcVars
<1>3. CallAnswered => ResultsAsInC
      <2>1. answer = "none" => ResultsAsInC
            BY DEF ResultsAsInC
      <2> QED BY <2>1, AnsweredAsInC DEF CallAnswered
<1> QED BY <1>1, <1>2, <1>3, PTL DEF LibcSpec

----------------------------------------------------------------------------
(* strtol.  What a loop accumulates exists, round by round, because there  *)
(* is no least round at which it does not.                                 *)

AreRounds(g, m0, X) == g \in [1 .. m0 -> [X -> X]]
GoesRound(f, g, m0, X, x0) == f \in [0 .. m0 -> X] /\ f[0] = x0 /\ \A i \in 1 .. m0 : f[i] = g[i][f[i - 1]]

LEMMA RoundsExist ==
    ASSUME NEW m0 \in Nat, NEW X, NEW x0 \in X, NEW g, AreRounds(g, m0, X)
    PROVE  \E f : GoesRound(f, g, m0, X, x0)
<1> USE DEF AreRounds
<1> DEFINE IsLoop(f, k) == f \in [0 .. k -> X] /\ f[0] = x0 /\ \A i \in 1 .. k : f[i] = g[i][f[i - 1]]
           T == {k \in 0 .. m0 : ~\E f : IsLoop(f, k)}
<1>1. ASSUME T # {} PROVE FALSE
      <2>1. T \in SUBSET Nat
            OBVIOUS
      <2>2. PICK k \in T : \A j \in T : k <= j
            <3> HIDE DEF T
            <3> QED BY <1>1, <2>1, LeastNumber
      <2>3. k \in 0 .. m0 /\ ~\E f : IsLoop(f, k)
            OBVIOUS
      <2>4. CASE k = 0
            <3> DEFINE f == [i \in 0 .. 0 |-> x0]
            <3>1. f \in [0 .. 0 -> X] /\ f[0] = x0
                  OBVIOUS
            <3>2. \A i \in 1 .. 0 : FALSE
                  OBVIOUS
            <3> HIDE DEF f
            <3>3. IsLoop(f, k)
                  BY <2>4, <3>1, <3>2
            <3> QED BY <2>3, <3>3
      <2>5. CASE k # 0
            <3>1. k - 1 \in 0 .. m0 /\ ~(k <= k - 1)
                  BY <2>3, <2>5
            <3>2. PICK f : IsLoop(f, k - 1)
                  <4> HIDE DEF IsLoop
                  <4> QED BY <2>2, <3>1
            <3> DEFINE y == g[k][f[k - 1]]
                       e == [i \in 0 .. k |-> IF i = k THEN y ELSE f[i]]
            <3>3. y \in X
                  <4>1. k \in 1 .. m0 /\ k - 1 \in 0 .. k - 1
                        BY <2>3, <2>5
                  <4>2. f[k - 1] \in X
                        BY <3>2, <4>1
                  <4>3. g[k] \in [X -> X]
                        BY <4>1
                  <4> QED BY <4>2, <4>3
            <3>4. \A i \in 0 .. k - 1 : f[i] \in X /\ e[i] = f[i]
                  BY <2>3, <3>2
            <3>5. e[k] = y
                  BY <2>3
            <3>6. e \in [0 .. k -> X]
                  <4> HIDE DEF y
                  <4> QED BY <2>3, <3>2, <3>3
            <3> HIDE DEF e
            <3>7. e[0] = x0
                  <4>1. 0 \in 0 .. k - 1
                        BY <2>3, <2>5
                  <4> QED BY <3>2, <3>4, <4>1
            <3>8. ASSUME NEW i \in 1 .. k PROVE e[i] = g[i][e[i - 1]]
                  <4>1. i - 1 \in 0 .. k - 1
                        BY <2>3
                  <4>2. e[i - 1] = f[i - 1]
                        BY <3>4, <4>1
                  <4>3. CASE i = k
                        BY <3>5, <4>2, <4>3
                  <4>4. CASE i # k
                        <5>1. i \in 1 .. k - 1 /\ i \in 0 .. k - 1
                              BY <2>3, <4>4
                        <5> QED BY <3>2, <3>4, <4>2, <5>1
                  <4> QED BY <4>3, <4>4
            <3>9. IsLoop(e, k)
                  BY <3>6, <3>7, <3>8
            <3> HIDE DEF IsLoop
            <3> QED BY <2>3, <3>9
      <2> QED BY <2>4, <2>5
<1>2. \E f : IsLoop(f, m0)
      <2>1. m0 \in 0 .. m0
            OBVIOUS
      <2> HIDE DEF IsLoop
      <2> QED BY <1>1, <2>1
<1> QED BY <1>2 DEF GoesRound

\* The number spelled, digit by digit.
LEMMA SpelledIs ==
    ASSUME NEW digits \in Seq(Nat), NEW base \in Nat
    PROVE  \E f \in [0 .. Len(digits) -> Nat] :
             /\ f[0] = 0 /\ \A i \in 1 .. Len(digits) : f[i] = f[i - 1] * base + digits[i]
             /\ Spelled(digits, base) = f[Len(digits)]
<1> DEFINE l == Len(digits)
           Body(f) == [i \in 0 .. l |-> IF i = 0 THEN 0 ELSE f[i - 1] * base + digits[i]]
           g == [i \in 1 .. l |-> [x \in Nat |-> x * base + digits[i]]]
           value == CHOOSE f : f = Body(f)
<1>1. l \in Nat /\ \A i \in 1 .. l : digits[i] \in Nat
      BY LenProperties, ElementOfSeq
<1>2. \A i \in 1 .. l : \A x \in Nat : x * base + digits[i] \in Nat
      BY <1>1
<1>3. g \in [1 .. l -> [Nat -> Nat]]
      BY <1>2
<1>4. PICK f \in [0 .. l -> Nat] : f[0] = 0 /\ \A i \in 1 .. l : f[i] = g[i][f[i - 1]]
      <2>1. l \in Nat /\ 0 \in Nat /\ AreRounds(g, l, Nat)
            BY <1>1, <1>3 DEF AreRounds
      <2> HIDE DEF g, l
      <2>2. \E f : GoesRound(f, g, l, Nat, 0)
            BY ONLY <2>1, RoundsExist
      <2> QED BY <2>2 DEF GoesRound
<1>5. \A i \in 1 .. l : i - 1 \in 0 .. l /\ f[i - 1] \in Nat /\ f[i] = f[i - 1] * base + digits[i]
      <2> TAKE i \in 1 .. l
      <2>1. i - 1 \in 0 .. l
            BY <1>1
      <2>2. f[i - 1] \in Nat
            BY <2>1
      <2>3. f[i] = g[i][f[i - 1]]
            <3> HIDE DEF g
            <3> QED BY <1>4
      <2>4. g[i][f[i - 1]] = f[i - 1] * base + digits[i]
            <3> DEFINE y == f[i - 1]
            <3>1. y \in Nat
                  BY <2>2
            <3> HIDE DEF y
            <3>2. g[i][y] = y * base + digits[i]
                  BY <3>1
            <3> QED BY <3>2 DEF y
      <2> HIDE DEF g
      <2> QED BY <2>1, <2>2, <2>3, <2>4
<1>6. f = Body(f)
      <2>1. \A i \in 0 .. l : f[i] = IF i = 0 THEN 0 ELSE f[i - 1] * base + digits[i]
            <3> TAKE i \in 0 .. l
            <3>1. i # 0 => i \in 1 .. l
                  BY <1>1
            <3> QED BY <1>4, <1>5, <3>1
      <2> HIDE DEF l
      <2> QED BY <2>1
<1>7. value = Body(value)
      <2> HIDE DEF Body
      <2> QED BY <1>6
<1>8. Spelled(digits, base) = value[l]
      BY DEF Spelled
<1> HIDE DEF value
<1>9. value[0] = 0 /\ \A i \in 1 .. l : value[i] = value[i - 1] * base + digits[i]
      <2>1. 0 \in 0 .. l /\ \A i \in 1 .. l : i \in 0 .. l /\ i # 0
            BY <1>1
      <2>2. \A i \in 0 .. l : value[i] = IF i = 0 THEN 0 ELSE value[i - 1] * base + digits[i]
            <3> DEFINE v == value
            <3>1. v = Body(v)
                  BY <1>7
            <3> HIDE DEF v, l
            <3>2. \A i \in 0 .. l : v[i] = IF i = 0 THEN 0 ELSE v[i - 1] * base + digits[i]
                  BY <3>1
            <3> QED BY <3>2 DEF v
      <2> QED BY <2>1, <2>2
<1>10. DOMAIN value = 0 .. l /\ value = [i \in 0 .. l |-> value[i]]
      BY <1>7
<1> DEFINE T == {i \in 0 .. l : value[i] \notin Nat}
<1>11. ASSUME T # {} PROVE FALSE
      <2>1. T \in SUBSET Nat
            OBVIOUS
      <2>2. PICK k \in T : \A j \in T : k <= j
            <3> HIDE DEF T
            <3> QED BY <1>11, <2>1, LeastNumber
      <2>3. k \in 0 .. l /\ value[k] \notin Nat
            OBVIOUS
      <2>4. k # 0
            BY <1>9, <2>3
      <2>5. k \in 1 .. l /\ k - 1 \in 0 .. l /\ ~(k <= k - 1)
            BY <1>1, <2>3, <2>4
      <2>6. value[k - 1] \in Nat
            BY <2>2, <2>5
      <2>7. value[k - 1] * base + digits[k] \in Nat
            BY <1>2, <2>5, <2>6
      <2> QED BY <1>9, <2>3, <2>5, <2>7
<1>12. value \in [0 .. l -> Nat]
      BY <1>10, <1>11
<1> QED BY <1>8, <1>9, <1>12

\* A long and its sizes.
LEMMA LongIs ==
    /\ 2^LongBits \in Nat \ {0} /\ 2^(LongBits - 1) \in Nat \ {0} /\ 2^LongBits = 2 * 2^(LongBits - 1)
    /\ 2^(LongBits - 1) >= 2
    /\ \A x \in Int : ulong(x) \in 0 .. 2^LongBits - 1
    /\ \A x \in 0 .. 2^LongBits - 1 : ulong(x) = x
    /\ LongMax = 2^(LongBits - 1) - 1 /\ LongMin = -(2^(LongBits - 1))
    /\ ulong(LongMin) = 2^(LongBits - 1)
    /\ Cutoff(TRUE) = 2^(LongBits - 1) /\ Cutoff(FALSE) = 2^(LongBits - 1) - 1
<1> DEFINE k == LongBits - 1
           T == 2^k
           M == 2^LongBits
<1>1. k \in Nat /\ k >= 1 /\ LongBits = k + 1 /\ LongBits \in Nat
      BY LongAssumption
<1>2. T \in Nat \ {0} /\ M \in Nat \ {0}
      BY <1>1, PowerIsPositive
<1>3. M = 2 * T
      <2>1. \A i \in Nat : 2^(i + 1) = 2 * 2^i
            BY PowersGrow
      <2> QED BY <1>1, <2>1
<1>4. T >= 2
      <2>1. k < T
            <3> HIDE DEF k
            <3> QED BY <1>1, PowerIsLarger
      <2> QED BY <1>1, <1>2, <2>1
<1>5. LongMax = T - 1 /\ LongMin = -T
      BY DEF LongMax, LongMin
<1>6. \A x : ulong(x) = x % M
      BY DEF ulong
<1> HIDE DEF k, T, M
<1>7. \A x \in Int : x % M \in 0 .. M - 1
      BY <1>2
<1>8. \A x \in 0 .. M - 1 : x % M = x
      <2> TAKE x \in 0 .. M - 1
      <2>1. x \in Int /\ 0 \in Int /\ x = 0 * M + x
            BY <1>2
      <2> QED BY ONLY <1>2, <2>1, x \in 0 .. M - 1, DivUnique
<1>9. (-T) % M = T
      <2>1. -T \in Int /\ -1 \in Int /\ T \in 0 .. M - 1 /\ -T = (-1) * M + T
            BY <1>2, <1>3
      <2> DEFINE y == -1
                 z == -T
      <2>2. z \in Int /\ y \in Int /\ z = y * M + T
            BY <2>1
      <2> HIDE DEF y, z
      <2>3. z % M = T
            BY ONLY <1>2, <2>1, <2>2, DivUnique
      <2> QED BY <2>3 DEF z
<1>10. ulong(LongMin) = T
      BY <1>5, <1>6, <1>9
<1>11. Cutoff(TRUE) = T /\ Cutoff(FALSE) = T - 1
      BY <1>5, <1>6, <1>9, <1>10 DEF Cutoff
<1> QED BY <1>2, <1>3, <1>4, <1>5, <1>6, <1>7, <1>8, <1>10, <1>11 DEF k, T, M

LEMMA CutoffIs == ASSUME NEW neg \in BOOLEAN PROVE Cutoff(neg) \in Nat /\ Cutoff(neg) \in 0 .. 2^LongBits - 1
<1> DEFINE T == 2^(LongBits - 1)
           M == 2^LongBits
<1>1. T \in Nat \ {0} /\ M = 2 * T /\ Cutoff(TRUE) = T /\ Cutoff(FALSE) = T - 1
      BY LongIs
<1>2. neg = TRUE \/ neg = FALSE
      OBVIOUS
<1> HIDE DEF T, M
<1>3. Cutoff(neg) \in Nat /\ Cutoff(neg) \in 0 .. M - 1
      <2>1. Cutoff(neg) = T \/ Cutoff(neg) = T - 1
            BY ONLY <1>1, <1>2, Zenon
      <2> DEFINE C == Cutoff(neg)
      <2> HIDE DEF C
      <2>2. C \in Nat /\ C \in 0 .. M - 1
            <3>1. C = T \/ C = T - 1
                  BY <2>1 DEF C
            <3> QED BY <1>1, <3>1
      <2> QED BY <2>2 DEF C
<1> QED BY <1>3 DEF M

\* What a digit makes of acc and any.
Taken(p, digit, base, neg) ==
    IF p.any < 0 \/ p.acc > Cutoff(neg) \div base \/ (p.acc = Cutoff(neg) \div base /\ digit > Cutoff(neg) % base)
    THEN [p EXCEPT !.any = -1]
    ELSE [acc |-> ulong(ulong(p.acc * base) + digit), any |-> 1]

TakesAll(f, digits, base, neg) ==
    /\ f[0] = [acc |-> 0, any |-> 0]
    /\ \A i \in 1 .. Len(digits) : f[i] = Taken(f[i - 1], digits[i], base, neg)
    /\ Accumulated(digits, base, neg) = f[Len(digits)]

LEMMA AccumulatedIs ==
    ASSUME NEW digits \in Seq(Nat), NEW base \in Nat, NEW neg
    PROVE  \E f : TakesAll(f, digits, base, neg)
<1> DEFINE l == Len(digits)
           X == [acc : Int, any : Int]
           x0 == [acc |-> 0, any |-> 0]
           Body(f) == [i \in 0 .. l |-> IF i = 0 THEN x0 ELSE Taken(f[i - 1], digits[i], base, neg)]
           g == [i \in 1 .. l |-> [x \in X |-> Taken(x, digits[i], base, neg)]]
           value == CHOOSE f : f = Body(f)
<1>1. l \in Nat /\ \A i \in 1 .. l : digits[i] \in Nat
      BY LenProperties, ElementOfSeq
<1>2. \A i \in 1 .. l : \A x \in X : Taken(x, digits[i], base, neg) \in X
      <2> TAKE i \in 1 .. l
      <2> TAKE x \in X
      <2>1. digits[i] \in Int /\ x.acc \in Int /\ x.any \in Int /\ x.acc * base \in Int
            BY <1>1
      <2>2. ulong(x.acc * base) \in Int
            BY <2>1, LongIs
      <2>3. ulong(ulong(x.acc * base) + digits[i]) \in Int
            <3>1. ulong(x.acc * base) + digits[i] \in Int
                  BY <2>1, <2>2
            <3> QED BY <3>1, LongIs
      <2>4. [x EXCEPT !.any = -1] \in X
            BY <2>1
      <2> HIDE DEF l
      <2> QED BY <2>3, <2>4 DEF Taken
<1>3. x0 \in X
      OBVIOUS
<1> HIDE DEF X, x0
<1>4. AreRounds(g, l, X)
      BY <1>2 DEF AreRounds
<1>5. PICK f : GoesRound(f, g, l, X, x0)
      <2>1. l \in Nat
            BY <1>1
      <2> HIDE DEF g, l
      <2> QED BY ONLY <1>3, <1>4, <2>1, RoundsExist
<1>6. f \in [0 .. l -> X] /\ f[0] = x0 /\ \A i \in 1 .. l : f[i] = g[i][f[i - 1]]
      <2> HIDE DEF g, l
      <2> QED BY <1>5 DEF GoesRound
<1>7. \A i \in 1 .. l : f[i] = Taken(f[i - 1], digits[i], base, neg)
      <2> TAKE i \in 1 .. l
      <2>1. i - 1 \in 0 .. l
            BY <1>1
      <2>2. f[i - 1] \in X
            BY <1>6, <2>1
      <2>3. f[i] = g[i][f[i - 1]]
            <3> HIDE DEF g
            <3> QED BY <1>6
      <2>4. g[i][f[i - 1]] = Taken(f[i - 1], digits[i], base, neg)
            <3> DEFINE y == f[i - 1]
            <3>1. y \in X
                  BY <2>2
            <3> HIDE DEF y
            <3>2. g[i][y] = Taken(y, digits[i], base, neg)
                  BY <3>1
            <3> QED BY <3>2 DEF y
      <2> HIDE DEF g
      <2> QED BY <2>3, <2>4
<1>8. f = Body(f)
      <2>1. \A i \in 0 .. l : f[i] = IF i = 0 THEN x0 ELSE Taken(f[i - 1], digits[i], base, neg)
            <3> TAKE i \in 0 .. l
            <3>1. i # 0 => i \in 1 .. l
                  BY <1>1
            <3> HIDE DEF g
            <3> QED BY <1>6, <1>7, <3>1
      <2> HIDE DEF l, g
      <2> QED BY <1>6, <2>1
<1>9. value = Body(value)
      <2> HIDE DEF Body
      <2> QED BY <1>8
<1>10. Accumulated(digits, base, neg) = value[l]
      BY Zenon DEF Accumulated, Taken, x0
<1> HIDE DEF value
<1>11. value[0] = x0 /\ \A i \in 1 .. l : value[i] = Taken(value[i - 1], digits[i], base, neg)
      <2>1. 0 \in 0 .. l /\ \A i \in 1 .. l : i \in 0 .. l /\ i # 0
            BY <1>1
      <2>2. \A i \in 0 .. l : value[i] = IF i = 0 THEN x0 ELSE Taken(value[i - 1], digits[i], base, neg)
            <3> DEFINE v == value
            <3>1. v = Body(v)
                  BY <1>9
            <3> HIDE DEF v, l
            <3>2. \A i \in 0 .. l : v[i] = IF i = 0 THEN x0 ELSE Taken(v[i - 1], digits[i], base, neg)
                  BY <3>1
            <3> QED BY <3>2 DEF v
      <2> QED BY <2>1, <2>2
<1> QED BY <1>10, <1>11 DEF x0, TakesAll

\* A number is beyond the largest if what is before its last digit is, or is
\* the largest without its last digit and the digit is larger.
LEMMA BeyondIs ==
    ASSUME NEW base \in Nat \ {0}, NEW C \in Nat, NEW x \in Nat, NEW digit \in 0 .. base - 1
    PROVE  /\ x * base + digit \in Nat /\ x * base \in Nat /\ x <= x * base + digit
           /\ x * base + digit > C <=> x > C \div base \/ (x = C \div base /\ digit > C % base)
<1> DEFINE c == C \div base
           e == C % base
<1>1. c \in Nat /\ e \in 0 .. base - 1 /\ C = c * base + e
      BY DivParts
<1> HIDE DEF c, e
<1>2. /\ x * base \in Nat /\ c * base \in Nat
      /\ x >= c + 1 => x * base >= c * base + base
      /\ c >= x + 1 => c * base >= x * base + base
      <2>1. x * base \in Nat /\ c * base \in Nat
            BY <1>1
      <2>2. ASSUME x >= c + 1 PROVE x * base >= c * base + base
            <3>1. x - (c + 1) \in Nat
                  BY <1>1, <2>2
            <3>2. PICK y \in Nat : x = c + 1 + y
                  BY <1>1, <3>1
            <3>3. x * base = c * base + base + y * base /\ y * base \in Nat
                  BY <1>1, <3>2
            <3> QED BY <2>1, <3>3
      <2>3. ASSUME c >= x + 1 PROVE c * base >= x * base + base
            <3>1. c - (x + 1) \in Nat
                  BY <1>1, <2>3
            <3>2. PICK y \in Nat : c = x + 1 + y
                  BY <1>1, <3>1
            <3>3. c * base = x * base + base + y * base /\ y * base \in Nat
                  BY <1>1, <3>2
            <3> QED BY <2>1, <3>3
      <2> QED BY <2>1, <2>2, <2>3
<1>3. x <= x * base
      <2>1. PICK y \in Nat : base = y + 1
            <3>1. base - 1 \in Nat
                  OBVIOUS
            <3> QED BY <3>1
      <2>2. x * base = x * y + x /\ x * y \in Nat
            BY <2>1
      <2> QED BY <2>2
<1> DEFINE u == x * base
           w == c * base
<1>4. u \in Nat /\ w \in Nat /\ C = w + e /\ x <= u /\ (x = c => u = w)
      /\ (x >= c + 1 => u >= w + base) /\ (c >= x + 1 => w >= u + base)
      BY <1>1, <1>2, <1>3
<1> HIDE DEF u, w
<1>5. u + digit > C <=> x > c \/ (x = c /\ digit > e)
      <2>1. CASE x = c
            BY <1>1, <1>4, <2>1
      <2>2. CASE x > c
            BY <1>1, <1>4, <2>2
      <2>3. CASE x < c
            BY <1>1, <1>4, <2>3
      <2> QED BY <1>1, <2>1, <2>2, <2>3
<1>6. u + digit \in Nat /\ u \in Nat /\ x <= u + digit
      BY <1>4
<1> QED BY <1>5, <1>6 DEF u, c, e

\* acc and any hold the number y, or any says that it is beyond the cutoff.
Holds(p, y, neg, any) ==
    p \in [acc : Int, any : Int] /\ IF y <= Cutoff(neg) THEN p.acc = y /\ p.any = any ELSE p.any = -1

LEMMA TakenHolds ==
    ASSUME NEW base \in Nat \ {0}, NEW neg \in BOOLEAN, NEW y \in Nat, NEW digit \in 0 .. base - 1,
           NEW p, NEW any \in {0, 1}, Holds(p, y, neg, any)
    PROVE  Holds(Taken(p, digit, base, neg), y * base + digit, neg, 1)
<1> DEFINE C == Cutoff(neg)
           z == y * base + digit
           t == Taken(p, digit, base, neg)
           Over == p.any < 0 \/ p.acc > C \div base \/ (p.acc = C \div base /\ digit > C % base)
<1>1. C \in Nat /\ C \in 0 .. 2^LongBits - 1
      BY CutoffIs
<1>2. /\ z \in Nat /\ y * base \in Nat /\ y <= z
      /\ z > C <=> y > C \div base \/ (y = C \div base /\ digit > C % base)
      <2> HIDE DEF C
      <2> QED BY <1>1, BeyondIs
<1>3. t = IF Over THEN [p EXCEPT !.any = -1] ELSE [acc |-> ulong(ulong(p.acc * base) + digit), any |-> 1]
      BY DEF Taken
<1>4. Over => t = [p EXCEPT !.any = -1]
      <2> HIDE DEF Over, t
      <2> QED BY <1>3
<1>5. ~Over => t = [acc |-> ulong(ulong(p.acc * base) + digit), any |-> 1]
      <2> HIDE DEF Over, t
      <2> QED BY <1>3
<1> HIDE DEF t
<1>6. CASE y > C
      <2>1. p.any = -1
            BY <1>1, <1>6 DEF Holds
      <2>2. z > C
            BY <1>1, <1>2, <1>6
      <2>3. Over
            BY <2>1
      <2>4. t \in [acc : Int, any : Int] /\ t.any = -1
            <3>1. p \in [acc : Int, any : Int]
                  BY DEF Holds
            <3>2. t = [p EXCEPT !.any = -1]
                  <4> HIDE DEF Over
                  <4> QED BY <1>4, <2>3
            <3> QED BY <3>1, <3>2
      <2> QED BY <1>1, <1>2, <2>2, <2>4 DEF t, Holds
<1>7. CASE y <= C
      <2>1. p.acc = y /\ p.any = any
            BY <1>7 DEF Holds
      <2>2. Over <=> z > C
            <3>1. ~(p.any < 0)
                  BY <2>1
            <3> HIDE DEF C
            <3> QED BY <1>2, <2>1, <3>1
      <2>3. CASE z > C
            <3>1. t \in [acc : Int, any : Int] /\ t.any = -1
                  <4>1. p \in [acc : Int, any : Int]
                        BY DEF Holds
                  <4>2. t = [p EXCEPT !.any = -1]
                        <5> HIDE DEF Over
                        <5> QED BY <1>4, <2>2, <2>3
                  <4> QED BY <4>1, <4>2
            <3> QED BY <1>1, <1>2, <2>3, <3>1 DEF t, Holds
      <2>4. CASE z <= C
            <3>1. ~Over
                  <4> HIDE DEF Over, C, z
                  <4> QED BY <1>1, <1>2, <2>2, <2>4
            <3>2. t = [acc |-> ulong(ulong(y * base) + digit), any |-> 1]
                  <4> HIDE DEF Over
                  <4> QED BY <1>5, <2>1, <3>1
            <3>3. y * base <= z
                  BY <1>2
            <3>4. y * base \in 0 .. 2^LongBits - 1 /\ z \in 0 .. 2^LongBits - 1
                  <4> DEFINE M == 2^LongBits
                             w == y * base
                  <4>1. M \in Nat \ {0} /\ w \in Nat /\ w <= z /\ z \in Nat /\ z <= C /\ C \in 0 .. M - 1
                        BY <1>1, <1>2, <2>4, <3>3, LongIs
                  <4> HIDE DEF M, w, z, C
                  <4>2. w \in 0 .. M - 1 /\ z \in 0 .. M - 1
                        BY <4>1
                  <4> QED BY <4>2 DEF M, w
            <3>5. ulong(y * base) = y * base /\ ulong(z) = z
                  BY <3>4, LongIs
            <3>6. t \in [acc : Int, any : Int] /\ t.acc = z /\ t.any = 1
                  BY <1>2, <3>2, <3>5
            <3> QED BY <2>4, <3>6 DEF t, Holds
      <2> QED BY <1>1, <1>2, <2>3, <2>4
<1> QED BY <1>1, <1>6, <1>7

LEMMA SaturatedIs ==
    ASSUME NEW digits \in Seq(Nat), NEW base \in Nat \ {0}, NEW neg \in BOOLEAN,
           \A i \in 1 .. Len(digits) : digits[i] \in 0 .. base - 1
    PROVE  /\ Spelled(digits, base) \in Nat
           /\ Len(digits) = 0 => Spelled(digits, base) = 0
           /\ Holds(Accumulated(digits, base, neg), Spelled(digits, base), neg, IF Len(digits) = 0 THEN 0 ELSE 1)
<1> DEFINE l == Len(digits)
           Any(i) == IF i = 0 THEN 0 ELSE 1
<1>1. l \in Nat /\ base \in Nat
      BY LenProperties
<1>2. PICK v \in [0 .. l -> Nat] :
             /\ v[0] = 0 /\ \A i \in 1 .. l : v[i] = v[i - 1] * base + digits[i]
             /\ Spelled(digits, base) = v[l]
      BY SpelledIs
<1>3. PICK f :
             /\ f[0] = [acc |-> 0, any |-> 0]
             /\ \A i \in 1 .. l : f[i] = Taken(f[i - 1], digits[i], base, neg)
             /\ Accumulated(digits, base, neg) = f[l]
      <2>1. \E f : TakesAll(f, digits, base, neg)
            BY ONLY <1>1, digits \in Seq(Nat), AccumulatedIs
      <2> QED BY <2>1 DEF TakesAll
<1> DEFINE T == {i \in 0 .. l : ~Holds(f[i], v[i], neg, Any(i))}
<1>4. ASSUME T # {} PROVE FALSE
      <2>1. T \in SUBSET Nat
            OBVIOUS
      <2>2. PICK k \in T : \A j \in T : k <= j
            <3> HIDE DEF T
            <3> QED BY <1>4, <2>1, LeastNumber
      <2>3. k \in 0 .. l /\ ~Holds(f[k], v[k], neg, Any(k))
            OBVIOUS
      <2>4. CASE k = 0
            <3>1. f[k] = [acc |-> 0, any |-> 0]
                  BY <1>3, <2>4
            <3>2. f[k] \in [acc : Int, any : Int] /\ f[k].acc = 0 /\ f[k].any = 0
                  BY <3>1
            <3>3. v[k] = 0 /\ Any(k) = 0
                  BY <1>2, <2>4
            <3>4. 0 <= Cutoff(neg)
                  BY CutoffIs
            <3>5. Holds(f[k], v[k], neg, Any(k))
                  <4> HIDE DEF Any
                  <4> QED BY <3>2, <3>3, <3>4 DEF Holds
            <3> QED BY <2>3, <3>5
      <2>5. CASE k # 0
            <3>1. k \in 1 .. l /\ k - 1 \in 0 .. l /\ ~(k <= k - 1)
                  BY <1>1, <2>3, <2>5
            <3>2. Holds(f[k - 1], v[k - 1], neg, Any(k - 1))
                  <4> HIDE DEF Any
                  <4> QED BY <2>2, <3>1
            <3>3. v[k - 1] \in Nat /\ Any(k - 1) \in {0, 1} /\ Any(k) = 1 /\ digits[k] \in 0 .. base - 1
                  BY <1>2, <2>5, <3>1
            <3> DEFINE p == f[k - 1]
                       y == v[k - 1]
                       any == Any(k - 1)
                       digit == digits[k]
            <3>4. Holds(p, y, neg, any) /\ y \in Nat /\ any \in {0, 1} /\ digit \in 0 .. base - 1
                  BY <3>2, <3>3
            <3>5. f[k] = Taken(p, digit, base, neg) /\ v[k] = y * base + digit
                  BY <1>2, <1>3, <3>1
            <3> HIDE DEF p, y, any, digit, Any
            <3>6. Holds(Taken(p, digit, base, neg), y * base + digit, neg, 1)
                  BY ONLY <3>4, base \in Nat \ {0}, neg \in BOOLEAN, TakenHolds
            <3> QED BY <2>3, <3>3, <3>5, <3>6
      <2> QED BY <2>4, <2>5
<1>5. Holds(f[l], v[l], neg, Any(l)) /\ v[l] \in Nat /\ (l = 0 => v[l] = 0)
      <2>1. l \in 0 .. l
            BY <1>1
      <2>2. v[l] \in Nat
            BY <1>2, <2>1
      <2> HIDE DEF Any
      <2> QED BY <1>2, <1>4, <2>1, <2>2
<1> QED BY <1>2, <1>3, <1>5

\* The value of strtol, from acc, any and the sign, is the number or the
\* nearest a long can hold.
LEMMA LongOf ==
    ASSUME NEW y \in Nat, NEW neg \in BOOLEAN, NEW p, NEW any \in {0, 1}, Holds(p, y, neg, any),
           NEW acc, acc = (CASE p.any < 0 -> IF neg THEN ulong(LongMin) ELSE LongMax
                             [] p.any >= 0 /\ neg -> ulong(-p.acc)
                             [] OTHER -> p.acc),
           NEW v, v = (IF neg THEN -1 ELSE 1) * y
    PROVE  (IF acc > LongMax THEN acc - 2^LongBits ELSE acc) =
               IF v > LongMax THEN LongMax ELSE IF v < LongMin THEN LongMin ELSE v
<1> DEFINE T == 2^(LongBits - 1)
           M == 2^LongBits
<1>1. /\ T \in Nat \ {0} /\ M = 2 * T /\ T >= 2 /\ LongMax = T - 1 /\ LongMin = -T /\ ulong(LongMin) = T
      /\ Cutoff(TRUE) = T /\ Cutoff(FALSE) = T - 1
      BY LongIs
<1>2. ASSUME y \in 1 .. T PROVE ulong(-y) = M - y
      <2> DEFINE z == -y
                 k == -1
                 x == M - y
      <2>1. M \in Nat \ {0} /\ z \in Int /\ k \in Int /\ x \in 0 .. M - 1 /\ z = k * M + x
            BY <1>1, <1>2
      <2>2. ulong(-y) = z % M
            BY DEF ulong
      <2> HIDE DEF z, k, x, M
      <2>3. z % M = x
            BY ONLY <2>1, DivUnique
      <2> QED BY <2>2, <2>3 DEF x
<1>3. ulong(0) = 0
      <2>1. 0 \in 0 .. 2^LongBits - 1
            BY <1>1
      <2> QED BY <2>1, LongIs
<1> HIDE DEF T, M
<1>4. CASE neg = TRUE /\ y <= T
      <2>1. p.acc = y /\ p.any = any /\ v = -y
            <3>1. Cutoff(neg) = T
                  BY ONLY <1>1, <1>4, Zenon
            <3>2. IF y <= Cutoff(neg) THEN p.acc = y /\ p.any = any ELSE p.any = -1
                  BY Zenon DEF Holds
            <3>3. IF y <= T THEN p.acc = y /\ p.any = any ELSE p.any = -1
                  BY ONLY <3>1, <3>2, Zenon
            <3>4. p.acc = y /\ p.any = any
                  BY <1>1, <1>4, <3>3
            <3>5. v = -1 * y
                  BY <1>4
            <3>6. v = -y
                  BY <3>5
            <3> QED BY <3>4, <3>6
      <2>2. acc = ulong(-y)
            BY <1>4, <2>1
      <2>3. CASE y = 0
            <3>1. acc = 0
                  BY <1>3, <2>2, <2>3
            <3> QED BY <1>1, <2>1, <2>3, <3>1
      <2>4. CASE y # 0
            <3>1. acc = M - y
                  BY <1>1, <1>2, <1>4, <2>2, <2>4
            <3> QED BY <1>1, <1>4, <2>1, <2>4, <3>1 DEF M
      <2> QED BY <2>3, <2>4
<1>5. CASE neg = TRUE /\ y > T
      <2>1. p.any = -1 /\ v = -y
            <3>1. Cutoff(neg) = T
                  BY ONLY <1>1, <1>5, Zenon
            <3>2. IF y <= Cutoff(neg) THEN p.acc = y /\ p.any = any ELSE p.any = -1
                  BY Zenon DEF Holds
            <3>3. IF y <= T THEN p.acc = y /\ p.any = any ELSE p.any = -1
                  BY ONLY <3>1, <3>2, Zenon
            <3>4. p.any = -1
                  BY <1>1, <1>5, <3>3
            <3>5. v = -1 * y
                  BY <1>5
            <3>6. v = -y
                  BY <3>5
            <3> QED BY <3>4, <3>6
      <2>2. acc = T
            BY <1>1, <1>5, <2>1
      <2> QED BY <1>1, <1>5, <2>1, <2>2 DEF M
<1>6. CASE neg = FALSE /\ y <= T - 1
      <2>1. p.acc = y /\ p.any = any /\ v = y
            <3>1. Cutoff(neg) = T - 1
                  BY ONLY <1>1, <1>6, Zenon
            <3>2. IF y <= Cutoff(neg) THEN p.acc = y /\ p.any = any ELSE p.any = -1
                  BY Zenon DEF Holds
            <3>3. IF y <= T - 1 THEN p.acc = y /\ p.any = any ELSE p.any = -1
                  BY ONLY <3>1, <3>2, Zenon
            <3>4. p.acc = y /\ p.any = any
                  BY <1>1, <1>6, <3>3
            <3>5. v = 1 * y
                  BY <1>6
            <3>6. v = y
                  BY <3>5
            <3> QED BY <3>4, <3>6
      <2>2. acc = y
            BY <1>6, <2>1
      <2> QED BY <1>1, <1>6, <2>1, <2>2
<1>7. CASE neg = FALSE /\ y > T - 1
      <2>1. p.any = -1 /\ v = y
            <3>1. Cutoff(neg) = T - 1
                  BY ONLY <1>1, <1>7, Zenon
            <3>2. IF y <= Cutoff(neg) THEN p.acc = y /\ p.any = any ELSE p.any = -1
                  BY Zenon DEF Holds
            <3>3. IF y <= T - 1 THEN p.acc = y /\ p.any = any ELSE p.any = -1
                  BY ONLY <3>1, <3>2, Zenon
            <3>4. p.any = -1
                  BY <1>1, <1>7, <3>3
            <3>5. v = 1 * y
                  BY <1>7
            <3>6. v = y
                  BY <3>5
            <3> QED BY <3>4, <3>6
      <2>2. acc = T - 1
            BY <1>1, <1>7, <2>1
      <2> QED BY <1>1, <1>7, <2>1, <2>2
<1>8. (neg = TRUE \/ neg = FALSE) /\ (y <= T \/ y > T) /\ (y <= T - 1 \/ y > T - 1)
      BY <1>1
<1> QED BY ONLY <1>4, <1>5, <1>6, <1>7, <1>8, Zenon

LEMMA LeastOfIs ==
    ASSUME NEW places \in SUBSET Int, NEW k \in places, \A j \in places : k <= j
    PROVE  LeastOf(places) = k
<1>1. \A i \in places : (\A j \in places : i <= j) => i = k
      <2> TAKE i \in places
      <2> HAVE \A j \in places : i <= j
      <2>1. i <= k /\ k <= i /\ i \in Int /\ k \in Int
            OBVIOUS
      <2> QED BY <2>1
<1>2. (CHOOSE i \in places : \A j \in places : i <= j) = k
      BY <1>1
<1> QED BY <1>2 DEF LeastOf

LEMMA DigitOfIs ==
    /\ \A c \in 0 .. 255 : DigitOf(c) \in 0 .. 35 \cup {99}
    /\ DigitOf(NUL) = 99 /\ DigitOf(c0) = 0
<1>1. ASSUME NEW c \in 0 .. 255 PROVE DigitOf(c) \in 0 .. 35 \cup {99}
      <2>1. CASE isdigit(c)
            <3>1. DigitOf(c) = c - c0
                  BY <2>1 DEF DigitOf, isdigit, isupper, isalpha, c0, c9, cA, cZ, ca, cz
            <3> QED BY <2>1, <3>1 DEF isdigit, c0, c9
      <2>2. CASE ~isdigit(c) /\ isupper(c)
            <3>1. DigitOf(c) = c - cA + 10
                  BY <2>2 DEF DigitOf, isdigit, isupper, isalpha, c0, c9, cA, cZ, ca, cz
            <3> QED BY <2>2, <3>1 DEF isupper, cA, cZ
      <2>3. CASE ~isdigit(c) /\ ~isupper(c) /\ isalpha(c)
            <3>1. DigitOf(c) = c - ca + 10
                  BY <2>3 DEF DigitOf
            <3> QED BY <2>3, <3>1 DEF isalpha, ca, cz
      <2>4. CASE ~isdigit(c) /\ ~isupper(c) /\ ~isalpha(c)
            BY <2>4 DEF DigitOf
      <2> QED BY <2>1, <2>2, <2>3, <2>4
<1>2. DigitOf(NUL) = 99
      BY DEF DigitOf, NUL, isdigit, isupper, isalpha, c0, c9, cA, cZ, ca, cz
<1>3. DigitOf(c0) = 0
      BY DEF DigitOf, isdigit, isupper, isalpha, c0, c9, cA, cZ, ca, cz
<1> QED BY <1>1, <1>2, <1>3

\* The white space ends at the first character that is none.
LEMMA BlanksAre ==
    ASSUME NEW s \in CString,
           NEW k0, k0 = CHOOSE k \in 0 .. Len(s) : ~isspace(s[k + 1]) /\ \A j \in 0 .. k - 1 : ~~isspace(s[j + 1])
    PROVE  k0 \in 0 .. Len(s) - 1 /\ k0 = LeastOf({i \in 0 .. Len(s) - 1 : s[i + 1] # 32})
<1> DEFINE max == Len(s)
           Stop(i) == ~isspace(s[i + 1])
           Is(k) == Stop(k) /\ \A j \in 0 .. k - 1 : ~Stop(j)
           T == {j \in 0 .. max : Stop(j)}
           P == {i \in 0 .. max - 1 : s[i + 1] # 32}
<1>1. max \in Nat /\ max >= 1 /\ s[max] = NUL
      BY CStringIs
<1>2. \A i : Stop(i) <=> s[i + 1] # 32
      BY DEF isspace
<1>3. Stop(max - 1)
      <2>1. max - 1 + 1 = max
            BY <1>1
      <2>2. s[max - 1 + 1] = 0
            BY <1>1, <2>1 DEF NUL
      <2>3. s[max - 1 + 1] # 32
            BY ONLY <2>2
      <2> QED BY <1>2, <2>3
<1> HIDE DEF Stop
<1>4. \E k \in 0 .. max : Is(k)
      <2>1. max - 1 \in T
            BY <1>1, <1>3
      <2>2. T \in SUBSET (0 .. max)
            OBVIOUS
      <2>3. PICK k \in T : \A j \in 0 .. k - 1 : j \notin T
            <3> HIDE DEF T, max
            <3> QED BY ONLY <1>1, <2>1, <2>2, FirstRound
      <2>4. k \in 0 .. max /\ \A j \in 0 .. k - 1 : j \in 0 .. max
            BY <1>1
      <2> QED BY <2>3, <2>4
<1>5. k0 = CHOOSE k \in 0 .. max : Is(k)
      BY DEF Stop
<1>6. k0 \in 0 .. max /\ Is(k0)
      <2> HIDE DEF Is
      <2> QED BY <1>4, <1>5
<1>7. k0 \in 0 .. max - 1
      <2>1. k0 = max => max - 1 \in 0 .. k0 - 1
            <3>1. max \in Nat /\ max >= 1
                  BY <1>1
            <3> HIDE DEF max
            <3> QED BY ONLY <3>1
      <2>2. k0 # max
            BY <1>3, <1>6, <2>1
      <2>3. max \in Nat
            BY <1>1
      <2> HIDE DEF max
      <2> QED BY ONLY <1>6, <2>2, <2>3
<1>8. k0 \in P
      BY <1>2, <1>6, <1>7
<1>9. P \in SUBSET Int
      BY <1>1
<1>10. \A j \in P : k0 <= j
      <2> TAKE j \in P
      <2>1. j \in 0 .. max - 1 /\ Stop(j)
            BY <1>2
      <2>2. j < k0 => j \in 0 .. k0 - 1
            BY <1>1, <1>6, <2>1
      <2>3. ~(j < k0)
            BY <1>6, <2>1, <2>2
      <2> QED BY <1>1, <1>6, <2>1, <2>3
<1>11. LeastOf(P) = k0
      <2> HIDE DEF P
      <2> QED BY ONLY <1>8, <1>9, <1>10, LeastOfIs
<1> QED BY <1>7, <1>11

\* The digits end at the first character, from their start on, that is none.
LEMMA EndIs ==
    ASSUME NEW s \in CString, NEW start \in 0 .. Len(s) - 1, NEW base \in 2 .. 36,
           NEW k0, k0 = CHOOSE k \in 0 .. Len(s) :
                            /\ k >= start /\ DigitOf(s[k + 1]) >= base
                            /\ \A j \in 0 .. k - 1 : ~(j >= start /\ DigitOf(s[j + 1]) >= base)
    PROVE  /\ k0 \in start .. Len(s) - 1
           /\ k0 = LeastOf({i \in start .. Len(s) - 1 : DigitOf(s[i + 1]) >= base})
           /\ \A j \in start .. k0 - 1 : DigitOf(s[j + 1]) \in 0 .. base - 1
<1> DEFINE max == Len(s)
           Stop(i) == i >= start /\ DigitOf(s[i + 1]) >= base
           Is(k) == Stop(k) /\ \A j \in 0 .. k - 1 : ~Stop(j)
           T == {j \in 0 .. max : Stop(j)}
           P == {i \in start .. max - 1 : DigitOf(s[i + 1]) >= base}
<1>1. max \in Nat /\ max >= 1 /\ s[max] = NUL /\ \A i \in 1 .. max : s[i] \in 0 .. 255
      BY CStringIs
<1>2. start \in Nat /\ start <= max - 1
      BY <1>1
<1>3. Stop(max - 1)
      <2>1. max - 1 + 1 = max /\ max - 1 >= start
            BY <1>1, <1>2
      <2>2. DigitOf(s[max - 1 + 1]) = 99
            BY <1>1, <2>1, DigitOfIs
      <2> QED BY <2>1, <2>2
<1>4. k0 = CHOOSE k \in 0 .. max : Is(k)
      OBVIOUS
<1>5. \A i \in P : i \in 0 .. max - 1 /\ Stop(i)
      <2> TAKE i \in P
      <2>1. i \in start .. max - 1
            OBVIOUS
      <2> QED BY <1>1, <1>2, <2>1
<1>6. \A i \in start .. max - 1 : Stop(i) => i \in P
      OBVIOUS
<1>7. \A i \in 0 .. max - 1 : ~Stop(i) /\ i >= start => DigitOf(s[i + 1]) \in 0 .. base - 1
      <2> TAKE i \in 0 .. max - 1
      <2> HAVE ~Stop(i) /\ i >= start
      <2>1. i + 1 \in 1 .. max
            BY <1>1
      <2>2. s[i + 1] \in 0 .. 255
            BY <1>1, <2>1
      <2> DEFINE y == DigitOf(s[i + 1])
      <2>3. y \in 0 .. 35 \cup {99} /\ ~(y >= base)
            BY <2>2, DigitOfIs
      <2> HIDE DEF y
      <2>4. y \in 0 .. base - 1
            BY <2>3
      <2> QED BY <2>4 DEF y
<1>8. \A i : Stop(i) => i >= start
      OBVIOUS
<1>9. P \in SUBSET Int
      BY <1>1, <1>2
<1> HIDE DEF Stop, P
<1>10. \E k \in 0 .. max : Is(k)
      <2>1. max - 1 \in T
            BY <1>1, <1>3
      <2>2. T \in SUBSET (0 .. max)
            OBVIOUS
      <2>3. PICK k \in T : \A j \in 0 .. k - 1 : j \notin T
            <3> HIDE DEF T, max
            <3> QED BY ONLY <1>1, <2>1, <2>2, FirstRound
      <2>4. k \in 0 .. max /\ \A j \in 0 .. k - 1 : j \in 0 .. max
            BY <1>1
      <2> QED BY <2>3, <2>4
<1>11. k0 \in 0 .. max /\ Is(k0)
      <2> HIDE DEF Is
      <2> QED BY <1>4, <1>10
<1>12. k0 \in start .. max - 1
      <2>1. k0 = max => max - 1 \in 0 .. k0 - 1
            <3>1. max \in Nat /\ max >= 1
                  BY <1>1
            <3> HIDE DEF max
            <3> QED BY ONLY <3>1
      <2>2. k0 # max /\ k0 >= start
            BY <1>3, <1>8, <1>11, <2>1
      <2>3. max \in Nat
            BY <1>1
      <2> HIDE DEF max
      <2> QED BY <1>2, <1>11, <2>2, <2>3, SMTT(30)
<1>13. k0 \in P
      BY <1>6, <1>11, <1>12
<1>14. \A j \in P : k0 <= j
      <2> TAKE j \in P
      <2>1. j \in 0 .. max - 1 /\ Stop(j)
            BY <1>5
      <2>2. j < k0 => j \in 0 .. k0 - 1
            BY <1>1, <1>11, <2>1
      <2>3. ~(j < k0)
            BY <1>11, <2>1, <2>2
      <2> QED BY <1>1, <1>11, <2>1, <2>3
<1>15. LeastOf(P) = k0
      BY ONLY <1>9, <1>13, <1>14, LeastOfIs
<1>16. \A j \in start .. k0 - 1 : DigitOf(s[j + 1]) \in 0 .. base - 1
      <2> TAKE j \in start .. k0 - 1
      <2>1. j \in 0 .. k0 - 1 /\ j \in 0 .. max - 1 /\ j >= start
            BY <1>1, <1>2, <1>12
      <2> QED BY <1>7, <1>11, <2>1
<1> QED BY <1>12, <1>15, <1>16 DEF P

LEMMA StrtolIs ==
    ASSUME NEW s \in CString, NEW base0 \in {0} \cup 2 .. 36, base0 \in {0, 16} => ~BareHexPrefix(s)
    PROVE  strtol(s, base0) = Strtol(s, base0)
<1> DEFINE At(i) == s[i + 1]
           blanks == CHOOSE k \in 0 .. Len(s) : ~isspace(s[k + 1]) /\ \A j \in 0 .. k - 1 : ~~isspace(s[j + 1])
           neg == At(blanks) = 45
           first == IF At(blanks) \in {43, 45} THEN blanks + 1 ELSE blanks
           hex == base0 \in {0, 16} /\ At(first) = c0 /\ At(first + 1) \in {cx, cX}
           base == CASE hex -> 16
                     [] ~hex /\ base0 = 0 -> IF At(first) = c0 THEN 8 ELSE 10
                     [] OTHER -> base0
           start == IF hex THEN first + 2 ELSE first
           end == CHOOSE k \in 0 .. Len(s) :
                      /\ k >= start /\ DigitOf(s[k + 1]) >= base
                      /\ \A j \in 0 .. k - 1 : ~(j >= start /\ DigitOf(s[j + 1]) >= base)
           digits == [i \in 1 .. end - start |-> DigitOf(At(start + i - 1))]
           last == Accumulated(digits, base, neg)
           acc == CASE last.any < 0 -> IF neg THEN ulong(LongMin) ELSE LongMax
                    [] last.any >= 0 /\ neg -> ulong(-last.acc)
                    [] OTHER -> last.acc
           value == IF acc > LongMax THEN acc - 2^LongBits ELSE acc
           endptr == IF last.any # 0 THEN end ELSE 0
           blanks2 == LeastOf({i \in 0 .. Len(s) - 1 : s[i + 1] # 32})
           signed == blanks2 + (IF s[blanks2 + 1] \in {43, 45} THEN 1 ELSE 0)
           prefixed == base0 \in {0, 16} /\ s[signed + 1] = c0 /\ s[signed + 2] \in {cx, cX} /\ DigitOf(s[signed + 3]) < 16
           base2 == IF base0 # 0 THEN base0 ELSE IF prefixed THEN 16 ELSE IF s[signed + 1] = c0 THEN 8 ELSE 10
           start2 == signed + (IF prefixed THEN 2 ELSE 0)
           end2 == LeastOf({i \in start2 .. Len(s) - 1 : DigitOf(s[i + 1]) >= base2})
           digits2 == [i \in 1 .. end2 - start2 |-> DigitOf(s[start2 + i])]
           v == (IF s[blanks2 + 1] = 45 THEN -1 ELSE 1) * Spelled(digits2, base2)
           value2 == IF v > LongMax THEN LongMax ELSE IF v < LongMin THEN LongMin ELSE v
           endptr2 == IF end2 = start2 THEN 0 ELSE end2
<1>1. strtol(s, base0) = [value |-> value, endptr |-> endptr]
      BY Zenon DEF strtol, Rounds
<1>2. Strtol(s, base0) = [value |-> value2, endptr |-> endptr2]
      BY Zenon DEF Strtol
<1>3. blanks \in 0 .. Len(s) - 1 /\ blanks2 = blanks
      <2> DEFINE k0 == blanks
      <2>1. k0 = CHOOSE k \in 0 .. Len(s) : ~isspace(s[k + 1]) /\ \A j \in 0 .. k - 1 : ~~isspace(s[j + 1])
            OBVIOUS
      <2> HIDE DEF k0
      <2>2. k0 \in 0 .. Len(s) - 1 /\ k0 = LeastOf({i \in 0 .. Len(s) - 1 : s[i + 1] # 32})
            BY ONLY <2>1, s \in CString, BlanksAre
      <2> QED BY <2>2 DEF k0
<1> HIDE DEF blanks, blanks2, neg, first, hex, base, start, end, digits, last, acc, value, endptr,
             signed, prefixed, base2, start2, end2, digits2, v, value2, endptr2
<1>4. /\ Len(s) \in Nat /\ Len(s) >= 1 /\ s[Len(s)] = NUL
      /\ \A i \in 1 .. Len(s) : s[i] = NUL <=> i = Len(s)
      /\ \A i \in 1 .. Len(s) : s[i] \in 0 .. 255
      BY CStringIs
<1>5. first \in 0 .. Len(s) - 1 /\ signed = first
      <2>1. CASE At(blanks) \in {43, 45}
            <3>1. blanks + 1 \in 1 .. Len(s) /\ s[blanks + 1] # NUL
                  BY <1>3, <1>4, <2>1 DEF NUL
            <3>2. blanks + 1 # Len(s)
                  BY <1>4, <3>1
            <3>3. first = blanks + 1 /\ signed = blanks + 1
                  BY <1>3, <2>1 DEF first, signed
            <3> QED BY <1>3, <1>4, <3>1, <3>2, <3>3
      <2>2. CASE At(blanks) \notin {43, 45}
            <3>1. first = blanks /\ signed = blanks
                  BY <1>3, <1>4, <2>2 DEF first, signed
            <3> QED BY <1>3, <3>1
      <2> QED BY <2>1, <2>2
<1>6. first \in Nat /\ first + 1 \in 1 .. Len(s) /\ At(first) = s[first + 1] /\ At(first + 1) = s[first + 2]
      <2>1. first + 1 + 1 = first + 2
            BY <1>4, <1>5
      <2> QED BY <1>4, <1>5, <2>1
<1>7. ASSUME hex PROVE first + 2 \in 0 .. Len(s) - 1 /\ DigitOf(s[first + 3]) < 16
      <2>1. base0 \in {0, 16} /\ s[first + 1] = c0 /\ s[first + 2] \in {cx, cX}
            BY <1>6, <1>7 DEF hex
      <2>2. first + 1 # Len(s)
            BY <1>4, <1>6, <2>1 DEF c0, NUL
      <2>3. first + 2 \in 1 .. Len(s)
            BY <1>4, <1>6, <2>2
      <2>4. first + 2 # Len(s)
            BY <1>4, <2>1, <2>3 DEF cx, cX, NUL
      <2>5. first + 3 \in 1 .. Len(s)
            BY <1>4, <1>6, <2>3, <2>4
      <2>6. DigitOf(s[first + 3]) \in 0 .. 35 \cup {99}
            BY <1>4, <2>5, DigitOfIs
      <2>7. ~(DigitOf(s[first + 3]) >= 16)
            <3>1. DOMAIN s = 1 .. Len(s) /\ ~BareHexPrefix(s)
                  BY <2>1, CStringIs
            <3> DEFINE i == first + 1
            <3>2. i \in DOMAIN s /\ i + 1 = first + 2 /\ i + 2 = first + 3
                  BY <1>6, <3>1
            <3> HIDE DEF i
            <3>3. ~(s[i] = c0 /\ s[i + 1] \in {cx, cX} /\ DigitOf(s[i + 2]) >= 16)
                  BY <3>1, <3>2 DEF BareHexPrefix
            <3>4. s[i] = c0
                  BY <2>1 DEF i
            <3> QED BY <2>1, <3>2, <3>3, <3>4
      <2>8. DigitOf(s[first + 3]) < 16
            <3> DEFINE y == DigitOf(s[first + 3])
            <3>1. y \in 0 .. 35 \cup {99} /\ ~(y >= 16)
                  BY <2>6, <2>7
            <3> HIDE DEF y
            <3>2. y < 16
                  BY <3>1
            <3> QED BY <3>2 DEF y
      <2>9. first + 2 \in 0 .. Len(s) - 1
            BY <1>4, <1>6, <2>3, <2>4
      <2> QED BY <2>8, <2>9
<1>8. prefixed <=> hex
      <2>1. prefixed <=> base0 \in {0, 16} /\ s[first + 1] = c0 /\ s[first + 2] \in {cx, cX} /\ DigitOf(s[first + 3]) < 16
            BY <1>5 DEF prefixed
      <2>2. hex <=> base0 \in {0, 16} /\ s[first + 1] = c0 /\ s[first + 2] \in {cx, cX}
            BY <1>6 DEF hex
      <2> QED BY <1>7, <2>1, <2>2
<1>9. base \in 2 .. 36 /\ base2 = base
      <2>1. CASE hex
            <3>1. base = 16 /\ base0 \in {0, 16}
                  BY <2>1 DEF base, hex
            <3>2. base2 = 16
                  BY <1>8, <2>1, <3>1 DEF base2
            <3> QED BY <3>1, <3>2
      <2>2. CASE ~hex /\ base0 = 0
            <3>1. base = IF s[first + 1] = c0 THEN 8 ELSE 10
                  BY <1>6, <2>2 DEF base
            <3>2. base2 = IF s[first + 1] = c0 THEN 8 ELSE 10
                  BY <1>5, <1>8, <2>2 DEF base2
            <3> QED BY <3>1, <3>2
      <2>3. CASE ~hex /\ base0 # 0
            BY <2>3 DEF base, base2
      <2> QED BY <2>1, <2>2, <2>3
<1>10. start \in 0 .. Len(s) - 1 /\ start2 = start
      <2>1. CASE hex
            BY <1>5, <1>7, <1>8, <2>1 DEF start, start2
      <2>2. CASE ~hex
            <3>1. start = first /\ start2 = first + 0
                  BY <1>5, <1>8, <2>2 DEF start, start2
            <3> QED BY <1>5, <1>6, <3>1
      <2> QED BY <2>1, <2>2
<1>11. /\ end \in start .. Len(s) - 1
       /\ end = LeastOf({i \in start .. Len(s) - 1 : DigitOf(s[i + 1]) >= base})
       /\ \A j \in start .. end - 1 : DigitOf(s[j + 1]) \in 0 .. base - 1
      <2>1. end = CHOOSE k \in 0 .. Len(s) :
                      /\ k >= start /\ DigitOf(s[k + 1]) >= base
                      /\ \A j \in 0 .. k - 1 : ~(j >= start /\ DigitOf(s[j + 1]) >= base)
            BY DEF end
      <2>2. base \in 2 .. 36 /\ start \in 0 .. Len(s) - 1
            BY <1>9, <1>10
      <2> QED BY ONLY <2>1, <2>2, s \in CString, EndIs
<1>12. end2 = end
      BY <1>9, <1>10, <1>11 DEF end2
<1> DEFINE l == end - start
<1>13. l \in Nat /\ start \in Nat /\ end \in Nat /\ (end = start <=> l = 0)
      BY <1>4, <1>10, <1>11
<1>14. \A i \in 1 .. l : start + i - 1 \in start .. end - 1 /\ start + i - 1 + 1 = start + i
      <2>1. end = start + l
            BY <1>13
      <2> HIDE DEF l
      <2> QED BY ONLY <1>13, <2>1
<1>15. digits \in Seq(Nat) /\ Len(digits) = l /\ \A i \in 1 .. l : digits[i] \in 0 .. base - 1
      <2>1. digits = [i \in 1 .. l |-> DigitOf(s[start + i - 1 + 1])]
            BY DEF digits
      <2> HIDE DEF l
      <2>2. \A i \in 1 .. l : DigitOf(s[start + i - 1 + 1]) \in 0 .. base - 1
            BY <1>11, <1>14
      <2>3. \A i \in 1 .. l : DigitOf(s[start + i - 1 + 1]) \in Nat
            BY <1>9, <2>2
      <2>4. digits \in [1 .. l -> Nat]
            BY <2>1, <2>3
      <2>5. digits \in Seq(Nat)
            BY <1>13, <2>4, IsASeq
      <2>6. Len(digits) = l
            BY <1>13, <2>1
      <2> QED BY <2>1, <2>2, <2>5, <2>6
<1>16. digits2 = digits
      <2>1. digits2 = [i \in 1 .. l |-> DigitOf(s[start + i])]
            BY <1>10, <1>12 DEF digits2
      <2>2. digits = [i \in 1 .. l |-> DigitOf(s[start + i - 1 + 1])]
            BY DEF digits
      <2> HIDE DEF l
      <2> QED BY <1>14, <2>1, <2>2
<1> HIDE DEF l
<1> DEFINE y == Spelled(digits, base)
           any == IF l = 0 THEN 0 ELSE 1
<1>17. y \in Nat /\ Holds(last, y, neg, any) /\ neg \in BOOLEAN /\ any \in {0, 1}
      <2>1. neg \in BOOLEAN
            BY DEF neg
      <2>2. base \in Nat \ {0}
            BY <1>9
      <2>3. y \in Nat /\ Holds(Accumulated(digits, base, neg), y, neg, IF Len(digits) = 0 THEN 0 ELSE 1)
            <3>1. \A i \in 1 .. Len(digits) : digits[i] \in 0 .. base - 1
                  BY <1>15
            <3>2. digits \in Seq(Nat)
                  BY <1>15
            <3> QED BY ONLY <2>1, <2>2, <3>1, <3>2, SaturatedIs
      <2>4. Holds(last, y, neg, any)
            <3> HIDE DEF y
            <3> QED BY <1>15, <2>3 DEF last
      <2> QED BY <2>1, <2>3, <2>4
<1>18. v = (IF neg THEN -1 ELSE 1) * y
      BY <1>3, <1>9, <1>16 DEF v, neg
<1>19. value = value2
      <2>1. acc = (CASE last.any < 0 -> IF neg THEN ulong(LongMin) ELSE LongMax
                     [] last.any >= 0 /\ neg -> ulong(-last.acc)
                     [] OTHER -> last.acc)
            BY DEF acc
      <2> HIDE DEF y, any
      <2>2. (IF acc > LongMax THEN acc - 2^LongBits ELSE acc) =
                IF v > LongMax THEN LongMax ELSE IF v < LongMin THEN LongMin ELSE v
            BY ONLY <1>17, <1>18, <2>1, LongOf
      <2> QED BY <2>2, Zenon DEF value, value2
<1>20. last.any # 0 <=> l # 0
      <2>1. IF y <= Cutoff(neg) THEN last.acc = y /\ last.any = any ELSE last.any = -1
            BY <1>17 DEF Holds
      <2>2. y \in Nat /\ Cutoff(neg) \in Nat
            BY <1>17, CutoffIs
      <2>3. l = 0 => y = 0
            <3>1. base \in Nat \ {0} /\ digits \in Seq(Nat) /\ FALSE \in BOOLEAN
                  BY <1>9, <1>15
            <3>2. \A i \in 1 .. Len(digits) : digits[i] \in 0 .. base - 1
                  BY <1>15
            <3>3. Len(digits) = 0 => Spelled(digits, base) = 0
                  BY ONLY <3>1, <3>2, SaturatedIs
            <3> QED BY <1>15, <3>3
      <2> HIDE DEF y
      <2>4. CASE y <= Cutoff(neg)
            BY <2>1, <2>4
      <2>5. CASE ~(y <= Cutoff(neg))
            <3>1. y # 0
                  BY <2>2, <2>5
            <3> QED BY <2>1, <2>3, <2>5, <3>1
      <2> QED BY <2>4, <2>5
<1>21. endptr = endptr2
      <2>1. endptr = IF last.any # 0 THEN end ELSE 0
            BY DEF endptr
      <2>2. endptr2 = IF end = start THEN 0 ELSE end
            BY <1>10, <1>12 DEF endptr2
      <2> QED BY ONLY <1>13, <1>20, <2>1, <2>2, Zenon DEF l
<1> QED BY <1>1, <1>2, <1>19, <1>21

LEMMA NumberAsInC ==
    ASSUME call \in Calls, answer = <<Answer(call)>>
    PROVE  StrtolAsInC
<1> SUFFICES ASSUME call.f = "strtol", call.n \in {0, 16} => ~BareHexPrefix(call.s1)
             PROVE  answer[1] = Strtol(call.s1, call.n)
      BY DEF StrtolAsInC
<1>1. Defined(call)
      BY CallsAssumption
<1>2. call.s1 \in CString /\ call.n \in {0} \cup 2 .. 36
      BY <1>1 DEF Defined
<1>3. answer[1] = strtol(call.s1, call.n)
      BY DEF Answer
<1>4. strtol(call.s1, call.n) = Strtol(call.s1, call.n)
      BY <1>2, StrtolIs
<1> QED BY <1>3, <1>4

\* strtol gives the number that is spelled, or the nearest a long can hold,
\* and where it ends: in every base, for digits of any number and a long of
\* any width, save for a prefix without digits.
THEOREM NumbersAsInC == LibcSpec => []StrtolAsInC
<1>1. LibcInit => CallAnswered
      BY DEF LibcInit, CallAnswered
<1>2. CallAnswered /\ [LibcNext]_libcVars => CallAnswered'
      BY DEF CallAnswered, LibcNext, LibcCall, libcVars
<1>3. CallAnswered => StrtolAsInC
      <2>1. answer = "none" => StrtolAsInC
            BY DEF StrtolAsInC
      <2> QED BY <2>1, NumberAsInC DEF CallAnswered
<1> QED BY <1>1, <1>2, <1>3, PTL DEF LibcSpec
=============================================================================
