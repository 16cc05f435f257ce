-------------------------------- MODULE Libc --------------------------------
(***************************************************************************)
(* The C library functions of core/include/telkin/Runtime.h, which the     *)
(* core itself (core/src/Runtime.cpp) and modules without a C library      *)
(* compile in: the ones on strings and bytes, strtol, and islower with its *)
(* table.                                                                  *)
(*                                                                         *)
(* A character is its code.  Memory is a sequence, the pointer to its      *)
(* start plus i is i; it holds no more than the function may read, so that *)
(* a read beyond it is an error of the check.  A loop is the number of     *)
(* times it goes round.  A long has LongBits bits.                         *)
(***************************************************************************)
EXTENDS Integers, Sequences

CONSTANTS
    LongBits,       \* 32 in the code
    Calls           \* [f, s1, s2, n]: a function, its strings or bytes, its number
ASSUME LongAssumption == LongBits \in Nat /\ LongBits >= 2

NULL == -1
NoString == <<>>        \* what a null pointer points to; a string has its end at least
NUL == 0
c0 == 48    c9 == 57    cA == 65    cZ == 90    ca == 97    cz == 122   cx == 120   cX == 88

\* How often a loop goes round that stops at the first i that Stop holds of.
Rounds(Stop(_), max) == CHOOSE i \in 0 .. max : Stop(i) /\ \A j \in 0 .. i - 1 : ~Stop(j)

----------------------------------------------------------------------------
strlen(s) == Rounds(LAMBDA i : s[i + 1] = NUL, Len(s))

memchr(p, ch, count) ==
    LET i == Rounds(LAMBDA j : IF j < count THEN p[j + 1] = ch % 256 ELSE TRUE, count)
    IN  IF i < count THEN i ELSE NULL

\* (A variant with a bug: the end of the string is no character of it.)
strchrInText(s, c) ==
    LET i == Rounds(LAMBDA j : s[j + 1] = NUL \/ s[j + 1] = c % 256, Len(s))
    IN  IF s[i + 1] = NUL THEN NULL ELSE i

strchr(s, c) ==
    LET i == Rounds(LAMBDA j : s[j + 1] = NUL \/ s[j + 1] = c % 256, Len(s))
    IN  IF s[i + 1] = c % 256 THEN i ELSE NULL

strstr(hs, ne) ==
    LET Matched(h) == Rounds(LAMBDA i : i > 0 /\ (ne[i + 1] = NUL \/ hs[h + i + 1] # ne[i + 1]), Len(ne))
        Here(h) == hs[h + 1] = ne[1] /\ ne[Matched(h) + 1] = NUL
        h == Rounds(LAMBDA i : hs[i + 1] = NUL \/ Here(i), Len(hs))
    IN  CASE ne[1] = NUL -> 0
          [] ne[1] # NUL /\ hs[h + 1] = NUL -> NULL
          [] OTHER -> h

strpbrk(str, charset) ==
    IF NoString \in {str, charset} THEN NULL
    ELSE
    LET InSet(ch) == \E j \in 0 .. strlen(charset) - 1 : charset[j + 1] = ch
        i == Rounds(LAMBDA j : str[j + 1] = NUL \/ InSet(str[j + 1]), Len(str))
    IN  IF str[i + 1] = NUL THEN NULL ELSE i

\* What is left in the destination.
strncpy(src, count) ==
    LET copied == Rounds(LAMBDA i : IF i = count THEN TRUE ELSE IF i = 0 THEN FALSE ELSE src[i] = NUL, count)
    IN  [i \in 1 .. count |-> IF i <= copied THEN src[i] ELSE NUL]
strcpy(src) == SubSeq(src, 1, Rounds(LAMBDA i : i > 0 /\ src[i] = NUL, Len(src)))
strcat(dest, src) ==
    SubSeq(dest, 1, Rounds(LAMBDA i : dest[i + 1] = NUL, Len(dest))) \o
    SubSeq(src, 1, Rounds(LAMBDA i : src[i + 1] = NUL, Len(src))) \o <<NUL>>

strcmp(a, b) ==
    LET i == Rounds(LAMBDA j : a[j + 1] = NUL \/ a[j + 1] # b[j + 1], Len(a)) IN a[i + 1] - b[i + 1]
memcmp(a, b, size) ==
    LET i == Rounds(LAMBDA j : IF j = size THEN TRUE ELSE a[j + 1] # b[j + 1], size)
    IN  IF i = size THEN 0 ELSE a[i + 1] - b[i + 1]

\* The loop leaves s1 and s2 at the last character it compared, if n is used up.
strncmp(s1, s2, n) ==
    LET i == Rounds(LAMBDA j : s1[j + 1] # s2[j + 1] \/ n - (j + 1) = 0 \/ s1[j + 1] = NUL, n)
    IN  IF n = 0 THEN 0 ELSE s1[i + 1] - s2[i + 1]

----------------------------------------------------------------------------
isspace(c) == c = 32
isdigit(c) == c >= c0 /\ c <= c9
isupper(c) == c >= cA /\ c <= cZ
isalpha(c) == isupper(c) \/ (c >= ca /\ c <= cz)

ulong(x) == x % 2^LongBits
LongMax == 2^(LongBits - 1) - 1
LongMin == -(2^(LongBits - 1))

DigitOf(c) == CASE isdigit(c) -> c - c0
                [] isupper(c) -> c - cA + 10
                [] isalpha(c) /\ ~isupper(c) -> c - ca + 10
                [] OTHER -> 99

\* (A variant with a bug: the largest number as far from zero as the smallest.)
CutoffOfNegative(neg) == ulong(-ulong(LongMin))
\* The largest magnitude, before it is divided by the base.
Cutoff(neg) == IF neg THEN ulong(-ulong(LongMin)) ELSE LongMax

\* acc and any after all digits.
Accumulated(digits, base, neg) ==
    LET cutoff == Cutoff(neg) \div base
        cutlim == Cutoff(neg) % base
        Loop[i \in 0 .. Len(digits)] ==
            IF i = 0 THEN [acc |-> 0, any |-> 0]
            ELSE LET p == Loop[i - 1]
                 IN  IF p.any < 0 \/ p.acc > cutoff \/ (p.acc = cutoff /\ digits[i] > cutlim)
                     THEN [p EXCEPT !.any = -1]
                     ELSE [acc |-> ulong(ulong(p.acc * base) + digits[i]), any |-> 1]
    IN  Loop[Len(digits)]

\* The value and where it ends.
strtol(nptr, base0) ==
    LET At(i) == nptr[i + 1]
        blanks == Rounds(LAMBDA i : ~isspace(At(i)), Len(nptr))
        neg == At(blanks) = 45
        first == IF At(blanks) \in {43, 45} THEN blanks + 1 ELSE blanks
        hex == base0 \in {0, 16} /\ At(first) = c0 /\ At(first + 1) \in {cx, cX}
        base == CASE hex -> 16
                  [] ~hex /\ base0 = 0 -> IF At(first) = c0 THEN 8 ELSE 10
                  [] OTHER -> base0
        start == IF hex THEN first + 2 ELSE first
        end == Rounds(LAMBDA i : i >= start /\ DigitOf(At(i)) >= base, Len(nptr))
        last == Accumulated([i \in 1 .. end - start |-> DigitOf(At(start + i - 1))], base, neg)
        acc == CASE last.any < 0 -> IF neg THEN ulong(LongMin) ELSE LongMax
                 [] last.any >= 0 /\ neg -> ulong(-last.acc)
                 [] OTHER -> last.acc
    IN  [value |-> IF acc > LongMax THEN acc - 2^LongBits ELSE acc,
         endptr |-> IF last.any # 0 THEN end ELSE 0]

\* _ctype_: what bits a character has, from -1 (EOF) on; each run as it is typed.
Class == [U |-> 1, L |-> 2, N |-> 4, S |-> 8, P |-> 16, C |-> 32, X |-> 64, B |-> 128]
Of(n, bits) == [i \in 1 .. n |-> bits]
ctype == Of(1, 0) \o Of(9, Class.C) \o Of(5, Class.C + Class.S) \o Of(18, Class.C) \o
         Of(1, Class.S + Class.B) \o Of(15, Class.P) \o Of(10, Class.N) \o Of(7, Class.P) \o
         Of(6, Class.U + Class.X) \o Of(20, Class.U) \o Of(6, Class.P) \o
         Of(6, Class.L + Class.X) \o Of(20, Class.L) \o Of(4, Class.P) \o Of(1, Class.C) \o
         Of(128, 0)
islower(c) == ctype[c + 1 + 1] % 4 = Class.L
toupper(c) == IF islower(c) THEN c - ca + cA ELSE c

----------------------------------------------------------------------------
(* The calls that C defines, and strpbrk's with no string *)

Bytes == Seq(0 .. 255)
CString == {s \in Bytes : s # <<>> /\ \A i \in DOMAIN s : s[i] = NUL <=> i = Len(s)}
\* A string, or that many characters and no end.
Counted(n) == CString \cup {s \in Bytes : Len(s) >= n /\ \A i \in DOMAIN s : s[i] # NUL}

Defined(x) ==
    /\ x.f \in {"strlen", "strchr", "strstr", "strcpy", "strcat", "strcmp", "strtol"} =>
           x.s1 \in CString
    /\ x.f \in {"strstr", "strcat", "strcmp"} => x.s2 \in CString
    /\ x.f = "strpbrk" => {x.s1, x.s2} \subseteq CString \cup {NoString}
    /\ x.f \in {"memchr", "memcmp"} => x.s1 \in Bytes
    /\ x.f \in {"memchr", "strchr"} => x.n \in Int
    /\ x.f \in {"strncpy", "strncmp"} => x.n \in Nat /\ x.s1 \in Counted(x.n)
    /\ x.f = "strncmp" => x.s2 \in Counted(x.n)
    /\ x.f = "memcmp" => x.s2 \in Bytes /\ x.n \in 0 .. Len(x.s1) /\ x.n <= Len(x.s2)
    /\ x.f = "strtol" => x.n \in {0} \cup 2 .. 36
    /\ x.f = "toupper" => x.n \in -1 .. 255
ASSUME CallsAssumption == \A x \in Calls : Defined(x)

VARIABLES call, answer
libcVars == <<call, answer>>

Answer(x) ==
    CASE x.f = "strlen" -> strlen(x.s1)
      [] x.f = "memchr" -> memchr(x.s1, x.n, Len(x.s1))
      [] x.f = "strchr" -> strchr(x.s1, x.n)
      [] x.f = "strstr" -> strstr(x.s1, x.s2)
      [] x.f = "strpbrk" -> strpbrk(x.s1, x.s2)
      [] x.f = "strncpy" -> strncpy(x.s1, x.n)
      [] x.f = "strcpy" -> strcpy(x.s1)
      [] x.f = "strcat" -> strcat(x.s1, x.s2)
      [] x.f = "strcmp" -> strcmp(x.s1, x.s2)
      [] x.f = "strncmp" -> strncmp(x.s1, x.s2, x.n)
      [] x.f = "memcmp" -> memcmp(x.s1, x.s2, x.n)
      [] x.f = "strtol" -> strtol(x.s1, x.n)
      [] x.f = "toupper" -> toupper(x.n)

NoCall == [f |-> "none"]
LibcInit == call = NoCall /\ answer = "none"
LibcCall(x) == call' = x /\ answer' = <<Answer(x)>>
LibcNext == call = NoCall /\ \E x \in Calls : LibcCall(x)
LibcSpec == LibcInit /\ [][LibcNext]_libcVars

----------------------------------------------------------------------------
(* What the C standard says of each function, by its result alone. *)

Text(s) == SubSeq(s, 1, Len(s) - 1)
IsFirst(r, places) == IF places = {} THEN r = NULL ELSE r \in places /\ \A i \in places : r <= i
\* d has the sign of the first difference in n characters.
Orders(d, a, b, n) ==
    LET differ == {i \in 1 .. n : a[i] # b[i]}
    IN  IF differ = {} THEN d = 0
        ELSE \E i \in differ : (\A j \in differ : i <= j) /\ (d < 0 <=> a[i] < b[i]) /\ d # 0
Shorter(m, n) == IF m < n THEN m ELSE n

\* Every function gives what the C standard says, up to the ends of strings
\* and counts of zero, and reads nothing beyond; no character is found in no string.
ResultsAsInC ==
    LET x == call
        r == answer[1]
        s == x.s1
        t == x.s2
    IN  answer # "none" =>
        CASE x.f = "strlen" -> r = Len(Text(s))
          [] x.f = "memchr" -> IsFirst(r, {i \in 0 .. Len(s) - 1 : s[i + 1] = x.n % 256})
          [] x.f = "strchr" -> IsFirst(r, {i \in 0 .. Len(s) - 1 : s[i + 1] = x.n % 256})
          [] x.f = "strstr" ->
                 IsFirst(r, {i \in 0 .. Len(s) - Len(t) : SubSeq(s, i + 1, i + Len(t) - 1) = Text(t)})
          [] x.f = "strpbrk" ->
                 IsFirst(r, {i \in 0 .. Len(s) - 2 : \E j \in DOMAIN Text(t) : s[i + 1] = t[j]})
          [] x.f = "strncpy" -> /\ Len(r) = x.n
                                /\ \A i \in 1 .. x.n : r[i] = IF i <= Len(s) THEN s[i] ELSE NUL
          [] x.f = "strcpy" -> r = s
          [] x.f = "strcat" -> r = Text(s) \o t
          [] x.f = "strcmp" -> Orders(r, s, t, Shorter(Len(s), Len(t)))
          [] x.f = "strncmp" -> Orders(r, s, t, Shorter(x.n, Shorter(Len(s), Len(t))))
          [] x.f = "memcmp" -> Orders(r, s, t, x.n)
          [] x.f = "toupper" -> r = IF x.n >= ca /\ x.n <= cz THEN x.n - 32 ELSE x.n
          [] OTHER -> TRUE

\* The number spelled by digits.
Spelled(digits, base) ==
    LET Value[i \in 0 .. Len(digits)] == IF i = 0 THEN 0 ELSE Value[i - 1] * base + digits[i]
    IN  Value[Len(digits)]
LeastOf(places) == CHOOSE i \in places : \A j \in places : i <= j
\* Blanks, the only white space the code knows, a sign, a prefix if a digit
\* follows, digits.
Strtol(s, base0) ==
    LET blanks == LeastOf({i \in 0 .. Len(s) - 1 : s[i + 1] # 32})
        signed == blanks + (IF s[blanks + 1] \in {43, 45} THEN 1 ELSE 0)
        prefixed == base0 \in {0, 16} /\ s[signed + 1] = c0 /\ s[signed + 2] \in {cx, cX} /\ DigitOf(s[signed + 3]) < 16
        base == IF base0 # 0 THEN base0 ELSE IF prefixed THEN 16 ELSE IF s[signed + 1] = c0 THEN 8 ELSE 10
        start == signed + (IF prefixed THEN 2 ELSE 0)
        end == LeastOf({i \in start .. Len(s) - 1 : DigitOf(s[i + 1]) >= base})
        v == (IF s[blanks + 1] = 45 THEN -1 ELSE 1) * Spelled([i \in 1 .. end - start |-> DigitOf(s[start + i])], base)
    IN  [value |-> IF v > LongMax THEN LongMax ELSE IF v < LongMin THEN LongMin ELSE v,
         endptr |-> IF end = start THEN 0 ELSE end]
\* 0x without a hexadecimal digit: C takes the 0, the code nothing.
BareHexPrefix(s) == \E i \in DOMAIN s : s[i] = c0 /\ s[i + 1] \in {cx, cX} /\ DigitOf(s[i + 2]) >= 16

\* strtol gives the number that is spelled, or the nearest a long can hold, and
\* where it ends, in every base.
StrtolAsInC ==
    answer # "none" /\ call.f = "strtol" /\ (call.n \in {0, 16} => ~BareHexPrefix(call.s1)) =>
        answer[1] = Strtol(call.s1, call.n)
=============================================================================
