------------------------- MODULE RequirementProofs --------------------------
(***************************************************************************)
(* For every text a mod's author may write: what the code takes out of a   *)
(* requirement and out of a version is what was meant, so that a           *)
(* requirement is answered by the comparison it asks for, the numbers      *)
(* before a wildcard are compared as numbers, and a text that is no        *)
(* requirement is reported.                                                *)
(***************************************************************************)
EXTENDS Requirement, SequenceTheorems, TLAPS

----------------------------------------------------------------------------
(* Texts *)

LEMMA CharsAre ==
    /\ OpChars \subseteq Chars /\ Numerals \subseteq Chars /\ {Blank} \subseteq Chars
    /\ "." \in Chars /\ "v" \in Chars /\ "V" \in Chars
    /\ Blank \notin {"v", "V"} /\ Blank \notin OpChars
    /\ "v" \notin OpChars /\ "V" \notin OpChars
<1>1. Blank \notin {"v", "V"} /\ Blank \notin OpChars
      BY Zenon DEF Blank, OpChars
<1>2. "v" \notin OpChars /\ "V" \notin OpChars
      BY DEF OpChars
<1> QED BY <1>1, <1>2, RequirementAssumption DEF RequirementAssumption

LEMMA TextsJoin ==
    ASSUME NEW s \in Text, NEW t \in Text
    PROVE  /\ s \o t \in Text /\ Len(s \o t) = Len(s) + Len(t)
           /\ \A i \in 1 .. Len(s) : (s \o t)[i] = s[i]
           /\ \A i \in 1 .. Len(t) : (s \o t)[Len(s) + i] = t[i]
<1>1. /\ s \o t \in Text /\ Len(s \o t) = Len(s) + Len(t)
      /\ \A i \in 1 .. Len(s) + Len(t) : (s \o t)[i] = IF i <= Len(s) THEN s[i] ELSE t[i - Len(s)]
      BY ConcatProperties DEF Text
<1>2. Len(s) \in Nat /\ Len(t) \in Nat
      BY LenProperties DEF Text
<1>3. ASSUME NEW i \in 1 .. Len(t) PROVE (s \o t)[Len(s) + i] = t[i]
      <2>1. Len(s) + i \in 1 .. Len(s) + Len(t) /\ ~(Len(s) + i <= Len(s)) /\ Len(s) + i - Len(s) = i
            BY <1>2
      <2> QED BY <1>1, <2>1
<1>4. ASSUME NEW i \in 1 .. Len(s) PROVE (s \o t)[i] = s[i]
      <2>1. i \in 1 .. Len(s) + Len(t) /\ i <= Len(s)
            BY <1>2
      <2> QED BY <1>1, <2>1
<1> QED BY <1>1, <1>3, <1>4

LEMMA TextsAre ==
    ASSUME NEW s \in Text
    PROVE  /\ Len(s) \in Nat /\ DOMAIN s = 1 .. Len(s)
           /\ s # <<>> <=> Len(s) >= 1
           /\ <<>> \o s = s /\ s \o <<>> = s
<1>1. Len(s) \in Nat /\ DOMAIN s = 1 .. Len(s)
      BY LenProperties DEF Text
<1>2. s # <<>> => Len(s) \in Nat \ {0}
      BY EmptySeq DEF Text
<1>3. s = <<>> => Len(s) = 0
      OBVIOUS
<1>4. <<>> \o s = s /\ s \o <<>> = s
      BY ConcatEmptySeq DEF Text
<1> QED BY <1>1, <1>2, <1>3, <1>4

LEMMA SameText ==
    ASSUME NEW s \in Text, NEW t \in Text, Len(s) = Len(t), \A i \in 1 .. Len(s) : s[i] = t[i]
    PROVE  s = t
BY SeqEqual DEF Text

LEMMA TextsAssociate ==
    ASSUME NEW s \in Text, NEW t \in Text, NEW u \in Text
    PROVE  (s \o t) \o u = s \o (t \o u)
BY ConcatAssociative DEF Text

LEMMA EndOfJoin ==
    ASSUME NEW s \in Text, NEW t \in Text
    PROVE  From(s \o t, Len(s) + 1) = t
<1> DEFINE u == s \o t
           m == Len(s) + 1
           n == Len(s) + Len(t)
<1>1. /\ u \in Text /\ Len(u) = n /\ DOMAIN u = 1 .. n /\ \A i \in 1 .. Len(t) : u[Len(s) + i] = t[i]
      /\ Len(s) \in Nat /\ Len(t) \in Nat
      BY TextsJoin, TextsAre
<1> HIDE DEF u
<1>2. \A i \in m .. n : u[i] \in Chars
      <2>1. \A i \in 1 .. n : u[i] \in Chars
            BY <1>1, ElementOfSeq DEF Text
      <2>2. \A i \in m .. n : i \in 1 .. n
            BY <1>1
      <2> QED BY <2>1, <2>2
<1> HIDE DEF m, n
<1>3. m \in Int /\ n \in Int /\ m = Len(s) + 1 /\ n = Len(s) + Len(t)
      BY <1>1 DEF m, n
<1> DEFINE r == SubSeq(u, m, n)
<1>4. /\ r \in Seq(Chars) /\ Len(r) = IF m <= n THEN n - m + 1 ELSE 0
      /\ \A i \in 1 .. n - m + 1 : r[i] = u[m + i - 1]
      BY ONLY <1>2, <1>3, SubSeqProperties
<1> HIDE DEF r
<1>5. Len(r) = Len(t)
      BY <1>1, <1>3, <1>4
<1>6. ASSUME NEW i \in 1 .. Len(r) PROVE r[i] = t[i]
      <2>1. i \in 1 .. n - m + 1 /\ m + i - 1 = Len(s) + i /\ i \in 1 .. Len(t)
            BY <1>1, <1>3, <1>5
      <2> QED BY <1>1, <1>4, <2>1
<1>7. r = t
      BY <1>4, <1>5, <1>6, SameText DEF Text
<1> QED BY <1>1, <1>7 DEF r, u, m, n, From

LEMMA StartOfJoin ==
    ASSUME NEW s \in Text, NEW t \in Text
    PROVE  SubSeq(s \o t, 1, Len(s)) = s
<1> DEFINE u == s \o t
           n == Len(s)
<1>1. /\ u \in Text /\ \A i \in 1 .. n : u[i] = s[i]
      /\ n \in Nat
      BY TextsJoin, TextsAre
<1> HIDE DEF u
<1>2. \A i \in 1 .. n : u[i] \in Chars
      BY <1>1, ElementOfSeq DEF Text
<1> HIDE DEF n
<1> DEFINE r == SubSeq(u, 1, n)
<1>3. 1 \in Int /\ n \in Int
      BY <1>1
<1>4. /\ r \in Seq(Chars) /\ Len(r) = IF 1 <= n THEN n - 1 + 1 ELSE 0
      /\ \A i \in 1 .. n - 1 + 1 : r[i] = u[1 + i - 1]
      BY ONLY <1>2, <1>3, SubSeqProperties
<1> HIDE DEF r
<1>5. Len(r) = n /\ \A i \in 1 .. n : r[i] = u[i]
      BY <1>1, <1>4
<1>6. r = s
      BY <1>1, <1>4, <1>5, SameText DEF Text, n
<1> QED BY <1>6 DEF r, u, n

\* The characters of C are those of b.
LEMMA RunIs ==
    ASSUME NEW b \in Text, NEW t \in Text, NEW C,
           \A i \in 1 .. Len(b) : b[i] \in C, t = <<>> \/ t[1] \notin C
    PROVE  Run(b \o t, C) = Len(b) /\ Skip(b \o t, C) = t
<1> DEFINE s == b \o t
<1>1. /\ Len(s) = Len(b) + Len(t) /\ Len(b) \in Nat /\ Len(t) \in Nat
      /\ \A i \in 1 .. Len(b) : s[i] = b[i]
      /\ \A i \in 1 .. Len(t) : s[Len(b) + i] = t[i]
      BY TextsJoin, TextsAre
<1>2. From(s, Len(b) + 1) = t
      BY EndOfJoin
<1>3. Len(t) >= 1 => t[1] \notin C
      BY TextsAre
<1> HIDE DEF s
<1> DEFINE Is(k) == (\A i \in 1 .. k : s[i] \in C) /\ (k < Len(s) => s[k + 1] \notin C)
<1>4. Len(b) \in 0 .. Len(s) /\ Is(Len(b))
      BY <1>1, <1>3
<1>5. ASSUME NEW k \in 0 .. Len(s), Is(k) PROVE k = Len(b)
      <2>1. CASE k < Len(b)
            <3>1. k + 1 \in 1 .. Len(b) /\ k < Len(s)
                  BY <1>1, <2>1
            <3>2. s[k + 1] = b[k + 1] /\ b[k + 1] \in C /\ s[k + 1] \notin C
                  BY <1>1, <1>5, <3>1
            <3> QED BY <3>2
      <2>2. CASE k > Len(b)
            <3>1. Len(b) + 1 \in 1 .. k /\ Len(t) >= 1 /\ 1 \in 1 .. Len(t)
                  BY <1>1, <2>2
            <3>2. s[Len(b) + 1] = t[1] /\ s[Len(b) + 1] \in C
                  BY <1>1, <1>5, <3>1
            <3> QED BY <1>3, <3>1, <3>2
      <2> QED BY <1>1, <2>1, <2>2
<1> HIDE DEF Is
<1>6. Run(s, C) = CHOOSE k \in 0 .. Len(s) : Is(k)
      BY Zenon DEF Run, Is
<1>7. (CHOOSE k \in 0 .. Len(s) : Is(k)) = Len(b)
      BY <1>4, <1>5
<1>8. Run(s, C) = Len(b)
      BY <1>6, <1>7
<1> QED BY <1>2, <1>8 DEF Skip, s

LEMMA NoRun ==
    ASSUME NEW t \in Text, NEW C, t = <<>> \/ t[1] \notin C
    PROVE  Run(t, C) = 0 /\ Skip(t, C) = t
<1> DEFINE e == <<>>
<1>1. e \in Text /\ Len(e) = 0
      BY EmptySeq DEF Text
<1>2. e \o t = t
      BY TextsAre
<1> HIDE DEF e
<1>3. \A i \in 1 .. Len(e) : e[i] \in C
      BY <1>1
<1>4. Run(e \o t, C) = Len(e) /\ Skip(e \o t, C) = t
      BY ONLY <1>1, <1>3, t \in Text, t = <<>> \/ t[1] \notin C, RunIs
<1> QED BY <1>1, <1>2, <1>4

----------------------------------------------------------------------------
(* What the code takes out of a text *)

LEMMA BlanksAreTexts ==
    ASSUME NEW b \in Blanks
    PROVE  b \in Text /\ \A i \in 1 .. Len(b) : b[i] = Blank
<1>1. b \in Text
      BY CharsAre, SeqMonotonic DEF Blanks, Text
<1>2. \A i \in 1 .. Len(b) : b[i] \in {Blank}
      BY ElementOfSeq DEF Blanks
<1> QED BY <1>1, <1>2

LEMMA VIs ==
    ASSUME NEW v \in {<<>>, <<"v">>, <<"V">>}
    PROVE  v \in Text /\ (v # <<>> => Len(v) = 1 /\ 1 \in 1 .. Len(v) /\ v[1] \in {"v", "V"})
<1>1. "v" \in Chars /\ "V" \in Chars
      BY CharsAre
<1>2. CASE v = <<>>
      BY <1>2, EmptySeq DEF Text
<1>3. CASE v = <<"v">>
      <2>1. <<"v">> \in Seq(Chars)
            BY <1>1
      <2> QED BY <1>3, <2>1 DEF Text
<1>4. CASE v = <<"V">>
      <2>1. <<"V">> \in Seq(Chars)
            BY <1>1
      <2> QED BY <1>4, <2>1 DEF Text
<1> QED BY <1>2, <1>3, <1>4

LEMMA BlanksJoin ==
    ASSUME NEW b \in Blanks, NEW c \in Blanks
    PROVE  b \o c \in Blanks
BY ConcatProperties DEF Blanks

\* A text without what may be in front of it: no blank in front, and plain.
LEMMA SkipVIs ==
    ASSUME NEW v \in {<<>>, <<"v">>, <<"V">>}, NEW a \in Blanks, NEW body \in Plain
    PROVE  SkipV(v \o (a \o body)) = body
<1>1. /\ a \in Text /\ body \in Text /\ v \in Text
      /\ \A i \in 1 .. Len(a) : a[i] \in {Blank}
      /\ body = <<>> \/ body[1] \notin {Blank, "v", "V"}
      BY BlanksAreTexts, VIs DEF Plain
<1> DEFINE x == a \o body
<1>2. x \in Text /\ Skip(x, {Blank}) = body
      <2>1. body = <<>> \/ body[1] \notin {Blank}
            BY <1>1
      <2>2. Skip(a \o body, {Blank}) = body
            BY ONLY <1>1, <2>1, RunIs
      <2> QED BY <1>1, <2>2, TextsJoin
<1>3. CASE v = <<>>
      <2>1. v \o x = x
            BY <1>2, <1>3, TextsAre
      <2>2. x # <<>> => x[1] \notin {"v", "V"}
            <3>1. CASE Len(a) >= 1
                  <4>1. 1 \in 1 .. Len(a)
                        BY <1>1, <3>1, TextsAre
                  <4>2. x[1] = a[1] /\ a[1] = Blank
                        BY <1>1, <4>1, TextsJoin
                  <4> QED BY <4>2, CharsAre
            <3>2. CASE a = <<>>
                  <4>1. x = body
                        BY <1>1, <3>2, TextsAre
                  <4> QED BY <1>1, <4>1
            <3> QED BY <1>1, <3>1, <3>2, TextsAre
      <2>3. x # <<>> /\ x[1] \in {"v", "V"} <=> FALSE
            BY <2>2
      <2> HIDE DEF x
      <2>4. SkipV(x) = Skip(x, {Blank})
            BY <2>3 DEF SkipV
      <2> QED BY <1>2, <2>1, <2>4 DEF x
<1>4. CASE v # <<>>
      <2>1. Len(v) = 1 /\ v[1] \in {"v", "V"}
            BY <1>4, VIs
      <2> DEFINE y == v \o x
      <2>2. y \in Text /\ Len(y) = 1 + Len(x) /\ y[1] = v[1] /\ From(y, 2) = x /\ Len(x) \in Nat
            <3>1. 1 \in 1 .. Len(v)
                  BY <2>1
            <3> HIDE DEF x
            <3>2. y \in Text /\ Len(y) = 1 + Len(x)
                  <4>1. v \o x \in Text /\ Len(v \o x) = Len(v) + Len(x)
                        BY ONLY <1>1, <1>2, TextsJoin
                  <4> QED BY <2>1, <4>1
            <3>4. y[1] = v[1]
                  <4>1. \A i \in 1 .. Len(v) : (v \o x)[i] = v[i]
                        BY ONLY <1>1, <1>2, TextsJoin
                  <4> QED BY <3>1, <4>1
            <3>3. From(y, Len(v) + 1) = x
                  BY <1>1, <1>2, EndOfJoin
            <3> QED BY <1>2, <2>1, <3>2, <3>3, <3>4, TextsAre
      <2> HIDE DEF y, x
      <2>3. y # <<>>
            BY <2>2, TextsAre
      <2>4. Tail(y) = x
            BY <2>2, <2>3, TailIsSubSeq DEF From, Text
      <2>5. SkipV(y) = Skip(Tail(y), {Blank})
            BY <2>1, <2>2, <2>3 DEF SkipV
      <2> QED BY <1>2, <2>4, <2>5 DEF y, x
<1> QED BY <1>3, <1>4

\* What is left of a decorated version without the blanks in front of it.
LEMMA Uncovered ==
    ASSUME NEW b \in Blanks, NEW v \in {<<>>, <<"v">>, <<"V">>}, NEW a \in Blanks, NEW body \in Plain
    PROVE  LET y == Skip(b \o (v \o (a \o body)), {Blank})
           IN  /\ y \in Text /\ SkipV(y) = body /\ Skip(y, {Blank}) = y
               /\ (body # <<>> => body[1] \notin OpChars) => (y # <<>> => y[1] \notin OpChars)
<1> DEFINE x == v \o (a \o body)
           y == Skip(b \o x, {Blank})
<1>1. /\ a \in Text /\ body \in Text /\ v \in Text /\ b \in Text /\ x \in Text /\ a \o body \in Text
      /\ \A i \in 1 .. Len(a) : a[i] \in {Blank}
      /\ \A i \in 1 .. Len(b) : b[i] \in {Blank}
      /\ body = <<>> \/ body[1] \notin {Blank, "v", "V"}
      BY BlanksAreTexts, VIs, TextsJoin DEF Plain
<1>2. SkipV(x) = body
      BY SkipVIs
<1>3. SkipV(body) = body
      <2>1. <<>> \in {<<>>, <<"v">>, <<"V">>} /\ <<>> \in Blanks
            BY EmptySeq DEF Blanks
      <2>2. SkipV(<<>> \o (<<>> \o body)) = body
            BY ONLY <2>1, SkipVIs, body \in Plain
      <2> QED BY <1>1, <2>2, TextsAre
<1>4. CASE v # <<>>
      <2>1. Len(v) = 1 /\ v[1] \in {"v", "V"}
            BY <1>4, VIs
      <2>2. x[1] = v[1]
            <3>1. 1 \in 1 .. Len(v)
                  BY <2>1
            <3> QED BY <1>1, <3>1, TextsJoin
      <2> HIDE DEF x
      <2>3. x = <<>> \/ x[1] \notin {Blank}
            BY <2>1, <2>2, CharsAre
      <2>4. y = x
            BY <1>1, <2>3, RunIs
      <2>6. Skip(x, {Blank}) = x
            BY ONLY <1>1, <2>3, NoRun
      <2>7. x[1] \notin OpChars
            BY <2>1, <2>2, CharsAre
      <2> QED BY <1>1, <1>2, <2>4, <2>6, <2>7 DEF x
<1>5. CASE v = <<>>
      <2>1. x = a \o body
            BY <1>1, <1>5, TextsAre
      <2>2. b \o x = (b \o a) \o body
            <3>1. (b \o a) \o body = b \o (a \o body)
                  BY ONLY <1>1, TextsAssociate
            <3> QED BY <2>1, <3>1
      <2>3. b \o a \in Text /\ \A i \in 1 .. Len(b \o a) : (b \o a)[i] \in {Blank}
            BY BlanksJoin, BlanksAreTexts
      <2>4. body = <<>> \/ body[1] \notin {Blank}
            BY <1>1
      <2>5. y = body
            <3>1. Skip((b \o a) \o body, {Blank}) = body
                  BY ONLY <1>1, <2>3, <2>4, RunIs
            <3> QED BY <2>2, <3>1
      <2>7. Skip(body, {Blank}) = body
            BY ONLY <1>1, <2>4, NoRun
      <2> QED BY <1>1, <1>3, <2>5, <2>7 DEF x
<1> QED BY <1>4, <1>5

\* The operator and the body of a requirement are the ones that are written.
LEMMA ReadAsWritten ==
    ASSUME NEW how \in Manner, NEW body \in Plain,
           body # <<>> /\ body[1] \in OpChars => how.op # <<>> /\ how.between # <<>>
    PROVE  OpOf(Written(how, body)) = how.op /\ BodyOf(Written(how, body)) = body
<1> DEFINE b == how.before
           op == how.op
           c == how.between
           x == how.v \o (how.after \o body)
           t == Written(how, body)
<1>1. /\ b \in Blanks /\ op \in Seq(OpChars) /\ c \in Blanks /\ how.v \in {<<>>, <<"v">>, <<"V">>}
      /\ how.after \in Blanks
      BY DEF Manner
<1>2. /\ b \in Text /\ c \in Text /\ how.after \in Text /\ how.v \in Text /\ body \in Text
      /\ \A i \in 1 .. Len(b) : b[i] \in {Blank}
      /\ \A i \in 1 .. Len(c) : c[i] = Blank
      BY <1>1, BlanksAreTexts, VIs DEF Plain
<1>3. op \in Text /\ \A i \in 1 .. Len(op) : op[i] \in OpChars
      <2>1. OpChars \subseteq Chars
            BY CharsAre
      <2> QED BY <1>1, <2>1, SeqMonotonic, ElementOfSeq DEF Text
<1>4. x \in Text /\ c \o x \in Text /\ op \o (c \o x) \in Text
      BY <1>2, <1>3, TextsJoin
<1>5. t = b \o (op \o (c \o x))
      BY DEF Written
<1> DEFINE y == Skip(c \o x, {Blank})
<1>6. /\ y \in Text /\ SkipV(y) = body /\ Skip(y, {Blank}) = y
      /\ (body # <<>> => body[1] \notin OpChars) => (y # <<>> => y[1] \notin OpChars)
      BY <1>1, Uncovered
<1>7. (body # <<>> => body[1] \notin OpChars) => (x # <<>> => x[1] \notin OpChars)
      <2>1. CASE how.v # <<>>
            <3>1. Len(how.v) = 1 /\ how.v[1] \in {"v", "V"}
                  BY <1>1, <2>1, VIs
            <3>2. 1 \in 1 .. Len(how.v)
                  BY <3>1
            <3>3. how.after \o body \in Text
                  BY <1>2, TextsJoin
            <3>4. x[1] = how.v[1]
                  <4> DEFINE u == how.v
                             w == how.after \o body
                  <4>1. u \in Text /\ w \in Text /\ 1 \in 1 .. Len(u)
                        BY <1>2, <3>2, <3>3
                  <4>2. (u \o w)[1] = u[1]
                        <5> HIDE DEF u, w
                        <5> QED BY ONLY <4>1, TextsJoin
                  <4> QED BY <4>2
            <3> QED BY <3>1, <3>4, CharsAre
      <2>2. CASE how.v = <<>> /\ how.after # <<>>
            <3>1. x = how.after \o body
                  BY <1>2, <2>2, TextsAre, TextsJoin
            <3>2. 1 \in 1 .. Len(how.after)
                  BY <1>2, <2>2, TextsAre
            <3>3. x[1] = how.after[1] /\ how.after[1] = Blank
                  BY <1>1, <1>2, <3>1, <3>2, TextsJoin, BlanksAreTexts
            <3> QED BY <3>3, CharsAre
      <2>3. CASE how.v = <<>> /\ how.after = <<>>
            <3>1. x = body
                  BY <1>2, <2>3, TextsAre
            <3> QED BY <3>1
      <2> QED BY <2>1, <2>2, <2>3
<1> HIDE DEF x, t
<1>8. CASE op # <<>>
      <2>1. Len(op) >= 1 /\ 1 \in 1 .. Len(op)
            BY <1>3, <1>8, TextsAre
      <2>2. (op \o (c \o x))[1] = op[1] /\ op[1] \in OpChars
            BY <1>3, <1>4, <2>1, TextsJoin
      <2>3. (op \o (c \o x))[1] \notin {Blank}
            BY <2>2, CharsAre
      <2>4. Skip(t, {Blank}) = op \o (c \o x)
            BY <1>2, <1>4, <1>5, <2>3, RunIs
      <2>5. c \o x = <<>> \/ (c \o x)[1] \notin OpChars
            <3>1. CASE c # <<>>
                  <4>1. 1 \in 1 .. Len(c)
                        BY <1>2, <3>1, TextsAre
                  <4>2. (c \o x)[1] = Blank
                        BY <1>2, <1>4, <4>1, TextsJoin
                  <4> QED BY <4>2, CharsAre
            <3>2. CASE c = <<>>
                  <4>1. c \o x = x
                        BY <1>4, <3>2, TextsAre
                  <4> QED BY <1>7, <3>2, <4>1
            <3> QED BY <3>1, <3>2
      <2>6. /\ Run(op \o (c \o x), OpChars) = Len(op)
            /\ Skip(op \o (c \o x), OpChars) = c \o x
            BY <1>3, <1>4, <2>5, RunIs
      <2>7. SubSeq(op \o (c \o x), 1, Len(op)) = op
            BY <1>3, <1>4, StartOfJoin
      <2> QED BY <1>6, <2>4, <2>6, <2>7 DEF OpOf, BodyOf, t
<1>9. CASE op = <<>>
      <2>1. op \o (c \o x) = c \o x /\ b \o (c \o x) = (b \o c) \o x
            <3>1. op \o (c \o x) = c \o x
                  BY <1>4, <1>9, TextsAre
            <3>2. b \in Text /\ c \in Text
                  BY <1>2
            <3>3. (b \o c) \o x = b \o (c \o x)
                  <4> HIDE DEF b, c
                  <4> QED BY ONLY <1>4, <3>2, TextsAssociate
            <3> QED BY <3>1, <3>3
      <2> DEFINE z == Skip(t, {Blank})
      <2>2. /\ z \in Text /\ SkipV(z) = body /\ Skip(z, {Blank}) = z
            /\ (body # <<>> => body[1] \notin OpChars) => (z # <<>> => z[1] \notin OpChars)
            <3>1. b \o c \in Blanks
                  BY <1>1, BlanksJoin
            <3>2. t = (b \o c) \o (how.v \o (how.after \o body))
                  BY <1>5, <2>1 DEF x
            <3> DEFINE d == b \o c
                       u == how.v
                       a == how.after
            <3>3. d \in Blanks /\ u \in {<<>>, <<"v">>, <<"V">>} /\ a \in Blanks /\ body \in Plain
                  BY <1>1, <3>1
            <3>4. t = d \o (u \o (a \o body))
                  BY <3>2
            <3> HIDE DEF d, u, a
            <3>5. LET y0 == Skip(d \o (u \o (a \o body)), {Blank})
                  IN  /\ y0 \in Text /\ SkipV(y0) = body /\ Skip(y0, {Blank}) = y0
                      /\ (body # <<>> => body[1] \notin OpChars) => (y0 # <<>> => y0[1] \notin OpChars)
                  BY ONLY <3>3, Uncovered
            <3> QED BY ONLY <3>4, <3>5 DEF z
      <2>3. z = <<>> \/ z[1] \notin OpChars
            BY <1>9, <2>2
      <2>5. Run(z, OpChars) = 0 /\ Skip(z, OpChars) = z
            <3> HIDE DEF z
            <3> QED BY ONLY <2>2, <2>3, NoRun
      <2>6. SubSeq(z, 1, 0) = <<>>
            BY SubSeqEmpty
      <2> QED BY <1>9, <2>2, <2>5, <2>6 DEF OpOf, BodyOf, t
<1> QED BY <1>8, <1>9 DEF t

\* And so is the version of a mod.
LEMMA WrittenIsText ==
    ASSUME NEW how \in Manner, NEW body \in Text
    PROVE  Written(how, body) \in Text
<1>1. how.before \in Text /\ how.between \in Text /\ how.after \in Text /\ how.v \in Text
      BY BlanksAreTexts, VIs DEF Manner
<1>2. how.op \in Text
      <2>1. OpChars \subseteq Chars
            BY CharsAre
      <2>2. how.op \in Seq(OpChars)
            BY DEF Manner
      <2> QED BY <2>1, <2>2, SeqMonotonic DEF Text
<1>3. how.v \o (how.after \o body) \in Text
      BY <1>1, TextsJoin
<1>4. how.op \o (how.between \o (how.v \o (how.after \o body))) \in Text
      BY <1>1, <1>2, <1>3, TextsJoin
<1> QED BY <1>1, <1>4, TextsJoin DEF Written

LEMMA BareAsWritten ==
    ASSUME NEW how \in Manner, how.op = <<>>, NEW body \in Plain
    PROVE  Bare(Written(how, body)) = body
<1> DEFINE b == how.before
           c == how.between
           x == how.v \o (how.after \o body)
<1>1. /\ b \in Blanks /\ c \in Blanks /\ how.v \in {<<>>, <<"v">>, <<"V">>} /\ how.after \in Blanks
      BY DEF Manner
<1>2. b \in Text /\ c \in Text /\ how.after \in Text /\ how.v \in Text /\ body \in Text
      BY <1>1, BlanksAreTexts, VIs DEF Plain
<1>3. x \in Text /\ c \o x \in Text
      BY <1>2, TextsJoin
<1>4. Written(how, body) = (b \o c) \o x
      <2>1. Written(how, body) = b \o (<<>> \o (c \o x))
            BY DEF Written
      <2>2. <<>> \o (c \o x) = c \o x
            BY <1>3, TextsAre
      <2>3. (b \o c) \o x = b \o (c \o x)
            <3>1. b \in Text /\ c \in Text
                  BY <1>2
            <3> HIDE DEF x, b, c
            <3> QED BY ONLY <1>3, <3>1, TextsAssociate
      <2> QED BY <2>1, <2>2, <2>3
<1>5. b \o c \in Blanks
      BY <1>1, BlanksJoin
<1>6. SkipV(Skip((b \o c) \o x, {Blank})) = body
      <2> DEFINE d == b \o c
                 u == how.v
                 a == how.after
      <2>1. d \in Blanks /\ u \in {<<>>, <<"v">>, <<"V">>} /\ a \in Blanks /\ body \in Plain
            BY <1>1, <1>5
      <2>2. SkipV(Skip(d \o (u \o (a \o body)), {Blank})) = body
            <3> HIDE DEF d, u, a
            <3>1. LET y == Skip(d \o (u \o (a \o body)), {Blank})
                  IN  /\ y \in Text /\ SkipV(y) = body /\ Skip(y, {Blank}) = y
                      /\ (body # <<>> => body[1] \notin OpChars) => (y # <<>> => y[1] \notin OpChars)
                  BY ONLY <2>1, Uncovered
            <3> QED BY ONLY <3>1
      <2> QED BY <2>2
<1> QED BY <1>4, <1>6 DEF Bare

----------------------------------------------------------------------------
(* Versions and prefixes of versions *)

LEMMA CharsApart ==
    /\ \A c \in Numerals : c # "." /\ c \notin OpChars /\ c \notin Wildcards /\ c \notin {Blank, "v", "V"}
    /\ \A c \in Wildcards : c # "." /\ c \notin OpChars /\ c \notin {Blank, "v", "V"}
    /\ "." \notin Wildcards
    /\ Wildcards \subseteq Chars
<1>1. \A c \in Numerals : c # "." /\ c \notin OpChars /\ c \notin Wildcards /\ c \notin {"v", "V"}
      BY DEF Numerals, OpChars, Wildcards
<1>2. \A c \in Wildcards : c # "." /\ c \notin OpChars /\ c \notin {"v", "V"}
      BY DEF OpChars, Wildcards
<1>3. Blank \notin Numerals /\ Blank \notin Wildcards
      BY Zenon DEF Blank, Numerals, Wildcards
<1>4. "." \notin Wildcards
      BY DEF Wildcards
<1> QED BY <1>1, <1>2, <1>3, <1>4, RequirementAssumption DEF RequirementAssumption

LEMMA NumberIs ==
    ASSUME NEW n \in Number
    PROVE  n \in Text /\ Len(n) \in Nat /\ Len(n) >= 1 /\ \A i \in 1 .. Len(n) : n[i] \in Numerals
<1>1. n \in Seq(Numerals) /\ n # <<>>
      BY DEF Number
<1>2. n \in Text
      BY <1>1, CharsAre, SeqMonotonic DEF Text
<1>3. \A i \in 1 .. Len(n) : n[i] \in Numerals
      BY <1>1, ElementOfSeq
<1> QED BY <1>1, <1>2, <1>3, TextsAre

LEMMA DotIs == <<".">> \in Text /\ Len(<<".">>) = 1 /\ <<".">>[1] = "."
<1>1. "." \in Chars
      BY CharsAre
<1>2. <<".">> \in Seq(Chars)
      BY <1>1
<1> QED BY <1>2 DEF Text

\* s, a dot and t.
Dotted(s, t) == s \o (<<".">> \o t)

LEMMA DottedIs ==
    ASSUME NEW s \in Text, NEW t \in Text
    PROVE  /\ Dotted(s, t) \in Text /\ Len(Dotted(s, t)) = Len(s) + 1 + Len(t)
           /\ Len(s) \in Nat /\ Len(t) \in Nat
           /\ \A i \in 1 .. Len(s) : Dotted(s, t)[i] = s[i]
           /\ Dotted(s, t)[Len(s) + 1] = "."
           /\ \A i \in 1 .. Len(t) : Dotted(s, t)[Len(s) + 1 + i] = t[i]
<1> DEFINE dot == <<".">>
           u == dot \o t
<1>1. dot \in Text /\ Len(dot) = 1 /\ dot[1] = "."
      BY DotIs
<1> HIDE DEF dot
<1>2. /\ u \in Text /\ Len(u) = 1 + Len(t) /\ u[1] = "."
      /\ \A i \in 1 .. Len(t) : u[1 + i] = t[i]
      <2>1. /\ dot \o t \in Text /\ Len(dot \o t) = Len(dot) + Len(t)
            /\ \A i \in 1 .. Len(dot) : (dot \o t)[i] = dot[i]
            /\ \A i \in 1 .. Len(t) : (dot \o t)[Len(dot) + i] = t[i]
            BY ONLY <1>1, t \in Text, TextsJoin
      <2>2. 1 \in 1 .. Len(dot)
            BY <1>1
      <2> HIDE DEF u
      <2> QED BY <1>1, <2>1, <2>2 DEF u
<1> HIDE DEF u
<1>3. /\ s \o u \in Text /\ Len(s \o u) = Len(s) + Len(u)
      /\ \A i \in 1 .. Len(s) : (s \o u)[i] = s[i]
      /\ \A i \in 1 .. Len(u) : (s \o u)[Len(s) + i] = u[i]
      BY ONLY <1>2, s \in Text, TextsJoin
<1>4. Dotted(s, t) = s \o u
      BY DEF Dotted, u, dot
<1>5. Len(s) \in Nat /\ Len(t) \in Nat
      BY TextsAre
<1>6. 1 \in 1 .. Len(u)
      BY <1>2, <1>5
<1>7. ASSUME NEW i \in 1 .. Len(t) PROVE (s \o u)[Len(s) + 1 + i] = t[i]
      <2>1. 1 + i \in 1 .. Len(u) /\ Len(s) + 1 + i = Len(s) + (1 + i)
            BY <1>2, <1>5
      <2> QED BY <1>2, <1>3, <2>1
<1> QED BY <1>2, <1>3, <1>4, <1>5, <1>6, <1>7

LEMMA NoneInJoin ==
    ASSUME NEW s \in Text, NEW t \in Text, NEW C,
           \A i \in 1 .. Len(s) : s[i] \notin C, \A i \in 1 .. Len(t) : t[i] \notin C
    PROVE  \A i \in 1 .. Len(s \o t) : (s \o t)[i] \notin C
<1>1. /\ Len(s \o t) = Len(s) + Len(t) /\ Len(s) \in Nat /\ Len(t) \in Nat
      /\ \A i \in 1 .. Len(s) : (s \o t)[i] = s[i]
      /\ \A i \in 1 .. Len(t) : (s \o t)[Len(s) + i] = t[i]
      BY TextsJoin, TextsAre
<1> TAKE i \in 1 .. Len(s \o t)
<1>2. CASE i <= Len(s)
      <2>1. i \in 1 .. Len(s)
            BY <1>1, <1>2
      <2> QED BY <1>1, <2>1
<1>3. CASE i > Len(s)
      <2> DEFINE j == i - Len(s)
      <2>1. j \in 1 .. Len(t) /\ Len(s) + j = i
            BY <1>1, <1>3
      <2> HIDE DEF j
      <2>2. (s \o t)[Len(s) + j] = t[j]
            BY <1>1, <2>1
      <2> QED BY <2>1, <2>2
<1> QED BY <1>1, <1>2, <1>3

LEMMA SpellingIs ==
    ASSUME NEW v \in Version
    PROVE  /\ v.core[1] \in Number /\ v.core[2] \in Number /\ v.core[3] \in Number /\ v.tag \in Text
           /\ v.core[3] \o v.tag \in Text
           /\ Spelling(v) = Dotted(v.core[1], Dotted(v.core[2], v.core[3] \o v.tag))
<1>1. v.core[1] \in Number /\ v.core[2] \in Number /\ v.core[3] \in Number /\ v.tag \in Text
      BY DEF Version
<1>2. v.core[3] \o v.tag \in Text
      BY <1>1, NumberIs, TextsJoin
<1> QED BY <1>1, <1>2 DEF Spelling, Dotted

\* A version is plain, and starts with a numeral.
LEMMA SpellingIsPlain ==
    ASSUME NEW v \in Version
    PROVE  Spelling(v) \in Plain /\ Spelling(v) # <<>> /\ Spelling(v)[1] \in Numerals
<1> DEFINE m == v.core[1]
           u == Dotted(v.core[2], v.core[3] \o v.tag)
<1>1. m \in Number /\ u \in Text /\ Spelling(v) = Dotted(m, u)
      BY SpellingIs, NumberIs, DottedIs
<1> HIDE DEF m, u
<1>2. m \in Text /\ 1 \in 1 .. Len(m) /\ m[1] \in Numerals /\ Len(m) \in Nat
      BY <1>1, NumberIs
<1>3. Dotted(m, u) \in Text /\ Len(Dotted(m, u)) >= 1 /\ Dotted(m, u)[1] = m[1]
      BY <1>1, <1>2, DottedIs
<1>4. Dotted(m, u) # <<>>
      BY <1>3, TextsAre
<1>5. m[1] \notin {Blank, "v", "V"}
      BY <1>2, CharsApart
<1> QED BY <1>1, <1>2, <1>3, <1>4, <1>5 DEF Plain

\* Only its tag can hold what is taken for a wildcard.
LEMMA NoWildcardInVersion ==
    ASSUME NEW v \in Version, \A i \in DOMAIN v.tag : v.tag[i] \notin Wildcards
    PROVE  ~HasWildcard(Spelling(v))
<1> DEFINE m == v.core[1]
           n == v.core[2]
           o == v.core[3]
           t == v.tag
           dot == <<".">>
<1>1. m \in Number /\ n \in Number /\ o \in Number /\ t \in Text
      /\ Spelling(v) = Dotted(m, Dotted(n, o \o t))
      BY SpellingIs
<1>2. \A i \in 1 .. Len(t) : t[i] \notin Wildcards
      BY <1>1, TextsAre
<1>3. dot \in Text /\ \A i \in 1 .. Len(dot) : dot[i] \notin Wildcards
      <2>1. dot \in Text /\ Len(dot) = 1 /\ dot[1] = "."
            BY DotIs
      <2> HIDE DEF dot
      <2>2. \A i \in 1 .. 1 : dot[i] \notin Wildcards
            BY <2>1, CharsApart
      <2> QED BY <2>1, <2>2
<1> HIDE DEF m, n, o, t
<1> DEFINE Free(s) == \A i \in 1 .. Len(s) : s[i] \notin Wildcards
<1>4. \A s, u \in Text : Free(s) /\ Free(u) => Free(s \o u) /\ s \o u \in Text
      BY NoneInJoin, TextsJoin
<1>5. /\ m \in Text /\ n \in Text /\ o \in Text
      /\ Free(m) /\ Free(n) /\ Free(o) /\ Free(t) /\ Free(dot)
      BY <1>1, <1>2, <1>3, NumberIs, CharsApart
<1> HIDE DEF Free, dot
<1>6. o \o t \in Text /\ Free(o \o t)
      BY <1>1, <1>4, <1>5
<1>7. dot \o (o \o t) \in Text /\ Free(dot \o (o \o t))
      BY <1>3, <1>4, <1>5, <1>6
<1>8. n \o (dot \o (o \o t)) \in Text /\ Free(n \o (dot \o (o \o t)))
      BY <1>4, <1>5, <1>7
<1>9. dot \o (n \o (dot \o (o \o t))) \in Text /\ Free(dot \o (n \o (dot \o (o \o t))))
      BY <1>3, <1>4, <1>5, <1>8
<1>10. /\ m \o (dot \o (n \o (dot \o (o \o t)))) \in Text
       /\ Free(m \o (dot \o (n \o (dot \o (o \o t)))))
       BY <1>4, <1>5, <1>9
<1>11. Spelling(v) \in Text /\ Free(Spelling(v))
       BY <1>1, <1>10 DEF Dotted, dot
<1> QED BY <1>11, TextsAre DEF HasWildcard, Free

LEMMA PrefixByIndex ==
    ASSUME NEW p \in Text, NEW s \in Text
    PROVE  PrefixMatches(p, s) <=> /\ Len(p) <= Len(s) /\ \A i \in 1 .. Len(p) : s[i] = p[i]
                                   /\ Len(s) = Len(p) \/ s[Len(p) + 1] = "."
<1>1. Len(p) \in Nat /\ Len(s) \in Nat /\ \A i \in 1 .. Len(s) : s[i] \in Chars
      BY TextsAre, ElementOfSeq DEF Text
<1>2. ASSUME Len(p) <= Len(s)
      PROVE  SubSeq(s, 1, Len(p)) = p <=> \A i \in 1 .. Len(p) : s[i] = p[i]
      <2> DEFINE n == Len(p)
                 r == SubSeq(s, 1, n)
      <2>1. n \in Nat /\ \A i \in 1 .. n : s[i] \in Chars
            BY <1>1, <1>2
      <2>2. 1 \in Int /\ n \in Int
            BY <2>1
      <2> HIDE DEF n
      <2>3. /\ r \in Seq(Chars) /\ Len(r) = IF 1 <= n THEN n - 1 + 1 ELSE 0
            /\ \A i \in 1 .. n - 1 + 1 : r[i] = s[1 + i - 1]
            BY ONLY <2>1, <2>2, SubSeqProperties
      <2> HIDE DEF r
      <2>4. r \in Text /\ Len(r) = n /\ \A i \in 1 .. n : r[i] = s[i]
            BY <2>1, <2>3 DEF Text
      <2>5. ASSUME \A i \in 1 .. n : s[i] = p[i] PROVE r = p
            BY <2>4, <2>5, SameText DEF n
      <2> QED BY <2>4, <2>5 DEF n, r
<1> QED BY <1>2 DEF PrefixMatches

\* A number is a prefix of what starts with the same number and a dot.
LEMMA NumberPrefix ==
    ASSUME NEW n \in Number, NEW c \in Number, NEW w \in Text
    PROVE  PrefixMatches(n, Dotted(c, w)) <=> n = c
<1> DEFINE s == Dotted(c, w)
<1>1. /\ n \in Text /\ Len(n) \in Nat /\ \A i \in 1 .. Len(n) : n[i] # "."
      /\ c \in Text /\ Len(c) \in Nat /\ \A i \in 1 .. Len(c) : c[i] # "."
      BY NumberIs, CharsApart
<1>2. /\ s \in Text /\ Len(s) = Len(c) + 1 + Len(w) /\ Len(w) \in Nat
      /\ \A i \in 1 .. Len(c) : s[i] = c[i]
      /\ s[Len(c) + 1] = "."
      BY <1>1, DottedIs
<1> HIDE DEF s
<1>3. PrefixMatches(n, s) <=> /\ Len(n) <= Len(s) /\ \A i \in 1 .. Len(n) : s[i] = n[i]
                              /\ Len(s) = Len(n) \/ s[Len(n) + 1] = "."
      BY <1>1, <1>2, PrefixByIndex
<1>4. n = c => PrefixMatches(n, s)
      BY <1>1, <1>2, <1>3
<1>5. ASSUME PrefixMatches(n, s) PROVE n = c
      <2>1. CASE Len(n) > Len(c)
            <3>1. Len(c) + 1 \in 1 .. Len(n)
                  BY <1>1, <2>1
            <3> QED BY <1>1, <1>2, <1>3, <1>5, <3>1
      <2>2. CASE Len(n) < Len(c)
            <3>1. Len(n) + 1 \in 1 .. Len(c) /\ Len(s) # Len(n)
                  BY <1>1, <1>2, <2>2
            <3> QED BY <1>1, <1>2, <1>3, <1>5, <3>1
      <2>3. CASE Len(n) = Len(c)
            BY <1>1, <1>2, <1>3, <1>5, <2>3, SameText
      <2> QED BY <1>1, <2>1, <2>2, <2>3
<1> QED BY <1>4, <1>5 DEF s

\* Two numbers are if both are the same, one after the other.
LEMMA DottedPrefix ==
    ASSUME NEW m \in Number, NEW c \in Number, NEW n \in Text, NEW u \in Text
    PROVE  PrefixMatches(Dotted(m, n), Dotted(c, u)) <=> m = c /\ PrefixMatches(n, u)
<1> DEFINE p == Dotted(m, n)
           s == Dotted(c, u)
<1>1. /\ m \in Text /\ Len(m) \in Nat /\ \A i \in 1 .. Len(m) : m[i] # "."
      /\ c \in Text /\ Len(c) \in Nat /\ \A i \in 1 .. Len(c) : c[i] # "."
      BY NumberIs, CharsApart
<1>2. /\ s \in Text /\ Len(s) = Len(c) + 1 + Len(u) /\ Len(u) \in Nat
      /\ \A i \in 1 .. Len(c) : s[i] = c[i]
      /\ s[Len(c) + 1] = "."
      /\ \A i \in 1 .. Len(u) : s[Len(c) + 1 + i] = u[i]
      BY <1>1, DottedIs
<1>3. /\ p \in Text /\ Len(p) = Len(m) + 1 + Len(n) /\ Len(n) \in Nat
      /\ \A i \in 1 .. Len(m) : p[i] = m[i]
      /\ p[Len(m) + 1] = "."
      /\ \A i \in 1 .. Len(n) : p[Len(m) + 1 + i] = n[i]
      BY <1>1, DottedIs
<1> HIDE DEF s, p
<1>4. PrefixMatches(p, s) <=> /\ Len(p) <= Len(s) /\ \A i \in 1 .. Len(p) : s[i] = p[i]
                              /\ Len(s) = Len(p) \/ s[Len(p) + 1] = "."
      BY <1>2, <1>3, PrefixByIndex
<1>5. PrefixMatches(n, u) <=> /\ Len(n) <= Len(u) /\ \A i \in 1 .. Len(n) : u[i] = n[i]
                              /\ Len(u) = Len(n) \/ u[Len(n) + 1] = "."
      BY PrefixByIndex
<1>6. ASSUME PrefixMatches(p, s) PROVE m = c
      <2>1. \A i \in 1 .. Len(p) : s[i] = p[i]
            BY <1>4, <1>6
      <2>2. CASE Len(m) > Len(c)
            <3>1. Len(c) + 1 \in 1 .. Len(m) /\ Len(c) + 1 \in 1 .. Len(p)
                  BY <1>1, <1>3, <2>2
            <3> QED BY <1>1, <1>2, <1>3, <2>1, <3>1
      <2>3. CASE Len(m) < Len(c)
            <3>1. Len(m) + 1 \in 1 .. Len(c) /\ Len(m) + 1 \in 1 .. Len(p)
                  BY <1>1, <1>3, <2>3
            <3> QED BY <1>1, <1>2, <1>3, <2>1, <3>1
      <2>4. CASE Len(m) = Len(c)
            <3>1. \A i \in 1 .. Len(m) : i \in 1 .. Len(p) /\ i \in 1 .. Len(c)
                  BY <1>1, <1>3, <2>4
            <3>2. \A i \in 1 .. Len(m) : m[i] = c[i]
                  BY <1>2, <1>3, <2>1, <3>1
            <3> QED BY <1>1, <2>4, <3>2, SameText
      <2> QED BY <1>1, <2>2, <2>3, <2>4
<1>7. ASSUME m = c PROVE PrefixMatches(p, s) <=> PrefixMatches(n, u)
      <2>1. Len(p) <= Len(s) <=> Len(n) <= Len(u)
            BY <1>1, <1>2, <1>3, <1>7
      <2>2. Len(s) = Len(p) <=> Len(u) = Len(n)
            <3>1. Len(s) = Len(p) => Len(u) = Len(n)
                  BY <1>1, <1>2, <1>3, <1>7
            <3>2. Len(u) = Len(n) => Len(s) = Len(p)
                  BY <1>1, <1>2, <1>3, <1>7
            <3> QED BY <3>1, <3>2
      <2>3. ASSUME Len(n) < Len(u) PROVE s[Len(p) + 1] = u[Len(n) + 1]
            <3>1. Len(n) + 1 \in 1 .. Len(u) /\ Len(c) + 1 + (Len(n) + 1) = Len(p) + 1
                  BY <1>1, <1>2, <1>3, <1>7, <2>3
            <3>2. s[Len(c) + 1 + (Len(n) + 1)] = u[Len(n) + 1]
                  BY <1>2, <3>1
            <3> QED BY <3>1, <3>2
      <2>4. ASSUME Len(n) <= Len(u)
            PROVE  (\A i \in 1 .. Len(p) : s[i] = p[i]) <=> (\A i \in 1 .. Len(n) : u[i] = n[i])
            <3>1. ASSUME \A i \in 1 .. Len(p) : s[i] = p[i], NEW i \in 1 .. Len(n) PROVE u[i] = n[i]
                  <4>1. Len(m) + 1 + i \in 1 .. Len(p) /\ i \in 1 .. Len(u)
                        BY <1>1, <1>2, <1>3, <2>4
                  <4>2. s[Len(m) + 1 + i] = p[Len(m) + 1 + i]
                        BY <3>1, <4>1
                  <4>3. p[Len(m) + 1 + i] = n[i] /\ s[Len(m) + 1 + i] = u[i]
                        BY <1>2, <1>3, <1>7, <4>1
                  <4> QED BY <4>2, <4>3
            <3>2. ASSUME \A i \in 1 .. Len(n) : u[i] = n[i], NEW i \in 1 .. Len(p) PROVE s[i] = p[i]
                  <4>1. CASE i \in 1 .. Len(m)
                        BY <1>2, <1>3, <1>7, <4>1
                  <4>2. CASE i = Len(m) + 1
                        BY <1>2, <1>3, <1>7, <4>2
                  <4>3. CASE i > Len(m) + 1
                        <5> DEFINE j == i - Len(m) - 1
                        <5>1. j \in 1 .. Len(n) /\ j \in 1 .. Len(u) /\ i = Len(m) + 1 + j
                              BY <1>1, <1>2, <1>3, <2>4, <4>3
                        <5> HIDE DEF j
                        <5>2. p[Len(m) + 1 + j] = n[j] /\ s[Len(m) + 1 + j] = u[j] /\ u[j] = n[j]
                              BY <1>2, <1>3, <1>7, <3>2, <5>1
                        <5> QED BY <5>1, <5>2
                  <4> QED BY <1>1, <1>3, <4>1, <4>2, <4>3
            <3> QED BY <3>1, <3>2
      <2>5. CASE Len(n) <= Len(u)
            <3>1. CASE Len(n) = Len(u)
                  BY <1>4, <1>5, <2>1, <2>2, <2>4, <3>1
            <3>2. CASE Len(n) < Len(u)
                  BY <1>4, <1>5, <2>1, <2>2, <2>3, <2>4, <3>2
            <3> QED BY <1>2, <1>3, <2>5, <3>1, <3>2
      <2>6. CASE ~(Len(n) <= Len(u))
            BY <1>4, <1>5, <2>1, <2>6
      <2> QED BY <2>5, <2>6
<1> QED BY <1>6, <1>7 DEF p, s

\* What stands before a wildcard, from where the wildcard and the dots are.
LEMMA BeforeIs ==
    ASSUME NEW body \in Text, NEW w0 \in 1 .. Len(body), body[w0] \in Wildcards,
           \A j \in 1 .. w0 - 1 : body[j] \notin Wildcards,
           NEW k0 \in 0 .. w0 - 1, \A j \in k0 + 1 .. w0 - 1 : body[j] = ".", k0 > 0 => body[k0] # "."
    PROVE  BeforeWildcard(body) = SubSeq(body, 1, k0)
<1> DEFINE First(i) == body[i] \in Wildcards /\ \A j \in 1 .. i - 1 : body[j] \notin Wildcards
           Last(k, w) == (\A j \in k + 1 .. w - 1 : body[j] = ".") /\ (k > 0 => body[k] # ".")
           w1 == CHOOSE i \in DOMAIN body : First(i)
           k1 == CHOOSE k \in 0 .. w1 - 1 : Last(k, w1)
<1>1. Len(body) \in Nat /\ DOMAIN body = 1 .. Len(body)
      BY TextsAre
<1>2. First(w0)
      OBVIOUS
<1>3. ASSUME NEW i \in 1 .. Len(body), First(i) PROVE i = w0
      <2>1. ~(i < w0)
            <3>1. i < w0 => i \in 1 .. w0 - 1
                  BY <1>1
            <3> QED BY <1>3, <3>1
      <2>2. ~(w0 < i)
            <3>1. w0 < i => w0 \in 1 .. i - 1
                  BY <1>1
            <3> QED BY <1>3, <3>1
      <2> QED BY <1>1, <2>1, <2>2
<1> HIDE DEF First
<1>4. w1 = w0
      BY <1>1, <1>2, <1>3
<1>5. Last(k0, w0)
      OBVIOUS
<1>6. ASSUME NEW k \in 0 .. w0 - 1, Last(k, w0) PROVE k = k0
      <2>1. ~(k < k0)
            <3>1. k < k0 => k0 \in k + 1 .. w0 - 1 /\ k0 > 0
                  BY <1>1
            <3> QED BY <1>6, <3>1
      <2>2. ~(k0 < k)
            <3>1. k0 < k => k \in k0 + 1 .. w0 - 1 /\ k > 0
                  BY <1>1
            <3> QED BY <1>6, <3>1
      <2> QED BY <1>1, <2>1, <2>2
<1> HIDE DEF Last, w1
<1>7. k1 = k0
      BY <1>4, <1>5, <1>6
<1>8. BeforeWildcard(body) = SubSeq(body, 1, k1)
      BY DEF BeforeWildcard, k1, w1, First, Last
<1> QED BY <1>7, <1>8

\* Before the wildcard of a request stand its numbers.
LEMMA PrefixIsNumbers ==
    ASSUME NEW r \in WildcardRequest
    PROVE  LET body == Prefixed(r.numbers, r.rest)
           IN  /\ body \in Plain /\ body # <<>> /\ body[1] \notin OpChars
               /\ HasWildcard(body) /\ BeforeWildcard(body) = Joined(r.numbers)
<1> DEFINE ns == r.numbers
           rest == r.rest
           body == Prefixed(ns, rest)
           p == Joined(ns)
<1>1. /\ ns \in Seq(Number) /\ Len(ns) \in {0, 1, 2}
      /\ rest \in Text /\ rest # <<>> /\ rest[1] \in Wildcards
      <2>1. ns \in Seq(Number) /\ Len(ns) <= 2
            BY DEF WildcardRequest
      <2>2. Len(ns) \in Nat
            BY <2>1, LenProperties
      <2>3. rest \in Text /\ rest # <<>> /\ rest[1] \in Wildcards
            BY DEF WildcardRequest
      <2>4. Len(ns) \in {0, 1, 2}
            <3> DEFINE l == Len(ns)
            <3>1. l \in Nat /\ l <= 2
                  BY <2>1, <2>2
            <3> HIDE DEF l
            <3>2. l \in {0, 1, 2}
                  BY ONLY <3>1
            <3> QED BY <3>2 DEF l
      <2> QED BY <2>1, <2>3, <2>4
<1>2. /\ Len(rest) \in Nat /\ 1 \in 1 .. Len(rest)
      /\ rest[1] # "." /\ rest[1] \notin OpChars /\ rest[1] \notin {Blank, "v", "V"}
      BY <1>1, TextsAre, CharsApart
<1>3. CASE ns = <<>>
      <2>1. body = rest /\ p = <<>>
            BY <1>3 DEF Prefixed, Joined
      <2>2. DOMAIN rest = 1 .. Len(rest)
            BY <1>1, TextsAre
      <2> HIDE DEF rest, body, p
      <2>3. BeforeWildcard(rest) = SubSeq(rest, 1, 0)
            <3>1. 0 \in 0 .. 1 - 1 /\ ~(0 > 0)
                  OBVIOUS
            <3>2. (\A j \in 1 .. 1 - 1 : rest[j] \notin Wildcards) /\ (\A j \in 0 + 1 .. 1 - 1 : rest[j] = ".")
                  OBVIOUS
            <3> QED BY ONLY <1>1, <1>2, <3>1, <3>2, BeforeIs
      <2>4. SubSeq(rest, 1, 0) = <<>>
            BY SubSeqEmpty
      <2>5. HasWildcard(rest) /\ rest \in Plain
            BY <1>1, <1>2, <2>2 DEF HasWildcard, Plain
      <2>6. body \in Plain /\ body # <<>> /\ body[1] \notin OpChars /\ HasWildcard(body)
            BY <1>1, <1>2, <2>1, <2>5
      <2>7. BeforeWildcard(body) = p
            BY <2>1, <2>3, <2>4
      <2> QED BY <2>6, <2>7 DEF body, p, rest
<1>4. CASE ns # <<>>
      <2>1. /\ p \in Text /\ Len(p) \in Nat /\ Len(p) >= 1
            /\ p[1] \in Numerals /\ p[Len(p)] \in Numerals
            /\ \A i \in 1 .. Len(p) : p[i] \notin Wildcards
            <3>1. CASE Len(ns) = 1
                  <4>1. p = ns[1] /\ ns[1] \in Number
                        BY <1>1, <3>1, ElementOfSeq DEF Joined
                  <4> HIDE DEF p, ns
                  <4>2. p \in Text /\ Len(p) \in Nat /\ Len(p) >= 1 /\ \A i \in 1 .. Len(p) : p[i] \in Numerals
                        BY <4>1, NumberIs
                  <4>3. 1 \in 1 .. Len(p) /\ Len(p) \in 1 .. Len(p)
                        BY <4>2
                  <4> QED BY <4>2, <4>3, CharsApart
            <3>2. CASE Len(ns) = 2
                  <4> DEFINE m == ns[1]
                             n == ns[2]
                  <4>1. p = Dotted(m, n) /\ m \in Number /\ n \in Number
                        <5>1. ns[1] \in Number /\ ns[2] \in Number
                              BY <1>1, <3>2, ElementOfSeq
                        <5>2. Joined(ns) = Dotted(ns[1], ns[2])
                              <6> HIDE DEF ns
                              <6> QED BY <3>2 DEF Joined, Dotted
                        <5> QED BY <5>1, <5>2
                  <4> HIDE DEF p, m, n
                  <4>2. /\ m \in Text /\ Len(m) \in Nat /\ Len(m) >= 1 /\ \A i \in 1 .. Len(m) : m[i] \in Numerals
                        /\ n \in Text /\ Len(n) \in Nat /\ Len(n) >= 1 /\ \A i \in 1 .. Len(n) : n[i] \in Numerals
                        BY <4>1, NumberIs
                  <4>3. /\ p \in Text /\ Len(p) = Len(m) + 1 + Len(n)
                        /\ \A i \in 1 .. Len(m) : p[i] = m[i]
                        /\ p[Len(m) + 1] = "."
                        /\ \A i \in 1 .. Len(n) : p[Len(m) + 1 + i] = n[i]
                        BY <4>1, <4>2, DottedIs
                  <4>4. 1 \in 1 .. Len(m) /\ Len(n) \in 1 .. Len(n) /\ Len(p) = Len(m) + 1 + Len(n)
                        BY <4>2, <4>3
                  <4>5. p[1] \in Numerals /\ p[Len(p)] \in Numerals
                        BY <4>2, <4>3, <4>4
                  <4>6. ASSUME NEW i \in 1 .. Len(p) PROVE p[i] \notin Wildcards
                        <5>1. CASE i \in 1 .. Len(m)
                              BY <4>2, <4>3, <5>1, CharsApart
                        <5>2. CASE i = Len(m) + 1
                              BY <4>3, <5>2, CharsApart
                        <5>3. CASE i > Len(m) + 1
                              <6> DEFINE j == i - Len(m) - 1
                              <6>1. j \in 1 .. Len(n) /\ i = Len(m) + 1 + j
                                    BY <4>2, <4>3, <5>3
                              <6> HIDE DEF j
                              <6>2. p[Len(m) + 1 + j] = n[j] /\ n[j] \in Numerals
                                    BY <4>2, <4>3, <6>1
                              <6> QED BY <6>1, <6>2, CharsApart
                        <5> QED BY <4>2, <4>3, <5>1, <5>2, <5>3
                  <4>7. Len(p) \in Nat /\ Len(p) >= 1
                        BY <4>2, <4>3
                  <4> QED BY <4>3, <4>5, <4>6, <4>7
            <3>3. Len(ns) # 0
                  BY <1>1, <1>4, EmptySeq
            <3> QED BY <1>1, <3>1, <3>2, <3>3
      <2>2. body = Dotted(p, rest)
            BY <1>4 DEF Prefixed, Dotted
      <2> HIDE DEF body, p, ns, rest
      <2>3. /\ body \in Text /\ Len(body) = Len(p) + 1 + Len(rest)
            /\ \A i \in 1 .. Len(p) : body[i] = p[i]
            /\ body[Len(p) + 1] = "."
            /\ \A i \in 1 .. Len(rest) : body[Len(p) + 1 + i] = rest[i]
            BY <1>1, <2>1, <2>2, DottedIs
      <2> DEFINE w == Len(p) + 2
                 k == Len(p)
      <2>4. /\ w \in 1 .. Len(body) /\ body[w] \in Wildcards
            <3>1. body[Len(p) + 1 + 1] = rest[1] /\ Len(p) + 1 + 1 = w
                  BY <1>2, <2>1, <2>3
            <3>2. w \in 1 .. Len(body)
                  BY <1>2, <2>1, <2>3
            <3> QED BY <1>1, <3>1, <3>2
      <2>5. ASSUME NEW j \in 1 .. w - 1 PROVE body[j] \notin Wildcards
            <3>1. j \in 1 .. Len(p) \/ j = Len(p) + 1
                  BY <2>1
            <3> QED BY <2>1, <2>3, <3>1, CharsApart
      <2>6. k \in 0 .. w - 1
            BY <2>1
      <2>7. ASSUME NEW j \in k + 1 .. w - 1 PROVE body[j] = "."
            <3>1. j = Len(p) + 1
                  BY <2>1
            <3> QED BY <2>3, <3>1
      <2>8. body[k] # "."
            <3>1. Len(p) \in 1 .. Len(p)
                  BY <2>1
            <3>2. body[k] = p[Len(p)]
                  BY <2>3, <3>1
            <3> QED BY <2>1, <3>2, CharsApart
      <2>9. BeforeWildcard(body) = SubSeq(body, 1, k)
            <3> HIDE DEF w, k
            <3> QED BY ONLY <2>3, <2>4, <2>5, <2>6, <2>7, <2>8, BeforeIs
      <2>10. SubSeq(body, 1, k) = p
            <3> DEFINE u == <<".">> \o rest
            <3>1. u \in Text /\ body = p \o u
                  BY <1>1, <2>2, DotIs, TextsJoin DEF Dotted
            <3> HIDE DEF u
            <3> QED BY <2>1, <3>1, StartOfJoin
      <2>11. DOMAIN body = 1 .. Len(body) /\ body # <<>>
            <3>1. Len(body) >= 1
                  BY <1>2, <2>1, <2>3
            <3> QED BY <2>3, <3>1, TextsAre
      <2>12. body[1] = p[1]
            BY <2>1, <2>3
      <2>13. body[1] \notin {Blank, "v", "V"} /\ body[1] \notin OpChars
            BY <2>1, <2>12, CharsApart
      <2>14. body \in Plain /\ HasWildcard(body)
            BY <2>3, <2>4, <2>11, <2>13 DEF Plain, HasWildcard
      <2> QED BY <2>9, <2>10, <2>11, <2>13, <2>14 DEF body, p, ns, rest
<1> QED BY <1>3, <1>4

\* The numbers stand at the start of a version if they are its numbers.
LEMMA NumbersMatch ==
    ASSUME NEW ns \in Seq(Number), Len(ns) <= 2, NEW v \in Version
    PROVE  Joined(ns) = <<>> \/ PrefixMatches(Joined(ns), Spelling(v)) <=>
               \A i \in DOMAIN ns : ns[i] = v.core[i]
<1> DEFINE c == v.core[1]
           d == v.core[2]
           w == v.core[3] \o v.tag
           s == Spelling(v)
<1>1. c \in Number /\ d \in Number /\ w \in Text /\ Dotted(d, w) \in Text /\ s = Dotted(c, Dotted(d, w))
      <2>1. c \in Number /\ d \in Number /\ w \in Text /\ s = Dotted(c, Dotted(d, w))
            BY SpellingIs
      <2> HIDE DEF c, d, w, s
      <2> QED BY <2>1, NumberIs, DottedIs
<1>2. DOMAIN ns = 1 .. Len(ns) /\ Len(ns) \in {0, 1, 2}
      <2>1. DOMAIN ns = 1 .. Len(ns) /\ Len(ns) \in Nat
            BY LenProperties
      <2> QED BY <2>1
<1>3. CASE Len(ns) = 0
      BY <1>2, <1>3 DEF Joined
<1>4. CASE Len(ns) = 1
      <2> DEFINE n == ns[1]
      <2>1. n \in Number /\ Joined(ns) = n
            BY <1>4, ElementOfSeq DEF Joined
      <2>2. n # <<>>
            BY <2>1 DEF Number
      <2>3. PrefixMatches(n, s) <=> n = c
            <3> HIDE DEF n, c, d, w, s
            <3> QED BY <1>1, <2>1, NumberPrefix
      <2>4. (\A i \in DOMAIN ns : ns[i] = v.core[i]) <=> n = c
            BY <1>2, <1>4
      <2> QED BY <2>1, <2>2, <2>3, <2>4
<1>5. CASE Len(ns) = 2
      <2> DEFINE m == ns[1]
                 n == ns[2]
      <2>1. m \in Number /\ n \in Number
            BY <1>5, ElementOfSeq
      <2>2. Joined(ns) = Dotted(m, n)
            BY <1>5 DEF Joined, Dotted
      <2>3. Dotted(m, n) # <<>>
            <3> HIDE DEF m, n
            <3>1. m \in Text /\ n \in Text
                  BY <2>1, NumberIs
            <3>2. Dotted(m, n) \in Text /\ Len(Dotted(m, n)) >= 1
                  BY <3>1, DottedIs
            <3> QED BY <3>2, TextsAre
      <2>4. PrefixMatches(Dotted(m, n), s) <=> m = c /\ n = d
            <3> HIDE DEF m, n, c, d, w, s
            <3>1. n \in Text
                  BY <2>1, NumberIs
            <3>2. PrefixMatches(Dotted(m, n), s) <=> m = c /\ PrefixMatches(n, Dotted(d, w))
                  BY <1>1, <2>1, <3>1, DottedPrefix
            <3>3. PrefixMatches(n, Dotted(d, w)) <=> n = d
                  BY <1>1, <2>1, NumberPrefix
            <3> QED BY <3>2, <3>3
      <2>5. (\A i \in DOMAIN ns : ns[i] = v.core[i]) <=> m = c /\ n = d
            BY <1>2, <1>5
      <2> QED BY <2>2, <2>3, <2>4, <2>5
<1> QED BY <1>2, <1>3, <1>4, <1>5

----------------------------------------------------------------------------
(* What is answered *)

\* A version that is found is taken for what it is.
LEMMA FoundIs ==
    ASSUME NEW f \in Founds
    PROVE  /\ f.version \in Versions \cup {NoVersion, NoText}
           /\ f.version \in Versions => /\ f.version \in Version
                                        /\ Bare(FoundText(f)) = Spelling(f.version)
           /\ f.version # NoText => /\ Parse(Bare(FoundText(f))) = f.version
                                    /\ FoundText(f) # NoText
           /\ f.version = NoText => FoundText(f) = NoText
<1>1. f \in FoundVersion
      BY RequirementAssumption DEF RequirementAssumption
<1>2. /\ f.how \in Manner /\ f.how.op = <<>> /\ f.rest \in Plain
      /\ f.version \in Versions \cup {NoVersion, NoText}
      /\ f.version = NoVersion => Parse(f.rest) = NoVersion
      BY <1>1 DEF FoundVersion
<1>3. CASE f.version = NoVersion
      <2>1. FoundText(f) = Written(f.how, f.rest) /\ f.version \notin Versions \cup {NoText}
            BY <1>3, RequirementAssumption DEF RequirementAssumption, FoundText
      <2>2. Bare(Written(f.how, f.rest)) = f.rest
            BY <1>2, BareAsWritten
      <2>3. FoundText(f) # NoText
            BY <1>2, <2>1, WrittenIsText, RequirementAssumption DEF RequirementAssumption, Plain
      <2> QED BY <1>2, <1>3, <2>1, <2>2, <2>3
<1>4. CASE f.version \in Versions
      <2>1. FoundText(f) = Written(f.how, Spelling(f.version)) /\ f.version \notin {NoVersion, NoText}
            BY <1>4, RequirementAssumption DEF RequirementAssumption, FoundText
      <2>2. f.version \in Version /\ Parse(Spelling(f.version)) = f.version
            BY <1>2, <1>4, RequirementAssumption DEF RequirementAssumption
      <2>3. Spelling(f.version) \in Plain
            BY <2>2, SpellingIsPlain
      <2>4. Bare(Written(f.how, Spelling(f.version))) = Spelling(f.version)
            BY <1>2, <2>3, BareAsWritten
      <2>5. FoundText(f) # NoText
            BY <1>2, <2>1, <2>3, WrittenIsText, RequirementAssumption DEF RequirementAssumption, Plain
      <2> QED BY <1>2, <1>4, <2>1, <2>2, <2>4, <2>5
<1>5. CASE f.version = NoText
      <2>1. f.version \notin Versions
            BY <1>5, RequirementAssumption DEF RequirementAssumption
      <2> QED BY <1>5, <2>1 DEF FoundText
<1> QED BY <1>2, <1>3, <1>4, <1>5

LEMMA RequestIs ==
    ASSUME NEW r \in Requests
    PROVE  /\ r.kind = "version"  => r \in VersionRequest
           /\ r.kind = "wildcard" => r \in WildcardRequest
           /\ r.kind = "nonsense" => r \in NonsenseRequest
<1>1. r \in VersionRequest \cup WildcardRequest \cup NonsenseRequest
      BY RequirementAssumption DEF RequirementAssumption
<1>2. /\ r \in VersionRequest => r.kind = "version"
      /\ r \in WildcardRequest => r.kind = "wildcard"
      /\ r \in NonsenseRequest => r.kind = "nonsense"
      BY DEF VersionRequest, WildcardRequest, NonsenseRequest
<1> QED BY <1>1, <1>2

WildcardAnswer(r, f) ==
    IF \/ r.how.op \notin {<<>>, <<"=">>}
       \/ Len(Joined(r.numbers)) >= PrefixSize THEN -1
    ELSE IF \A i \in DOMAIN r.numbers : r.numbers[i] = f.version.core[i] THEN 1 ELSE 0

LEMMA WildcardIsAnswered ==
    ASSUME NEW r \in Requests, r.kind = "wildcard", NEW f \in Founds, f.version \in Versions
    PROVE  check_manifest_dependency(RequestText(r), FoundText(f)) = WildcardAnswer(r, f)
<1> DEFINE t == RequestText(r)
           g == FoundText(f)
           body == Prefixed(r.numbers, r.rest)
<1>1. r \in WildcardRequest
      BY RequestIs
<1>2. /\ r.how \in Manner /\ r.numbers \in Seq(Number) /\ Len(r.numbers) <= 2
      BY <1>1 DEF WildcardRequest
<1>3. /\ body \in Plain /\ body # <<>> /\ body[1] \notin OpChars
      /\ HasWildcard(body) /\ BeforeWildcard(body) = Joined(r.numbers)
      BY <1>1, PrefixIsNumbers
<1>4. t = Written(r.how, body)
      BY DEF RequestText
<1>5. OpOf(t) = r.how.op /\ BodyOf(t) = body
      <2> HIDE DEF body, t
      <2> QED BY <1>2, <1>3, <1>4, ReadAsWritten
<1>6. f.version \in Version /\ Bare(g) = Spelling(f.version) /\ NoText \notin {t, g}
      <2>1. t # NoText
            BY <1>2, <1>3, <1>4, WrittenIsText, RequirementAssumption DEF RequirementAssumption, Plain
      <2>2. f.version # NoText
            BY RequirementAssumption DEF RequirementAssumption
      <2> QED BY <2>1, <2>2, FoundIs
<1> DEFINE p == Joined(r.numbers)
           same == \A i \in DOMAIN r.numbers : r.numbers[i] = f.version.core[i]
<1>7. p = <<>> \/ PrefixMatches(p, Bare(g)) <=> same
      BY <1>2, <1>6, NumbersMatch
<1>8. IsEquality(t) <=> r.how.op \in {<<"=">>, <<>>}
      BY <1>5 DEF IsEquality
<1>9. IsEquality(t) => WellOperated(t)
      BY DEF IsEquality, WellOperated, ValidOps
<1>10. WildcardVerdict(t, g) = IF ~IsEquality(t) \/ Len(p) >= PrefixSize THEN -1
                               ELSE IF same THEN 1 ELSE 0
       <2> HIDE DEF t, g, p, body, same
       <2> QED BY <1>3, <1>5, <1>7 DEF WildcardVerdict, p
<1>11. check_manifest_dependency(t, g) = IF WellOperated(t) THEN WildcardVerdict(t, g) ELSE -1
       <2> HIDE DEF t, g, body
       <2> QED BY <1>3, <1>5, <1>6 DEF check_manifest_dependency
<1>12. WildcardAnswer(r, f) = IF r.how.op \notin {<<>>, <<"=">>} \/ Len(p) >= PrefixSize THEN -1
                              ELSE IF same THEN 1 ELSE 0
       BY DEF WildcardAnswer
<1> HIDE DEF t, g, p, body, same
<1> QED BY <1>8, <1>9, <1>10, <1>11, <1>12 DEF t, g

VersionAnswer(r, f) ==
    IF f.version = NoVersion THEN -2
    ELSE IF Satisfies(f.version, r.version, IF r.how.op = <<>> THEN <<"=">> ELSE r.how.op) THEN 1 ELSE 0

LEMMA VersionIsAnswered ==
    ASSUME NEW r \in Requests, r.kind = "version", NEW f \in Founds, f.version # NoText,
           r.how.op \in ValidOps \cup {<<>>},
           \A i \in DOMAIN r.version.tag : r.version.tag[i] \notin Wildcards
    PROVE  check_manifest_dependency(RequestText(r), FoundText(f)) = VersionAnswer(r, f)
<1> DEFINE t == RequestText(r)
           g == FoundText(f)
           v == r.version
           body == Spelling(v)
           op == r.how.op
<1>1. r.how \in Manner /\ v \in Versions
      BY RequestIs DEF VersionRequest
<1>2. v \in Version /\ Parse(body) = v /\ v # NoVersion
      BY <1>1, RequirementAssumption DEF RequirementAssumption
<1>3. body \in Plain /\ body # <<>> /\ body[1] \in Numerals /\ body[1] \notin OpChars
      BY <1>2, SpellingIsPlain, CharsApart
<1>4. ~HasWildcard(body)
      BY <1>2, NoWildcardInVersion
<1>5. t = Written(r.how, body)
      BY DEF RequestText
<1>6. OpOf(t) = op /\ BodyOf(t) = body
      <2> HIDE DEF body, t
      <2> QED BY <1>1, <1>3, <1>5, ReadAsWritten
<1>7. Parse(Bare(g)) = f.version /\ NoText \notin {t, g}
      <2>1. t # NoText
            BY <1>1, <1>3, <1>5, WrittenIsText, RequirementAssumption DEF RequirementAssumption, Plain
      <2> QED BY <2>1, FoundIs
<1>8. WellOperated(t)
      BY <1>6 DEF WellOperated
<1> HIDE DEF t, g, body
<1>9. check_manifest_dependency(t, g) = PlainVerdict(t, g)
      BY <1>4, <1>6, <1>7, <1>8 DEF check_manifest_dependency
<1>10. PlainVerdict(t, g) =
           IF f.version = NoVersion THEN -2
           ELSE IF Satisfies(f.version, v, IF op = <<>> THEN <<"=">> ELSE op) THEN 1 ELSE 0
       <2> HIDE DEF v, op
       <2> QED BY <1>2, <1>3, <1>6, <1>7 DEF PlainVerdict
<1> QED BY <1>9, <1>10 DEF t, g, VersionAnswer

LEMMA NonsenseIsAnswered ==
    ASSUME NEW r \in Requests, r.kind = "nonsense", NEW f \in Founds
    PROVE  check_manifest_dependency(RequestText(r), FoundText(f)) = -1
<1> DEFINE t == RequestText(r)
           g == FoundText(f)
           body == r.rest
           op == r.how.op
<1>1. /\ r.how \in Manner /\ body \in Plain
      /\ op \in ValidOps \cup {<<>>} =>
             /\ \A i \in DOMAIN body : body[i] \notin Wildcards
             /\ body = <<>> \/ body[1] \notin Numerals \/ Parse(body) = NoVersion
      /\ body # <<>> /\ body[1] \in OpChars => op # <<>> /\ r.how.between # <<>>
      BY RequestIs DEF NonsenseRequest, NoRequirement
<1>2. t = Written(r.how, body)
      BY DEF RequestText
<1>3. OpOf(t) = op /\ BodyOf(t) = body
      <2> HIDE DEF t
      <2> QED BY <1>1, <1>2, ReadAsWritten
<1> HIDE DEF t, g, body, op
<1>4. CASE op \notin ValidOps \cup {<<>>}
      <2>1. ~WellOperated(t)
            BY <1>3, <1>4 DEF WellOperated
      <2> QED BY <2>1 DEF check_manifest_dependency, t
<1>5. CASE op \in ValidOps \cup {<<>>}
      <2>1. WellOperated(t) /\ ~HasWildcard(BodyOf(t))
            BY <1>1, <1>3, <1>5 DEF WellOperated, HasWildcard
      <2>2. PlainVerdict(t, g) = -1
            BY <1>1, <1>3, <1>5 DEF PlainVerdict
      <2>3. check_manifest_dependency(t, g) = -1
            BY <2>1, <2>2 DEF check_manifest_dependency
      <2> QED BY <2>3 DEF t, g
<1> QED BY <1>4, <1>5

\* A mod that gives no version.
LEMMA MissingIsAnswered ==
    ASSUME NEW r \in Requests, NEW f \in Founds, f.version = NoText
    PROVE  check_manifest_dependency(RequestText(r), FoundText(f)) = -1
<1>1. FoundText(f) = NoText
      BY FoundIs
<1> QED BY <1>1 DEF check_manifest_dependency

----------------------------------------------------------------------------
(* The specification *)

\* The verdict, once there is one, is what the function answers to the two texts.
Answered == /\ request \in Requests /\ found \in Founds
            /\ Checked => verdict = check_manifest_dependency(RequestText(request), FoundText(found))

THEOREM AlwaysAnswered == Spec => []Answered
<1>1. Init => Answered
      BY DEF Init, Answered, Checked
<1>2. Answered /\ [Next]_vars => Answered'
      BY DEF Answered, Checked, Next, Check, vars
<1> QED BY <1>1, <1>2, PTL DEF Spec

\* However a wildcard and a version are written, the numbers before the wildcard
\* are compared with those of the version, as numbers.
THEOREM NumbersAreCompared == Spec => []WildcardComparesNumbers
<1>1. Answered => WildcardComparesNumbers
      <2>1. SUFFICES ASSUME Answered, Checked, request.kind = "wildcard", found.version \in Versions
                     PROVE  verdict = WildcardAnswer(request, found)
            BY DEF WildcardComparesNumbers, WildcardAnswer
      <2> QED BY <2>1, WildcardIsAnswered DEF Answered
<1> QED BY <1>1, AlwaysAnswered, PTL

\* A requirement with an operator and a version is answered by the comparison of
\* the two versions.
THEOREM ComparedAsAsked == Spec => []ComparesAsAsked
<1>1. Answered => ComparesAsAsked
      <2>1. SUFFICES ASSUME Answered, Checked, request.kind = "version",
                            found.version # NoText, request.how.op \in ValidOps \cup {<<>>},
                            \A i \in DOMAIN request.version.tag : request.version.tag[i] \notin Wildcards
                     PROVE  verdict = VersionAnswer(request, found)
            BY DEF ComparesAsAsked, VersionAnswer
      <2> QED BY <2>1, VersionIsAnswered DEF Answered
<1> QED BY <1>1, AlwaysAnswered, PTL

\* A text that is no requirement is always reported, and so is a mod without a version.
THEOREM NonsenseAlwaysReported == Spec => []NonsenseIsReported
<1>1. Answered => NonsenseIsReported
      BY NonsenseIsAnswered, MissingIsAnswered DEF Answered, NonsenseIsReported
<1> QED BY <1>1, AlwaysAnswered, PTL
=============================================================================
