---------------------------- MODULE MCConversion ----------------------------
(***************************************************************************)
(* One call of a conversion or of a C library function.  The strings have  *)
(* up to three characters of two, and a count may say that they are not    *)
(* terminated; the texts of strtol have up to four characters, among them  *)
(* digits on both sides of the limits of a long of five bits.              *)
(***************************************************************************)
EXTENDS Conversion, Libc

Of2(n) == UNION {[1 .. k -> {97, 98}] : k \in 0 .. n}
Strings == {s \o <<NUL>> : s \in Of2(3)}
Digits == {32, 45, 43, 48, 49, 50, 53, 54, 55, 120, 97, 70, 122}   \* " -+012567xaFz"
Texts == {s \o <<NUL>> : s \in UNION {[1 .. k -> Digits] : k \in 0 .. 4}}
Chars == {97, 98, NUL, 97 + 256, 97 - 256}
CallOf(f, S1, S2, N) == [f : {f}, s1 : S1, s2 : S2, n : N]

MCCalls ==
    CallOf("strlen", Strings, {<<>>}, {0}) \cup
    CallOf("memchr", Of2(3) \cup Strings, {<<>>}, Chars) \cup
    CallOf("strchr", Strings, {<<>>}, Chars) \cup
    UNION {CallOf(f, Strings, Strings, {0}) : f \in {"strstr", "strcat", "strcmp"}} \cup
    CallOf("strpbrk", Strings \cup {NoString}, Strings \cup {NoString}, {0}) \cup
    CallOf("strncpy", Strings, {<<>>}, 0 .. 5) \cup
    CallOf("strcpy", Strings, {<<>>}, {0}) \cup
    CallOf("strncmp", Strings, Strings, 0 .. 5) \cup
    UNION {CallOf(f, [1 .. n -> {97, 98}], [1 .. n -> {97, 98}], {n})
           : f \in {"strncmp", "memcmp"}, n \in 0 .. 3} \cup
    CallOf("strtol", Texts, {<<>>}, {0, 8, 10, 16, 36}) \cup
    CallOf("toupper", {<<>>}, {<<>>}, -1 .. 255)

MCInit == ConvInit /\ LibcInit
MCNext == \/ call = NoCall /\ ConvNext /\ UNCHANGED libcVars
          \/ function = "none" /\ LibcNext /\ UNCHANGED convVars
MCSpec == MCInit /\ [][MCNext]_<<convVars, libcVars>>
=============================================================================
