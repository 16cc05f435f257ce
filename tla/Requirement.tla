---------------------------- MODULE Requirement -----------------------------
(***************************************************************************)
(* check_manifest_dependency: does the version of an installed mod satisfy *)
(* the version requirement another mod states (core/src/Main.cpp)?         *)
(*                                                                         *)
(* Texts are sequences of characters.  The semver library is external:     *)
(* Parse yields the version a text spells, or NoVersion, and Satisfies     *)
(* compares two versions with an operator.  A mod may give no version.     *)
(*                                                                         *)
(* A request and a version that is found are what their authors mean, and  *)
(* how they write it; the numbers of a version are written as they are.    *)
(***************************************************************************)
EXTENDS Integers, Sequences

CONSTANTS
    Parse(_),
    Satisfies(_, _, _),
    NoVersion,
    NoText,         \* a null pointer
    PrefixSize,     \* the size of the buffer for a wildcard's prefix: 256
    Chars,          \* the characters there are
    Versions,       \* the versions there are
    Requests,       \* version requirements of mods
    Founds          \* versions of installed mods

Blank == " "
OpChars == {">", "=", "<", "~", "^", "!"}
Wildcards == {"*", "x", "X"}
Numerals == {"0", "1", "2", "3", "4", "5", "6", "7", "8", "9"}
ValidOps == {<<">", "=">>, <<"<", "=">>, <<">">>, <<"<">>, <<"=">>, <<"~">>, <<"^">>,
             <<"!", "=">>}

----------------------------------------------------------------------------
(* What is meant, and how it is written *)

Text == Seq(Chars)
Blanks == Seq({Blank})
\* What is in front of a version, and between it and an operator.
Manner == [before : Blanks, op : Seq(OpChars), between : Blanks, v : {<<>>, <<"v">>, <<"V">>},
           after : Blanks]
Written(how, body) == how.before \o (how.op \o (how.between \o (how.v \o (how.after \o body))))
\* Text that does not begin like that.
Plain == {s \in Text : s # <<>> => s[1] \notin {Blank, "v", "V"}}

Number == Seq(Numerals) \ {<<>>}
Version == [core : Number \X Number \X Number, tag : Text]
Spelling(v) == v.core[1] \o (<<".">> \o (v.core[2] \o (<<".">> \o (v.core[3] \o v.tag))))

VersionRequest == [kind : {"version"}, how : Manner, version : Versions]

\* At most two numbers, with a dot behind each; whatever follows the wildcard.
WildcardRequest == [kind : {"wildcard"}, how : Manner, numbers : {ns \in Seq(Number) : Len(ns) <= 2},
                    rest : {s \in Text : s # <<>> /\ s[1] \in Wildcards}]
Joined(ns) == CASE Len(ns) = 0 -> <<>>
                [] Len(ns) = 1 -> ns[1]
                [] Len(ns) = 2 -> ns[1] \o (<<".">> \o ns[2])
Prefixed(ns, rest) == IF ns = <<>> THEN rest ELSE Joined(ns) \o (<<".">> \o rest)

\* An operator that is none, or no version behind it.  (With an x or * in it the
\* text would be a wildcard.)
NoRequirement(how, rest) ==
    how.op \in ValidOps \cup {<<>>} =>
        /\ \A i \in DOMAIN rest : rest[i] \notin Wildcards
        /\ rest = <<>> \/ rest[1] \notin Numerals \/ Parse(rest) = NoVersion
NonsenseRequest ==
    {r \in [kind : {"nonsense"}, how : Manner, rest : Plain] :
        /\ NoRequirement(r.how, r.rest)
        /\ r.rest # <<>> /\ r.rest[1] \in OpChars => r.how.op # <<>> /\ r.how.between # <<>>}

RequestText(r) ==
    Written(r.how, CASE r.kind = "version"  -> Spelling(r.version)
                     [] r.kind = "wildcard" -> Prefixed(r.numbers, r.rest)
                     [] r.kind = "nonsense" -> r.rest)

FoundVersion == {f \in [how : Manner, version : Versions \cup {NoVersion, NoText}, rest : Plain] :
                    f.how.op = <<>> /\ (f.version = NoVersion => Parse(f.rest) = NoVersion)}
FoundText(f) == IF f.version = NoText THEN NoText
                ELSE Written(f.how, IF f.version = NoVersion THEN f.rest ELSE Spelling(f.version))

ASSUME RequirementAssumption ==
    /\ PrefixSize \in Nat
    /\ OpChars \cup Wildcards \cup Numerals \cup {Blank, ".", "v", "V"} \subseteq Chars
    /\ Versions \subseteq Version /\ NoVersion \notin Versions
    /\ NoText \notin Text \cup Versions \cup {NoVersion}
    /\ \A v \in Versions : Parse(Spelling(v)) = v
    /\ Requests \subseteq VersionRequest \cup WildcardRequest \cup NonsenseRequest
    /\ Founds \subseteq FoundVersion

----------------------------------------------------------------------------
(* The code *)

\* How many characters of C a text starts with, and the text without them.
Run(s, C) == CHOOSE k \in 0 .. Len(s) : /\ \A i \in 1 .. k : s[i] \in C
                                        /\ k < Len(s) => s[k + 1] \notin C
From(s, i) == SubSeq(s, i, Len(s))
Skip(s, C) == From(s, Run(s, C) + 1)

\* One v or V, and blanks after it.
SkipV(s) == Skip(IF s # <<>> /\ s[1] \in {"v", "V"} THEN Tail(s) ELSE s, {Blank})

\* (A variant with a bug: the v stays.)
BareWithV(found) == Skip(found, {Blank})

\* A version string without what may be in front of the version.
Bare(found) == SkipV(Skip(found, {Blank}))

\* The operator of a requirement, = if there is none, and the version it is for.
OpOf(req) == SubSeq(Skip(req, {Blank}), 1, Run(Skip(req, {Blank}), OpChars))
BodyOf(req) == SkipV(Skip(Skip(Skip(req, {Blank}), OpChars), {Blank}))

\* (A variant with a bug: only the length of the operator is checked.)
OperatorFits(req) == Len(OpOf(req)) <= 4

WellOperated(req) == OpOf(req) \in ValidOps \cup {<<>>}
IsEquality(req) == OpOf(req) \in {<<"=">>, <<>>}

\* strpbrk(p, "*xX") sees any x in the text.
HasWildcard(body) == \E i \in DOMAIN body : body[i] \in Wildcards

\* What comes before the wildcard, without the dots at its end.
BeforeWildcard(body) ==
    LET w == CHOOSE i \in DOMAIN body :
                 body[i] \in Wildcards /\ \A j \in 1 .. i - 1 : body[j] \notin Wildcards
        k == CHOOSE k \in 0 .. w - 1 : /\ \A j \in k + 1 .. w - 1 : body[j] = "."
                                       /\ k > 0 => body[k] # "."
    IN  SubSeq(body, 1, k)

\* (A variant with a bug: 1.* takes 10 for a 1.)
PrefixStarts(prefix, version) ==
    Len(prefix) <= Len(version) /\ SubSeq(version, 1, Len(prefix)) = prefix

\* The prefix stands at the start of the version and ends where a number ends.
PrefixMatches(prefix, version) ==
    /\ Len(prefix) <= Len(version) /\ SubSeq(version, 1, Len(prefix)) = prefix
    /\ \/ Len(version) = Len(prefix)
       \/ version[Len(prefix) + 1] = "."

WildcardVerdict(req, found) ==
    LET prefix == BeforeWildcard(BodyOf(req))
    IN  CASE ~IsEquality(req) \/ Len(prefix) >= PrefixSize -> -1
          [] OTHER -> IF prefix = <<>> \/ PrefixMatches(prefix, Bare(found)) THEN 1 ELSE 0

PlainVerdict(req, found) ==
    LET body == BodyOf(req)
        op   == IF OpOf(req) = <<>> THEN <<"=">> ELSE OpOf(req)
    IN  CASE body = <<>> \/ body[1] \notin Numerals \/ Parse(body) = NoVersion -> -1
          [] OTHER -> IF Parse(Bare(found)) = NoVersion THEN -2
                      ELSE IF Satisfies(Parse(Bare(found)), Parse(body), op) THEN 1 ELSE 0

\* 1 and 0 for yes and no, -1 for a bad requirement, -2 for a bad version.
check_manifest_dependency(req, found) ==
    IF NoText \in {req, found} \/ ~WellOperated(req) THEN -1
    ELSE IF HasWildcard(BodyOf(req)) THEN WildcardVerdict(req, found) ELSE PlainVerdict(req, found)

----------------------------------------------------------------------------

VARIABLES request, found, verdict
vars == <<request, found, verdict>>

Init == request \in Requests /\ found \in Founds /\ verdict = 9

Check == /\ verdict = 9
         /\ verdict' = check_manifest_dependency(RequestText(request), FoundText(found))
         /\ UNCHANGED <<request, found>>

Next == Check
Spec == Init /\ [][Next]_vars

Checked == verdict # 9

\* 1.* asks for the versions whose first number is 1, 1.10.x for those whose
\* first two are 1 and 10, * for all of them: numbers are compared as numbers,
\* however both texts are decorated.  Only = can be asked with a wildcard, and of
\* a prefix only as much as the buffer holds.
WildcardComparesNumbers ==
    Checked /\ request.kind = "wildcard" /\ found.version \in Versions =>
        verdict = IF \/ request.how.op \notin {<<>>, <<"=">>}
                     \/ Len(Joined(request.numbers)) >= PrefixSize THEN -1
                  ELSE IF \A i \in DOMAIN request.numbers :
                              request.numbers[i] = found.version.core[i] THEN 1 ELSE 0

\* A requirement with an operator and a version is answered by the comparison
\* of the two versions, no operator being =; a version of an installed mod that is
\* none is reported.
ComparesAsAsked ==
    LET op == request.how.op
    IN  /\ Checked /\ request.kind = "version" /\ op \in ValidOps \cup {<<>>}
        /\ found.version # NoText
        /\ \A i \in DOMAIN request.version.tag : request.version.tag[i] \notin Wildcards
        => verdict = IF found.version = NoVersion THEN -2
                     ELSE IF Satisfies(found.version, request.version,
                                       IF op = <<>> THEN <<"=">> ELSE op)
                     THEN 1 ELSE 0

\* A requirement that is none is never met, nor silently unmet, and none is by a mod that
\* gives no version.
NonsenseIsReported ==
    Checked /\ (request.kind = "nonsense" \/ found.version = NoText) => verdict = -1

\* "Built-in support for complex version requirements": a mod of exactly the
\* version that is asked for satisfies the requirement.
SameVersionSatisfies ==
    Checked /\ request.kind = "version" /\ request.how.op = <<"=">>
    /\ request.version = found.version => verdict = 1
=============================================================================
