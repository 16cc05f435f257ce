--------------------------- MODULE MCRequirement ----------------------------
(***************************************************************************)
(* Versions of three numbers with or without a pre-release tag; what the   *)
(* semver library does with them.  It compares the numbers, then the tags, *)
(* none being the highest; ~ and ^ keep the first two numbers or the first *)
(* one.                                                                    *)
(***************************************************************************)
EXTENDS Requirement

MCChars == OpChars \cup Wildcards \cup Numerals \cup
           {Blank, ".", "v", "V", "-", "/", "n", "e", "t", "r", "c", "a"}

N0 == <<"0">>  N1 == <<"1">>  N10 == <<"1", "0">>
ValueOf(n) == IF n = N10 THEN 10 ELSE IF n = N1 THEN 1 ELSE 0
Next1 == <<"-", "n", "e", "x", "t">>
Rc == <<"-", "r", "c">>
Rank(tag) == CASE tag = Next1 -> 1 [] tag = Rc -> 2 [] OTHER -> 3
MCVersions == [core : {N1, N10} \X {N1, N10} \X {N0, N1}, tag : {<<>>, Rc, Next1}]

MCParse(s) == IF \E v \in MCVersions : Spelling(v) = s
              THEN CHOOSE v \in MCVersions : Spelling(v) = s ELSE NoVersion

Less(v, w) ==
    \/ \E i \in 1 .. 3 : /\ ValueOf(v.core[i]) < ValueOf(w.core[i])
                          /\ \A j \in 1 .. i - 1 : v.core[j] = w.core[j]
    \/ v.core = w.core /\ Rank(v.tag) < Rank(w.tag)
MCSatisfies(v, w, op) ==
    CASE op = <<"=">>      -> v = w
      [] op = <<"!", "=">> -> v # w
      [] op = <<">">>      -> Less(w, v)
      [] op = <<">", "=">> -> ~Less(v, w)
      [] op = <<"<">>      -> Less(v, w)
      [] op = <<"<", "=">> -> ~Less(w, v)
      [] op = <<"~">>      -> ~Less(v, w) /\ v.core[1] = w.core[1] /\ v.core[2] = w.core[2]
      [] op = <<"^">>      -> ~Less(v, w) /\ v.core[1] = w.core[1]
      [] OTHER             -> FALSE

BadOps == {<<"=", ">">>, <<"<", "=", ">">>, <<">", ">", ">", ">", "=">>}
Manners(ops) == {[before |-> b, op |-> op, between |-> b, v |-> v, after |-> a] :
                    b \in {<<>>, <<" ">>}, op \in ops, v \in {<<>>, <<"v">>}, a \in {<<>>, <<" ">>}}
Capital == [before |-> <<>>, op |-> <<"=">>, between |-> <<>>, v |-> <<"V">>, after |-> <<>>]

MCRequests ==
    [kind : {"version"}, how : Manners(ValidOps \cup {<<>>}) \cup {Capital}, version : MCVersions]
    \cup
    [kind : {"wildcard"}, how : Manners({<<>>, <<"=">>, <<"^">>}) \cup {Capital},
     numbers : {<<>>, <<N1>>, <<N10>>, <<N1, N1>>, <<N1, N10>>, <<N10, N1>>, <<N10, N10>>},
     rest : {<<"*">>, <<"x">>, <<"X">>, <<"*", ".", "*">>}]
    \cup
    [kind : {"nonsense"}, how : Manners(BadOps), rest : {<<"1", ".", "1", ".", "0">>, <<"*">>}]
    \cup
    {r \in [kind : {"nonsense"}, how : Manners(ValidOps \cup {<<>>}),
            rest : {<<>>, <<"-", "1">>, <<"=", "1">>, <<"1", ".", "1">>}] : r \in NonsenseRequest}

MCFounds ==
    {[how |-> h, version |-> v, rest |-> <<>>] : h \in Manners({<<>>}), v \in MCVersions} \cup
    {[how |-> h, version |-> NoVersion, rest |-> r] :
        h \in Manners({<<>>}), r \in {<<>>, <<"n", "/", "a">>}} \cup
    {[how |-> h, version |-> NoText, rest |-> <<>>] : h \in Manners({<<>>})}
=============================================================================
