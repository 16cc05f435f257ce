----------------------------- MODULE MCAssembly -----------------------------
(***************************************************************************)
(* Every function of Assembly.h on operands at and between their limits;   *)
(* every branch and trap on conditions that hold and that do not; and, in  *)
(* behaviours of their own, assembly functions among compiled ones.        *)
(***************************************************************************)
EXTENDS AssembledCode, NakedCode

Values == [t |-> {0, 9, 31}, a |-> {0, 9, 31}, b |-> {0, 9, 31}, c |-> {0, 9, 31},
           e |-> {0, 9, 31}, d |-> {-32768, -1, 9, 32767}, u |-> {0, 9, 32768, 65535},
           d12 |-> {-2048, -1, 9, 2047}, rc |-> {0, 1}, w |-> {0, 1}, i |-> {0, 5, 7},
           crt |-> {0, 3, 7}, cra |-> {0, 3, 7}, sr |-> {0, 9, 15}, spr |-> {8, 32, 287, 1023},
           crm |-> {1, 128, 255}, fm |-> {1, 128, 255}, imm4 |-> {0, 9, 15}]
Args(params) ==
    LET Of[i \in 0 .. Len(params)] ==
            IF i = 0 THEN {<<>>} ELSE {Append(s, v) : s \in Of[i - 1], v \in Values[params[i]]}
    IN  Of[Len(params)]

NoGpr == [r \in {0, 5, 6, 7, 9, 31} |-> r]
NoCpu == [cia |-> 4096, lr |-> 8192, ctr |-> 12288, cr |-> {}]
Job(kind, name, suffix, args, g, c) ==
    [kind |-> kind, name |-> name, suffix |-> suffix, args |-> args, gpr |-> g, cpu |-> c]

Plain == UNION {{Job("plain", m, "", x, NoGpr, NoCpu) : x \in Args(Table[m].params)} : m \in DOMAIN Table}
Typed == {Job("typed", m, "", <<>>, NoGpr, NoCpu) : m \in DOMAIN (RegisterHints @@ SystemCalls)}
Moves == {j \in {Job("move", way, r[1], <<r[2], g>>, NoGpr, NoCpu) :
                     way \in {"mt", "mf"}, r \in Named, g \in {0, 31}} :
              j.suffix \in Banks \cup (IF j.name = "mt" THEN DOMAIN MovedTo ELSE DOMAIN MovedFrom)}

\* The bits of a rotated register carry its number; rotlw finds its count in r7.
BitGpr == [r \in 5 .. 6 |-> [i \in 0 .. 31 |-> <<"bit", 32 * r + i>>]]
CountGpr(n) == [r \in 5 .. 7 |-> IF r = 7 THEN n ELSE BitGpr[r]]
Counts == 0 .. 31
Pieces == {<<n, b>> \in (1 .. 32) \X Counts : b + n <= 32}
Short(m, x, g, set) == Job("short", m, "", x, g, [NoCpu EXCEPT !.cr = set])
Rotates ==
    {Short(m, <<5, 6, p[1], p[2], 0>>, BitGpr, {}) :
         m \in {"extlwi", "extrwi", "inslwi", "insrwi"}, p \in Pieces} \cup
    {Short(m, <<5, 6, n, 1>>, BitGpr, {}) :
         m \in {"rotlwi", "rotrwi", "slwi", "srwi", "clrlwi", "clrrwi"}, n \in Counts} \cup
    {Short("clrlslwi", <<5, 6, p[2], p[1], 0>>, BitGpr, {}) :
         p \in {q \in Counts \X Counts : q[1] <= q[2]}} \cup
    {Short("rotlw", <<5, 6, 7, 0>>, CountGpr(n), {}) : n \in {0, 1, 31, 32, 33, 63}}
Immediates == {-32767, -1, 0, 1, 32767}
Arithmetic ==
    {Short(m, <<5, 6, d>>, NoGpr, {}) : m \in DOMAIN Negated \cup {"la"}, d \in Immediates} \cup
    {Short(m, <<5, d>>, [NoGpr EXCEPT ![0] = 7], {}) : m \in DOMAIN WithZero, d \in Immediates} \cup
    {Short(m, <<5, x, y, rc>>, NoGpr, {}) : m \in DOMAIN Reversed, rc \in {0, 1}, x \in {0, 9}, y \in {0, 31}} \cup
    {Short(m, <<5, 6, rc>>, NoGpr, {}) : m \in {"mr", "notr"}, rc \in {0, 1}} \cup
    {Short(m, <<5, 6, 7>>, NoGpr, set) : m \in DOMAIN Selected, set \in SUBSET (0 .. 3)} \cup
    {Short(m, <<x>>, NoGpr, set) : m \in DOMAIN Tripled, x \in {0, 31}, set \in SUBSET {0, 31}} \cup
    {Short(m, <<x, y>>, NoGpr, set) :
         m \in {"crmove", "crnot"}, x \in {0, 31}, y \in {0, 9}, set \in SUBSET {0, 9, 31}} \cup
    {Short(m, <<>>, NoGpr, {}) : m \in DOMAIN Synced \cup {"nop"}} \cup
    {Short("mtcr", <<g>>, NoGpr, {}) : g \in {0, 31}}

\* One of less, greater and equal, with or without overflow, in field x.
FieldOutcomes(x) == {{4 * x + flag} \cup so : flag \in 0 .. 2, so \in {{}, {4 * x + 3}}}
Cpus(sets, counts) == {[cia |-> 40960, lr |-> 8192, ctr |-> n, cr |-> set] : set \in sets, n \in counts}
Offsets == {-32768, -4, 8, 32764}
FarOffsets == {-(2^25), -4, 8, 2^25 - 4}
OnFields ==
    {Job("branch", test, s, <<x, to>>, NoGpr, c) :
         test \in DOMAIN OnField, s \in Endings, x \in {0}, to \in Offsets, c \in Cpus(FieldOutcomes(0), {1})} \cup
    {Job("branch", test, s, <<x, to>>, NoGpr, c) :
         test \in DOMAIN OnField, s \in Endings, x \in {7}, to \in {8}, c \in Cpus(FieldOutcomes(7), {1})}
OnBits ==
    {Job("branch", test, s, <<x, to>>, NoGpr, c) :
         test \in DOMAIN OnBit, s \in Endings, x \in {0, 31}, to \in Offsets,
         c \in Cpus(SUBSET {0, 31}, {1, 2, 12288})}
OnCounters ==
    {Job("branch", test, s, <<0, to>>, NoGpr, c) :
         test \in DOMAIN OnCounter, s \in Endings, to \in Offsets, c \in Cpus({{}}, {1, 2, 12288})}
Counted == {j \in OnBits \cup OnCounters :
                j.suffix \in {"ctr", "ctrl"} => j.name \in {"bt", "bf"}}
Plainly == {Job("branch", "b", s, <<0, to>>, NoGpr, c) :
                s \in Endings, to \in FarOffsets, c \in Cpus({{}}, {12288})}
General == {Job("bc", "bc", s, <<BoOf[test], x, to>>, NoGpr, c) :
                test \in DOMAIN BoOf, s \in Endings, x \in {0, 31}, to \in {-4, 32764},
                c \in Cpus(SUBSET {0, 31}, {1, 2})}
GeneralOnes == {j \in General : j.suffix \in {"ctr", "ctrl"} => (j.args[1] \div 4) % 2 = 1}

\* Numbers on both sides of zero and of 2^31. An immediate as the processor reads
\* one: from -2^15 to 2^15 - 1 (Assembly.h takes up to 2^16 - 1 for the unsigned tests).
Numbers == {-2147483647, -32768, -1, 0, 1, 32767, 2147483647}
TrapGprs == {[r \in {3, 31} |-> IF r = 3 THEN x ELSE y] : x \in Numbers, y \in Numbers}
TrapJobs ==
    {Job("trap", cond, "", <<3, 31>>, g, NoCpu) : cond \in DOMAIN TrapOnRegister, g \in TrapGprs} \cup
    {Job("trap", cond, "i", <<3, y>>, g, NoCpu) :
         cond \in DOMAIN TrapOnImmediate, y \in {n \in Numbers : n \in -32768 .. 32767},
         g \in {h \in TrapGprs : h[31] = 0}}

\* Both orders, by both ideas of order, on the limits of the immediates.
Comparisons ==
    {Short(m, <<3, y, field>>, g, {}) : m \in {"cmpwi"}, y \in {-32768, -1, 0, 1, 32767},
         field \in {0, 7}, g \in {h \in TrapGprs : h[31] = 0}} \cup
    {Short(m, <<3, y, field>>, g, {}) : m \in {"cmplwi"}, y \in {0, 1, 32767, 32768, 65535},
         field \in {0, 7}, g \in {h \in TrapGprs : h[31] = 0}} \cup
    {Short(m, <<3, 31, field>>, g, {}) : m \in {"cmpw", "cmplw"}, field \in {0, 7}, g \in TrapGprs}

MCJobs == Comparisons \cup Plain \cup Typed \cup Moves \cup Rotates \cup Arithmetic \cup OnFields \cup Counted \cup
          Plainly \cup GeneralOnes \cup TrapJobs

NoJob == /\ job = [kind |-> "none"] /\ stage = "none" /\ word = <<0, 0>> /\ did = "nothing"
NoCode == /\ gpr = <<>> /\ sp = 0 /\ lr = 0 /\ ctr = 0 /\ cr = 0 /\ mem = <<>>
          /\ at = <<"none", 0, 0>> /\ calls = <<>>

MCInit == (AsmInit /\ NoCode) \/ (NakedInit /\ NoJob)
MCNext == \/ AsmNext /\ UNCHANGED nakedVars
          \/ NakedNext /\ UNCHANGED asmVars
          \/ stage = "ran" /\ UNCHANGED <<asmVars, nakedVars>>
MCSpec == MCInit /\ [][MCNext]_<<asmVars, nakedVars>>
=============================================================================
