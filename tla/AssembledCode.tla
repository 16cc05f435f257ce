--------------------------- MODULE AssembledCode ----------------------------
(***************************************************************************)
(* What the assembler of Assembly.h makes of a line, and what the          *)
(* processor then makes of the word (core/include/telkin/Assembly.h).      *)
(*                                                                         *)
(* A job is a call of one of the functions, with the registers the word    *)
(* will find.  The properties say by the name of the function what has to  *)
(* come of it, in terms of the manual and of no encoding.                  *)
(***************************************************************************)
EXTENDS Processor, Assembler

CONSTANTS Jobs      \* [kind, name, suffix, args, gpr, cpu]

\* Operands that fit the fields of a mnemonic with a row: what does not fit is cut
\* without a word.
Suits(m, args) ==
    /\ m \in DOMAIN Table /\ args \in Seq(Int) /\ Len(args) = Len(Table[m].params)
    /\ \A i \in DOMAIN Table[m].params : args[i] \in Operand[Table[m].params[i]]

\* Operands a shorthand has a meaning for: pieces that are in the register, numbers it
\* can be given, registers that hold numbers where it adds, and not r0 where the
\* processor takes that for zero.
Pulled == {"extlwi", "extrwi", "inslwi", "insrwi"}
Shifted == {"rotlwi", "rotrwi", "slwi", "srwi", "clrlwi", "clrrwi"}
Piece(n, b) == n \in 1 .. 32 /\ b \in 0 .. 31 /\ b + n <= 32
Immediate == -(2^15) .. 2^15 - 1
Registers(x, n) == \A i \in 1 .. n : x[i] \in 0 .. 31
Compares == {"cmpwi", "cmplwi", "cmpw", "cmplw"}
HasMeaning(m, x, gpr) ==
    /\ x \in Seq(Int)
    /\ \/ /\ m \in Pulled
          /\ Len(x) = 5 /\ Registers(x, 2) /\ Piece(x[3], x[4]) /\ x[5] \in {0, 1}
       \/ /\ m = "clrlslwi"
          /\ Len(x) = 5 /\ Registers(x, 4) /\ x[4] <= x[3] /\ x[5] \in {0, 1}
       \/ /\ m \in Shifted
          /\ Len(x) = 4 /\ Registers(x, 3) /\ x[4] \in {0, 1}
       \/ /\ m = "rotlw"
          /\ Len(x) = 4 /\ Registers(x, 3) /\ gpr[x[3]] \in Int /\ x[4] \in {0, 1}
       \/ /\ m \in DOMAIN Negated \cup {"la"}
          /\ Len(x) = 3 /\ Registers(x, 2) /\ gpr[x[2]] \in Int
          /\ x[3] \in Immediate /\ (m # "la" => -x[3] \in Immediate)
          /\ m \notin {"subic", "subic_dot"} => x[2] # 0
       \/ m \in DOMAIN WithZero /\ Len(x) = 2 /\ Registers(x, 1) /\ x[2] \in Immediate
       \/ m \in DOMAIN Reversed /\ Len(x) = 4 /\ Registers(x, 3) /\ x[4] \in {0, 1}
       \/ m \in {"mr", "notr"} /\ Len(x) = 3 /\ Registers(x, 2) /\ x[3] \in {0, 1}
       \/ m \in DOMAIN Selected /\ Len(x) = 3 /\ Registers(x, 3) /\ x[2] # 0
       \/ m \in DOMAIN Tripled /\ Len(x) = 1 /\ Registers(x, 1)
       \/ m \in {"crmove", "crnot"} /\ Len(x) = 2 /\ Registers(x, 2)
       \/ /\ m \in Compares
          /\ Len(x) = 3 /\ Registers(x, 1) /\ gpr[x[1]] \in Int /\ x[3] \in 0 .. 7
          /\ CASE m = "cmpwi" -> x[2] \in Immediate
               [] m = "cmplwi" -> x[2] \in 0 .. 2^16 - 1
               [] m \in {"cmpw", "cmplw"} -> x[2] \in 0 .. 31 /\ gpr[x[2]] \in Int
       \/ m \in DOMAIN Synced \cup {"nop"} /\ Len(x) = 0
       \/ m = "mtcr" /\ Len(x) = 1 /\ Registers(x, 1)

\* The special registers with names of their own; those of a bank have numbers too.
Named == {<<r, n>> : r \in DOMAIN MovedTo \cup DOMAIN MovedFrom, n \in {0}} \cup (Banks \X (0 .. 3))

\* The branches and traps there are.  None that counts goes to the counter.
Steps == {"bdnz", "bdnzt", "bdnzf", "bdz", "bdzt", "bdzf"}
Reaches(to, bits) == to \in -(2^(bits - 1)) .. 2^(bits - 1) - 1 /\ to % 4 = 0
Endings == DOMAIN ToOffset \cup DOMAIN ToRegister
AddsUp(cpu) == cpu.cia \in Int /\ cpu.lr \in Int /\ cpu.ctr \in Int
Expressible(j) ==
    /\ j.kind = "plain" => Suits(j.name, j.args)
    /\ j.kind = "short" => HasMeaning(j.name, j.args, j.gpr)
    /\ j.kind = "move" =>
           /\ j.name \in {"mt", "mf"} /\ <<j.suffix, j.args[1]>> \in Named /\ j.args[2] \in 0 .. 31
           /\ j.suffix \in Banks \cup (IF j.name = "mt" THEN DOMAIN MovedTo ELSE DOMAIN MovedFrom)
    /\ j.kind = "typed" => j.name \in DOMAIN SystemCalls \cup DOMAIN RegisterHints
    /\ j.kind = "branch" =>
           /\ \/ j.name \in DOMAIN OnBit /\ j.args[1] \in 0 .. 31
              \/ j.name \in DOMAIN OnField /\ j.args[1] \in 0 .. 7
              \/ j.name \in DOMAIN OnCounter \cup {"b"}
           /\ j.suffix \in Endings /\ (j.suffix \in {"ctr", "ctrl"} => j.name \notin Steps)
           /\ Reaches(j.args[2], IF j.name = "b" THEN 26 ELSE 16)
           /\ AddsUp(j.cpu)
    /\ j.kind = "bc" =>
           /\ j.args[1] \in 0 .. 31 /\ j.args[2] \in 0 .. 31 /\ j.suffix \in Endings
           /\ j.suffix \in {"ctr", "ctrl"} => (j.args[1] \div 4) % 2 = 1
           /\ Reaches(j.args[3], 16)
           /\ AddsUp(j.cpu)
    /\ j.kind = "trap" =>
           /\ j.name \in DOMAIN TrapOnRegister
           /\ j.args[1] \in 0 .. 31 /\ j.gpr[j.args[1]] \in Int
           /\ IF j.suffix = "i" THEN j.args[2] \in -(2^15) .. 2^15 - 1
              ELSE j.args[2] \in 0 .. 31 /\ j.gpr[j.args[2]] \in Int
ASSUME JobsAssumption == \A j \in Jobs : Expressible(j)

VARIABLES
    job,
    stage,          \* "source", "word", "ran"
    word,
    did             \* what the processor did
asmVars == <<job, stage, word, did>>

AsmInit == /\ job \in Jobs /\ stage = "source" /\ word = <<0, 0>> /\ did = "nothing"

\* The call of a mnemonic with a row that a mnemonic without one comes to.
Inlined(j) ==
    CASE j.kind = "plain" -> <<j.name, j.args>>
      [] j.kind = "short" -> Expand(j.name, j.args)
      [] j.kind = "move" /\ j.name = "mt" -> MoveTo(j.suffix, j.args[1], j.args[2])
      [] j.kind = "move" /\ j.name = "mf" -> MoveFrom(j.suffix, j.args[1], j.args[2])
TypedWord(j) ==
    CASE j.kind = "typed" -> Word(IF j.name \in DOMAIN SystemCalls THEN SystemCalls[j.name]
                                  ELSE RegisterHints[j.name])
      [] j.kind = "branch" -> Branch(j.name, j.suffix, j.args[1], j.args[2])
      [] j.kind = "bc" -> GeneralBranch(j.suffix, j.args[1], j.args[2], j.args[3])
      [] j.kind = "trap" -> Trap(j.name, j.suffix = "i", j.args)

Assemble == /\ stage = "source"
            /\ IF job.kind \in {"plain", "short", "move"}
               THEN \E call \in {Inlined(job)} : \E f \in {FieldsOf(call[1], call[2])} :
                        word' = Formed(Table[call[1]], f)
               ELSE word' = TypedWord(job)
            /\ stage' = "word" /\ UNCHANGED <<job, did>>

\* What the processor makes of it, once it is decoded.
Done(instructions) ==
    CASE job.kind \in {"plain", "typed"} -> {[m \in instructions |-> Operands(word, m)]}
      [] job.kind \in {"short", "move"} -> {Effect(word, m, job.gpr, job.cpu.cr) : m \in instructions}
      [] job.kind \in {"branch", "bc"} -> {Branches(word, job.cpu)}
      [] job.kind = "trap" -> {Fires(word, job.gpr)}
Run == /\ stage = "word" /\ stage' = "ran"
       /\ did' \in Done(Instructions(word))
       /\ UNCHANGED <<job, word>>

AsmNext == Assemble \/ Run
AsmSpec == AsmInit /\ [][AsmNext]_asmVars

Ran(kinds) == stage = "ran" /\ job.kind \in kinds
----------------------------------------------------------------------------

\* The processor reads the word of a mnemonic as that instruction and no other,
\* with the operands it was given.
DecodesToItself ==
    Ran({"plain"}) => did = [m \in {job.name} |-> job.args]

\* The tests by their names; x is a bit or a field of the CR.
Met(test, x, cr, ctr) ==
    LET Set(flag) == 4 * x + flag \in cr
        lt == Set(0)  gt == Set(1)  eq == Set(2)  so == Set(3)
    IN  CASE test = "b" -> TRUE
          [] test = "bt" -> x \in cr            [] test = "bf" -> x \notin cr
          [] test = "bdnz" -> ctr # 1           [] test = "bdz" -> ctr = 1
          [] test = "bdnzt" -> ctr # 1 /\ x \in cr
          [] test = "bdnzf" -> ctr # 1 /\ x \notin cr
          [] test = "bdzt" -> ctr = 1 /\ x \in cr
          [] test = "bdzf" -> ctr = 1 /\ x \notin cr
          [] test = "blt" -> lt                 [] test \in {"ble", "bng"} -> ~gt
          [] test = "beq" -> eq                 [] test \in {"bge", "bnl"} -> ~lt
          [] test = "bgt" -> gt                 [] test = "bne" -> ~eq
          [] test \in {"bso", "bun"} -> so      [] test \in {"bns", "bnu"} -> ~so

\* What bc, bclr and bcctr are given for a test.
BoOf == [bt |-> 12, bf |-> 4, bdnz |-> 16, bdz |-> 18, bdnzt |-> 8, bdnzf |-> 0,
         bdzt |-> 10, bdzf |-> 2, b |-> 20]

BranchesAsNamed(test, x, to) ==
    LET c == job.cpu
        target == CASE job.suffix \in {"plain", "l"} -> c.cia + to
                    [] job.suffix \in {"a", "la"} -> to
                    [] job.suffix \in {"lr", "lrl"} -> c.lr
                    [] job.suffix \in {"ctr", "ctrl"} -> c.ctr
    IN  /\ did.nia = IF Met(test, x, c.cr, c.ctr) THEN target ELSE c.cia + 4
        /\ did.lr = IF job.suffix \in {"l", "la", "lrl", "ctrl"} THEN c.cia + 4 ELSE c.lr
        /\ did.ctr = IF test \in Steps THEN c.ctr - 1 ELSE c.ctr

TrapMeant(cond, x, y) ==
    CASE cond = "lt" -> x < y
      [] cond \in {"le", "ng"} -> x <= y
      [] cond = "eq" -> x = y
      [] cond \in {"ge", "nl"} -> x >= y
      [] cond = "gt" -> x > y
      [] cond = "ne" -> x # y
      [] cond = "llt" -> Unsigned(x, y)
      [] cond \in {"lle", "lng"} -> ~Unsigned(y, x)
      [] cond \in {"lge", "lnl"} -> ~Unsigned(x, y)
      [] cond = "lgt" -> Unsigned(y, x)

\* A branch goes where its name and offset say when the condition in its name holds,
\* on to the next instruction when not, links and counts when and only when
\* the name says so; a trap fires exactly when the condition in its name holds.
ConditionalsAsNamed ==
    /\ Ran({"branch"}) => BranchesAsNamed(job.name, job.args[1], job.args[2])
    /\ Ran({"bc"}) => \A test \in DOMAIN BoOf :
           BoOf[test] = job.args[1] => BranchesAsNamed(test, job.args[2], job.args[3])
    /\ Ran({"trap"}) =>
           did = TrapMeant(job.name, job.gpr[job.args[1]],
                           IF job.suffix = "i" THEN job.args[2] ELSE job.gpr[job.args[2]])

\* What a shorthand is for, on its operands.  The bits of registers are numbered from the
\* left: bits lo to hi come from bits of s that many further right, the others from t or
\* from nowhere.
Placed(gpr, s, lo, hi, further) ==
    [i \in 0 .. 31 |-> IF lo <= i /\ i <= hi THEN gpr[s][i + further] ELSE Nought]
Inserted(gpr, s, t, lo, hi, further) ==
    [i \in 0 .. 31 |-> IF lo <= i /\ i <= hi THEN gpr[s][i + further] ELSE gpr[t][i]]
Turned(gpr, s, k) == [i \in 0 .. 31 |-> gpr[s][(i + k) % 32]]
PlacingMeans(m, x, gpr) ==
    LET n == IF m = "clrlslwi" THEN x[4] ELSE x[3]
        b == IF m = "clrlslwi" THEN x[3] ELSE x[4]
    IN  CASE m = "extlwi" -> Placed(gpr, x[2], 0, n - 1, b)
          [] m = "extrwi" -> Placed(gpr, x[2], 32 - n, 31, b - (32 - n))
          [] m = "inslwi" -> Inserted(gpr, x[2], x[1], b, b + n - 1, -b)
          [] m = "insrwi" -> Inserted(gpr, x[2], x[1], b, b + n - 1, (32 - n) - b)
          [] m = "rotlwi" -> Turned(gpr, x[2], n)
          [] m = "rotrwi" -> Turned(gpr, x[2], -n)
          [] m = "rotlw" -> Turned(gpr, x[2], gpr[x[3]])
          [] m = "slwi" -> Placed(gpr, x[2], 0, 31 - n, n)
          [] m = "srwi" -> Placed(gpr, x[2], n, 31, -n)
          [] m = "clrlwi" -> Placed(gpr, x[2], n, 31, 0)
          [] m = "clrrwi" -> Placed(gpr, x[2], 0, 31 - n, 0)
          [] m = "clrlslwi" -> Placed(gpr, x[2], b - n, 31 - n, n)
Rotating == Pulled \cup Shifted \cup {"rotlw", "clrlslwi"}
Chooses == [isellt |-> 0, iselgt |-> 1, iseleq |-> 2]     \* by this bit of field 0
MeantValue(m, x, gpr, cr) ==
    CASE m \in Rotating -> PlacingMeans(m, x, gpr)
      [] m \in {"subi", "subic", "subic_dot"} -> gpr[x[2]] - x[3]
      [] m = "subis" -> gpr[x[2]] - x[3] * 2^16
      [] m \in DOMAIN Reversed -> gpr[x[2]] - gpr[x[3]]
      [] m = "la" -> gpr[x[2]] + x[3]
      [] m = "li" -> x[2]
      [] m = "lis" -> x[2] * 2^16
      [] m = "mr" -> <<"or", {gpr[x[2]]}>>
      [] m = "notr" -> <<"nor", {gpr[x[2]]}>>
      [] m \in DOMAIN Selected -> IF Chooses[m] \in cr THEN gpr[x[2]] ELSE gpr[x[3]]
      [] m = "crset" -> cr \cup {x[1]}
      [] m = "crclr" -> cr \ {x[1]}
      [] m = "crmove" -> IF x[2] \in cr THEN cr \cup {x[1]} ELSE cr \ {x[1]}
      [] m = "crnot" -> IF x[2] \in cr THEN cr \ {x[1]} ELSE cr \cup {x[1]}
      [] m = "cmpwi" -> Order(gpr[x[1]], x[2])
      [] m = "cmplwi" -> UnsignedOrder(gpr[x[1]], x[2])
      [] m = "cmpw" -> Order(gpr[x[1]], gpr[x[2]])
      [] m = "cmplw" -> UnsignedOrder(gpr[x[1]], gpr[x[2]])
      [] m = "nop" -> gpr[0]
      [] m = "mtcr" -> gpr[x[1]]
      [] m \in DOMAIN Synced -> m

\* Where that goes: nop leaves in r0 what is there; mtcr writes all of the CR's fields.
OnCrBits == DOMAIN Tripled \cup {"crmove", "crnot"}
MeantTarget(m, x) ==
    CASE m \in Compares -> <<"crfs", {x[3]}>>
      [] m = "mtcr" -> <<"crfs", 0 .. 7>>
      [] m \in OnCrBits -> <<"cr">>
      [] m \in DOMAIN Synced -> <<"storage">>
      [] m = "nop" -> <<"gpr", 0>>
      [] OTHER -> <<"gpr", x[1]>>

\* The bits set beside: a last parameter asks for CR0, a dot too; c and o in the name are
\* for the carry and the overflow.
Recording == Rotating \cup DOMAIN Reversed \cup {"mr", "notr"}
MeantBeside(m, x) ==
    {bit \in {"CR0", "CA", "OV"} :
        \/ bit = "CR0" /\ m = "subic_dot"
        \/ bit = "CR0" /\ m \in Recording /\ x[Len(x)] = 1
        \/ bit = "CA" /\ m \in {"subic", "subic_dot", "subc", "subco"}
        \/ bit = "OV" /\ m \in {"subo", "subco"}}

ShorthandMeans(m, x, gpr, cr) ==
    [to |-> MeantTarget(m, x), value |-> MeantValue(m, x, gpr, cr), also |-> MeantBeside(m, x)]

\* A move is between a register and the special one of its name and number.
MoveMeans(way, special, r, gpr) ==
    IF way = "mt" THEN [to |-> <<"spr", special>>, value |-> gpr[r], also |-> {}]
                  ELSE [to |-> <<"gpr", r>>, value |-> <<"spr", special>>, also |-> {}]

\* The instructions that are typed as numbers.
TypedMeans ==
    [yield |-> [orr |-> <<27, 27, 27, 0>>], mdoio |-> [orr |-> <<29, 29, 29, 0>>],
     mdoom |-> [orr |-> <<30, 30, 30, 0>>], trap |-> [tw |-> <<31, 0, 0>>],
     rfi |-> [rfi |-> <<>>], sc |-> [sc |-> <<>>]]

\* A mnemonic that stands for another one with computed operands does what its
\* name says, at every width and position, writes the register or field it was
\* given and no other, and records if it was asked to; a move is about the special
\* register that has its name; what is typed as a number is the instruction of its name.
ShorthandsAsNamed ==
    /\ Ran({"short"}) => did = ShorthandMeans(job.name, job.args, job.gpr, job.cpu.cr)
    /\ Ran({"move"}) =>
           did = MoveMeans(job.name, <<job.suffix, job.args[1]>>, job.args[2], job.gpr)
    /\ Ran({"typed"}) => did = TypedMeans[job.name]
=============================================================================
