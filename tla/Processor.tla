----------------------------- MODULE Processor ------------------------------
(***************************************************************************)
(* The PowerPC processor's reading of an instruction word, from its        *)
(* manual: where the fields of each form are, what each instruction's      *)
(* opcodes are and which of its operands is in which field, which          *)
(* instruction a word is, and what those do that Assembly.h has other      *)
(* names for.  A word is <<opcode, the other 26 bits>>; a register holds a *)
(* number, or 32 bits that say where each of them came from.               *)
(*                                                                         *)
(* Nothing here is this repository's but the names of the instructions,    *)
(* which are those of the functions of Assembly.h, and the order of their  *)
(* operands, which is that of the functions' parameters.                   *)
(***************************************************************************)
EXTENDS Integers, Sequences, FiniteSets

\* Of each form: its fields, the lowest bit and the width of each.
Layout ==
    LET T == <<21, 5>>  A == <<16, 5>>  B == <<11, 5>>  C == <<6, 5>>  XO == <<1, 10>>  RC == <<0, 1>>
    IN  [D |-> [t |-> T, a |-> A, d |-> <<0, 16>>],
         X |-> [t |-> T, a |-> A, b |-> B, xo |-> XO, rc |-> RC],
         XO |-> [t |-> T, a |-> A, b |-> B, xo |-> XO, rc |-> RC],
         A |-> [t |-> T, a |-> A, b |-> B, c |-> C, xo |-> <<1, 5>>, rc |-> RC],
         M |-> [t |-> T, a |-> A, b |-> B, c |-> C, e |-> <<1, 5>>, rc |-> RC],
         XL |-> [t |-> T, a |-> A, b |-> B, xo |-> XO, rc |-> RC],
         XFX_spr |-> [t |-> T, spr |-> <<11, 10>>, xo |-> XO, rc |-> RC],
         XFX_crm |-> [t |-> T, z1 |-> <<20, 1>>, crm |-> <<12, 8>>, z2 |-> <<11, 1>>, xo |-> XO, rc |-> RC],
         XFL |-> [z1 |-> <<25, 1>>, fm |-> <<17, 8>>, z2 |-> <<16, 1>>, b |-> B, xo |-> XO, rc |-> RC],
         mtfsfi |-> [t |-> T, a |-> A, imm4 |-> <<12, 4>>, z |-> <<11, 1>>, xo |-> XO, rc |-> RC],
         DW |-> [t |-> T, a |-> A, w |-> <<15, 1>>, i |-> <<12, 3>>, d |-> <<0, 12>>],
         XW |-> [t |-> T, a |-> A, b |-> B, w |-> <<10, 1>>, i |-> <<7, 3>>, xo |-> <<1, 6>>, rc |-> RC]]

Bits(word, low, n) == (word[2] \div 2^low) % 2^n
Field(word, form, f) == Bits(word, Layout[form][f][1], Layout[form][f][2])

----------------------------------------------------------------------------
\* The manual, opcode by opcode.  A book has the instructions of an opcode that
\* take the same operands, and their extended opcodes; those with OE set are
\* instructions of their own.  An operand is called by the field it is in, and by
\* another name where the field holds it in another way: "d" a signed number, "u" an
\* unsigned one, "d12" a short one, "crt" and "cra" a field of the CR, "sr" a
\* segment register.

Book(op, form, operands, xos) ==
    [m \in DOMAIN xos |-> [form |-> form, params |-> operands, op |-> op, xo |-> xos[m], rc |-> 0]]
\* One that is told by its opcode alone.
Single(form, operands, ops) ==
    [m \in DOMAIN ops |-> [form |-> form, params |-> operands, op |-> ops[m], xo |-> 0, rc |-> 0]]

OnImmediates ==
    LET RT == "t"  RS == "t"  RA == "a"  SI == "d"  UI == "u"  D == "d"  BF == "crt"  TO == "t"
        FRT == "t"
    IN  {Single("D", <<TO, RA, SI>>, [twi |-> 3]),
         Single("D", <<RT, RA, SI>>, [addi |-> 14, addis |-> 15, addic |-> 12, addic_dot |-> 13,
                                      subfic |-> 8, mulli |-> 7]),
         Single("D", <<RA, SI, BF>>, [cmpi |-> 11]), Single("D", <<RA, UI, BF>>, [cmpli |-> 10]),
         Single("D", <<RA, RS, UI>>, [andi |-> 28, andis |-> 29, ori |-> 24, oris |-> 25,
                                      xori |-> 26, xoris |-> 27]),
         Single("D", <<RT, RA, D>>, [lbz |-> 34, lbzu |-> 35, lhz |-> 40, lhzu |-> 41, lha |-> 42,
                                     lhau |-> 43, lwz |-> 32, lwzu |-> 33, stb |-> 38, stbu |-> 39,
                                     sth |-> 44, sthu |-> 45, stw |-> 36, stwu |-> 37, lmw |-> 46,
                                     stmw |-> 47]),
         Single("D", <<FRT, RA, D>>, [lfs |-> 48, lfsu |-> 49, lfd |-> 50, lfdu |-> 51, stfs |-> 52,
                                      stfsu |-> 53, stfd |-> 54, stfdu |-> 55])}

Rotations ==
    LET RA == "a"  RS == "t"  SH == "b"  MB == "c"  ME == "e"  Rc == "rc"
    IN  {Single("M", <<RA, RS, SH, MB, ME, Rc>>, [rlwinm |-> 21, rlwnm |-> 23, rlwimi |-> 20])}

Opcode17 == {Book(17, "XL", <<>>, [sc |-> 1])}      \* the SC form, all reserved but its 1

Opcode19 ==
    LET BF == "crt"  BFA == "cra"  BT == "t"  BA == "a"  BB == "b"
    IN  {Book(19, "XL", <<>>, [isync |-> 150]), Book(19, "XL", <<>>, [rfi |-> 50]),
         Book(19, "XL", <<BF, BFA>>, [mcrf |-> 0]),
         Book(19, "XL", <<BT, BA, BB>>,
              [crand |-> 257, crxor |-> 193, cror |-> 449, crnand |-> 225, crnor |-> 33,
               crandc |-> 129, creqv |-> 289, crorc |-> 417])}

Arithmetic31 ==
    LET RT == "t"  RA == "a"  RB == "b"  BC == "c"  Rc == "rc"
    IN  {Book(31, "XO", <<RT, RA, RB, Rc>>,
              [add |-> 266, addo |-> 778, addc |-> 10, addco |-> 522, subfc |-> 8, subfco |-> 520,
               adde |-> 138, addeo |-> 650, subfe |-> 136, subfeo |-> 648, subf |-> 40,
               subfo |-> 552, mullw |-> 235, mullwo |-> 747, mulhw |-> 75, mulhwu |-> 11,
               divw |-> 491, divwo |-> 1003, divwu |-> 459, divwuo |-> 971]),
         Book(31, "XO", <<RT, RA, Rc>>,
              [addme |-> 234, addmeo |-> 746, subfme |-> 232, subfmeo |-> 744, addze |-> 202,
               addzeo |-> 714, subfze |-> 200, subfzeo |-> 712, neg |-> 104, nego |-> 616]),
         Book(31, "A", <<RT, RA, RB, BC>>, [isel |-> 15])}

Logic31 ==
    LET RA == "a"  RS == "t"  RB == "b"  BF == "crt"  TO == "t"  Rc == "rc"
    IN  {Book(31, "X", <<RA, RB, BF>>, [cmp |-> 0, cmpl |-> 32]),
         Book(31, "X", <<RA, RS, RB, Rc>>, [andr |-> 28, xorr |-> 316, orr |-> 444, nand |-> 476,
                                            norr |-> 124, andc |-> 60, eqv |-> 284, orc |-> 412]),
         Book(31, "X", <<RA, RS, RB, Rc>>, [slw |-> 24, srw |-> 536, srawi |-> 824, sraw |-> 792]),
         Book(31, "X", <<RA, RS, Rc>>, [extsb |-> 954, extsh |-> 922, cntlzw |-> 26]),
         Book(31, "X", <<TO, RA, RB>>, [tw |-> 4])}

Storage31 ==
    LET RT == "t"  RS == "t"  FRT == "t"  FRS == "t"  RA == "a"  RB == "b"  L == "t"
        conditional == [form |-> "X", params |-> <<RS, RA, RB>>, op |-> 31, xo |-> 150, rc |-> 1]
    IN  {Book(31, "X", <<RT, RA, RB>>, [lbzx |-> 87, lbzux |-> 119, lhzx |-> 279, lhzux |-> 311,
                                        lhax |-> 343, lhaux |-> 375, lwzx |-> 23, lwzux |-> 55,
                                        stbx |-> 215, stbux |-> 247, sthx |-> 407, sthux |-> 439,
                                        stwx |-> 151, stwux |-> 183, lhbrx |-> 790, lwbrx |-> 534,
                                        sthbrx |-> 918, stwbrx |-> 662, lswi |-> 597, lswx |-> 533,
                                        stswi |-> 725, stswx |-> 661]),
         Book(31, "X", <<FRT, RA, RB>>, [lfsx |-> 535, lfsux |-> 567, lfdx |-> 599, lfdux |-> 631,
                                         stfsx |-> 663, stfsux |-> 695, stfdx |-> 727,
                                         stfdux |-> 759]),
         Book(31, "X", <<FRS, RA, RB>>, [stfiwx |-> 983]), Book(31, "X", <<RT, RA, RB>>, [lwarx |-> 20]),
         [stwcx |-> conditional], Book(31, "X", <<L>>, [sync |-> 598]), Book(31, "X", <<>>, [eieio |-> 854]),
         Book(31, "X", <<RA, RB>>, [dcbz |-> 1014, dcbst |-> 54, dcbf |-> 86, dcbi |-> 470,
                                    icbi |-> 982]),
         Book(31, "X", <<RT, RA, RB>>, [eciwx |-> 310, ecowx |-> 438])}

System31 ==
    LET RT == "t"  RS == "t"  RB == "b"  BF == "crt"  SPR == "spr"  FXM == "crm"  SR == "sr"
    IN  {Book(31, "X", <<RS>>, [mtmsr |-> 146, mfmsr |-> 83, mfcr |-> 19]),
         Book(31, "X", <<BF>>, [mcrxr |-> 512]),
         Book(31, "XFX_spr", <<SPR, RS>>, [mtspr |-> 467]),
         Book(31, "XFX_spr", <<RT, SPR>>, [mfspr |-> 339]),
         Book(31, "XFX_crm", <<FXM, RS>>, [mtcrf |-> 144]),
         Book(31, "X", <<SR, RS>>, [mtsr |-> 210]), Book(31, "X", <<RT, SR>>, [mfsr |-> 595]),
         Book(31, "X", <<RT, RB>>, [mtsrin |-> 242, mfsrin |-> 659]),
         Book(31, "X", <<RB>>, [tlbie |-> 306]), Book(31, "X", <<>>, [tlbsync |-> 566])}

FloatingPoint ==
    LET FRT == "t"  FRA == "a"  FRB == "b"  FRC == "c"  BF == "crt"  BFA == "cra"  BT == "t"
        FLM == "fm"  U == "imm4"  Rc == "rc"
    IN  {Book(59, "A", <<FRT, FRA, FRB, Rc>>, [fadds |-> 21, fsubs |-> 20, fdivs |-> 18]),
         Book(59, "A", <<FRT, FRA, FRC, Rc>>, [fmuls |-> 25]),
         Book(59, "A", <<FRT, FRB, Rc>>, [fres |-> 24]),
         Book(59, "A", <<FRT, FRA, FRC, FRB, Rc>>,
              [fmadds |-> 29, fmsubs |-> 28, fnmadds |-> 31, fnmsubs |-> 30]),
         Book(63, "A", <<FRT, FRA, FRB, Rc>>, [fadd |-> 21, fsub |-> 20, fdiv |-> 18]),
         Book(63, "A", <<FRT, FRA, FRC, Rc>>, [fmul |-> 25]),
         Book(63, "A", <<FRT, FRB, Rc>>, [frsqrte |-> 26]),
         Book(63, "A", <<FRT, FRA, FRC, FRB, Rc>>, [fsel |-> 23]),
         Book(63, "A", <<FRT, FRA, FRC, FRB, Rc>>,
              [fmadd |-> 29, fmsub |-> 28, fnmadd |-> 31, fnmsub |-> 30]),
         Book(63, "X", <<FRT, FRB, Rc>>, [frsp |-> 12, fctiw |-> 14, fctiwz |-> 15]),
         Book(63, "X", <<FRT, FRB, Rc>>, [fmr |-> 72, fabs |-> 264, fneg |-> 40, fnabs |-> 136]),
         Book(63, "X", <<BF, FRA, FRB>>, [fcmpu |-> 0, fcmpo |-> 32]),
         Book(63, "X", <<BT, Rc>>, [mffs |-> 583, mtfsb0 |-> 70, mtfsb1 |-> 38]),
         Book(63, "X", <<BF, BFA>>, [mcrfs |-> 64]),
         Book(63, "mtfsfi", <<BF, U, Rc>>, [mtfsfi |-> 134]),
         Book(63, "XFL", <<FLM, FRB, Rc>>, [mtfsf |-> 711])}

\* Those of this processor alone: on two numbers at a time.
Pairs ==
    LET FRT == "t"  FRA == "a"  FRB == "b"  FRC == "c"  RA == "a"  RB == "b"  BF == "crt"
        D12 == "d12"  W == "w"  I == "i"  Rc == "rc"
    IN  {Single("DW", <<FRT, RA, D12, W, I>>,
                [psq_l |-> 56, psq_lu |-> 57, psq_st |-> 60, psq_stu |-> 61]),
         Book(4, "XW", <<FRT, RA, RB, W, I>>,
              [psq_lux |-> 38, psq_lx |-> 6, psq_stux |-> 39, psq_stx |-> 7]),
         Book(4, "X", <<FRT, FRB, Rc>>,
              [ps_mr |-> 72, ps_abs |-> 264, ps_nabs |-> 136, ps_neg |-> 40]),
         Book(4, "X", <<FRT, FRA, FRB, Rc>>, [ps_merge00 |-> 528, ps_merge01 |-> 560,
                                              ps_merge10 |-> 592, ps_merge11 |-> 624]),
         Book(4, "X", <<BF, FRA, FRB>>, [ps_cmpo0 |-> 32, ps_cmpo1 |-> 96,
                                         ps_cmpu0 |-> 0, ps_cmpu1 |-> 64]),
         Book(4, "X", <<RA, RB>>, [dcbz_l |-> 1014]),
         Book(4, "A", <<FRT, FRA, FRB, Rc>>, [ps_add |-> 21, ps_sub |-> 20, ps_div |-> 18]),
         Book(4, "A", <<FRT, FRA, FRC, Rc>>, [ps_mul |-> 25, ps_muls0 |-> 12, ps_muls1 |-> 13]),
         Book(4, "A", <<FRT, FRB, Rc>>, [ps_res |-> 24, ps_rsqrte |-> 26]),
         Book(4, "A", <<FRT, FRA, FRC, FRB, Rc>>,
              [ps_madd |-> 29, ps_msub |-> 28, ps_nmadd |-> 31, ps_nmsub |-> 30, ps_sel |-> 23,
               ps_madds0 |-> 14, ps_madds1 |-> 15, ps_sum0 |-> 10, ps_sum1 |-> 11])}

Books == OnImmediates \cup Rotations \cup Opcode17 \cup Opcode19 \cup Arithmetic31 \cup Logic31 \cup
         Storage31 \cup System31 \cup FloatingPoint \cup Pairs
Manual == [m \in UNION {DOMAIN book : book \in Books} |->
               (CHOOSE book \in Books : m \in DOMAIN book)[m]]

----------------------------------------------------------------------------
\* The field an operand is in.
Place(operand) == CASE operand \in {"u", "d12"} -> "d"
                    [] operand = "crt" -> "t"
                    [] operand \in {"cra", "sr"} -> "a"
                    [] OTHER -> operand

\* The value an operand has in a word; the halves of an SPR's number are swapped.
Extends(x, bits) == IF x >= 2^(bits - 1) THEN x - 2^bits ELSE x
Read(word, form, operand) ==
    LET x == Field(word, form, Place(operand))
    IN  CASE operand = "d" -> Extends(x, 16)
          [] operand = "d12" -> Extends(x, 12)
          [] operand = "spr" -> (x % 32) * 32 + x \div 32
          [] operand \in {"crt", "cra"} -> x \div 4
          [] OTHER -> x

\* The fields that operands are in.
Open(row) == {Place(row.params[i]) : i \in DOMAIN row.params}

\* The word is instruction m, whatever its operands: what no operand can be is
\* as m has it.
IsInstruction(word, m) ==
    LET row == Manual[m]
    IN  /\ \A f \in DOMAIN Layout[row.form] \ Open(row) :
               Field(word, row.form, f) = (CASE f = "xo" -> row.xo [] f = "rc" -> row.rc [] OTHER -> 0)
        /\ \A i \in DOMAIN row.params :
               row.params[i] \in {"crt", "cra"} =>
                   Field(word, row.form, Place(row.params[i])) % 4 = 0

\* What an operand can be.
Operand == [t |-> 0 .. 31, a |-> 0 .. 31, b |-> 0 .. 31, c |-> 0 .. 31, e |-> 0 .. 31,
            d |-> -(2^15) .. 2^15 - 1, u |-> 0 .. 2^16 - 1, d12 |-> -(2^11) .. 2^11 - 1,
            rc |-> 0 .. 1, w |-> 0 .. 1, i |-> 0 .. 7, crt |-> 0 .. 7, cra |-> 0 .. 7,
            sr |-> 0 .. 15, spr |-> 0 .. 1023, crm |-> 0 .. 255, fm |-> 0 .. 255, imm4 |-> 0 .. 15]

\* The manual says each thing once, in fields its forms have, and tells the instructions
\* of an opcode apart by what both have of an extended one.
XoSize(form) == CASE form \in {"D", "M", "DW"} -> 1
                  [] form = "A" -> 32
                  [] form = "XW" -> 64
                  [] OTHER -> 1024
Sound(row) ==
    /\ row.form \in DOMAIN Layout /\ row.op \in 0 .. 63
    /\ row.xo \in 0 .. XoSize(row.form) - 1 /\ row.rc \in {0, 1}
    /\ row.params \in Seq(DOMAIN Operand)
    /\ \A i, j \in DOMAIN row.params : Place(row.params[i]) = Place(row.params[j]) => i = j
    /\ Open(row) \subseteq DOMAIN Layout[row.form]
    /\ row.rc = 1 => "rc" \notin Open(row)
    /\ \A i \in DOMAIN row.params : Place(row.params[i]) = "d" =>
           (row.params[i] = "d12" <=> row.form = "DW")
    /\ row.form = "mtfsfi" => row.xo = 134 /\ "a" \notin Open(row)
    /\ row.form \in {"XFX_spr", "XFX_crm", "XW"} => row.rc = 0 /\ "rc" \notin Open(row)
    /\ row.form = "XW" => row.op = 4
ToldApart(row, other) ==
    LET n == XoSize(row.form)
        k == XoSize(other.form)
        size == IF n < k THEN n ELSE k
    IN  row.op = other.op => row.xo % size # other.xo % size
ASSUME ManualAssumption ==
    /\ \A m \in DOMAIN Manual : Sound(Manual[m])
    /\ \A m, o \in DOMAIN Manual : m # o => ToldApart(Manual[m], Manual[o])
    /\ \A book \in Books : \A m \in DOMAIN book : Manual[m] = book[m]

OfOpcode == [op \in 0 .. 63 |-> {m \in DOMAIN Manual : Manual[m].op = op}]
Instructions(word) == {m \in OfOpcode[word[1]] : IsInstruction(word, m)}
Operands(word, m) == [i \in DOMAIN Manual[m].params |-> Read(word, Manual[m].form, Manual[m].params[i])]

----------------------------------------------------------------------------
\* What an instruction does that Assembly.h has another name for: what it writes
\* where, on a register file gpr and the set cr of the CR's bits that are set (bit 0
\* is the highest), and which bits it sets beside.  The summary overflow bit is left
\* out, with what is copied of it.

Nought == <<"nought", 0>>       \* a bit that is cleared
Masked(i, mb, me) == IF mb <= me THEN mb <= i /\ i <= me ELSE mb <= i \/ i <= me
Unsigned(x, y) == IF (x < 0) = (y < 0) THEN x < y ELSE y < 0     \* x < y without signs
Order(x, y) == IF x < y THEN "lt" ELSE IF x = y THEN "eq" ELSE "gt"
UnsignedOrder(x, y) == IF Unsigned(x, y) THEN "lt" ELSE IF x = y THEN "eq" ELSE "gt"

Barriers == <<"sync", "lwsync", "ptesync">>

\* The special register of a number, for one way or the other: <<name, number in its bank>>.
Special(n, written) ==
    CASE n = 1 -> <<"xer", 0>>      [] n = 8 -> <<"lr", 0>>        [] n = 9 -> <<"ctr", 0>>
      [] n = 18 -> <<"dsisr", 0>>   [] n = 19 -> <<"dar", 0>>      [] n = 22 -> <<"dec", 0>>
      [] n = 25 -> <<"sdr1", 0>>    [] n = 26 -> <<"srr0", 0>>     [] n = 27 -> <<"srr1", 0>>
      [] n = 282 -> <<"ear", 0>>    [] n \in 272 .. 275 -> <<"sprg", n - 272>>
      [] n \in {528, 530, 532, 534} -> <<"ibatu", (n - 528) \div 2>>
      [] n \in {529, 531, 533, 535} -> <<"ibatl", (n - 529) \div 2>>
      [] n \in {536, 538, 540, 542} -> <<"dbatu", (n - 536) \div 2>>
      [] n \in {537, 539, 541, 543} -> <<"dbatl", (n - 537) \div 2>>
      [] n = 284 /\ written -> <<"tbl", 0>>     [] n = 285 /\ written -> <<"tbu", 0>>
      [] n = 268 /\ ~written -> <<"tbl", 0>>    [] n = 269 /\ ~written -> <<"tbu", 0>>
      [] n = 287 /\ ~written -> <<"pvr", 0>>
      [] OTHER -> <<"another", n>>

IntoA == {"rlwinm", "rlwnm", "rlwimi", "orr", "norr", "ori"}
IntoT == {"addi", "addis", "addic", "addic_dot", "subf", "subfo", "subfc", "subfco", "isel", "mfspr"}
BitLogic == {"creqv", "crxor", "cror", "crnor"}
Target(word, m) ==
    LET R(operand) == Read(word, Manual[m].form, operand)
    IN  CASE m \in IntoA -> <<"gpr", R("a")>>
          [] m \in IntoT -> <<"gpr", R("t")>>
          [] m \in {"cmpi", "cmpli", "cmp", "cmpl"} -> <<"crfs", {R("crt")}>>
          [] m = "mtcrf" -> <<"crfs", {f \in 0 .. 7 : (R("crm") \div 2^(7 - f)) % 2 = 1}>>
          [] m \in BitLogic -> <<"cr">>
          [] m = "mtspr" -> <<"spr", Special(R("spr"), TRUE)>>
          [] m = "sync" -> <<"storage">>
          [] OTHER -> <<"other", m>>

Computes(word, m, gpr, cr) ==
    LET R(operand) == Read(word, Manual[m].form, operand)
        Rotate(n, other) == [i \in 0 .. 31 |-> IF Masked(i, R("c"), R("e"))
                                               THEN gpr[R("t")][(i + n) % 32] ELSE other[i]]
        Sets(flag) == IF flag THEN cr \cup {R("t")} ELSE cr \ {R("t")}
        a == R("a") \in cr
        b == R("b") \in cr
    IN  CASE m = "rlwinm" -> Rotate(R("b"), [i \in 0 .. 31 |-> Nought])
          [] m = "rlwnm" -> Rotate(gpr[R("b")] % 32, [i \in 0 .. 31 |-> Nought])
          [] m = "rlwimi" -> Rotate(R("b"), gpr[R("a")])
          [] m \in {"addi", "addis"} ->
                 (IF R("a") = 0 THEN 0 ELSE gpr[R("a")]) + R("d") * (IF m = "addi" THEN 1 ELSE 2^16)
          [] m \in {"addic", "addic_dot"} -> gpr[R("a")] + R("d")
          [] m \in {"subf", "subfo", "subfc", "subfco"} -> gpr[R("b")] - gpr[R("a")]
          [] m = "orr" -> <<"or", {gpr[R("t")], gpr[R("b")]}>>
          [] m = "norr" -> <<"nor", {gpr[R("t")], gpr[R("b")]}>>
          [] m = "ori" -> IF R("u") = 0 THEN gpr[R("t")] ELSE <<"or", {gpr[R("t")], R("u")}>>
          [] m = "isel" -> IF R("c") \notin cr THEN gpr[R("b")]
                           ELSE IF R("a") = 0 THEN 0 ELSE gpr[R("a")]
          [] m = "creqv" -> Sets(a <=> b)
          [] m = "crxor" -> Sets(a # b)
          [] m = "cror" -> Sets(a \/ b)
          [] m = "crnor" -> Sets(~a /\ ~b)
          [] m = "cmpi" -> Order(gpr[R("a")], R("d"))
          [] m = "cmpli" -> UnsignedOrder(gpr[R("a")], R("u"))
          [] m = "cmp" -> Order(gpr[R("a")], gpr[R("b")])
          [] m = "cmpl" -> UnsignedOrder(gpr[R("a")], gpr[R("b")])
          [] m \in {"mtcrf", "mtspr"} -> gpr[R("t")]
          [] m = "mfspr" -> <<"spr", Special(R("spr"), FALSE)>>
          [] m = "sync" -> IF R("t") \in 0 .. 2 THEN Barriers[R("t") + 1] ELSE "reserved"
          [] OTHER -> "other"

\* CR0 when the instruction records, the carry, the overflow.
Beside(word, m) ==
    {bit \in {"CR0", "CA", "OV"} :
        \/ bit = "CR0" /\ m = "addic_dot"
        \/ bit = "CR0" /\ "rc" \in Open(Manual[m]) /\ Read(word, Manual[m].form, "rc") = 1
        \/ bit = "CA" /\ m \in {"addic", "addic_dot", "subfc", "subfco"}
        \/ bit = "OV" /\ m \in {"subfo", "subfco"}}

Effect(word, m, gpr, cr) ==
    [to |-> Target(word, m), value |-> Computes(word, m, gpr, cr), also |-> Beside(word, m)]

----------------------------------------------------------------------------
\* Branches and traps.  cpu: the address of the instruction, LR, CTR and CR.

\* The bits of BO: 16 whatever the CR, 8 the CR bit must be set, 4 whatever CTR
\* (and it stays), 2 CTR must have become zero.
Branches(word, cpu) ==
    LET bo == Bits(word, 21, 5)
        BoBit(n) == (bo \div n) % 2 = 1
        ctr == IF word[1] = 18 \/ BoBit(4) THEN cpu.ctr ELSE cpu.ctr - 1
        taken == \/ word[1] = 18
                 \/ /\ BoBit(4) \/ ((ctr = 0) <=> BoBit(2))
                    /\ BoBit(16) \/ (Bits(word, 16, 5) \in cpu.cr <=> BoBit(8))
        offset == IF word[1] = 18 THEN Extends(Bits(word, 2, 24), 24) * 4
                  ELSE Extends(Bits(word, 2, 14), 14) * 4
        target == CASE word[1] = 19 /\ Bits(word, 1, 10) = 16 -> cpu.lr
                    [] word[1] = 19 /\ Bits(word, 1, 10) = 528 -> cpu.ctr
                    [] word[1] \in {16, 18} /\ Bits(word, 1, 1) = 1 -> offset
                    [] word[1] \in {16, 18} /\ Bits(word, 1, 1) = 0 -> cpu.cia + offset
    IN  [nia |-> IF taken THEN target ELSE cpu.cia + 4,
         lr |-> IF Bits(word, 0, 1) = 1 THEN cpu.cia + 4 ELSE cpu.lr,
         ctr |-> ctr]

Fires(word, gpr) ==
    LET to == Bits(word, 21, 5)
        a == gpr[Bits(word, 16, 5)]
        b == IF word[1] = 3 THEN Extends(Bits(word, 0, 16), 16) ELSE gpr[Bits(word, 11, 5)]
    IN  \/ (to \div 16) % 2 = 1 /\ a < b
        \/ (to \div 8) % 2 = 1 /\ a > b
        \/ (to \div 4) % 2 = 1 /\ a = b
        \/ (to \div 2) % 2 = 1 /\ Unsigned(a, b)
        \/ to % 2 = 1 /\ Unsigned(b, a)
=============================================================================
