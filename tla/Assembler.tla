----------------------------- MODULE Assembler ------------------------------
(***************************************************************************)
(* The compile-time assembler of core/include/telkin/Assembly.h: one       *)
(* function per PowerPC mnemonic, from its parameters to the instruction   *)
(* word.  A word is <<opcode, the other 26 bits>>, its parts or-ed         *)
(* together as in the code; they never overlap, so + stands for |.         *)
(*                                                                         *)
(* A mnemonic is a row of a table: the form it uses, the field of the      *)
(* instruction each parameter goes to, in the parameters' order, and its   *)
(* opcodes.  Where the name says something of the value, a parameter is    *)
(* "u" (16 bits unsigned), "crt" or "cra" (a field of the CR).             *)
(***************************************************************************)
EXTENDS Integers, Sequences, TLC

Word(n) == <<n \div 2^26, n % 2^26>>    \* an instruction typed as a number
Low(x, bits) == x % 2^bits              \* x & (2^bits - 1), of negative x too
TowardZero(x, y) == IF x < 0 THEN -((-x) \div y) ELSE x \div y
s16(x) == Low(x + 2^15, 16) - 2^15
u8(x) == Low(x, 8)

----------------------------------------------------------------------------
\* The forms.

Registers3(t, a, b) == Low(t, 5) * 2^21 + Low(a, 5) * 2^16 + Low(b, 5) * 2^11

I_form(op, li, aa, lk) == <<op, Low(li, 24) * 4 + aa * 2 + lk>>
B_form(op, bo, bi, bd, aa, lk) == <<op, Registers3(bo, bi, 0) + Low(bd, 14) * 4 + aa * 2 + lk>>
D_form(op, t, a, d) == <<op, Registers3(t, a, 0) + Low(d, 16)>>
X_form(op, t, a, b, xo, rc) == <<op, Registers3(t, a, b) + Low(xo, 10) * 2 + rc>>
XO_form(op, t, a, b, oe, xo, rc) ==
    <<op, Registers3(t, a, b) + oe * 2^10 + Low(xo, 9) * 2 + rc>>
A_form(op, t, a, b, c, xo, rc) ==
    <<op, Registers3(t, a, b) + Low(c, 5) * 2^6 + Low(xo, 5) * 2 + rc>>
M_form(op, t, a, sh, mb, me, rc) ==
    <<op, Registers3(t, a, sh) + Low(mb, 5) * 2^6 + Low(me, 5) * 2 + rc>>
XL_form(op, t, a, b, xo, lk) == <<op, Registers3(t, a, b) + Low(xo, 10) * 2 + lk>>
XFX_spr_form(op, t, spr, xo) == X_form(op, t, Low(spr, 5), Low(spr \div 2^5, 5), xo, 0)
XFX_crm_form(op, t, crm, xo) == <<op, Low(t, 5) * 2^21 + crm * 2^12 + Low(xo, 10) * 2>>
XFL_form(op, fm, b, xo, rc) ==
    <<op, fm * 2^17 + Low(b, 5) * 2^11 + Low(xo, 10) * 2 + rc>>
DW_form(op, t, a, d, w, i) ==
    <<op, Registers3(t, a, 0) + w * 2^15 + Low(i, 3) * 2^12 + Low(d, 12)>>
XW_form(xo, t, a, b, w, i) ==
    <<4, Registers3(t, a, b) + w * 2^10 + Low(i, 3) * 2^7 + Low(xo, 6) * 2>>

cr_field(cr) == Low(cr, 3) * 4
branch_disp(base, offset) == Word(base + Low(TowardZero(offset, 4), 14) * 4)
branch_bi(base, bi, offset) == branch_disp(base + Low(bi, 5) * 2^16, offset)
\* (A variant with a bug: shifted like a bit's number.)
branch_cr_as_bit(base, cr, offset) == branch_disp(base + Low(cr, 3) * 2^16, offset)
branch_cr(base, cr, offset) == branch_disp(base + Low(cr, 3) * 2^18, offset)
branch_xl_bi(base, bi) == Word(base + Low(bi, 5) * 2^16)
branch_xl_cr(base, cr) == Word(base + Low(cr, 3) * 2^18)

----------------------------------------------------------------------------
\* The rows, from records of opcodes; a group of mnemonics is a set of such tables.

Rows(form, params, op, xos) ==
    [m \in DOMAIN xos |-> [form |-> form, params |-> params, op |-> op, xo |-> xos[m], rc |-> 0]]
D(params, ops) ==
    [m \in DOMAIN ops |-> [form |-> "D", params |-> params, op |-> ops[m], xo |-> 0, rc |-> 0]]
M(params, ops) ==
    [m \in DOMAIN ops |-> [form |-> "M", params |-> params, op |-> ops[m], xo |-> 0, rc |-> 0]]
X(params, xos) == Rows("X", params, 31, xos)
OE == 512

IntegerArithmetic ==
    {D(<<"t", "a", "d">>, [addi |-> 14, addis |-> 15, addic |-> 12, addic_dot |-> 13,
                           subfic |-> 8, mulli |-> 7]),
     Rows("XO", <<"t", "a", "b", "rc">>, 31,
          [add |-> 266, addo |-> OE + 266, addc |-> 10, addco |-> OE + 10, subfc |-> 8,
           subfco |-> OE + 8, adde |-> 138, addeo |-> OE + 138, subfe |-> 136,
           subfeo |-> OE + 136, subf |-> 40, subfo |-> OE + 40, mullw |-> 235,
           mullwo |-> OE + 235, mulhw |-> 75, mulhwu |-> 11, divw |-> 491,
           divwo |-> OE + 491, divwu |-> 459, divwuo |-> OE + 459]),
     Rows("XO", <<"t", "a", "rc">>, 31,
          [addme |-> 234, addmeo |-> OE + 234, subfme |-> 232, subfmeo |-> OE + 232,
           addze |-> 202, addzeo |-> OE + 202, subfze |-> 200, subfzeo |-> OE + 200,
           neg |-> 104, nego |-> OE + 104])}

IntegerCompare ==
    {D(<<"a", "d", "crt">>, [cmpi |-> 11]), D(<<"a", "u", "crt">>, [cmpli |-> 10]),
     X(<<"a", "b", "crt">>, [cmp |-> 0, cmpl |-> 32])}

\* The first operand in the text, RA, is the second field here.
IntegerLogical ==
    {D(<<"a", "t", "u">>, [andi |-> 28, andis |-> 29, ori |-> 24, oris |-> 25, xori |-> 26,
                           xoris |-> 27]),
     X(<<"a", "t", "b", "rc">>, [andr |-> 28, xorr |-> 316, orr |-> 444, nand |-> 476,
                                 norr |-> 124, andc |-> 60, eqv |-> 284, orc |-> 412]),
     X(<<"a", "t", "rc">>, [extsb |-> 954, extsh |-> 922, cntlzw |-> 26]),
     Rows("A", <<"t", "a", "b", "c">>, 31, [isel |-> 15])}

IntegerRotateAndShift ==
    {M(<<"a", "t", "b", "c", "e", "rc">>, [rlwinm |-> 21, rlwnm |-> 23, rlwimi |-> 20]),
     X(<<"a", "t", "b", "rc">>, [slw |-> 24, srw |-> 536, srawi |-> 824, sraw |-> 792])}

FloatingPointArithmetic ==
    {Rows("A", <<"t", "a", "b", "rc">>, 63, [fadd |-> 21, fsub |-> 20, fdiv |-> 18]),
     Rows("A", <<"t", "a", "b", "rc">>, 59, [fadds |-> 21, fsubs |-> 20, fdivs |-> 18]),
     Rows("A", <<"t", "a", "c", "rc">>, 63, [fmul |-> 25]),
     Rows("A", <<"t", "a", "c", "rc">>, 59, [fmuls |-> 25]),
     Rows("A", <<"t", "a", "c", "b", "rc">>, 63,
          [fmadd |-> 29, fmsub |-> 28, fnmadd |-> 31, fnmsub |-> 30]),
     Rows("A", <<"t", "a", "c", "b", "rc">>, 59,
          [fmadds |-> 29, fmsubs |-> 28, fnmadds |-> 31, fnmsubs |-> 30]),
     Rows("X", <<"t", "b", "rc">>, 63, [frsp |-> 12, fctiw |-> 14, fctiwz |-> 15]),
     Rows("X", <<"crt", "a", "b">>, 63, [fcmpu |-> 0, fcmpo |-> 32]),
     Rows("X", <<"t", "rc">>, 63, [mffs |-> 583, mtfsb0 |-> 70, mtfsb1 |-> 38]),
     Rows("X", <<"crt", "cra">>, 63, [mcrfs |-> 64]),
     Rows("mtfsfi", <<"crt", "imm4", "rc">>, 63, [mtfsfi |-> 134]),
     Rows("XFL", <<"fm", "b", "rc">>, 63, [mtfsf |-> 711])}

IntegerLoadsAndStores ==
    {D(<<"t", "a", "d">>, [lbz |-> 34, lbzu |-> 35, lhz |-> 40, lhzu |-> 41, lha |-> 42,
                           lhau |-> 43, lwz |-> 32, lwzu |-> 33, stb |-> 38, stbu |-> 39,
                           sth |-> 44, sthu |-> 45, stw |-> 36, stwu |-> 37, lmw |-> 46,
                           stmw |-> 47]),
     X(<<"t", "a", "b">>, [lbzx |-> 87, lbzux |-> 119, lhzx |-> 279, lhzux |-> 311,
                           lhax |-> 343, lhaux |-> 375, lwzx |-> 23, lwzux |-> 55,
                           stbx |-> 215, stbux |-> 247, sthx |-> 407, sthux |-> 439,
                           stwx |-> 151, stwux |-> 183, lhbrx |-> 790, lwbrx |-> 534,
                           sthbrx |-> 918, stwbrx |-> 662, lswi |-> 597, lswx |-> 533,
                           stswi |-> 725, stswx |-> 661])}

MemorySynchronization ==
    {X(<<"t">>, [sync |-> 598]), X(<<>>, [eieio |-> 854]),
     Rows("XL", <<>>, 19, [isync |-> 150]), X(<<"t", "a", "b">>, [lwarx |-> 20]),
     [stwcx |-> [form |-> "X", params |-> <<"t", "a", "b">>, op |-> 31, xo |-> 150, rc |-> 1]]}

FloatingPointLoadsAndStores ==
    {D(<<"t", "a", "d">>, [lfs |-> 48, lfsu |-> 49, lfd |-> 50, lfdu |-> 51, stfs |-> 52,
                           stfsu |-> 53, stfd |-> 54, stfdu |-> 55]),
     X(<<"t", "a", "b">>, [lfsx |-> 535, lfsux |-> 567, lfdx |-> 599, lfdux |-> 631,
                           stfsx |-> 663, stfsux |-> 695, stfdx |-> 727, stfdux |-> 759]),
     Rows("X", <<"t", "b", "rc">>, 63, [fmr |-> 72, fabs |-> 264, fneg |-> 40, fnabs |-> 136])}

ConditionRegister ==
    {Rows("XL", <<"crt", "cra">>, 19, [mcrf |-> 0]),
     Rows("XL", <<"t", "a", "b">>, 19,
          [crand |-> 257, crxor |-> 193, cror |-> 449, crnand |-> 225, crnor |-> 33,
           crandc |-> 129, creqv |-> 289, crorc |-> 417])}

Traps == {D(<<"t", "a", "d">>, [twi |-> 3]), X(<<"t", "a", "b">>, [tw |-> 4])}

SpecialRegisters ==
    {X(<<"t">>, [mtmsr |-> 146, mfmsr |-> 83, mfcr |-> 19]), X(<<"crt">>, [mcrxr |-> 512]),
     Rows("XFX_spr", <<"spr", "t">>, 31, [mtspr |-> 467]),
     Rows("XFX_spr", <<"t", "spr">>, 31, [mfspr |-> 339]),
     Rows("XFX_crm", <<"crm", "t">>, 31, [mtcrf |-> 144])}

CacheManagement ==
    {X(<<"a", "b">>, [dcbz |-> 1014, dcbst |-> 54, dcbf |-> 86, dcbi |-> 470, icbi |-> 982])}

SegmentRegisters ==    \* sr & 0xF comes on top of the form's own & 0x1F
    {X(<<"sr", "t">>, [mtsr |-> 210]), X(<<"t", "sr">>, [mfsr |-> 595]),
     X(<<"t", "b">>, [mtsrin |-> 242, mfsrin |-> 659])}

TlbAndExternalControl ==
    {X(<<"b">>, [tlbie |-> 306]), X(<<"t", "a", "b">>, [eciwx |-> 310, ecowx |-> 438])}

\* (A variant with a bug: fsel's operands in the fields' order.)
StandardExtensionsInOrder ==
    {Rows("A", <<"t", "b", "rc">>, 59, [fres |-> 24]),
     Rows("A", <<"t", "b", "rc">>, 63, [frsqrte |-> 26]),
     Rows("A", <<"t", "a", "b", "c", "rc">>, 63, [fsel |-> 23]),
     X(<<"t", "a", "b">>, [stfiwx |-> 983]), X(<<>>, [tlbsync |-> 566])}

StandardExtensions ==
    {Rows("A", <<"t", "b", "rc">>, 59, [fres |-> 24]),
     Rows("A", <<"t", "b", "rc">>, 63, [frsqrte |-> 26]),
     Rows("A", <<"t", "a", "c", "b", "rc">>, 63, [fsel |-> 23]),
     X(<<"t", "a", "b">>, [stfiwx |-> 983]), X(<<>>, [tlbsync |-> 566])}

PairedSingles ==
    LET DW(ops) == [m \in DOMAIN ops |-> [form |-> "DW", params |-> <<"t", "a", "d12", "w", "i">>,
                                          op |-> ops[m], xo |-> 0, rc |-> 0]]
    IN  {DW([psq_l |-> 56, psq_lu |-> 57, psq_st |-> 60, psq_stu |-> 61]),
         Rows("XW", <<"t", "a", "b", "w", "i">>, 4,
              [psq_lux |-> 38, psq_lx |-> 6, psq_stux |-> 39, psq_stx |-> 7]),
         Rows("X", <<"t", "b", "rc">>, 4,
              [ps_mr |-> 72, ps_abs |-> 264, ps_nabs |-> 136, ps_neg |-> 40]),
         Rows("X", <<"t", "a", "b", "rc">>, 4, [ps_merge00 |-> 528, ps_merge01 |-> 560,
                                                ps_merge10 |-> 592, ps_merge11 |-> 624]),
         Rows("X", <<"crt", "a", "b">>, 4, [ps_cmpo0 |-> 32, ps_cmpo1 |-> 96,
                                            ps_cmpu0 |-> 0, ps_cmpu1 |-> 64]),
         Rows("X", <<"a", "b">>, 4, [dcbz_l |-> 1014]),
         Rows("A", <<"t", "a", "b", "rc">>, 4, [ps_add |-> 21, ps_sub |-> 20, ps_div |-> 18]),
         Rows("A", <<"t", "a", "c", "rc">>, 4, [ps_mul |-> 25, ps_muls0 |-> 12, ps_muls1 |-> 13]),
         Rows("A", <<"t", "b", "rc">>, 4, [ps_res |-> 24, ps_rsqrte |-> 26]),
         Rows("A", <<"t", "a", "c", "b", "rc">>, 4,
              [ps_madd |-> 29, ps_msub |-> 28, ps_nmadd |-> 31, ps_nmsub |-> 30, ps_sel |-> 23,
               ps_madds0 |-> 14, ps_madds1 |-> 15, ps_sum0 |-> 10, ps_sum1 |-> 11])}

Groups == IntegerArithmetic \cup IntegerCompare \cup IntegerLogical \cup IntegerRotateAndShift \cup
          FloatingPointArithmetic \cup IntegerLoadsAndStores \cup MemorySynchronization \cup
          FloatingPointLoadsAndStores \cup ConditionRegister \cup Traps \cup SpecialRegisters \cup
          CacheManagement \cup SegmentRegisters \cup TlbAndExternalControl \cup
          StandardExtensions \cup PairedSingles
Table == [m \in UNION {DOMAIN rows : rows \in Groups} |->
              (CHOOSE rows \in Groups : m \in DOMAIN rows)[m]]

\* The value a field of the instruction is given: a parameter's, or the zero or
\* the flag that the function itself passes.
FieldOf(param) == CASE param \in {"u", "d12"} -> "d"
                    [] param = "crt" -> "t"
                    [] param \in {"cra", "sr"} -> "a"
                    [] OTHER -> param
Converted(param, x) == CASE param \in {"crt", "cra"} -> cr_field(x)
                         [] param = "sr" -> Low(x, 4)
                         [] OTHER -> x
FieldNames == {"t", "a", "b", "c", "d", "e", "rc", "w", "i", "spr", "crm", "fm", "imm4"}
FieldsOf(m, args) ==
    LET params == Table[m].params
    IN  [field \in FieldNames |->
            IF \E i \in DOMAIN params : FieldOf(params[i]) = field
            THEN LET i == CHOOSE i \in DOMAIN params : FieldOf(params[i]) = field
                 IN  Converted(params[i], args[i])
            ELSE 0]

\* The word of a row with the fields f.
Formed(row, f) ==
    LET op == row.op
        rc == f.rc + row.rc
    IN  CASE row.form = "D" -> D_form(op, f.t, f.a, f.d)
          [] row.form = "X" -> X_form(op, f.t, f.a, f.b, row.xo, rc)
          [] row.form = "XO" -> XO_form(op, f.t, f.a, f.b, row.xo \div OE, row.xo % OE, rc)
          [] row.form = "A" -> A_form(op, f.t, f.a, f.b, f.c, row.xo, rc)
          [] row.form = "M" -> M_form(op, f.t, f.a, f.b, f.c, f.e, rc)
          [] row.form = "XL" -> XL_form(op, f.t, f.a, f.b, row.xo, rc)
          [] row.form = "XFX_spr" -> XFX_spr_form(op, f.t, f.spr, row.xo)
          [] row.form = "XFX_crm" -> XFX_crm_form(op, f.t, f.crm, row.xo)
          [] row.form = "XFL" -> XFL_form(op, f.fm, f.b, row.xo, rc)
          [] row.form = "mtfsfi" -> <<op, 268 + f.t * 2^21 + Low(f.imm4, 4) * 2^12 + rc>>
          [] row.form = "DW" -> DW_form(op, f.t, f.a, f.d, f.w, f.i)
          [] row.form = "XW" -> XW_form(row.xo, f.t, f.a, f.b, f.w, f.i)
Encode(m, args) == Formed(Table[m], FieldsOf(m, args))

----------------------------------------------------------------------------
\* Mnemonics that call another one: its name and the arguments they pass.

Renamed == [la |-> "addi", cmpwi |-> "cmpi", cmplwi |-> "cmpli", cmpw |-> "cmp", cmplw |-> "cmpl"]
Negated == [subi |-> "addi", subis |-> "addis", subic |-> "addic", subic_dot |-> "addic_dot"]
Reversed == [sub |-> "subf", subo |-> "subfo", subc |-> "subfc", subco |-> "subfco"]
Doubled == [mr |-> "orr", notr |-> "norr", crmove |-> "cror", crnot |-> "crnor"]
Tripled == [crset |-> "creqv", crclr |-> "crxor"]
Selected == [isellt |-> 0, iselgt |-> 1, iseleq |-> 2]
WithZero == [li |-> "addi", lis |-> "addis"]
Synced == [lwsync |-> 1, ptesync |-> 2]
RegisterHints == [yield |-> \h7F7BDB78, mdoio |-> \h7FBDEB78, mdoom |-> \h7FDEF378]

\* RA, RS, then n, or n and b; clrlslwi has b and n.
Rotated(m, a) ==
    LET n == IF m = "clrlslwi" THEN a[4] ELSE a[3]
        b == IF m = "clrlslwi" THEN a[3] ELSE IF Len(a) > 4 THEN a[4] ELSE 0
        With(f, sh, mb, me) == <<f, <<a[1], a[2], sh, mb, me, a[Len(a)]>>>>
    IN  CASE m = "extlwi" -> With("rlwinm", b, 0, u8(n - 1))
          [] m = "extrwi" -> With("rlwinm", u8(b + n), u8(32 - n), 31)
          [] m = "inslwi" -> With("rlwimi", u8(32 - b), b, u8(b + n - 1))
          [] m = "insrwi" -> With("rlwimi", u8(32 - (b + n)), b, u8(b + n - 1))
          [] m = "rotlwi" -> With("rlwinm", n, 0, 31)
          [] m = "rotrwi" -> With("rlwinm", u8(32 - n), 0, 31)
          [] m = "rotlw" -> With("rlwnm", a[3], 0, 31)
          [] m = "slwi" -> With("rlwinm", n, 0, u8(31 - n))
          [] m = "srwi" -> With("rlwinm", u8(32 - n), n, 31)
          [] m = "clrlwi" -> With("rlwinm", 0, n, 31)
          [] m = "clrrwi" -> With("rlwinm", 0, 0, u8(31 - n))
          [] m = "clrlslwi" -> With("rlwinm", n, u8(b - n), u8(31 - n))

\* mt and mf of the special registers that have a name of their own.
MovedTo == [lr |-> 8, ctr |-> 9, xer |-> 1, dsisr |-> 18, dar |-> 19, dec |-> 22, srr0 |-> 26,
            srr1 |-> 27, sdr1 |-> 25, ear |-> 282, tbl |-> 284, tbu |-> 285]
\* (A variant with a bug: the time base is read where it is written.)
MovedFromAsTo == [lr |-> 8, ctr |-> 9, xer |-> 1, pvr |-> 287, dsisr |-> 18, dar |-> 19, dec |-> 22,
                  srr0 |-> 26, srr1 |-> 27, sdr1 |-> 25, ear |-> 282, tbl |-> 284, tbu |-> 285]
MovedFrom == [lr |-> 8, ctr |-> 9, xer |-> 1, pvr |-> 287, dsisr |-> 18, dar |-> 19, dec |-> 22,
              srr0 |-> 26, srr1 |-> 27, sdr1 |-> 25, ear |-> 282, tbl |-> 268, tbu |-> 269]
Banked(reg, n) == CASE reg = "sprg" -> 272 + Low(n, 2)
                    [] reg = "ibatl" -> 529 + Low(n, 2) * 2
                    [] reg = "ibatu" -> 528 + Low(n, 2) * 2
                    [] reg = "dbatl" -> 537 + Low(n, 2) * 2
                    [] reg = "dbatu" -> 536 + Low(n, 2) * 2
Banks == {"sprg", "ibatl", "ibatu", "dbatl", "dbatu"}
MoveTo(reg, n, gpr) == <<"mtspr", <<IF reg \in Banks THEN Banked(reg, n) ELSE MovedTo[reg], gpr>>>>
MoveFrom(reg, n, gpr) == <<"mfspr", <<gpr, IF reg \in Banks THEN Banked(reg, n) ELSE MovedFrom[reg]>>>>

Expand(m, a) ==
    CASE m \in DOMAIN Renamed -> <<Renamed[m], a>>
      [] m \in DOMAIN Negated -> <<Negated[m], <<a[1], a[2], s16(-a[3])>>>>
      [] m \in DOMAIN Reversed -> <<Reversed[m], <<a[1], a[3], a[2], a[4]>>>>
      [] m \in DOMAIN Doubled -> <<Doubled[m], <<a[1], a[2]>> \o Tail(a)>>
      [] m \in DOMAIN Tripled -> <<Tripled[m], <<a[1], a[1], a[1]>>>>
      [] m \in DOMAIN Selected -> <<"isel", a \o <<Selected[m]>>>>
      [] m \in DOMAIN WithZero -> <<WithZero[m], <<a[1], 0, a[2]>>>>
      [] m \in DOMAIN Synced -> <<"sync", <<Synced[m]>>>>
      [] m = "nop" -> <<"ori", <<0, 0, 0>>>>
      [] m = "mtcr" -> <<"mtcrf", <<255, a[1]>>>>
      [] OTHER -> Rotated(m, a)

----------------------------------------------------------------------------
\* Branches and traps, most of them typed as numbers.  The name of a branch is
\* split into what it tests and the suffix that says where it goes: all numbers
\* of a suffix differ from the plain one's in the same bits.

OnBit == [bt |-> \h41800000, bf |-> \h40800000, bdnzt |-> \h41000000, bdnzf |-> \h40000000,
          bdzt |-> \h41400000, bdzf |-> \h40400000]
OnCounter == [bdnz |-> \h42000000, bdz |-> \h42400000]
OnField == [blt |-> \h41800000, ble |-> \h40810000, beq |-> \h41820000, bge |-> \h40800000,
            bgt |-> \h41810000, bnl |-> \h40800000, bne |-> \h40820000, bng |-> \h40810000,
            bso |-> \h41830000, bns |-> \h40830000, bun |-> \h41830000, bnu |-> \h40830000]
Always == [lr |-> \h4E800020, ctr |-> \h4E800420, lrl |-> \h4E800021, ctrl |-> \h4E800421]
ToOffset == [plain |-> 0, a |-> 2, l |-> 1, la |-> 3]
ToRegister == [lr |-> \hC000020, ctr |-> \hC000420, lrl |-> \hC000021, ctrl |-> \hC000421]

Bit(flag) == IF flag THEN 1 ELSE 0

\* x is the CR bit, the CR field or the counter test's nothing; to the byte offset.
Branch(test, suffix, x, to) ==
    LET toRegister == suffix \in DOMAIN ToRegister
        aa == Bit(suffix \in {"a", "la"})
        lk == Bit(suffix \in {"l", "la", "lrl", "ctrl"})
        From(base) == base + (IF toRegister THEN ToRegister ELSE ToOffset)[suffix]
    IN  CASE test \in DOMAIN OnBit /\ toRegister -> branch_xl_bi(From(OnBit[test]), x)
          [] test \in DOMAIN OnBit /\ ~toRegister -> branch_bi(From(OnBit[test]), x, to)
          [] test \in DOMAIN OnCounter /\ toRegister -> Word(From(OnCounter[test]))
          [] test \in DOMAIN OnCounter /\ ~toRegister -> branch_disp(From(OnCounter[test]), to)
          [] test \in DOMAIN OnField /\ toRegister -> branch_xl_cr(From(OnField[test]), x)
          [] test \in DOMAIN OnField /\ ~toRegister -> branch_cr(From(OnField[test]), x, to)
          [] test = "b" /\ toRegister -> Word(Always[suffix])
          [] test = "b" /\ ~toRegister -> I_form(18, TowardZero(to, 4), aa, lk)

\* bc, bclr and bcctr with their suffixes.
GeneralBranch(suffix, bo, bi, to) ==
    LET lk == Bit(suffix \in {"l", "la", "lrl", "ctrl"})
    IN  CASE suffix \in {"lr", "lrl"} -> XL_form(19, bo, bi, 0, 16, lk)
          [] suffix \in {"ctr", "ctrl"} -> XL_form(19, bo, bi, 0, 528, lk)
          [] OTHER -> B_form(16, bo, bi, TowardZero(to, 4), Bit(suffix \in {"a", "la"}), lk)

\* By what comes after tw in the name, without the i of an immediate.
TrapOnImmediate ==
    [lt |-> \h0E000000, le |-> \h0E800000, eq |-> \h0C800000, ge |-> \h0D800000,
     gt |-> \h0D000000, nl |-> \h0D800000, ne |-> \h0F000000, ng |-> \h0E800000,
     llt |-> \h0C400000, lle |-> \h0CC00000, lge |-> \h0CA00000, lgt |-> \h0C200000,
     lnl |-> \h0CA00000, lng |-> \h0CC00000]
TrapOnRegister ==
    [lt |-> \h7E000008, le |-> \h7E800008, eq |-> \h7C800008, ge |-> \h7D800008,
     gt |-> \h7D000008, nl |-> \h7D800008, ne |-> \h7F000008, ng |-> \h7E800008,
     llt |-> \h7C400008, lle |-> \h7CC00008, lge |-> \h7CA00008, lgt |-> \h7C200008,
     lnl |-> \h7CA00008, lng |-> \h7CC00008]
Trap(cond, immediate, a) ==
    IF immediate THEN Word(TrapOnImmediate[cond] + a[1] * 2^16 + Low(a[2], 16))
                 ELSE Word(TrapOnRegister[cond] + a[1] * 2^16 + a[2] * 2^11)
SystemCalls == [sc |-> \h44000002, rfi |-> \h4C000064, trap |-> \h7FE00008]
=============================================================================
