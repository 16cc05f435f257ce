----------------------------- MODULE NakedCode ------------------------------
(***************************************************************************)
(* Functions written in assembly (tAssembly), the macros that save         *)
(* registers in them (core/include/telkin/Assembly.h), and the printf that *)
(* Runtime.h gives modules, between compiled functions.                    *)
(*                                                                         *)
(* Three such functions are modelled: a hook that saves every register it  *)
(* says it saves around a call, a function that saves LR only, and printf. *)
(* Each step is one instruction.  Compiled code calls them, with all its   *)
(* registers in use, and is called by them; it keeps the calling           *)
(* convention: r1 comes back, LR goes to the word at 4(r1), everything     *)
(* volatile may be lost.  XER and the floating-point registers, which no   *)
(* macro saves, are left out.                                              *)
(***************************************************************************)
EXTENDS Integers, Sequences

CONSTANTS MaxDepth      \* bound: functions active at once

VARIABLES
    gpr,                \* r0 and r2 to r12
    sp,                 \* r1
    lr, ctr, cr,
    mem,                \* the words of the stack: address -> value
    at,                 \* <<program, step, depth>>; the next instruction
    calls               \* of each active function: the machine as it was called
regs == <<gpr, lr, ctr, cr>>
nakedVars == <<gpr, sp, lr, ctr, cr, mem, at, calls>>

StackTop == 512
FrameSize == 16         \* of a compiled function
Volatile == {0} \cup 3 .. 12
OSReport == <<"compiled", 0>>

----------------------------------------------------------------------------
\* The macros: <<instruction, register, displacement from r1>>.

\* The stores of r3 to r12, and the loads, to and from 0x0C(r1) and up.
Each(op) == [i \in 1 .. 10 |-> <<op, i + 2, 8 + 4 * i>>]

\* (A variant with a bug: r0 is stored when CR is in it already.)
tSaveVolatileRegistersLate ==
    <<<<"stwu", 1, -60>>>> \o Each("stw") \o
    <<<<"mfcr", 0, 0>>, <<"stw", 0, 52>>, <<"stw", 0, 8>>, <<"mfctr", 0, 0>>, <<"stw", 0, 56>>,
      <<"mflr", 0, 0>>, <<"stw", 0, 64>>>>
tSaveVolatileRegisters ==
    <<<<"stwu", 1, -60>>, <<"stw", 0, 8>>>> \o Each("stw") \o
    <<<<"mfcr", 0, 0>>, <<"stw", 0, 52>>, <<"mfctr", 0, 0>>, <<"stw", 0, 56>>,
      <<"mflr", 0, 0>>, <<"stw", 0, 64>>>>

tRestoreVolatileRegisters ==
    <<<<"lwz", 0, 56>>, <<"mtctr", 0, 0>>, <<"lwz", 0, 52>>, <<"mtcr", 0, 0>>,
      <<"lwz", 0, 64>>, <<"mtlr", 0, 0>>, <<"lwz", 0, 8>>>> \o Each("lwz") \o
    <<<<"addi", 1, 60>>>>

tSaveLR == <<<<"stwu", 1, -16>>, <<"mflr", 2, 0>>, <<"stw", 2, 20>>>>
tRestoreLR == <<<<"lwz", 2, 20>>, <<"mtlr", 2, 0>>, <<"addi", 1, 16>>>>

\* (A variant with a bug: LR is kept in r0 over the call.)
printfInR0 ==
    <<<<"la", 2, 0>>, <<"mtctr", 2, 0>>, <<"mflr", 0, 0>>, <<"bctrl", 0, 0>>,
      <<"mtlr", 0, 0>>, <<"li", 3, 0>>, <<"blr", 0, 0>>>>
\* lis and lwz of OSReport's address are one step.
printf ==
    <<<<"la", 2, 0>>, <<"mtctr", 2, 0>>, <<"mflr", 2, 0>>, <<"bctrl", 0, 0>>,
      <<"mtlr", 2, 0>>, <<"li", 3, 0>>, <<"blr", 0, 0>>>>

Call == <<<<"bl", 0, 0>>>>
Code == [hook |-> tSaveVolatileRegisters \o Call \o tRestoreVolatileRegisters \o <<<<"blr", 0, 0>>>>,
         func |-> tSaveLR \o Call \o tRestoreLR \o <<<<"blr", 0, 0>>>>,
         printf |-> printf]
Programs == DOMAIN Code

----------------------------------------------------------------------------
NakedInit ==
    /\ gpr = [r \in {0} \cup 2 .. 12 |-> <<"live", r>>]
    /\ sp = StackTop
    /\ lr = <<"live lr", 0>> /\ ctr = <<"live ctr", 0>> /\ cr = <<"live cr", 0>>
    /\ mem = [a \in StackTop .. StackTop + 20 |-> <<"frame", a>>]
    /\ at = <<"compiled", 1, 0>> /\ calls = <<>>

\* What is below r1 is nobody's and forgotten.
From(m, low) == [a \in {x \in DOMAIN m : x >= low} |-> m[a]]
Stored(m, a, v) == [x \in DOMAIN m \cup {a} |-> IF x = a THEN v ELSE m[x]]
Following == <<at[1], at[2] + 1, at[3]>>
Depth == Len(calls)
Returned == SubSeq(calls, 1, Depth - 1)
Entering(program, ret) ==       \* a call that returns to ret
    /\ at' = <<program, 1, Depth + 1>>
    /\ lr' = ret
    /\ calls' = Append(calls, [gpr |-> gpr, sp |-> sp, ctr |-> ctr, cr |-> cr, mem |-> mem, ret |-> ret])

IsNaked == at[1] \in Programs
Instr == Code[at[1]][at[2]]

\* One instruction that is not a branch.
Step ==
    /\ IsNaked /\ Instr[1] \notin {"bl", "bctrl", "blr"}
    /\ LET op == Instr[1]
           r == Instr[2]
           d == Instr[3]
           value == CASE op = "lwz" -> mem[sp + d]
                      [] op = "mfcr" -> cr
                      [] op = "mfctr" -> ctr
                      [] op = "mflr" -> lr
                      [] op = "la" -> OSReport
                      [] op = "li" -> <<"number", 0>>
                      [] OTHER -> gpr[r]
       IN  /\ gpr' = IF r \in DOMAIN gpr THEN [gpr EXCEPT ![r] = value] ELSE gpr
           /\ sp' = IF op \in {"stwu", "addi"} THEN sp + d ELSE sp
           /\ mem' = CASE op = "stwu" -> Stored(mem, sp + d, <<"sp", sp>>)
                       [] op = "stw" -> Stored(mem, sp + d, gpr[r])
                       [] op = "addi" -> From(mem, sp + d)
                       [] OTHER -> mem
           /\ cr' = IF op = "mtcr" THEN gpr[r] ELSE cr
           /\ ctr' = IF op = "mtctr" THEN gpr[r] ELSE ctr
           /\ lr' = IF op = "mtlr" THEN gpr[r] ELSE lr
    /\ at' = Following /\ UNCHANGED calls

\* bl, to a compiled function, and bctrl, to where CTR says.
CallCompiled ==
    /\ IsNaked /\ Instr[1] \in {"bl", "bctrl"}
    /\ Instr[1] = "bctrl" => ctr = OSReport
    /\ Entering("compiled", Following)
    /\ UNCHANGED <<gpr, sp, ctr, cr, mem>>

Blr == /\ IsNaked /\ Instr[1] = "blr"
       /\ at' = lr /\ calls' = Returned
       /\ UNCHANGED <<regs, sp, mem>>

\* Compiled code: a frame, then anything its convention allows, then back.
InCompiled(step) == at[1] = "compiled" /\ at[2] = step
Prologue == /\ InCompiled(1) /\ Depth > 0
            /\ mem' = Stored(Stored(mem, sp + 4, lr), sp - FrameSize, <<"sp", sp>>)
            /\ sp' = sp - FrameSize /\ at' = Following
            /\ UNCHANGED <<regs, calls>>
InBody == InCompiled(2) \/ (InCompiled(1) /\ Depth = 0)
Clobber == /\ InBody
           /\ gpr' = [r \in DOMAIN gpr |-> IF r \in Volatile THEN <<"lost", r, Depth>> ELSE gpr[r]]
           /\ ctr' = <<"lost ctr", 0, Depth>> /\ cr' = <<"lost cr", 0, Depth>>
           /\ UNCHANGED <<sp, lr, mem, at, calls>>
\* The code under OSReport, the C library's, does not come back to a module's.
UnderPrintf == \E i \in DOMAIN calls : calls[i].ret[1] = "printf"
CallNaked == /\ InBody /\ Depth < MaxDepth /\ ~UnderPrintf
             /\ \E p \in Programs : Entering(p, at)
             /\ UNCHANGED <<gpr, sp, ctr, cr, mem>>
Epilogue == /\ InCompiled(2)
            /\ sp' = sp + FrameSize
            /\ lr' = mem[sp + FrameSize + 4] /\ at' = mem[sp + FrameSize + 4]
            /\ mem' = From(mem, sp + FrameSize) /\ calls' = Returned
            /\ UNCHANGED <<gpr, ctr, cr>>

NakedNext == \/ Step \/ CallCompiled \/ Blr
             \/ Prologue \/ Clobber \/ CallNaked \/ Epilogue

NakedSpec == NakedInit /\ [][NakedNext]_nakedVars

----------------------------------------------------------------------------

AtBlr(p) == at[1] = p /\ Instr[1] = "blr"
Entry == calls[Len(calls)]

\* A hook that saves the registers as the macros do leaves a function it
\* interrupts with r0, r1, r3 to r12, CR and CTR as they were, and with its
\* frame and all frames above as they were, except the word at 4(r1) that
\* belongs to what it calls; through whatever is called in between, hooks too.
RegistersSurvive ==
    AtBlr("hook") =>
        /\ \A r \in Volatile : gpr[r] = Entry.gpr[r]
        /\ sp = Entry.sp /\ ctr = Entry.ctr /\ cr = Entry.cr
        /\ \A a \in DOMAIN Entry.mem : a >= sp /\ a # sp + 4 => mem[a] = Entry.mem[a]

\* Every function in assembly returns to the one that called it, with its
\* caller's stack pointer, though LR passes through r2 or the stack meanwhile.
ReturnsToCaller ==
    \A p \in Programs : AtBlr(p) => lr = Entry.ret /\ sp = Entry.sp
=============================================================================
