----------------------------- MODULE BranchCode -----------------------------
(***************************************************************************)
(* The instruction applyBranchHook writes, and what the processor does     *)
(* when it gets there (core/src/HookApplicators.cpp, PowerPC b and bl).    *)
(***************************************************************************)
EXTENDS HookScan

CONSTANT Hooks      \* the branch hooks that may be applied

\* The offset field of the instruction spans 2 * Reach bytes. An instruction is
\* the primary opcode (18 for b and bl), the offset field and the link bit.
Span == 2 * Reach
ASSUME SpanAssumption == /\ Reach > 0 /\ Reach % 4 = 0
                         /\ \E k \in 1 .. WordMod : WordMod = k * Span
ASSUME HookAssumption ==
    \A h \in Hooks : h.magic = "Branch" /\ h.addr \in Word /\ h.target \in Word

PrimaryOp == 18

\* & 0x03FFFFFC: the offset, cut to the field, without its two low bits.
OffsetField(h) == LET x == (h.target - h.addr) % Span IN x - (x % 4)

\* | 0x48000000 or | 0x48000001.
Instruction(h) == PrimaryOp * Span + OffsetField(h) + (IF h.branch = "bl" THEN 1 ELSE 0)

\* The processor at addr: the field is sign-extended and added to addr, modulo
\* the address space; a set link bit leaves the next address in LR.
SignExtended(field) == IF field < Reach THEN field ELSE field - Span
FieldOf(instr) == LET x == instr % Span IN x - (x % 4)
GoesTo(instr, addr) == (addr + SignExtended(FieldOf(instr))) % WordMod
Links(instr) == instr % 2 = 1
IsBranch(instr) == instr \div Span = PrimaryOp

VARIABLES
    hook,       \* the hook being applied
    pc,         \* "check", "write", "applied", "refused"; "landed" in the target
    code,       \* the word at hook.addr, or 0: the game's instruction
    at, lr      \* where the processor is, and its link register; -1: elsewhere
vars == <<hook, pc, code, at, lr>>

Init == hook \in Hooks /\ pc = "check" /\ code = 0 /\ at = -1 /\ lr = -1

CheckRange ==
    /\ pc = "check"
    /\ pc' = IF Encodable(hook) THEN "write" ELSE "refused"
    /\ UNCHANGED <<hook, code, at, lr>>

Write ==
    /\ pc = "write"
    /\ code' = Instruction(hook)
    /\ pc' = "applied"
    /\ UNCHANGED <<hook, at, lr>>

\* The game gets to the hooked instruction.
Execute ==
    /\ pc = "applied" /\ IsBranch(code)
    /\ at' = GoesTo(code, hook.addr)
    /\ lr' = IF Links(code) THEN (hook.addr + 4) % WordMod ELSE lr
    /\ pc' = "landed"
    /\ UNCHANGED <<hook, code>>

Ended == pc \in {"refused", "landed"} /\ UNCHANGED vars

Next == CheckRange \/ Write \/ Execute \/ Ended
Spec == Init /\ [][Next]_vars

----------------------------------------------------------------------------

\* Instructions and functions are aligned.
Aligned(h) == h.addr % 4 = 0 /\ h.target % 4 = 0

\* A branch that was accepted goes to its target, forwards or backwards, and
\* only bl comes back.
ReachesTarget ==
    pc = "landed" /\ Aligned(hook) =>
        /\ at = hook.target
        /\ lr = IF hook.branch = "bl" THEN (hook.addr + 4) % WordMod ELSE -1

\* A branch of a defined type is refused only if no b instruction could do it.
RefusedForGood ==
    pc = "refused" /\ Aligned(hook) /\ hook.branch \in {"b", "bl"} =>
        \A instr \in PrimaryOp * Span .. (PrimaryOp + 1) * Span - 1 :
            GoesTo(instr, hook.addr) # hook.target
=============================================================================
