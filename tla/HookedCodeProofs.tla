-------------------------- MODULE HookedCodeProofs --------------------------
(***************************************************************************)
(* Branch hooks, for every size of address space and every reach: an       *)
(* accepted one reaches its target, and one that is refused could not be   *)
(* encoded (BranchCode).  Lists of hooks of any kind, of any length: what  *)
(* passes the scan stays in the game as it was written, and what fails it  *)
(* writes some byte twice (HookedCode).                                    *)
(***************************************************************************)
EXTENDS HookedCode, HookScanProofs, TLAPS

\* The offset field has a positive even width, a multiple of 4 like the reach.
LEMMA SpanFacts == /\ Reach \in Nat \ {0} /\ Span \in Nat \ {0} /\ Span = 2 * Reach
                   /\ Span % 4 = 0
                   /\ WordMod \in Nat \ {0} /\ Span <= WordMod
<1>1. Reach \in Nat \ {0}
      BY WordAssumption, SpanAssumption
<1>2. PICK k \in 1 .. WordMod : WordMod = k * Span
      BY SpanAssumption
<1>3. Span \in Nat \ {0} /\ Span % 4 = 0
      BY <1>1, SpanAssumption DEF Span
<1>4. \A m, n \in Nat \ {0} : n <= m * n
      OBVIOUS
<1>5. Span <= WordMod
      BY <1>2, <1>3, <1>4, WordAssumption
<1> QED BY <1>1, <1>3, <1>5, WordAssumption DEF Span

\* Adding a whole number of m does not change the remainder.
LEMMA ModShift ==
    ASSUME NEW m \in Nat \ {0}, NEW x \in Int, NEW y \in 0 .. m - 1, NEW k \in Int, x = y + k * m
    PROVE  x % m = y
<1> DEFINE q == x \div m
           r == x % m
<1>1. q \in Int /\ r \in 0 .. m - 1 /\ x = q * m + r
      OBVIOUS
<1>2. \A d \in Int : d >= 1 => d * m >= m
      OBVIOUS
<1>3. \A d \in Int : d <= -1 => d * m <= -m
      OBVIOUS
<1> HIDE DEF q, r
<1>4. q - k \in Int /\ (q - k) * m = y - r
      BY <1>1
<1>5. q - k = 0
      <2>1. y - r < m /\ y - r > -m
            BY <1>1
      <2>2. ~(q - k >= 1) /\ ~(q - k <= -1)
            BY <1>2, <1>3, <1>4, <2>1
      <2> QED BY <1>4, <2>2
<1>6. r = y
      BY <1>1, <1>4, <1>5
<1> QED BY <1>6 DEF r

\* The offset is the distance to the target, up to one turn around the address
\* space.
LEMMA OffsetIsDistance ==
    ASSUME NEW h \in Hooks
    PROVE  /\ BranchOffset(h) \in Int
           /\ \E c \in {-1, 0, 1} : h.target - h.addr = BranchOffset(h) + c * WordMod
<1> DEFINE dist == h.target - h.addr
           w    == dist % WordMod
<1>1. h.target \in 0 .. WordMod - 1 /\ h.addr \in 0 .. WordMod - 1 /\ WordMod \in Nat \ {0}
      BY HookAssumption, WordAssumption DEF Word
<1>2. dist \in Int /\ -WordMod < dist /\ dist < WordMod
      BY <1>1
<1>3. CASE dist >= 0
      <2>1. dist = dist + 0 * WordMod /\ dist \in 0 .. WordMod - 1
            BY <1>1, <1>2, <1>3
      <2>2. w = dist
            <3> HIDE DEF dist
            <3> QED BY <1>1, <1>2, <2>1, ModShift
      <2>3. BranchOffset(h) = dist \/ BranchOffset(h) = dist - WordMod
            BY <1>1, <2>2 DEF BranchOffset, Signed
      <2> HIDE DEF dist
      <2>4. dist = BranchOffset(h) + 0 * WordMod \/ dist = BranchOffset(h) + 1 * WordMod
            BY <1>1, <1>2, <2>3
      <2> QED BY <1>1, <1>2, <2>3, <2>4 DEF dist
<1>4. CASE dist < 0
      <2>1. dist = (dist + WordMod) + (-1) * WordMod /\ dist + WordMod \in 0 .. WordMod - 1
            BY <1>1, <1>2, <1>4
      <2>2. w = dist + WordMod
            <3> HIDE DEF dist
            <3> QED BY <1>1, <1>2, <2>1, ModShift
      <2>3. BranchOffset(h) = dist + WordMod \/ BranchOffset(h) = dist
            BY <1>1, <2>2 DEF BranchOffset, Signed
      <2> HIDE DEF dist
      <2>4. dist = BranchOffset(h) + (-1) * WordMod \/ dist = BranchOffset(h) + 0 * WordMod
            BY <1>1, <1>2, <2>3
      <2> QED BY <1>1, <1>2, <2>3, <2>4 DEF dist
<1> QED BY <1>2, <1>3, <1>4

\* The field of an offset in reach, and what sign extension makes of it.
LEMMA FieldOfOffset ==
    ASSUME NEW h \in Hooks, InRange(h), Aligned(h)
    PROVE  /\ OffsetField(h) \in 0 .. Span - 4
           /\ OffsetField(h) % 4 = 0
           /\ SignExtended(OffsetField(h)) = BranchOffset(h)
<1> DEFINE o == BranchOffset(h)
           f == IF o >= 0 THEN o ELSE o + Span
<1>1. PICK c \in {-1, 0, 1} : h.target - h.addr = o + c * WordMod
      BY OffsetIsDistance
<1>2. o \in -Reach .. Reach - 4
      BY DEF InRange
<1>3. PICK k \in 1 .. WordMod : WordMod = k * Span
      BY SpanAssumption
<1>4. WordMod % 4 = 0
      <2>1. PICK j \in Int : Span = 4 * j
            BY SpanFacts
      <2>2. WordMod = 4 * (k * j) /\ k * j \in Int
            BY <1>3, <2>1
      <2> QED BY <2>2
<1>5. o % 4 = 0
      <2>1. h.target \in Int /\ h.addr \in Int
            BY HookAssumption, WordAssumption DEF Word
      <2>2. WordMod \in Int /\ o \in Int
            BY <1>2, SpanFacts
      <2> HIDE DEF o
      <2>3. c = -1 \/ c = 0 \/ c = 1
            OBVIOUS
      <2> QED BY <1>1, <1>4, <2>1, <2>2, <2>3 DEF Aligned
<1>6. f \in 0 .. Span - 4 /\ f % 4 = 0
      BY <1>2, <1>5, SpanFacts
<1>7. (h.target - h.addr) % Span = f
      <2>1. \E i \in Int : h.target - h.addr = f + i * Span
            <3>1. c * WordMod = (c * k) * Span /\ c * k \in Int
                  BY <1>3, SpanFacts
            <3>2. f = o + 0 * Span \/ f = o + 1 * Span
                  BY <1>2, SpanFacts
            <3>3. h.target - h.addr = f + (c * k) * Span \/ h.target - h.addr = f + (c * k - 1) * Span
                  <4> HIDE DEF f, o
                  <4> DEFINE ck == c * k
                  <4>1. ck \in Int /\ Span \in Int /\ f \in Int
                        BY <1>6, <3>1, SpanFacts
                  <4>2. o \in Int
                        BY <1>2 DEF o
                  <4>3. h.target - h.addr = o + ck * Span
                        BY <1>1, <3>1
                  <4> HIDE DEF ck
                  <4>4. h.target - h.addr = f + ck * Span \/ h.target - h.addr = f + (ck - 1) * Span
                        BY <3>2, <4>1, <4>2, <4>3
                  <4> QED BY <4>4 DEF ck
            <3> QED BY <3>1, <3>3
      <2>2. PICK i \in Int : h.target - h.addr = f + i * Span
            BY <2>1
      <2>3. f \in 0 .. Span - 1 /\ Span \in Nat \ {0}
            BY <1>6, SpanFacts
      <2> HIDE DEF f
      <2>4. h.target - h.addr \in Int
            BY <2>2, <2>3
      <2> QED BY <2>2, <2>3, <2>4, ModShift
<1>8. OffsetField(h) = f
      <2> HIDE DEF f
      <2> QED BY <1>6, <1>7 DEF OffsetField
<1>9. SignExtended(f) = o
      BY <1>2, SpanFacts DEF SignExtended
<1> QED BY <1>6, <1>8, <1>9

\* What the processor finds in the instruction is what the hook asks for.
LEMMA InstructionIsRead ==
    ASSUME NEW h \in Hooks, InRange(h), Aligned(h)
    PROVE  /\ FieldOf(Instruction(h)) = OffsetField(h)
           /\ Links(Instruction(h)) <=> h.branch = "bl"
<1> DEFINE link == IF h.branch = "bl" THEN 1 ELSE 0
           f == OffsetField(h)
<1>1. f \in 0 .. Span - 4 /\ f % 4 = 0 /\ link \in {0, 1}
      BY FieldOfOffset
<1>2. Instruction(h) = (f + link) + PrimaryOp * Span /\ PrimaryOp \in Int
      <2>1. Span \in Int
            BY SpanFacts
      <2> QED BY <1>1, <2>1 DEF Instruction, PrimaryOp
<1> HIDE DEF f, link
<1>3. f + link \in 0 .. Span - 1 /\ Span \in Nat \ {0} /\ Span % 4 = 0
      <2>1. Span \in Nat \ {0} /\ Span % 4 = 0
            BY SpanFacts
      <2> QED BY <1>1, <2>1
<1>4. Instruction(h) \in Int
      BY <1>2, <1>3
<1>5. Instruction(h) % Span = f + link
      BY <1>2, <1>3, <1>4, ModShift
<1>6. FieldOf(Instruction(h)) = f
      BY <1>1, <1>3, <1>5 DEF FieldOf
<1>7. Instruction(h) % 2 = link
      BY <1>1, <1>2, <1>3 DEF PrimaryOp
<1> QED BY <1>6, <1>7 DEF Links, f, link

\* A branch that applyBranchHook accepts goes to its target.
LEMMA AcceptedReaches ==
    ASSUME NEW h \in Hooks, InRange(h), Aligned(h)
    PROVE  GoesTo(Instruction(h), h.addr) = h.target
<1> DEFINE o == BranchOffset(h)
<1>1. GoesTo(Instruction(h), h.addr) = (h.addr + o) % WordMod
      BY FieldOfOffset, InstructionIsRead DEF GoesTo
<1>2. PICK c \in {-1, 0, 1} : h.target - h.addr = o + c * WordMod
      BY OffsetIsDistance
<1>3. h.target \in 0 .. WordMod - 1 /\ h.addr \in Int /\ WordMod \in Nat \ {0} /\ o \in Int
      BY HookAssumption, WordAssumption, OffsetIsDistance DEF Word
<1> HIDE DEF o
<1>4. h.addr + o = h.target + (-c) * WordMod
      <2>1. c = -1 \/ c = 0 \/ c = 1
            OBVIOUS
      <2> QED BY <1>2, <1>3, <2>1
<1>5. (h.addr + o) % WordMod = h.target
      <2>1. -c \in Int /\ h.addr + o \in Int
            BY <1>3
      <2> QED BY <1>3, <1>4, <2>1, ModShift
<1> QED BY <1>1, <1>5

Progress == /\ hook \in Hooks
            /\ pc \in {"write", "applied", "landed"} => Encodable(hook)
            /\ pc \in {"check", "write", "applied", "refused"} => lr = -1
            /\ pc = "applied" => code = Instruction(hook)
            /\ ReachesTarget

\* Every step keeps what is known of the instruction and of where it leads.
LEMMA ProgressStep == Progress /\ [Next]_vars => Progress'
<1> SUFFICES ASSUME Progress, [Next]_vars PROVE Progress'
    OBVIOUS
<1>1. CASE CheckRange
      BY <1>1 DEF CheckRange, Progress, ReachesTarget
<1>2. CASE Write
      BY <1>2 DEF Write, Progress, ReachesTarget
<1>3. CASE Execute
      <2>1. /\ hook' = hook /\ pc = "applied" /\ pc' = "landed" /\ code' = code
            /\ code = Instruction(hook) /\ Encodable(hook) /\ hook \in Hooks /\ lr = -1
            BY <1>3 DEF Execute, Progress
      <2>2. hook.magic = "Branch"
            BY <2>1, HookAssumption
      <2>3. Encodable(hook)' /\ InRange(hook)
            BY <2>1, <2>2 DEF Encodable, InRange, BranchOffset, Signed
      <2>4. ReachesTarget'
            <3> SUFFICES ASSUME Aligned(hook)
                         PROVE  /\ at' = hook.target
                                /\ lr' = IF hook.branch = "bl" THEN (hook.addr + 4) % WordMod ELSE -1
                BY <2>1 DEF ReachesTarget, Aligned
            <3>1. at' = GoesTo(code, hook.addr)
                  BY <1>3 DEF Execute
            <3>2. at' = hook.target
                  BY <2>1, <2>3, <3>1, AcceptedReaches
            <3>3. Links(code) <=> hook.branch = "bl"
                  BY <2>1, <2>3, InstructionIsRead
            <3> QED BY <1>3, <2>1, <3>2, <3>3 DEF Execute
      <2> QED BY <2>1, <2>3, <2>4 DEF Progress
<1>4. CASE UNCHANGED vars
      BY <1>4 DEF vars, Progress, ReachesTarget, Encodable, InRange, BranchOffset, Signed,
                  Aligned, Instruction, OffsetField
<1> QED BY <1>1, <1>2, <1>3, <1>4 DEF Next, Ended

\* For every address space and reach, an accepted branch reaches its target, and
\* only bl comes back.
THEOREM BranchesReach == Spec => []ReachesTarget
<1>1. Init => Progress
      BY DEF Init, Progress, ReachesTarget
<1>2. Progress => ReachesTarget
      BY DEF Progress
<1> QED BY <1>1, <1>2, ProgressStep, PTL DEF Spec

----------------------------------------------------------------------------
(* Refused branches *)

\* What the processor makes of any offset field lies within reach.
LEMMA FieldsReach ==
    ASSUME NEW instr \in Int
    PROVE  SignExtended(FieldOf(instr)) \in -Reach .. Reach - 4
<1> DEFINE x == instr % Span
           f == x - (x % 4)
<1>1. x \in 0 .. Span - 1 /\ Reach \in Nat \ {0} /\ Span = 2 * Reach
      BY SpanFacts
<1>2. Reach % 4 = 0 /\ Span % 4 = 0
      BY SpanAssumption, SpanFacts
<1>3. FieldOf(instr) = f
      BY DEF FieldOf
<1> HIDE DEF x
<1>4. f \in 0 .. Span - 1 /\ f % 4 = 0
      BY <1>1
<1> HIDE DEF f
<1>5. f \in 0 .. Span - 4
      BY <1>1, <1>2, <1>4
<1>6. f < Reach => f <= Reach - 4
      BY <1>1, <1>2, <1>4
<1> QED BY <1>1, <1>3, <1>5, <1>6 DEF SignExtended

\* No instruction goes to a target out of the range that applyBranchHook accepts.
LEMMA OutOfRangeIsOutOfReach ==
    ASSUME NEW h \in Hooks, ~InRange(h), NEW instr \in Int
    PROVE  GoesTo(instr, h.addr) # h.target
<1> SUFFICES ASSUME GoesTo(instr, h.addr) = h.target PROVE InRange(h)
    OBVIOUS
<1> DEFINE s == SignExtended(FieldOf(instr))
           dist == h.target - h.addr
           q == (h.addr + s) \div WordMod
           y == IF s >= 0 THEN s ELSE s + WordMod
<1>1. /\ s \in -Reach .. Reach - 4 /\ Reach \in Nat \ {0} /\ WordMod \in Nat \ {0}
      /\ 2 * Reach <= WordMod
      BY FieldsReach, SpanFacts
<1>2. h.target \in 0 .. WordMod - 1 /\ h.addr \in 0 .. WordMod - 1
      BY HookAssumption, WordAssumption DEF Word
<1>3. (h.addr + s) % WordMod = h.target
      BY DEF GoesTo
<1> HIDE DEF s
<1>4. q \in Int /\ h.addr + s = q * WordMod + h.target
      BY <1>1, <1>2, <1>3
<1> HIDE DEF q
<1>5. dist = y + (-q) * WordMod \/ dist = y + (-q - 1) * WordMod
      BY <1>1, <1>2, <1>4
<1>6. y \in 0 .. WordMod - 1 /\ dist \in Int
      BY <1>1, <1>2
<1>7. dist % WordMod = y
      <2> HIDE DEF y, dist
      <2>1. PICK k \in Int : dist = y + k * WordMod
            <3>1. -q \in Int /\ -q - 1 \in Int
                  BY <1>4
            <3> QED BY <1>5, <3>1
      <2> QED BY <1>1, <1>6, <2>1, ModShift
<1>8. BranchOffset(h) = Signed(y)
      BY <1>7 DEF BranchOffset
<1>9. Signed(y) = s
      BY <1>1 DEF Signed
<1> QED BY <1>1, <1>8, <1>9 DEF InRange

RefusedInv == hook \in Hooks /\ (pc = "refused" => ~Encodable(hook))

\* A branch that is refused is one that applyBranchHook finds out of range.
LEMMA RefusedImplies == RefusedInv => RefusedForGood
<1> SUFFICES ASSUME RefusedInv, pc = "refused", hook.branch \in {"b", "bl"},
                    NEW instr \in PrimaryOp * Span .. (PrimaryOp + 1) * Span - 1
             PROVE  GoesTo(instr, hook.addr) # hook.target
    BY DEF RefusedForGood
<1>1. hook \in Hooks /\ ~InRange(hook)
      BY DEF RefusedInv, Encodable
<1>2. instr \in Int
      BY SpanFacts DEF PrimaryOp
<1> QED BY <1>1, <1>2, OutOfRangeIsOutOfReach

\* For every address space and reach, a branch of a defined type is refused only
\* if no b or bl instruction at its address goes to its target.
THEOREM RefusalsAreFinal == Spec => []RefusedForGood
<1>1. Init => RefusedInv
      BY DEF Init, RefusedInv
<1>2. RefusedInv /\ [Next]_vars => RefusedInv'
      BY DEF RefusedInv, Next, CheckRange, Write, Execute, Ended, vars, Encodable, InRange,
             BranchOffset, Signed
<1> QED BY <1>1, <1>2, RefusedImplies, PTL DEF Spec

----------------------------------------------------------------------------
(* Lists of hooks *)

ListHooks == SmallHooks \cup Hooks

\* The list does not change, and the hooks are taken one after the other.
ListInv == /\ hooks \in Seq(ListHooks)
           /\ taken \in 0 .. Len(hooks) + 1

\* The verdict of the scan, and what it says of the list.
Apart == \A i, j \in DOMAIN hooks : i # j => ~SharesByte(i, j)
VerdictInv == /\ valid # "yes" => taken = 0
              /\ valid = "yes" => Apart
              /\ ScanComplete

\* How far the hook that was taken last has come, and the game that runs into one.
TakenInv ==
    /\ taken = 0 => pc = "idle"
    /\ taken \in 1 .. Len(hooks) =>
           hook = hooks[taken] /\ pc \in {"check", "write", "applied", "refused"}
    /\ pc = "refused" => ~Encodable(hook)
    /\ \A i \in DOMAIN hooks :
           i < taken \/ (i = taken /\ pc \in {"write", "applied"}) => Encodable(hooks[i])
ArrivedInv ==
    /\ pc # "landed" => lr = -1
    /\ taken > Len(hooks) => /\ hook \in Hooks /\ Encodable(hook)
                             /\ pc = "landed" \/ (pc = "applied" /\ code = Instruction(hook))
    /\ ReachesTarget

\* What the hooks applied so far wrote is in the game.
WrittenInv ==
    \A i \in DOMAIN hooks :
        i < taken \/ (i = taken /\ pc = "applied") =>
            \A a \in Footprint(hooks[i]) :
                a \in DOMAIN image /\ image[a] = <<i, a - hooks[i].addr>>

HookedInv == ListInv /\ VerdictInv /\ TakenInv /\ ArrivedInv /\ WrittenInv

\* A hook of the list, and the entry it is scanned by.
LEMMA ListedFits ==
    ASSUME NEW h \in ListHooks
    PROVE  /\ Fits(h) /\ h.addr \in Nat
           /\ h.magic = "Branch" => h \in Hooks
           /\ \A p, m : /\ Ranged(Entry(h, p, m))
                        /\ Bytes(Entry(h, p, m)) = Footprint(h)
<1>1. Fits(h) /\ (h.magic = "Branch" => h \in Hooks)
      BY ListAssumption DEF ListHooks
<1>2. h.addr \in Nat
      BY <1>1, WordAssumption DEF Fits, Word
<1>3. ASSUME NEW p, NEW m PROVE Ranged(Entry(h, p, m)) /\ Bytes(Entry(h, p, m)) = Footprint(h)
      <2>1. (h.addr + RangeSize(h)) % WordMod = h.addr + RangeSize(h)
            BY <1>1, ModOfSmall DEF Fits
      <2>2. h.addr + RangeSize(h) \in Int
            BY <1>1, WordAssumption DEF Fits, Word
      <2>3. Ranged(Entry(h, p, m))
            BY <1>2, <2>1, <2>2 DEF Ranged, Entry
      <2> QED BY <1>1, <2>3, FootprintIsRange
<1> QED BY <1>1, <1>2, <1>3

\* The entries of the list, and the bytes they stand for.
LEMMA EntriesOfList ==
    ASSUME ListInv
    PROVE  /\ Entries(hooks) \in Seq({Entry(h, i, "m") : h \in ListHooks, i \in Nat})
           /\ DOMAIN Entries(hooks) = DOMAIN hooks
           /\ \A i \in DOMAIN hooks : /\ Entries(hooks)[i] = Entry(hooks[i], i, "m")
                                      /\ Bytes(Entries(hooks)[i]) = Footprint(hooks[i])
<1> DEFINE S == {Entry(h, i, "m") : h \in ListHooks, i \in Nat}
<1>1. /\ DOMAIN hooks = 1 .. Len(hooks) /\ Len(hooks) \in Nat
      /\ \A i \in DOMAIN hooks : hooks[i] \in ListHooks
      BY DEF ListInv
<1>2. \A i \in DOMAIN hooks : Entries(hooks)[i] = Entry(hooks[i], i, "m")
      BY DEF Entries
<1>3. \A i \in DOMAIN hooks : Entry(hooks[i], i, "m") \in S
      BY <1>1
<1>4. Entries(hooks) \in Seq(S)
      <2> HIDE DEF S
      <2> QED BY <1>1, <1>3 DEF Entries
<1>5. ASSUME NEW i \in DOMAIN hooks PROVE Bytes(Entries(hooks)[i]) = Footprint(hooks[i])
      BY <1>1, <1>2, ListedFits
<1> QED BY <1>2, <1>4, <1>5 DEF Entries

\* The scan tells lists whose hooks keep apart from the others.
LEMMA ScanStep ==
    ASSUME ListInv, VerdictInv, Scan
    PROVE  VerdictInv'
<1> DEFINE es == Entries(hooks)
           S  == {Entry(h, i, "m") : h \in ListHooks, i \in Nat}
           T  == {e \in S : e.start < e.end}
<1>1. /\ hooks' = hooks /\ taken' = taken /\ taken = 0
      /\ sorted' \in SortedOrders(es)
      /\ valid' = IF ValidHooks(sorted') THEN "yes" ELSE "no"
      BY DEF Scan, gameVars, VerdictInv
<1>2. /\ es \in Seq(S) /\ DOMAIN es = DOMAIN hooks
      /\ \A i \in DOMAIN hooks : Bytes(es[i]) = Footprint(hooks[i])
      BY EntriesOfList
<1>3. \A e \in S : Ranged(e)
      BY ListedFits
<1>4. \A i, j \in DOMAIN hooks : Disjoint(es[i], es[j]) <=> ~SharesByte(i, j)
      BY <1>2 DEF Disjoint, SharesByte
<1> HIDE DEF es, S
<1>5. ASSUME valid' = "yes" PROVE Apart
      <2>1. PairwiseDisjoint(es)
            BY <1>1, <1>2, <1>3, <1>5, ScanIsSound
      <2> QED BY <1>2, <1>4, <2>1 DEF PairwiseDisjoint, Apart
<1>6. ASSUME valid' = "no", Apart, \A i \in DOMAIN hooks : Footprint(hooks[i]) # {}
      PROVE  FALSE
      <2>1. ASSUME NEW i \in DOMAIN hooks PROVE es[i] \in T
            <3>1. es[i] \in S
                  BY <1>2
            <3>2. Bytes(es[i]) # {} /\ Ranged(es[i])
                  BY <1>2, <1>3, <1>6, <3>1
            <3>3. es[i].start < es[i].end
                  BY <3>2 DEF Bytes, Ranged
            <3> QED BY <3>1, <3>3
      <2>2. es \in Seq(T)
            <3> HIDE DEF T
            <3> QED BY <1>2, <2>1
      <2>3. \A e \in T : Ranged(e) /\ e.start < e.end
            BY <1>3
      <2>4. PairwiseDisjoint(es)
            BY <1>2, <1>4, <1>6 DEF PairwiseDisjoint, Apart
      <2>5. ValidHooks(sorted')
            <3> HIDE DEF T
            <3> QED BY <1>1, <2>2, <2>3, <2>4, ScanIsComplete
      <2> QED BY <1>1, <1>6, <2>5
<1>7. Apart' <=> Apart
      BY <1>1 DEF Apart, SharesByte
<1>8. ScanComplete'
      BY <1>1, <1>6 DEF ScanComplete, Apart, SharesByte
<1> QED BY <1>1, <1>5, <1>7, <1>8 DEF VerdictInv

\* The game fetches the instruction of a branch hook as it was written.
LEMMA FetchedIsInstruction ==
    ASSUME ListInv, WrittenInv, pc = "applied", taken = Len(hooks),
           NEW i \in DOMAIN hooks, hooks[i].magic = "Branch"
    PROVE  Fetched(hooks[i].addr) = Instruction(hooks[i])
<1> DEFINE a == hooks[i].addr
           whole == {j \in DOMAIN hooks : \A k \in 0 .. 3 : /\ a + k \in DOMAIN image
                                                            /\ image[a + k] = <<j, k>>}
<1>1. DOMAIN hooks = 1 .. Len(hooks) /\ Len(hooks) \in Nat /\ hooks[i] \in ListHooks
      BY DEF ListInv
<1>2. a \in Nat
      BY <1>1, ListedFits
<1>3. Footprint(hooks[i]) = a .. a + 3
      BY <1>2 DEF Footprint, WriteSize
<1>4. ASSUME NEW k \in 0 .. 3 PROVE a + k \in DOMAIN image /\ image[a + k] = <<i, k>>
      <2>1. a + k \in Footprint(hooks[i]) /\ (a + k) - a = k
            BY <1>2, <1>3
      <2>2. i < taken \/ (i = taken /\ pc = "applied")
            BY <1>1
      <2> QED BY <2>1, <2>2 DEF WrittenInv
<1>5. whole = {i}
      <2>1. i \in whole
            BY <1>4
      <2>2. ASSUME NEW j \in whole PROVE j = i
            <3>1. image[a + 0] = <<j, 0>> /\ image[a + 0] = <<i, 0>>
                  BY <1>4
            <3> QED BY <3>1
      <2> QED BY <2>1, <2>2
<1>6. (CHOOSE j \in whole : TRUE) = i
      BY <1>5
<1>7. Fetched(a) = IF \E j \in whole : hooks[j].magic = "Branch"
                   THEN Instruction(hooks[CHOOSE j \in whole : TRUE]) ELSE 0
      BY DEF Fetched
<1> HIDE DEF whole
<1> QED BY <1>5, <1>6, <1>7

\* The loader takes up the next hook of the list.
LEMMA TakeStep == ASSUME HookedInv, Take PROVE HookedInv'
<1>1. /\ valid = "yes" /\ pc \in {"idle", "applied"} /\ taken < Len(hooks)
      /\ taken' = taken + 1 /\ hook' = hooks[taken'] /\ pc' = "check"
      /\ hooks' = hooks /\ valid' = valid /\ image' = image /\ lr' = lr
      BY DEF Take, scanVars
<1>2. ListInv /\ VerdictInv /\ TakenInv /\ ArrivedInv /\ WrittenInv
      BY DEF HookedInv
<1>3. DOMAIN hooks = 1 .. Len(hooks) /\ Len(hooks) \in Nat /\ taken \in 0 .. Len(hooks)
      BY <1>1, <1>2 DEF ListInv
<1>4. taken # 0 => pc = "applied"
      BY <1>1, <1>2, <1>3 DEF TakenInv
<1>5. ASSUME NEW i \in DOMAIN hooks, i < taken'
      PROVE  i < taken \/ (i = taken /\ pc = "applied")
      BY <1>1, <1>3, <1>4, <1>5
<1>6. ListInv'
      BY <1>1, <1>2, <1>3 DEF ListInv
<1>7. VerdictInv'
      BY <1>1, <1>2 DEF VerdictInv, Apart, SharesByte, ScanComplete
<1>8. TakenInv'
      <2>1. \A i \in DOMAIN hooks : i < taken' => Encodable(hooks[i])
            BY <1>2, <1>5 DEF TakenInv
      <2> QED BY <1>1, <1>3, <2>1 DEF TakenInv, Encodable, InRange, BranchOffset, Signed
<1>9. ArrivedInv'
      BY <1>1, <1>2, <1>3 DEF ArrivedInv, ReachesTarget
<1>10. WrittenInv'
      <2>1. \A i \in DOMAIN hooks : i < taken' =>
                \A a \in Footprint(hooks[i]) :
                    a \in DOMAIN image /\ image[a] = <<i, a - hooks[i].addr>>
            BY <1>2, <1>5 DEF WrittenInv
      <2> QED BY <1>1, <2>1 DEF WrittenInv, Footprint, WriteSize
<1> QED BY <1>6, <1>7, <1>8, <1>9, <1>10 DEF HookedInv

\* While an applicator runs, its hook is one of the list, which was found valid.
LEMMA AtWork ==
    ASSUME HookedInv, pc \in {"check", "write", "refused"}
    PROVE  taken \in DOMAIN hooks /\ hook = hooks[taken] /\ valid = "yes"
<1>1. ListInv /\ VerdictInv /\ TakenInv /\ ArrivedInv
      BY DEF HookedInv
<1>2. DOMAIN hooks = 1 .. Len(hooks) /\ Len(hooks) \in Nat /\ taken \in 0 .. Len(hooks) + 1
      BY <1>1 DEF ListInv
<1>3. taken # 0 /\ ~(taken > Len(hooks))
      BY <1>1 DEF TakenInv, ArrivedInv
<1> QED BY <1>1, <1>2, <1>3 DEF TakenInv, VerdictInv

\* The range check of an applicator.
LEMMA CheckStep == ASSUME HookedInv, Check PROVE HookedInv'
<1>1. /\ pc = "check" /\ pc' = IF Encodable(hook) THEN "write" ELSE "refused"
      /\ hooks' = hooks /\ valid' = valid /\ image' = image /\ lr' = lr
      /\ taken' = taken /\ hook' = hook
      BY DEF Check, CheckRange, scanVars, gameVars
<1>2. taken \in DOMAIN hooks /\ hook = hooks[taken]
      BY <1>1, AtWork
<1>3. ListInv /\ VerdictInv /\ TakenInv /\ ArrivedInv /\ WrittenInv
      BY DEF HookedInv
<1>4. DOMAIN hooks = 1 .. Len(hooks) /\ Len(hooks) \in Nat
      BY <1>3 DEF ListInv
<1>5. ListInv' /\ VerdictInv'
      BY <1>1, <1>3 DEF ListInv, VerdictInv, Apart, SharesByte, ScanComplete
<1>6. TakenInv'
      <2>1. pc' = "refused" => ~Encodable(hook)
            BY <1>1
      <2>2. \A i \in DOMAIN hooks :
                i < taken \/ (i = taken /\ pc' = "write") => Encodable(hooks[i])
            BY <1>1, <1>2, <1>3 DEF TakenInv
      <2>3. pc' \in {"write", "refused"} /\ taken # 0
            BY <1>1, <1>2, <1>4
      <2> QED BY <1>1, <1>2, <1>4, <2>1, <2>2, <2>3
              DEF TakenInv, Encodable, InRange, BranchOffset, Signed
<1>7. ArrivedInv'
      BY <1>1, <1>2, <1>3, <1>4 DEF ArrivedInv, ReachesTarget
<1>8. WrittenInv'
      BY <1>1, <1>3 DEF WrittenInv, Footprint, WriteSize
<1> QED BY <1>5, <1>6, <1>7, <1>8 DEF HookedInv

\* An applicator writes its hook, next to what the hooks before it wrote.
LEMMA WriteStep == ASSUME HookedInv, WriteBranch \/ WriteData PROVE HookedInv'
<1>1. /\ pc = "write" /\ pc' = "applied" /\ Put
      /\ hooks' = hooks /\ valid' = valid /\ lr' = lr /\ taken' = taken /\ hook' = hook
      BY DEF WriteBranch, WriteData, Write, scanVars
<1>2. taken \in DOMAIN hooks /\ hook = hooks[taken] /\ valid = "yes"
      BY <1>1, AtWork
<1>3. ListInv /\ VerdictInv /\ TakenInv /\ ArrivedInv /\ WrittenInv
      BY DEF HookedInv
<1>4. DOMAIN hooks = 1 .. Len(hooks) /\ Len(hooks) \in Nat /\ taken \in Nat
      BY <1>2, <1>3 DEF ListInv
<1>5. ListInv' /\ VerdictInv'
      BY <1>1, <1>3 DEF ListInv, VerdictInv, Apart, SharesByte, ScanComplete
<1>6. TakenInv'
      <2>1. \A i \in DOMAIN hooks : i < taken \/ i = taken => Encodable(hooks[i])
            BY <1>1, <1>3 DEF TakenInv
      <2> QED BY <1>1, <1>2, <1>4, <2>1
              DEF TakenInv, Encodable, InRange, BranchOffset, Signed
<1>7. ArrivedInv'
      BY <1>1, <1>2, <1>3, <1>4 DEF ArrivedInv, ReachesTarget
<1>8. ASSUME NEW i \in DOMAIN hooks, i < taken \/ i = taken, NEW a \in Footprint(hooks[i])
      PROVE  a \in DOMAIN image' /\ image'[a] = <<i, a - hooks[i].addr>>
      <2>1. CASE i = taken
            BY <1>1, <1>2, <2>1 DEF Put
      <2>2. CASE i < taken
            <3>1. i # taken
                  BY <1>4, <2>2
            <3>2. a \notin Footprint(hook)
                  BY <1>2, <1>3, <3>1 DEF VerdictInv, Apart, SharesByte
            <3>3. a \in DOMAIN image /\ image[a] = <<i, a - hooks[i].addr>>
                  BY <1>3, <2>2 DEF WrittenInv
            <3> QED BY <1>1, <3>2, <3>3 DEF Put
      <2> QED BY <1>8, <2>1, <2>2
<1>9. WrittenInv'
      BY <1>1, <1>8 DEF WrittenInv, Footprint, WriteSize
<1> QED BY <1>5, <1>6, <1>7, <1>9 DEF HookedInv

\* The game gets to a branch hook when all are written.
LEMMA ArriveStep == ASSUME HookedInv, Arrive PROVE HookedInv'
<1>1. PICK i \in DOMAIN hooks : /\ hooks[i].magic = "Branch"
                                /\ hook' = hooks[i] /\ code' = Fetched(hooks[i].addr)
      BY DEF Arrive
<1>2. /\ pc = "applied" /\ taken = Len(hooks) /\ taken' = taken + 1
      /\ hooks' = hooks /\ valid' = valid /\ image' = image /\ lr' = lr /\ pc' = pc
      BY DEF Arrive, scanVars
<1>3. ListInv /\ VerdictInv /\ TakenInv /\ ArrivedInv /\ WrittenInv
      BY DEF HookedInv
<1>4. DOMAIN hooks = 1 .. Len(hooks) /\ Len(hooks) \in Nat /\ hooks[i] \in ListHooks
      BY <1>3 DEF ListInv
<1>5. valid = "yes"
      BY <1>1, <1>2, <1>3, <1>4 DEF VerdictInv
<1>6. \A j \in DOMAIN hooks : j < taken \/ (j = taken /\ pc = "applied")
      BY <1>2, <1>4
<1>7. \A j \in DOMAIN hooks : Encodable(hooks[j])
      BY <1>2, <1>3, <1>6 DEF TakenInv
<1>8. ListInv' /\ VerdictInv'
      BY <1>2, <1>3, <1>4, <1>5 DEF ListInv, VerdictInv, Apart, SharesByte, ScanComplete
<1>9. TakenInv'
      BY <1>2, <1>4, <1>7 DEF TakenInv, Encodable, InRange, BranchOffset, Signed
<1>10. ArrivedInv'
      <2>1. hook' \in Hooks
            BY <1>1, <1>4, ListedFits
      <2>2. code' = Instruction(hooks[i])
            BY <1>1, <1>2, <1>3, FetchedIsInstruction
      <2> QED BY <1>1, <1>2, <1>3, <1>7, <2>1, <2>2
              DEF ArrivedInv, ReachesTarget, Instruction, OffsetField,
                  Encodable, InRange, BranchOffset, Signed
<1>11. WrittenInv'
      BY <1>2, <1>3, <1>6 DEF WrittenInv, Footprint, WriteSize
<1> QED BY <1>8, <1>9, <1>10, <1>11 DEF HookedInv

\* The processor follows the hooked branch to its target.
LEMMA LandStep == ASSUME HookedInv, Land PROVE HookedInv'
<1>1. /\ pc = "applied" /\ pc' = "landed" /\ hook' = hook /\ taken > Len(hooks)
      /\ at' = GoesTo(code, hook.addr)
      /\ lr' = IF Links(code) THEN (hook.addr + 4) % WordMod ELSE lr
      /\ hooks' = hooks /\ valid' = valid /\ image' = image /\ taken' = taken
      BY DEF Land, Execute, scanVars, gameVars
<1>2. ListInv /\ VerdictInv /\ TakenInv /\ ArrivedInv /\ WrittenInv
      BY DEF HookedInv
<1>3. DOMAIN hooks = 1 .. Len(hooks) /\ Len(hooks) \in Nat /\ taken \in Nat
      BY <1>2 DEF ListInv
<1>4. hook \in Hooks /\ Encodable(hook) /\ code = Instruction(hook) /\ lr = -1
      BY <1>1, <1>2 DEF ArrivedInv
<1>5. ListInv' /\ VerdictInv'
      BY <1>1, <1>2 DEF ListInv, VerdictInv, Apart, SharesByte, ScanComplete
<1>6. \A i \in DOMAIN hooks : i < taken
      BY <1>1, <1>3
<1>7. TakenInv'
      <2>1. \A i \in DOMAIN hooks : Encodable(hooks[i])
            BY <1>2, <1>6 DEF TakenInv
      <2> QED BY <1>1, <1>3, <2>1 DEF TakenInv, Encodable, InRange, BranchOffset, Signed
<1>8. ReachesTarget'
      <2>1. SUFFICES ASSUME Aligned(hook)
                     PROVE  /\ at' = hook.target
                            /\ lr' = IF hook.branch = "bl" THEN (hook.addr + 4) % WordMod ELSE -1
            BY <1>1 DEF ReachesTarget, Aligned
      <2>2. InRange(hook)
            BY <1>4, HookAssumption DEF Encodable
      <2>3. at' = hook.target
            BY <1>1, <1>4, <2>1, <2>2, AcceptedReaches
      <2>4. Links(code) <=> hook.branch = "bl"
            BY <1>4, <2>1, <2>2, InstructionIsRead
      <2> QED BY <1>1, <1>4, <2>3, <2>4
<1>9. ArrivedInv'
      BY <1>1, <1>4, <1>8 DEF ArrivedInv, Encodable, InRange, BranchOffset, Signed
<1>10. WrittenInv'
      BY <1>1, <1>2, <1>6 DEF WrittenInv, Footprint, WriteSize
<1> QED BY <1>5, <1>7, <1>9, <1>10 DEF HookedInv

\* Every step keeps the invariant of the lists.
LEMMA HookedStep == HookedInv /\ [HookedNext]_allVars => HookedInv'
<1> SUFFICES ASSUME HookedInv, [HookedNext]_allVars PROVE HookedInv'
    OBVIOUS
<1>1. CASE Scan
      <2>1. /\ hooks' = hooks /\ taken' = taken /\ image' = image
            /\ hook' = hook /\ pc' = pc /\ code' = code /\ at' = at /\ lr' = lr
            BY <1>1 DEF Scan, vars, gameVars
      <2>2. VerdictInv'
            BY <1>1, ScanStep DEF HookedInv
      <2> QED BY <2>1, <2>2 DEF HookedInv, ListInv, TakenInv, ArrivedInv, WrittenInv,
                  ReachesTarget, Footprint, WriteSize, Encodable, InRange, BranchOffset,
                  Signed, Aligned, Instruction, OffsetField
<1>2. CASE UNCHANGED allVars
      <2>1. /\ hooks' = hooks /\ taken' = taken /\ image' = image /\ valid' = valid
            /\ hook' = hook /\ pc' = pc /\ code' = code /\ at' = at /\ lr' = lr
            BY <1>2 DEF allVars, vars, scanVars, gameVars
      <2> QED BY <2>1 DEF HookedInv, ListInv, VerdictInv, TakenInv, ArrivedInv, WrittenInv,
                  ScanComplete, Apart, SharesByte, ReachesTarget, Footprint, WriteSize,
                  Encodable, InRange, BranchOffset, Signed, Aligned, Instruction, OffsetField
<1> QED BY <1>1, <1>2, TakeStep, CheckStep, WriteStep, ArriveStep, LandStep
        DEF HookedNext, Over

\* A list that has just been read.
LEMMA HookedStart == HookedInit => HookedInv
<1> SUFFICES ASSUME HookedInit PROVE HookedInv
    OBVIOUS
<1>1. hooks \in Seq(ListHooks)
      <2>1. CASE \E n \in 0 .. MaxHooks : hooks \in [1 .. n -> SmallHooks]
            <3>1. PICK n \in 0 .. MaxHooks : hooks \in [1 .. n -> SmallHooks]
                  BY <2>1
            <3>2. n \in Nat /\ hooks \in [1 .. n -> ListHooks]
                  BY <3>1, ListAssumption DEF ListHooks
            <3> QED BY <3>2
      <2>2. CASE \E h \in Hooks : hooks = <<h>>
            BY <2>2 DEF ListHooks
      <2> QED BY <2>1, <2>2 DEF HookedInit
<1>2. DOMAIN hooks = 1 .. Len(hooks) /\ Len(hooks) \in Nat
      BY <1>1
<1>3. taken = 0 /\ pc = "idle" /\ valid = "unknown" /\ lr = -1
      BY DEF HookedInit
<1> QED BY <1>1, <1>2, <1>3 DEF HookedInv, ListInv, VerdictInv, TakenInv, ArrivedInv,
           WrittenInv, ScanComplete, ReachesTarget

\* For every list, an invalid one writes some byte twice or has an empty patch.
THEOREM InvalidListsConflict == HookedSpec => []ScanComplete
<1>1. HookedInv => ScanComplete
      BY DEF HookedInv, VerdictInv
<1> QED BY <1>1, HookedStart, HookedStep, PTL DEF HookedSpec

\* For every valid list, and whichever order an unstable sort scans it in, what a
\* hook wrote is in the game to the byte when all are applied.
THEOREM HooksStayApplied == HookedSpec => []HooksStay
<1>1. HookedInv => HooksStay
      BY DEF HookedInv, ListInv, WrittenInv, HooksStay
<1> QED BY <1>1, HookedStart, HookedStep, PTL DEF HookedSpec

\* For every valid list, the game that runs into a branch hook gets to its target.
THEOREM ListedBranchesReach == HookedSpec => []ReachesTarget
<1>1. HookedInv => ReachesTarget
      BY DEF HookedInv, ArrivedInv
<1> QED BY <1>1, HookedStart, HookedStep, PTL DEF HookedSpec

\* For every valid list, a branch that stops the loader could not be encoded.
THEOREM ListedRefusalsAreFinal == HookedSpec => []RefusedForGood
<1>1. HookedInv => RefusedForGood
      <2> SUFFICES ASSUME HookedInv, pc = "refused", hook.branch \in {"b", "bl"},
                          NEW instr \in PrimaryOp * Span .. (PrimaryOp + 1) * Span - 1
                   PROVE  GoesTo(instr, hook.addr) # hook.target
          BY DEF RefusedForGood
      <2>1. taken \in DOMAIN hooks /\ hook = hooks[taken]
            BY AtWork
      <2>2. hook \in ListHooks /\ ~Encodable(hook)
            BY <2>1 DEF HookedInv, ListInv, TakenInv
      <2>3. hook \in Hooks /\ ~InRange(hook)
            BY <2>2, ListedFits DEF Encodable
      <2>4. instr \in Int
            BY SpanFacts DEF PrimaryOp
      <2> QED BY <2>3, <2>4, OutOfRangeIsOutOfReach
<1> QED BY <1>1, HookedStart, HookedStep, PTL DEF HookedSpec
=============================================================================
