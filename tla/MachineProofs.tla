---------------------------- MODULE MachineProofs ----------------------------
(***************************************************************************)
(* What the loader does to the machine.  CodePatch, for any number of      *)
(* cache lines and hooks: nobody fetches or loads stale bytes of a hook.   *)
(* NakedCode, for calls of any depth: a hook that saves the registers      *)
(* leaves those of the code it interrupts as they were, and every function *)
(* in assembly returns to its caller.                                      *)
(***************************************************************************)
EXTENDS CodePatch, NakedCode, SequenceTheorems, TLAPS

----------------------------------------------------------------------------
(* CodePatch.  The inductive invariant follows the hook being applied      *)
(* through the caches:  after the write it is in what the core would load, *)
(* after the flush in memory, after the invalidation in every copy of the  *)
(* instruction cache; a copy in the data cache is never older than memory. *)

\* A copy held by the data cache has every hook memory has.
DataCacheNewer == \A l \in Lines : dcache[l] # Absent => ram[l] \subseteq dcache[l]

\* How far the hook being applied has come on line l.
Written(l)  == step # "none" /\ (step = "write" => l \notin todo)
Flushed(l) == \/ step \in {"invalidate", "isync"}
              \/ step = "flush" /\ l \notin todo
Invalidated(l) == step = "isync" \/ (step = "invalidate" /\ l \notin todo)

Progress ==
    /\ step \in {"invalidate", "isync"} => cur \in CodeHooks
    /\ \A l \in LinesOf[cur] : /\ Written(l) => cur \in DataView(l)
                               /\ Flushed(l) => cur \in ram[l]
                               /\ Invalidated(l) => Shows(icache[l], cur)

Coherence == DataCacheNewer /\ Progress /\ FetchCoherent /\ DataCoherent

IInv == TypeOK /\ Coherence

\* Before the first hook nothing has been applied, so nothing is missing.
LEMMA InitInv == Init => IInv
BY CodePatchAssumption
   DEF Init, IInv, TypeOK, Copy, Absent, Coherence, DataCacheNewer, Progress, Written, Flushed,
       Invalidated, FetchCoherent, DataCoherent, Shows

\* Every step of an applicator or of the hardware keeps the types.
LEMMA TypeStep == TypeOK /\ [Next]_vars => TypeOK'
<1> SUFFICES ASSUME TypeOK, [Next]_vars PROVE TypeOK'
    OBVIOUS
<1> USE CodePatchAssumption
<1>1. ASSUME NEW h \in Hooks, Begin(h) PROVE TypeOK'
      BY <1>1 DEF TypeOK, Copy, Begin, caches
<1>2. ASSUME NEW l \in Lines, WriteLine(l) PROVE TypeOK'
      <2>1. DataView(l) \cup {cur} \in SUBSET Hooks
            BY DEF TypeOK, Copy, Absent, DataView
      <2> QED BY <1>2, <2>1 DEF TypeOK, Copy, WriteLine
<1>3. ASSUME NEW l \in Lines, WriteBack(l)
      PROVE  /\ ram' \in [Lines -> SUBSET Hooks]
             /\ dcache' \in [Lines -> Copy]
      <2>1. DataView(l) \in SUBSET Hooks
            BY DEF TypeOK, Copy, Absent, DataView
      <2> QED BY <1>3, <2>1 DEF TypeOK, Copy, WriteBack
<1>4. ASSUME NEW l \in Lines, FlushLine(l) PROVE TypeOK'
      BY <1>3, <1>4 DEF TypeOK, FlushLine
<1>5. ASSUME NEW l \in Lines, InvalidateLine(l) PROVE TypeOK'
      BY <1>5 DEF TypeOK, Copy, InvalidateLine
<1>6. CASE NextStep
      <2>1. step \in {"write", "flush", "invalidate"}
            BY <1>6 DEF NextStep
      <2>2. step' \in {"flush", "invalidate", "isync"}
            BY <1>6, <2>1 DEF NextStep, StepAfter
      <2>3. todo' \subseteq LinesOf[cur]
            BY <1>6 DEF NextStep
      <2> QED BY <1>6, <2>2, <2>3 DEF TypeOK, NextStep, caches
<1>7. CASE Return
      BY <1>7 DEF TypeOK, Copy, Return, Isync
<1>8. ASSUME NEW l \in Lines, Evict(l) PROVE TypeOK'
      BY <1>3, <1>8 DEF TypeOK, Evict, patchVars
<1>9. ASSUME NEW l \in Lines, Fill(l) \/ DropCode(l) \/ FillCode(l) \/ Prefetch(l)
      PROVE TypeOK'
      BY <1>9 DEF TypeOK, Copy, Fill, DropCode, FillCode, Prefetch, patchVars
<1>10. CASE UNCHANGED vars
      BY <1>10 DEF TypeOK, Copy, vars, caches
<1> QED BY <1>1, <1>2, <1>4, <1>5, <1>6, <1>7, <1>8, <1>9, <1>10
        DEF Next, Apply, Hardware

\* Copies hold hooks, and a step of an applicator treats lines of its own hook only.
THEOREM TypeCorrect == Spec => []TypeOK
<1>1. Init => TypeOK
      BY InitInv DEF IInv
<1> QED BY <1>1, TypeStep, PTL DEF Spec

\* Every step of an applicator or of the hardware keeps the inductive invariant.
LEMMA InvStep == IInv /\ [Next]_vars => IInv'
<1> SUFFICES ASSUME IInv, [Next]_vars PROVE IInv'
    OBVIOUS
<1> USE CodePatchAssumption
<1>1. TypeOK /\ TypeOK' /\ Coherence
      BY TypeStep DEF IInv
<1> SUFFICES Coherence'
      BY <1>1 DEF IInv
<1> USE DEF Coherence, DataCacheNewer, Progress, Written, Flushed, Invalidated,
            FetchCoherent, DataCoherent, Shows, DataView
<1>2. ASSUME NEW h \in Hooks, Begin(h) PROVE Coherence'
      BY <1>1, <1>2 DEF TypeOK, Begin, caches
<1>3. ASSUME NEW l \in Lines, WriteLine(l) PROVE Coherence'
      BY <1>1, <1>3 DEF TypeOK, Copy, Absent, WriteLine
<1>4. ASSUME NEW l \in Lines, FlushLine(l) PROVE Coherence'
      BY <1>1, <1>4 DEF TypeOK, Copy, Absent, FlushLine, WriteBack
<1>5. ASSUME NEW l \in Lines, InvalidateLine(l) PROVE Coherence'
      BY <1>1, <1>5 DEF TypeOK, Copy, Absent, InvalidateLine
<1>6. CASE NextStep
      BY <1>1, <1>6 DEF TypeOK, NextStep, caches, StepAfter, LastStep
<1>7. CASE Return
      <2>1. DataCacheNewer' /\ Progress'
            BY <1>1, <1>7 DEF Return, TypeOK
      <2>2. \A l \in LinesOf[cur] : cur \in ram[l]
            BY <1>1, <1>7 DEF Return, LastStep, TypeOK
      <2>3. cur \in CodeHooks => \A l \in LinesOf[cur] : Shows(icache[l], cur)
            BY <1>1, <1>7 DEF Return, LastStep, TypeOK
      <2>4. cur \in CodeHooks => \A l \in Lines : pipe'[l] = Absent
            BY <1>7 DEF Return, LastStep, Isync
      <2>5. pipe' = pipe \/ \A l \in Lines : pipe'[l] = Absent
            BY <1>7 DEF Return, Isync
      <2>6. FetchCoherent'
            BY <1>1, <1>7, <2>2, <2>3, <2>4, <2>5 DEF Return, TypeOK
      <2>7. DataCoherent'
            BY <1>1, <1>7, <2>2 DEF Return, TypeOK
      <2> QED BY <2>1, <2>6, <2>7
<1>8. ASSUME NEW l \in Lines, Evict(l) PROVE Coherence'
      BY <1>1, <1>8 DEF TypeOK, Copy, Absent, Evict, WriteBack, patchVars
<1>9. ASSUME NEW l \in Lines, Fill(l) PROVE Coherence'
      BY <1>1, <1>9 DEF TypeOK, Copy, Absent, Fill, patchVars
<1>10. ASSUME NEW l \in Lines, DropCode(l) \/ FillCode(l) PROVE Coherence'
      BY <1>1, <1>10 DEF TypeOK, Copy, Absent, DropCode, FillCode, patchVars
<1>11. ASSUME NEW l \in Lines, Prefetch(l) PROVE Coherence'
      BY <1>1, <1>11 DEF TypeOK, Copy, Absent, Prefetch, patchVars
<1>12. CASE UNCHANGED vars
      BY <1>1, <1>12 DEF vars, caches
<1> HIDE DEF Coherence
<1> QED
      BY <1>2, <1>3, <1>4, <1>5, <1>6, <1>7, <1>8, <1>9, <1>10, <1>11, <1>12
      DEF Next, Apply, Hardware

\* No instruction fetched after a code hook's applicator has returned lacks it.
THEOREM FetchesArePatched == Spec => []FetchCoherent
<1>1. IInv => FetchCoherent
      BY DEF IInv, Coherence
<1> QED BY <1>1, InitInv, InvStep, PTL DEF Spec

\* An applied hook stays in memory and in every copy of the data cache.
THEOREM MemoryIsPatched == Spec => []DataCoherent
<1>1. IInv => DataCoherent
      BY DEF IInv, Coherence
<1> QED BY <1>1, InitInv, InvStep, PTL DEF Spec

----------------------------------------------------------------------------
(* The code of the three functions, instruction by instruction *)

Opcodes == {"stwu", "stw", "lwz", "mfcr", "mfctr", "mflr", "mtcr", "mtctr", "mtlr", "addi",
            "la", "li", "bl", "bctrl", "blr"}
NakedInstructions == Opcodes \X Int \X Int

\* A sequence that goes on.
Joins(s, s1, s2, m, k) ==
    /\ s \in Seq(NakedInstructions) /\ Len(s) = m + k
    /\ \A i \in 1 .. m : s[i] = s1[i]
    /\ \A i \in 1 .. k : s[m + i] = s2[i]
\* Concatenation joins.
LEMMA Joined ==
    ASSUME NEW m \in Nat, NEW k \in Nat, NEW s1 \in Seq(NakedInstructions), NEW s2 \in Seq(NakedInstructions),
           Len(s1) = m, Len(s2) = k
    PROVE  Joins(s1 \o s2, s1, s2, m, k)
<1>2. /\ s1 \o s2 \in Seq(NakedInstructions) /\ Len(s1 \o s2) = m + k
      /\ \A i \in 1 .. m + k :
             (s1 \o s2)[i] = IF i <= m THEN s1[i] ELSE s2[i - m]
      BY ConcatProperties
<1>3. ASSUME NEW i \in 1 .. m PROVE (s1 \o s2)[i] = s1[i]
      BY <1>2
<1>4. ASSUME NEW i \in 1 .. k PROVE (s1 \o s2)[m + i] = s2[i]
      <2>1. m + i \in 1 .. m + k /\ ~(m + i <= m) /\ m + i - m = i
            OBVIOUS
      <2> QED BY <1>2, <2>1
<1> QED BY <1>2, <1>3, <1>4 DEF Joins

\* The ten stores, and the ten loads.
LEMMA EachIs ==
    ASSUME NEW o \in Opcodes
    PROVE  /\ Each(o) \in Seq(NakedInstructions) /\ Len(Each(o)) = 10
           /\ \A j \in 1 .. 10 : Each(o)[j] = <<o, j + 2, 8 + 4 * j>>
<1>1. Each(o) \in [1 .. 10 -> NakedInstructions]
      BY DEF Each, NakedInstructions
<1> QED BY <1>1 DEF Each

\* tSaveVolatileRegisters.
Saves(c) ==
    /\ c[1] = <<"stwu", 1, -60>> /\ c[2] = <<"stw", 0, 8>>
    /\ \A j \in 1 .. 10 : c[2 + j] = <<"stw", j + 2, 8 + 4 * j>>
    /\ c[13] = <<"mfcr", 0, 0>> /\ c[14] = <<"stw", 0, 52>>
    /\ c[15] = <<"mfctr", 0, 0>> /\ c[16] = <<"stw", 0, 56>>
    /\ c[17] = <<"mflr", 0, 0>> /\ c[18] = <<"stw", 0, 64>>
\* The macro's three parts, joined.
LEMMA SaveIs ==
    /\ tSaveVolatileRegisters \in Seq(NakedInstructions) /\ Len(tSaveVolatileRegisters) = 18
    /\ Saves(tSaveVolatileRegisters)
<1> DEFINE x == <<<<"stwu", 1, -60>>, <<"stw", 0, 8>>>>
           y == Each("stw")
           z == <<<<"mfcr", 0, 0>>, <<"stw", 0, 52>>, <<"mfctr", 0, 0>>, <<"stw", 0, 56>>,
                  <<"mflr", 0, 0>>, <<"stw", 0, 64>>>>
           xy == x \o y
           c == xy \o z
<1>1. x \in Seq(NakedInstructions) /\ Len(x) = 2 /\ x[1] = <<"stwu", 1, -60>> /\ x[2] = <<"stw", 0, 8>>
      BY DEF NakedInstructions, Opcodes
<1>2. /\ y \in Seq(NakedInstructions) /\ Len(y) = 10
      /\ \A j \in 1 .. 10 : y[j] = <<"stw", j + 2, 8 + 4 * j>>
      BY EachIs DEF Opcodes
<1>3. /\ z \in Seq(NakedInstructions) /\ Len(z) = 6
      /\ z[1] = <<"mfcr", 0, 0>> /\ z[2] = <<"stw", 0, 52>>
      /\ z[3] = <<"mfctr", 0, 0>> /\ z[4] = <<"stw", 0, 56>>
      /\ z[5] = <<"mflr", 0, 0>> /\ z[6] = <<"stw", 0, 64>>
      BY DEF NakedInstructions, Opcodes
<1>4. tSaveVolatileRegisters = c
      BY DEF tSaveVolatileRegisters
<1> HIDE DEF x, y, z
<1>5. Joins(xy, x, y, 2, 10)
      BY <1>1, <1>2, Joined
<1> HIDE DEF xy
<1>6. xy \in Seq(NakedInstructions) /\ Len(xy) = 12
      BY <1>5 DEF Joins
<1>7. Joins(c, xy, z, 12, 6)
      BY <1>3, <1>6, Joined
<1> HIDE DEF c
<1>8. c[1] = x[1] /\ c[2] = x[2]
      BY <1>5, <1>7 DEF Joins
<1>9. ASSUME NEW j \in 1 .. 10 PROVE c[2 + j] = <<"stw", j + 2, 8 + 4 * j>>
      <2>1. 2 + j \in 1 .. 12
            OBVIOUS
      <2>2. c[2 + j] = xy[2 + j]
            BY <1>7, <2>1 DEF Joins
      <2>3. xy[2 + j] = y[j]
            BY <1>5 DEF Joins
      <2> QED BY <1>2, <2>2, <2>3
<1>10. /\ c[13] = z[1] /\ c[14] = z[2] /\ c[15] = z[3]
       /\ c[16] = z[4] /\ c[17] = z[5] /\ c[18] = z[6]
      BY <1>7 DEF Joins
<1>11. c \in Seq(NakedInstructions) /\ Len(c) = 18
      BY <1>7 DEF Joins
<1>12. Saves(c)
      BY <1>1, <1>3, <1>8, <1>9, <1>10 DEF Saves
<1> QED BY <1>4, <1>11, <1>12

\* tRestoreVolatileRegisters.
Restores(c) ==
    /\ c[1] = <<"lwz", 0, 56>> /\ c[2] = <<"mtctr", 0, 0>>
    /\ c[3] = <<"lwz", 0, 52>> /\ c[4] = <<"mtcr", 0, 0>>
    /\ c[5] = <<"lwz", 0, 64>> /\ c[6] = <<"mtlr", 0, 0>>
    /\ c[7] = <<"lwz", 0, 8>>
    /\ \A j \in 1 .. 10 : c[7 + j] = <<"lwz", j + 2, 8 + 4 * j>>
    /\ c[18] = <<"addi", 1, 60>>
\* The macro's three parts, joined.
LEMMA RestoreIs ==
    /\ tRestoreVolatileRegisters \in Seq(NakedInstructions) /\ Len(tRestoreVolatileRegisters) = 18
    /\ Restores(tRestoreVolatileRegisters)
<1> DEFINE x == <<<<"lwz", 0, 56>>, <<"mtctr", 0, 0>>, <<"lwz", 0, 52>>, <<"mtcr", 0, 0>>,
                  <<"lwz", 0, 64>>, <<"mtlr", 0, 0>>, <<"lwz", 0, 8>>>>
           y == Each("lwz")
           z == <<<<"addi", 1, 60>>>>
           xy == x \o y
           c == xy \o z
<1>1. /\ x \in Seq(NakedInstructions) /\ Len(x) = 7
      /\ x[1] = <<"lwz", 0, 56>> /\ x[2] = <<"mtctr", 0, 0>> /\ x[3] = <<"lwz", 0, 52>>
      /\ x[4] = <<"mtcr", 0, 0>> /\ x[5] = <<"lwz", 0, 64>> /\ x[6] = <<"mtlr", 0, 0>>
      /\ x[7] = <<"lwz", 0, 8>>
      BY DEF NakedInstructions, Opcodes
<1>2. /\ y \in Seq(NakedInstructions) /\ Len(y) = 10
      /\ \A j \in 1 .. 10 : y[j] = <<"lwz", j + 2, 8 + 4 * j>>
      BY EachIs DEF Opcodes
<1>3. z \in Seq(NakedInstructions) /\ Len(z) = 1 /\ z[1] = <<"addi", 1, 60>>
      BY DEF NakedInstructions, Opcodes
<1>4. tRestoreVolatileRegisters = c
      BY DEF tRestoreVolatileRegisters
<1> HIDE DEF x, y, z
<1>5. Joins(xy, x, y, 7, 10)
      BY <1>1, <1>2, Joined
<1> HIDE DEF xy
<1>6. xy \in Seq(NakedInstructions) /\ Len(xy) = 17
      BY <1>5 DEF Joins
<1>7. Joins(c, xy, z, 17, 1)
      BY <1>3, <1>6, Joined
<1> HIDE DEF c
<1>8. ASSUME NEW i \in 1 .. 7 PROVE c[i] = x[i]
      <2>1. i \in 1 .. 17
            OBVIOUS
      <2> QED BY <1>5, <1>7, <2>1 DEF Joins
<1>9. ASSUME NEW j \in 1 .. 10 PROVE c[7 + j] = <<"lwz", j + 2, 8 + 4 * j>>
      <2>1. 7 + j \in 1 .. 17
            OBVIOUS
      <2>2. c[7 + j] = xy[7 + j]
            BY <1>7, <2>1 DEF Joins
      <2>3. xy[7 + j] = y[j]
            BY <1>5 DEF Joins
      <2> QED BY <1>2, <2>2, <2>3
<1>10. c[18] = <<"addi", 1, 60>> /\ c \in Seq(NakedInstructions) /\ Len(c) = 18
      BY <1>3, <1>7 DEF Joins
<1>11. /\ c[1] = x[1] /\ c[2] = x[2] /\ c[3] = x[3] /\ c[4] = x[4]
       /\ c[5] = x[5] /\ c[6] = x[6] /\ c[7] = x[7]
      BY <1>8
<1>12. Restores(c)
      BY <1>1, <1>9, <1>10, <1>11 DEF Restores
<1> QED BY <1>4, <1>10, <1>12

\* The stores of a hook: the steps they are, the registers they store, where, and
\* the value of the caller's that is in the register by then.
SaveSteps == 2 .. 12 \cup {14, 16, 18}
Reg(s) == IF s \in 3 .. 12 THEN s ELSE 0
Disp(s) == IF s <= 12 THEN 4 * s ELSE IF s = 14 THEN 52 ELSE IF s = 16 THEN 56 ELSE 64
Was(E, s) == IF s = 2 THEN E.gpr[0] ELSE IF s <= 12 THEN E.gpr[s]
             ELSE IF s = 14 THEN E.cr ELSE IF s = 16 THEN E.ctr ELSE E.ret

\* The hook.
HookCode(c) ==
    /\ c[1] = <<"stwu", 1, -60>>
    /\ \A s \in SaveSteps : c[s] = <<"stw", Reg(s), Disp(s)>>
    /\ c[13] = <<"mfcr", 0, 0>> /\ c[15] = <<"mfctr", 0, 0>> /\ c[17] = <<"mflr", 0, 0>>
    /\ c[19] = <<"bl", 0, 0>>
    /\ c[20] = <<"lwz", 0, 56>> /\ c[21] = <<"mtctr", 0, 0>>
    /\ c[22] = <<"lwz", 0, 52>> /\ c[23] = <<"mtcr", 0, 0>>
    /\ c[24] = <<"lwz", 0, 64>> /\ c[25] = <<"mtlr", 0, 0>>
    /\ c[26] = <<"lwz", 0, 8>>
    /\ \A r \in 3 .. 12 : c[24 + r] = <<"lwz", r, 4 * r>>
    /\ c[37] = <<"addi", 1, 60>> /\ c[38] = <<"blr", 0, 0>>
\* The two macros, a call between them, and the return.
LEMMA HookIs == HookCode(Code["hook"])
<1> DEFINE x == tSaveVolatileRegisters
           b == <<<<"bl", 0, 0>>>>
           y == tRestoreVolatileRegisters
           z == <<<<"blr", 0, 0>>>>
           xb == x \o b
           xby == xb \o y
           c == xby \o z
<1>1. Code["hook"] = c
      BY DEF Code, Call
<1>2. b \in Seq(NakedInstructions) /\ Len(b) = 1 /\ b[1] = <<"bl", 0, 0>>
      BY DEF NakedInstructions, Opcodes
<1>3. z \in Seq(NakedInstructions) /\ Len(z) = 1 /\ z[1] = <<"blr", 0, 0>>
      BY DEF NakedInstructions, Opcodes
<1>4. x \in Seq(NakedInstructions) /\ Len(x) = 18 /\ Saves(x)
      BY SaveIs
<1>5. y \in Seq(NakedInstructions) /\ Len(y) = 18 /\ Restores(y)
      BY RestoreIs
<1> HIDE DEF x, b, y, z
<1>6. Joins(xb, x, b, 18, 1)
      BY <1>2, <1>4, Joined
<1> HIDE DEF xb
<1>7. xb \in Seq(NakedInstructions) /\ Len(xb) = 19
      BY <1>6 DEF Joins
<1>8. Joins(xby, xb, y, 19, 18)
      BY <1>5, <1>7, Joined
<1> HIDE DEF xby
<1>9. xby \in Seq(NakedInstructions) /\ Len(xby) = 37
      BY <1>8 DEF Joins
<1>10. Joins(c, xby, z, 37, 1)
      BY <1>3, <1>9, Joined
<1> HIDE DEF c
<1>11. ASSUME NEW i \in 1 .. 18 PROVE c[i] = x[i]
      <2>1. i \in 1 .. 19 /\ i \in 1 .. 37
            OBVIOUS
      <2> QED BY <1>6, <1>8, <1>10, <2>1 DEF Joins
<1>12. c[19] = <<"bl", 0, 0>>
      <2>1. c[19] = xby[19] /\ xby[19] = xb[19]
            BY <1>8, <1>10 DEF Joins
      <2>2. xb[18 + 1] = b[1]
            BY <1>6 DEF Joins
      <2> QED BY <1>2, <2>1, <2>2
<1>13. ASSUME NEW i \in 1 .. 18 PROVE c[19 + i] = y[i]
      <2>1. 19 + i \in 1 .. 37
            OBVIOUS
      <2>2. c[19 + i] = xby[19 + i]
            BY <1>10, <2>1 DEF Joins
      <2> QED BY <1>8, <2>2 DEF Joins
<1>14. c[38] = <<"blr", 0, 0>>
      <2>1. c[37 + 1] = z[1]
            BY <1>10 DEF Joins
      <2> QED BY <1>3, <2>1
<1>15. ASSUME NEW s \in SaveSteps PROVE c[s] = <<"stw", Reg(s), Disp(s)>>
      <2>1. CASE s \in 3 .. 12
            <3>1. s - 2 \in 1 .. 10 /\ 2 + (s - 2) = s /\ (s - 2) + 2 = s /\ 8 + 4 * (s - 2) = 4 * s
                  BY <2>1
            <3>2. x[s] = <<"stw", s, 4 * s>>
                  BY <1>4, <3>1 DEF Saves
            <3>3. c[s] = x[s]
                  BY <1>11, <2>1
            <3> QED BY <2>1, <3>2, <3>3 DEF Reg, Disp
      <2>2. CASE s \in {2, 14, 16, 18}
            <3>1. c[s] = x[s]
                  BY <1>11, <2>2
            <3>2. /\ s = 2 => x[s] = <<"stw", 0, 8>>
                  /\ s = 14 => x[s] = <<"stw", 0, 52>>
                  /\ s = 16 => x[s] = <<"stw", 0, 56>>
                  /\ s = 18 => x[s] = <<"stw", 0, 64>>
                  BY <1>4 DEF Saves
            <3>3. /\ Reg(s) = 0
                  /\ s = 2 => Disp(s) = 8
                  /\ s = 14 => Disp(s) = 52
                  /\ s = 16 => Disp(s) = 56
                  /\ s = 18 => Disp(s) = 64
                  BY <2>2 DEF Reg, Disp
            <3> QED BY <2>2, <3>1, <3>2, <3>3
      <2> QED BY <2>1, <2>2 DEF SaveSteps
<1>16. ASSUME NEW r \in 3 .. 12 PROVE c[24 + r] = <<"lwz", r, 4 * r>>
      <2>1. /\ r - 2 \in 1 .. 10 /\ 7 + (r - 2) = r + 5 /\ (r - 2) + 2 = r
            /\ 8 + 4 * (r - 2) = 4 * r /\ r + 5 \in 1 .. 18 /\ 19 + (r + 5) = 24 + r
            OBVIOUS
      <2>2. y[r + 5] = <<"lwz", r, 4 * r>>
            BY <1>5, <2>1 DEF Restores
      <2> QED BY <1>13, <2>1, <2>2
<1>17. /\ c[1] = x[1] /\ c[13] = x[13] /\ c[15] = x[15] /\ c[17] = x[17]
      BY <1>11
<1>18. /\ c[19 + 1] = y[1] /\ c[19 + 2] = y[2] /\ c[19 + 3] = y[3] /\ c[19 + 4] = y[4]
       /\ c[19 + 5] = y[5] /\ c[19 + 6] = y[6] /\ c[19 + 7] = y[7] /\ c[19 + 18] = y[18]
      BY <1>13
<1>19. /\ c[20] = y[1] /\ c[21] = y[2] /\ c[22] = y[3] /\ c[23] = y[4]
       /\ c[24] = y[5] /\ c[25] = y[6] /\ c[26] = y[7] /\ c[37] = y[18]
      BY <1>18
<1>20. /\ x[1] = <<"stwu", 1, -60>> /\ x[13] = <<"mfcr", 0, 0>> /\ x[15] = <<"mfctr", 0, 0>>
       /\ x[17] = <<"mflr", 0, 0>>
      BY <1>4 DEF Saves
<1>21. /\ y[1] = <<"lwz", 0, 56>> /\ y[2] = <<"mtctr", 0, 0>>
       /\ y[3] = <<"lwz", 0, 52>> /\ y[4] = <<"mtcr", 0, 0>>
       /\ y[5] = <<"lwz", 0, 64>> /\ y[6] = <<"mtlr", 0, 0>>
       /\ y[7] = <<"lwz", 0, 8>> /\ y[18] = <<"addi", 1, 60>>
      BY <1>5 DEF Restores
<1>22. HookCode(c)
      BY <1>12, <1>14, <1>15, <1>16, <1>17, <1>19, <1>20, <1>21 DEF HookCode
<1> QED BY <1>1, <1>22

\* The function that saves LR, and printf.
FuncCode(c) ==
    /\ c[1] = <<"stwu", 1, -16>> /\ c[2] = <<"mflr", 2, 0>> /\ c[3] = <<"stw", 2, 20>>
    /\ c[4] = <<"bl", 0, 0>>
    /\ c[5] = <<"lwz", 2, 20>> /\ c[6] = <<"mtlr", 2, 0>> /\ c[7] = <<"addi", 1, 16>>
    /\ c[8] = <<"blr", 0, 0>>
\* Its two macros, a call between them, and the return.
LEMMA FuncIs == FuncCode(Code["func"])
<1> DEFINE x == tSaveLR
           b == <<<<"bl", 0, 0>>>>
           y == tRestoreLR
           z == <<<<"blr", 0, 0>>>>
           xb == x \o b
           xby == xb \o y
           c == xby \o z
<1>1. Code["func"] = c
      BY DEF Code, Call
<1>2. b \in Seq(NakedInstructions) /\ Len(b) = 1 /\ b[1] = <<"bl", 0, 0>>
      BY DEF NakedInstructions, Opcodes
<1>3. z \in Seq(NakedInstructions) /\ Len(z) = 1 /\ z[1] = <<"blr", 0, 0>>
      BY DEF NakedInstructions, Opcodes
<1>4. /\ x \in Seq(NakedInstructions) /\ Len(x) = 3
      /\ x[1] = <<"stwu", 1, -16>> /\ x[2] = <<"mflr", 2, 0>> /\ x[3] = <<"stw", 2, 20>>
      BY DEF tSaveLR, NakedInstructions, Opcodes
<1>5. /\ y \in Seq(NakedInstructions) /\ Len(y) = 3
      /\ y[1] = <<"lwz", 2, 20>> /\ y[2] = <<"mtlr", 2, 0>> /\ y[3] = <<"addi", 1, 16>>
      BY DEF tRestoreLR, NakedInstructions, Opcodes
<1> HIDE DEF x, b, y, z
<1>6. Joins(xb, x, b, 3, 1)
      BY <1>2, <1>4, Joined
<1> HIDE DEF xb
<1>7. xb \in Seq(NakedInstructions) /\ Len(xb) = 4
      BY <1>6 DEF Joins
<1>8. Joins(xby, xb, y, 4, 3)
      BY <1>5, <1>7, Joined
<1> HIDE DEF xby
<1>9. xby \in Seq(NakedInstructions) /\ Len(xby) = 7
      BY <1>8 DEF Joins
<1>10. Joins(c, xby, z, 7, 1)
      BY <1>3, <1>9, Joined
<1> HIDE DEF c
<1>11. c[1] = x[1] /\ c[2] = x[2] /\ c[3] = x[3]
      BY <1>6, <1>8, <1>10 DEF Joins
<1>12. c[4] = b[1]
      <2>1. c[4] = xby[4] /\ xby[4] = xb[4]
            BY <1>8, <1>10 DEF Joins
      <2>2. xb[3 + 1] = b[1]
            BY <1>6 DEF Joins
      <2> QED BY <2>1, <2>2
<1>13. c[5] = y[1] /\ c[6] = y[2] /\ c[7] = y[3]
      <2>1. c[5] = xby[5] /\ c[6] = xby[6] /\ c[7] = xby[7]
            BY <1>10 DEF Joins
      <2>2. xby[4 + 1] = y[1] /\ xby[4 + 2] = y[2] /\ xby[4 + 3] = y[3]
            BY <1>8 DEF Joins
      <2> QED BY <2>1, <2>2
<1>14. c[8] = z[1]
      <2>1. c[7 + 1] = z[1]
            BY <1>10 DEF Joins
      <2> QED BY <2>1
<1>15. FuncCode(c)
      BY <1>2, <1>3, <1>4, <1>5, <1>11, <1>12, <1>13, <1>14 DEF FuncCode
<1> QED BY <1>1, <1>15

PrintfCode(c) ==
    /\ c[1] = <<"la", 2, 0>> /\ c[2] = <<"mtctr", 2, 0>> /\ c[3] = <<"mflr", 2, 0>>
    /\ c[4] = <<"bctrl", 0, 0>> /\ c[5] = <<"mtlr", 2, 0>> /\ c[6] = <<"li", 3, 0>>
    /\ c[7] = <<"blr", 0, 0>>
\* printf is written out.
LEMMA PrintfIs == PrintfCode(Code["printf"])
BY DEF PrintfCode, Code, printf

\* The functions in assembly.
LEMMA ProgramsAre == Programs = {"hook", "func", "printf"}
BY DEF Programs, Code

----------------------------------------------------------------------------
(* The invariant *)

\* Memory holds a value; it still holds what it did from a stack pointer on, but for
\* the word that is a callee's.
Holds(m, a, v) == a \in DOMAIN m /\ m[a] = v
Carries(m, n, low) == \A a \in DOMAIN m : a >= low /\ a # low + 4 => Holds(n, a, m[a])

\* What a function that was entered with the machine as in E has on the stack
\* before its step t, if r1 is p.
HookFrame(E, t, p, m) ==
    /\ t \in 1 .. 38
    /\ p = IF t \in 2 .. 37 THEN E.sp - 60 ELSE E.sp
    /\ t <= 37 => \A s \in SaveSteps : s < t => Holds(m, p + Disp(s), Was(E, s))
FuncFrame(E, t, p, m) ==
    /\ t \in 1 .. 8
    /\ p = IF t \in 2 .. 7 THEN E.sp - 16 ELSE E.sp
    /\ t \in 4 .. 7 => Holds(m, p + 20, E.ret)
PrintfFrame(E, t, p) == t \in 1 .. 7 /\ p = E.sp
CompiledFrame(E, t, p, m) ==
    /\ t \in 1 .. 2
    /\ p = IF t = 2 THEN E.sp - 16 ELSE E.sp
    /\ t = 2 => Holds(m, p + 20, E.ret)
FrameOK(E, pc, p, m) ==
    /\ Carries(E.mem, m, E.sp)
    /\ pc[1] \in {"hook", "func", "printf", "compiled"}
    /\ pc[1] = "hook" => HookFrame(E, pc[2], p, m)
    /\ pc[1] = "func" => FuncFrame(E, pc[2], p, m)
    /\ pc[1] = "printf" => PrintfFrame(E, pc[2], p)
    /\ pc[1] = "compiled" => CompiledFrame(E, pc[2], p, m)
    /\ pc[1] # "compiled" => E.ret[1] = "compiled"

\* What it has in registers meanwhile.
HookRegs(E, t, g, l, ct, c) ==
    /\ t = 1 => g[0] = E.gpr[0]
    /\ t <= 18 => l = E.ret /\ ct = E.ctr /\ c = E.cr /\ \A r \in 3 .. 12 : g[r] = E.gpr[r]
    /\ t \in {2, 14, 16, 18} => g[0] = Was(E, t)
    /\ t = 21 => g[0] = E.ctr
    /\ t = 23 => g[0] = E.cr
    /\ t = 25 => g[0] = E.ret
    /\ t >= 22 => ct = E.ctr
    /\ t >= 24 => c = E.cr
    /\ t >= 26 => l = E.ret
    /\ t >= 27 => g[0] = E.gpr[0]
    /\ \A r \in 3 .. 12 : 24 + r < t => g[r] = E.gpr[r]
FuncRegs(E, t, g, l) ==
    /\ t \in {1, 2, 7, 8} => l = E.ret
    /\ t \in {3, 6} => g[2] = E.ret
PrintfRegs(E, t, g, l) ==
    /\ t \in {1, 2, 3, 6, 7} => l = E.ret
    /\ t \in {4, 5} => g[2] = E.ret
RegsOK(E, pc, g, l, ct, c) ==
    /\ pc[1] = "hook" => HookRegs(E, pc[2], g, l, ct, c)
    /\ pc[1] = "func" => FuncRegs(E, pc[2], g, l)
    /\ pc[1] = "printf" => PrintfRegs(E, pc[2], g, l)
    /\ pc[1] = "compiled" => (pc[2] = 1 => l = E.ret)

\* Where a function waits for the one it called, and where the interrupted
\* function at the bottom is.
Waits(pc) == /\ pc[1] = "hook" => pc[2] = 20
             /\ pc[1] \in {"func", "printf"} => pc[2] = 5
             /\ pc[1] = "compiled" => pc[2] = 2
AtBottom(pc) == pc[1] = "compiled" /\ pc[2] = 1

GprOK(g) == g = [r \in {0} \cup 2 .. 12 |-> g[r]]
TypesOK == /\ GprOK(gpr) /\ sp \in Int /\ DOMAIN mem \subseteq Int
           /\ \E S : calls \in Seq(S)
           /\ \A i \in 1 .. Depth : calls[i].sp \in Int /\ DOMAIN calls[i].mem \subseteq Int

\* The function that runs.
TopOK == /\ Depth = 0 => AtBottom(at)
         /\ Depth > 0 => /\ FrameOK(calls[Depth], at, sp, mem)
                         /\ RegsOK(calls[Depth], at, gpr, lr, ctr, cr)
                         /\ calls[Depth].ret[1] = "printf" => gpr[2] = calls[Depth - 1].ret

\* Those that wait: for i, what it left is in the entry of the one it called.
Suspended(i) == /\ FrameOK(calls[i], calls[i + 1].ret, calls[i + 1].sp, calls[i + 1].mem)
                /\ Waits(calls[i + 1].ret)
                /\ calls[i].ret[1] # "printf"
StackOK == /\ Depth > 0 => AtBottom(calls[1].ret)
           /\ \A i \in 1 .. Depth - 1 : Suspended(i)

NakedInv == TypesOK /\ TopOK /\ StackOK

\* The interrupted function runs, and has called nobody.
LEMMA NakedStart == NakedInit => NakedInv
<1> SUFFICES ASSUME NakedInit PROVE NakedInv
    OBVIOUS
<1>1. calls = <<>> /\ Depth = 0 /\ at = <<"compiled", 1, 0>> /\ sp = 512
      BY DEF NakedInit, Depth, StackTop
<1>2. GprOK(gpr)
      BY DEF NakedInit, GprOK
<1>3. DOMAIN mem \subseteq Int
      <2>1. mem = [a \in StackTop .. StackTop + 20 |-> <<"frame", a>>]
            BY DEF NakedInit
      <2> QED BY <2>1 DEF StackTop
<1>4. \E S : calls \in Seq(S)
      <2>1. calls \in Seq({})
            BY <1>1
      <2> QED BY <2>1
<1>5. TypesOK
      BY <1>1, <1>2, <1>3, <1>4 DEF TypesOK
<1> QED BY <1>1, <1>5 DEF NakedInv, TopOK, StackOK, AtBottom

----------------------------------------------------------------------------
(* Memory *)

\* What a store and a release of stack keep.
LEMMA StoredHolds ==
    ASSUME NEW m, NEW a, NEW v
    PROVE  /\ Holds(Stored(m, a, v), a, v)
           /\ \A b, w : Holds(m, b, w) /\ b # a => Holds(Stored(m, a, v), b, w)
BY DEF Holds, Stored

\* A store below a stack pointer, or to its callee's word, changes nothing above.
LEMMA CarriesStored ==
    ASSUME NEW m, NEW n, NEW low \in Int, NEW a \in Int, NEW v,
           Carries(m, n, low), a < low \/ a = low + 4, DOMAIN m \subseteq Int
    PROVE  Carries(m, Stored(n, a, v), low)
<1> SUFFICES ASSUME NEW b \in DOMAIN m, b >= low, b # low + 4
             PROVE  Holds(Stored(n, a, v), b, m[b])
    BY DEF Carries
<1>1. b # a
      <2>1. b \in Int
            OBVIOUS
      <2> QED BY <2>1
<1>2. Holds(n, b, m[b])
      BY DEF Carries
<1> QED BY <1>1, <1>2, StoredHolds

\* What is released is below.
LEMMA FromHolds ==
    ASSUME NEW m, NEW low \in Int, NEW b \in Int, NEW v, Holds(m, b, v), b >= low
    PROVE  Holds(From(m, low), b, v)
BY DEF Holds, From

\* A release up to a stack pointer changes nothing above.
LEMMA CarriesFrom ==
    ASSUME NEW m, NEW n, NEW low \in Int, NEW k \in Int,
           Carries(m, n, low), k <= low, DOMAIN m \subseteq Int
    PROVE  Carries(m, From(n, k), low)
<1> SUFFICES ASSUME NEW b \in DOMAIN m, b >= low, b # low + 4
             PROVE  Holds(From(n, k), b, m[b])
    BY DEF Carries
<1>1. b \in Int /\ b >= k
      <2>1. b \in Int
            OBVIOUS
      <2> QED BY <2>1
<1>2. Holds(n, b, m[b])
      BY DEF Carries
<1> QED BY <1>1, <1>2, FromHolds

\* A frame stays what it is while memory from its r1 on does.
LEMMA CarriedFrame ==
    ASSUME NEW E, NEW pc, NEW p \in Int, NEW m, NEW n,
           FrameOK(E, pc, p, m), Carries(m, n, p),
           E.sp \in Int, DOMAIN E.mem \subseteq Int
    PROVE  FrameOK(E, pc, p, n)
<1>1. p \in {E.sp, E.sp - 16, E.sp - 60}
      <2>1. /\ pc[1] = "hook" => p \in {E.sp, E.sp - 60}
            /\ pc[1] = "func" => p \in {E.sp, E.sp - 16}
            /\ pc[1] = "printf" => p = E.sp
            /\ pc[1] = "compiled" => p \in {E.sp, E.sp - 16}
            BY DEF FrameOK, HookFrame, FuncFrame, PrintfFrame, CompiledFrame
      <2> QED BY <2>1 DEF FrameOK
<1>2. ASSUME NEW b, NEW v, Holds(m, b, v), b \in Int, b >= p, b # p + 4
      PROVE  Holds(n, b, v)
      BY <1>2 DEF Holds, Carries
<1>3. Carries(E.mem, n, E.sp)
      <2> SUFFICES ASSUME NEW b \in DOMAIN E.mem, b >= E.sp, b # E.sp + 4
                   PROVE  Holds(n, b, E.mem[b])
          BY DEF Carries
      <2>1. b \in Int
            OBVIOUS
      <2>2. b >= p /\ b # p + 4
            BY <1>1, <2>1
      <2>3. Holds(m, b, E.mem[b])
            BY DEF FrameOK, Carries
      <2> QED BY <1>2, <2>1, <2>2, <2>3
<1>4. ASSUME pc[1] = "hook" PROVE HookFrame(E, pc[2], p, n)
      <2>1. HookFrame(E, pc[2], p, m)
            BY <1>4 DEF FrameOK
      <2>2. ASSUME NEW s \in SaveSteps, s < pc[2], pc[2] <= 37
            PROVE  Holds(n, p + Disp(s), Was(E, s))
            <3>1. Disp(s) \in Int /\ Disp(s) >= 8
                  BY DEF SaveSteps, Disp
            <3>2. Holds(m, p + Disp(s), Was(E, s))
                  BY <2>1, <2>2 DEF HookFrame
            <3>3. p + Disp(s) \in Int /\ p + Disp(s) >= p /\ p + Disp(s) # p + 4
                  BY <3>1
            <3> QED BY <1>2, <3>2, <3>3
      <2> QED BY <2>1, <2>2 DEF HookFrame
<1>5. Holds(m, p + 20, E.ret) => Holds(n, p + 20, E.ret)
      <2>1. p + 20 \in Int /\ p + 20 >= p /\ p + 20 # p + 4
            OBVIOUS
      <2> QED BY <1>2, <2>1
<1>6. pc[1] = "func" => FuncFrame(E, pc[2], p, n)
      BY <1>5 DEF FrameOK, FuncFrame
<1>7. pc[1] = "compiled" => CompiledFrame(E, pc[2], p, n)
      BY <1>5 DEF FrameOK, CompiledFrame
<1> QED BY <1>3, <1>4, <1>6, <1>7 DEF FrameOK

----------------------------------------------------------------------------
(* Instructions *)

\* What each instruction does.
Others(x) == /\ x # "gpr" => gpr' = gpr
             /\ x # "lr" => lr' = lr
             /\ x # "ctr" => ctr' = ctr
             /\ x # "cr" => cr' = cr
             /\ x \notin {"sp", "mem"} => mem' = mem
             /\ x # "sp" => sp' = sp
LEMMA StepIs ==
    ASSUME GprOK(gpr), Step, NEW o, NEW r, NEW d, Instr = <<o, r, d>>
    PROVE  /\ IsNaked /\ o \notin {"bl", "bctrl", "blr"}
           /\ calls' = calls /\ at'[1] = at[1] /\ at'[2] = at[2] + 1 /\ GprOK(gpr')
           /\ o = "stwu" /\ r = 1 => /\ mem' = Stored(mem, sp + d, <<"sp", sp>>) /\ sp' = sp + d
                                     /\ Others("sp")
           /\ o = "addi" /\ r = 1 => /\ mem' = From(mem, sp + d) /\ sp' = sp + d
                                     /\ Others("sp")
           /\ o = "stw" => mem' = Stored(mem, sp + d, gpr[r]) /\ Others("mem")
           /\ o = "lwz" => gpr' = [gpr EXCEPT ![r] = mem[sp + d]] /\ Others("gpr")
           /\ o = "mfcr" => gpr' = [gpr EXCEPT ![r] = cr] /\ Others("gpr")
           /\ o = "mfctr" => gpr' = [gpr EXCEPT ![r] = ctr] /\ Others("gpr")
           /\ o = "mflr" => gpr' = [gpr EXCEPT ![r] = lr] /\ Others("gpr")
           /\ o \in {"la", "li"} => /\ \A x \in DOMAIN gpr : x # r => gpr'[x] = gpr[x]
                                    /\ Others("gpr")
           /\ o = "mtcr" => cr' = gpr[r] /\ Others("cr")
           /\ o = "mtctr" => ctr' = gpr[r] /\ Others("ctr")
           /\ o = "mtlr" => lr' = gpr[r] /\ Others("lr")
<1> DEFINE value == CASE o = "lwz" -> mem[sp + d]
                      [] o = "mfcr" -> cr
                      [] o = "mfctr" -> ctr
                      [] o = "mflr" -> lr
                      [] o = "la" -> OSReport
                      [] o = "li" -> <<"number", 0>>
                      [] OTHER -> gpr[r]
           new == [gpr EXCEPT ![r] = value]
<1>1. Instr[1] = o /\ Instr[2] = r /\ Instr[3] = d
      OBVIOUS
<1>2. /\ IsNaked /\ o \notin {"bl", "bctrl", "blr"}
      /\ gpr' = IF r \in DOMAIN gpr THEN new ELSE gpr
      /\ sp' = IF o \in {"stwu", "addi"} THEN sp + d ELSE sp
      /\ mem' = CASE o = "stwu" -> Stored(mem, sp + d, <<"sp", sp>>)
                  [] o = "stw" -> Stored(mem, sp + d, gpr[r])
                  [] o = "addi" -> From(mem, sp + d)
                  [] OTHER -> mem
      /\ cr' = IF o = "mtcr" THEN gpr[r] ELSE cr
      /\ ctr' = IF o = "mtctr" THEN gpr[r] ELSE ctr
      /\ lr' = IF o = "mtlr" THEN gpr[r] ELSE lr
      /\ at' = Following /\ calls' = calls
      BY <1>1 DEF Step
<1>3. at'[1] = at[1] /\ at'[2] = at[2] + 1
      BY <1>2 DEF Following
<1>4. /\ DOMAIN gpr = {0} \cup 2 .. 12
      /\ \A g : GprOK(g) <=> g = [x \in {0} \cup 2 .. 12 |-> g[x]]
      BY DEF GprOK
<1>5. GprOK(gpr')
      <2>1. new = [x \in {0} \cup 2 .. 12 |-> IF x = r THEN value ELSE gpr[x]]
            BY <1>4
      <2> HIDE DEF new, value
      <2> QED BY <1>2, <1>4, <2>1
<1>6. value = gpr[r] => gpr' = gpr
      <2> HIDE DEF value
      <2>1. CASE r \in DOMAIN gpr /\ value = gpr[r]
            <3>1. gpr' = new
                  BY <1>2, <2>1
            <3>2. new = [x \in DOMAIN gpr |-> IF x = r THEN gpr[r] ELSE gpr[x]]
                  BY <2>1
            <3>3. new = [x \in DOMAIN gpr |-> gpr[x]]
                  BY <3>2
            <3>4. gpr = [x \in DOMAIN gpr |-> gpr[x]]
                  BY <1>4
            <3> QED BY <3>1, <3>3, <3>4
      <2>2. CASE r \notin DOMAIN gpr
            BY <1>2, <2>2
      <2> QED BY <2>1, <2>2
<1>7. o \in {"stwu", "addi", "stw", "mtcr", "mtctr", "mtlr"} => gpr' = gpr
      <2>1. o \in {"stwu", "addi", "stw", "mtcr", "mtctr", "mtlr"} => value = gpr[r]
            OBVIOUS
      <2> QED BY <1>6, <2>1
<1>8. o \in {"lwz", "mfcr", "mfctr", "mflr"} => gpr' = new
      <2>1. r \notin DOMAIN gpr => new = gpr
            <3> HIDE DEF value
            <3>1. new = [x \in DOMAIN gpr |-> IF x = r THEN value ELSE gpr[x]]
                  OBVIOUS
            <3>2. r \notin DOMAIN gpr => new = [x \in DOMAIN gpr |-> gpr[x]]
                  BY <3>1
            <3>3. gpr = [x \in DOMAIN gpr |-> gpr[x]]
                  BY <1>4
            <3> QED BY <3>2, <3>3
      <2> HIDE DEF new
      <2> QED BY <1>2, <2>1
<1>9. \A x \in DOMAIN gpr : x # r => gpr'[x] = gpr[x]
      <2> HIDE DEF value
      <2> QED BY <1>2
<1>10. /\ o = "lwz" => value = mem[sp + d]
       /\ o = "mfcr" => value = cr
       /\ o = "mfctr" => value = ctr
       /\ o = "mflr" => value = lr
      OBVIOUS
<1>11. /\ o = "lwz" => gpr' = [gpr EXCEPT ![r] = mem[sp + d]]
       /\ o = "mfcr" => gpr' = [gpr EXCEPT ![r] = cr]
       /\ o = "mfctr" => gpr' = [gpr EXCEPT ![r] = ctr]
       /\ o = "mflr" => gpr' = [gpr EXCEPT ![r] = lr]
      <2> HIDE DEF value
      <2> QED BY <1>8, <1>10
<1>12. /\ o = "stwu" => mem' = Stored(mem, sp + d, <<"sp", sp>>)
       /\ o = "addi" => mem' = From(mem, sp + d)
       /\ o = "stw" => mem' = Stored(mem, sp + d, gpr[r])
       /\ o \notin {"stwu", "addi", "stw"} => mem' = mem
      BY <1>2
<1> HIDE DEF value, new
<1> QED BY <1>2, <1>3, <1>5, <1>7, <1>9, <1>11, <1>12 DEF Others

----------------------------------------------------------------------------
(* The steps of the function that runs *)

\* A hook saves the interrupted function's registers, one a step.
LEMMA HookSaves ==
    ASSUME NEW E, E.sp \in Int, DOMAIN E.mem \subseteq Int, TypesOK, Carries(E.mem, mem, E.sp),
           NEW t \in SaveSteps, HookFrame(E, t, sp, mem), HookRegs(E, t, gpr, lr, ctr, cr),
           Instr = <<"stw", Reg(t), Disp(t)>>, Step
    PROVE  /\ HookFrame(E, t + 1, sp', mem') /\ HookRegs(E, t + 1, gpr', lr', ctr', cr')
           /\ Carries(E.mem, mem', E.sp)
<1>1. t \in 2 .. 18 /\ sp \in Int /\ GprOK(gpr) /\ sp = E.sp - 60
      BY DEF SaveSteps, HookFrame, TypesOK
<1>2. /\ mem' = Stored(mem, sp + Disp(t), gpr[Reg(t)])
      /\ gpr' = gpr /\ lr' = lr /\ ctr' = ctr /\ cr' = cr /\ sp' = sp
      BY <1>1, StepIs DEF Others
<1>3. gpr[Reg(t)] = Was(E, t)
      <2>1. CASE t \in 3 .. 12
            BY <2>1 DEF HookRegs, Reg, Was
      <2>2. CASE t \in {2, 14, 16, 18}
            BY <2>2 DEF HookRegs, Reg
      <2> QED BY <2>1, <2>2 DEF SaveSteps
<1>4. \A s \in SaveSteps : Disp(s) \in 8 .. 64 /\ (s # t => Disp(s) # Disp(t)) /\ Disp(s) \in Int
      BY DEF SaveSteps, Disp
<1>5. Holds(mem', sp + Disp(t), Was(E, t))
      BY <1>2, <1>3, StoredHolds
<1>6. ASSUME NEW s \in SaveSteps, s < t + 1 PROVE Holds(mem', sp + Disp(s), Was(E, s))
      <2>1. CASE s = t
            BY <1>5, <2>1
      <2>2. CASE s # t
            <3>1. s \in Int /\ s < t
                  BY <1>1, <1>6, <2>2 DEF SaveSteps
            <3>2. Holds(mem, sp + Disp(s), Was(E, s))
                  BY <1>1, <3>1 DEF HookFrame
            <3>3. sp + Disp(s) # sp + Disp(t)
                  <4>1. Disp(s) # Disp(t) /\ Disp(s) \in Int /\ Disp(t) \in Int
                        BY <1>4, <2>2
                  <4> QED BY <1>1, <4>1
            <3> QED BY <1>2, <3>2, <3>3, StoredHolds
      <2> QED BY <2>1, <2>2
<1>7. HookFrame(E, t + 1, sp', mem')
      <2>1. t + 1 \in 2 .. 37
            BY <1>1
      <2> QED BY <1>1, <1>2, <1>6, <2>1 DEF HookFrame
<1>8. HookRegs(E, t + 1, gpr', lr', ctr', cr')
      <2>1. t + 1 \in 3 .. 19 /\ t + 1 \notin {14, 16, 18}
            BY DEF SaveSteps
      <2>2. t <= 18 /\ \A r \in 3 .. 12 : ~(24 + r < t + 1)
            BY <1>1
      <2> QED BY <1>2, <2>1, <2>2 DEF HookRegs
<1>9. Carries(E.mem, mem', E.sp)
      <2>1. Disp(t) < 60 \/ Disp(t) = 64
            BY DEF SaveSteps, Disp
      <2>2. /\ sp + Disp(t) \in Int
            /\ sp + Disp(t) < E.sp \/ sp + Disp(t) = E.sp + 4
            BY <1>1, <1>4, <2>1
      <2> QED BY <1>2, <2>2, CarriesStored
<1> QED BY <1>7, <1>8, <1>9

\* Where memory and r1 stay, the frame does.
LEMMA HookFrameStays ==
    ASSUME NEW E, NEW t \in 13 .. 36 \ SaveSteps, HookFrame(E, t, sp, mem),
           mem' = mem, sp' = sp, Carries(E.mem, mem, E.sp)
    PROVE  HookFrame(E, t + 1, sp', mem') /\ Carries(E.mem, mem', E.sp)
<1>1. \A s \in SaveSteps : s < t + 1 => s < t
      BY DEF SaveSteps
<1>2. t + 1 \in 14 .. 37
      OBVIOUS
<1> QED BY <1>1, <1>2 DEF HookFrame

\* It gets CR, CTR and LR into r0.
LEMMA HookFetches ==
    ASSUME NEW E, TypesOK, Carries(E.mem, mem, E.sp), HookCode(Code["hook"]),
           NEW t \in {13, 15, 17}, HookFrame(E, t, sp, mem), HookRegs(E, t, gpr, lr, ctr, cr),
           Instr = Code["hook"][t], Step
    PROVE  /\ HookFrame(E, t + 1, sp', mem') /\ HookRegs(E, t + 1, gpr', lr', ctr', cr')
           /\ Carries(E.mem, mem', E.sp)
<1> DEFINE v == IF t = 13 THEN cr ELSE IF t = 15 THEN ctr ELSE lr
<1>1. GprOK(gpr) /\ DOMAIN gpr = {0} \cup 2 .. 12
      BY DEF TypesOK, GprOK
<1>2. Instr = <<IF t = 13 THEN "mfcr" ELSE IF t = 15 THEN "mfctr" ELSE "mflr", 0, 0>>
      BY DEF HookCode
<1>3. gpr' = [gpr EXCEPT ![0] = v] /\ Others("gpr")
      <2>1. CASE t = 13
            <3>1. Instr = <<"mfcr", 0, 0>>
                  BY <1>2, <2>1
            <3> QED BY <1>1, <2>1, <3>1, StepIs
      <2>2. CASE t = 15
            <3>1. Instr = <<"mfctr", 0, 0>>
                  BY <1>2, <2>2
            <3> QED BY <1>1, <2>2, <3>1, StepIs
      <2>3. CASE t = 17
            <3>1. Instr = <<"mflr", 0, 0>>
                  BY <1>2, <2>3
            <3> QED BY <1>1, <2>3, <3>1, StepIs
      <2> QED BY <2>1, <2>2, <2>3
<1>4. gpr'[0] = v /\ \A r \in 3 .. 12 : gpr'[r] = gpr[r]
      <2> HIDE DEF v
      <2> QED BY <1>1, <1>3
<1>5. v = Was(E, t + 1)
      BY DEF Was, HookRegs
<1>6. HookRegs(E, t + 1, gpr', lr', ctr', cr')
      <2> HIDE DEF v
      <2>1. lr' = E.ret /\ ctr' = E.ctr /\ cr' = E.cr /\ \A r \in 3 .. 12 : gpr'[r] = E.gpr[r]
            BY <1>3, <1>4 DEF Others, HookRegs
      <2>2. t + 1 \in {14, 16, 18} /\ \A r \in 3 .. 12 : ~(24 + r < t + 1)
            OBVIOUS
      <2> QED BY <1>4, <1>5, <2>1, <2>2 DEF HookRegs
<1>7. HookFrame(E, t + 1, sp', mem') /\ Carries(E.mem, mem', E.sp)
      <2>1. t \in 13 .. 36 \ SaveSteps
            BY DEF SaveSteps
      <2>2. sp' = sp /\ mem' = mem
            BY <1>3 DEF Others
      <2> QED BY <2>1, <2>2, HookFrameStays
<1> QED BY <1>6, <1>7

\* It gets CTR, CR, LR and r0 back from the stack into r0: the step that saved it.
SlotOf(t) == IF t = 20 THEN 16 ELSE IF t = 22 THEN 14 ELSE IF t = 24 THEN 18 ELSE 2
\* A load gives r0 what the slot got from the interrupted function.
LEMMA HookLoads ==
    ASSUME NEW E, TypesOK, Carries(E.mem, mem, E.sp), HookCode(Code["hook"]),
           NEW t \in {20, 22, 24, 26}, HookFrame(E, t, sp, mem), HookRegs(E, t, gpr, lr, ctr, cr),
           Instr = Code["hook"][t], Step
    PROVE  /\ HookFrame(E, t + 1, sp', mem') /\ HookRegs(E, t + 1, gpr', lr', ctr', cr')
           /\ Carries(E.mem, mem', E.sp)
<1>1. GprOK(gpr) /\ DOMAIN gpr = {0} \cup 2 .. 12
      BY DEF TypesOK, GprOK
<1>2. Instr = <<"lwz", 0, Disp(SlotOf(t))>>
      <2>1. Disp(SlotOf(t)) = IF t = 20 THEN 56 ELSE IF t = 22 THEN 52 ELSE IF t = 24 THEN 64 ELSE 8
            BY DEF Disp, SlotOf
      <2>2. /\ t = 20 => Instr = <<"lwz", 0, 56>>
            /\ t = 22 => Instr = <<"lwz", 0, 52>>
            /\ t = 24 => Instr = <<"lwz", 0, 64>>
            /\ t = 26 => Instr = <<"lwz", 0, 8>>
            BY DEF HookCode
      <2> QED BY <2>1, <2>2
<1>3. gpr' = [gpr EXCEPT ![0] = mem[sp + Disp(SlotOf(t))]] /\ Others("gpr")
      BY <1>1, <1>2, StepIs
<1>4. mem[sp + Disp(SlotOf(t))] = Was(E, SlotOf(t))
      <2>1. SlotOf(t) \in SaveSteps /\ SlotOf(t) < t /\ t <= 37
            BY DEF SlotOf, SaveSteps
      <2> QED BY <2>1 DEF HookFrame, Holds
<1>5. gpr'[0] = Was(E, SlotOf(t)) /\ \A r \in 3 .. 12 : gpr'[r] = gpr[r]
      BY <1>1, <1>3, <1>4
<1>6. Was(E, SlotOf(t)) = IF t = 20 THEN E.ctr ELSE IF t = 22 THEN E.cr
                          ELSE IF t = 24 THEN E.ret ELSE E.gpr[0]
      BY DEF Was, SlotOf
<1>7. HookRegs(E, t + 1, gpr', lr', ctr', cr')
      <2>1. /\ t >= 22 => ctr' = E.ctr
            /\ t >= 24 => cr' = E.cr
            /\ t >= 26 => lr' = E.ret
            BY <1>3 DEF HookRegs, Others
      <2>2. t + 1 \in {21, 23, 25, 27} /\ \A r \in 3 .. 12 : ~(24 + r < t + 1)
            OBVIOUS
      <2>3. /\ t + 1 = 21 => gpr'[0] = E.ctr
            /\ t + 1 = 23 => gpr'[0] = E.cr
            /\ t + 1 = 25 => gpr'[0] = E.ret
            /\ t + 1 >= 27 => gpr'[0] = E.gpr[0]
            BY <1>5, <1>6
      <2>4. /\ t + 1 >= 22 => ctr' = E.ctr
            /\ t + 1 >= 24 => cr' = E.cr
            /\ t + 1 >= 26 => lr' = E.ret
            BY <2>1
      <2> QED BY <2>2, <2>3, <2>4 DEF HookRegs
<1>8. HookFrame(E, t + 1, sp', mem') /\ Carries(E.mem, mem', E.sp)
      <2>1. t \in 13 .. 36 \ SaveSteps
            BY DEF SaveSteps
      <2>2. sp' = sp /\ mem' = mem
            BY <1>3 DEF Others
      <2> QED BY <2>1, <2>2, HookFrameStays
<1> QED BY <1>7, <1>8

\* It gets CTR, CR and LR back from r0.
LEMMA HookMoves ==
    ASSUME NEW E, TypesOK, Carries(E.mem, mem, E.sp), HookCode(Code["hook"]),
           NEW t \in {21, 23, 25}, HookFrame(E, t, sp, mem), HookRegs(E, t, gpr, lr, ctr, cr),
           Instr = Code["hook"][t], Step
    PROVE  /\ HookFrame(E, t + 1, sp', mem') /\ HookRegs(E, t + 1, gpr', lr', ctr', cr')
           /\ Carries(E.mem, mem', E.sp)
<1>1. GprOK(gpr)
      BY DEF TypesOK
<1>2. /\ t = 21 => Instr = <<"mtctr", 0, 0>>
      /\ t = 23 => Instr = <<"mtcr", 0, 0>>
      /\ t = 25 => Instr = <<"mtlr", 0, 0>>
      BY DEF HookCode
<1>3. /\ t = 21 => ctr' = gpr[0] /\ Others("ctr")
      /\ t = 23 => cr' = gpr[0] /\ Others("cr")
      /\ t = 25 => lr' = gpr[0] /\ Others("lr")
      BY <1>1, <1>2, StepIs
<1>4. gpr' = gpr /\ sp' = sp /\ mem' = mem
      BY <1>3 DEF Others
<1>5. HookRegs(E, t + 1, gpr', lr', ctr', cr')
      <2>1. /\ ctr' = E.ctr
            /\ t >= 23 => cr' = E.cr
            /\ t >= 25 => lr' = E.ret
            BY <1>3 DEF HookRegs, Others
      <2>2. t + 1 \in {22, 24, 26} /\ \A r \in 3 .. 12 : ~(24 + r < t + 1)
            OBVIOUS
      <2>3. /\ t + 1 >= 24 => cr' = E.cr
            /\ t + 1 >= 26 => lr' = E.ret
            BY <2>1
      <2> QED BY <2>1, <2>2, <2>3 DEF HookRegs
<1>6. HookFrame(E, t + 1, sp', mem') /\ Carries(E.mem, mem', E.sp)
      <2>1. t \in 13 .. 36 \ SaveSteps
            BY DEF SaveSteps
      <2> QED BY <1>4, <2>1, HookFrameStays
<1> QED BY <1>5, <1>6

\* It gets the other registers back.
LEMMA HookReloads ==
    ASSUME NEW E, TypesOK, Carries(E.mem, mem, E.sp), HookCode(Code["hook"]),
           NEW r \in 3 .. 12, HookFrame(E, 24 + r, sp, mem),
           HookRegs(E, 24 + r, gpr, lr, ctr, cr), Instr = Code["hook"][24 + r], Step
    PROVE  /\ HookFrame(E, 24 + r + 1, sp', mem') /\ HookRegs(E, 24 + r + 1, gpr', lr', ctr', cr')
           /\ Carries(E.mem, mem', E.sp)
<1>1. GprOK(gpr) /\ DOMAIN gpr = {0} \cup 2 .. 12
      BY DEF TypesOK, GprOK
<1>2. Instr = <<"lwz", r, 4 * r>>
      BY DEF HookCode
<1>3. gpr' = [gpr EXCEPT ![r] = mem[sp + 4 * r]] /\ Others("gpr")
      BY <1>1, <1>2, StepIs
<1>4. mem[sp + 4 * r] = E.gpr[r]
      <2>1. r \in SaveSteps /\ r < 24 + r /\ 24 + r <= 37
            BY DEF SaveSteps
      <2>2. Disp(r) = 4 * r /\ Was(E, r) = E.gpr[r]
            BY DEF Disp, Was
      <2> QED BY <2>1, <2>2 DEF HookFrame, Holds
<1>5. gpr'[r] = E.gpr[r] /\ \A x \in {0} \cup 3 .. 12 : x # r => gpr'[x] = gpr[x]
      BY <1>1, <1>3, <1>4
<1>6. HookRegs(E, 24 + r + 1, gpr', lr', ctr', cr')
      <2>1. /\ gpr[0] = E.gpr[0] /\ lr = E.ret /\ ctr = E.ctr /\ cr = E.cr
            /\ \A x \in 3 .. 12 : 24 + x < 24 + r => gpr[x] = E.gpr[x]
            BY DEF HookRegs
      <2>2. gpr'[0] = E.gpr[0] /\ lr' = E.ret /\ ctr' = E.ctr /\ cr' = E.cr
            BY <1>3, <1>5, <2>1 DEF Others
      <2>3. ASSUME NEW x \in 3 .. 12, 24 + x < 24 + r + 1 PROVE gpr'[x] = E.gpr[x]
            <3>1. x = r \/ (x # r /\ 24 + x < 24 + r)
                  BY <2>3
            <3> QED BY <1>5, <2>1, <3>1
      <2>4. 24 + r + 1 \in 28 .. 37
            OBVIOUS
      <2> QED BY <2>2, <2>3, <2>4 DEF HookRegs
<1>7. HookFrame(E, 24 + r + 1, sp', mem') /\ Carries(E.mem, mem', E.sp)
      <2>1. 24 + r \in 13 .. 36 \ SaveSteps
            BY DEF SaveSteps
      <2>2. sp' = sp /\ mem' = mem
            BY <1>3 DEF Others
      <2> QED BY <2>1, <2>2, HookFrameStays
<1> QED BY <1>6, <1>7

\* It allocates its frame.
LEMMA HookEnters ==
    ASSUME NEW E, E.sp \in Int, DOMAIN E.mem \subseteq Int, TypesOK, Carries(E.mem, mem, E.sp),
           HookCode(Code["hook"]), HookFrame(E, 1, sp, mem), HookRegs(E, 1, gpr, lr, ctr, cr),
           Instr = Code["hook"][1], Step
    PROVE  /\ HookFrame(E, 2, sp', mem') /\ HookRegs(E, 2, gpr', lr', ctr', cr')
           /\ Carries(E.mem, mem', E.sp)
<1>1. GprOK(gpr) /\ sp = E.sp
      BY DEF TypesOK, HookFrame
<1>2. Instr = <<"stwu", 1, -60>>
      BY DEF HookCode
<1>3. /\ mem' = Stored(mem, sp + (-60), <<"sp", sp>>) /\ sp' = sp + (-60)
      /\ gpr' = gpr /\ lr' = lr /\ ctr' = ctr /\ cr' = cr
      BY <1>1, <1>2, StepIs DEF Others
<1>4. HookFrame(E, 2, sp', mem')
      <2>1. \A s \in SaveSteps : ~(s < 2)
            BY DEF SaveSteps
      <2> QED BY <1>1, <1>3, <2>1 DEF HookFrame
<1>5. HookRegs(E, 2, gpr', lr', ctr', cr')
      BY <1>3 DEF HookRegs, Was
<1>6. Carries(E.mem, mem', E.sp)
      <2>1. sp + (-60) \in Int /\ sp + (-60) < E.sp
            BY <1>1
      <2> QED BY <1>3, <2>1, CarriesStored
<1> QED BY <1>4, <1>5, <1>6

\* It gives its frame back.
LEMMA HookLeaves ==
    ASSUME NEW E, E.sp \in Int, DOMAIN E.mem \subseteq Int, TypesOK, Carries(E.mem, mem, E.sp),
           HookCode(Code["hook"]), HookFrame(E, 37, sp, mem), HookRegs(E, 37, gpr, lr, ctr, cr),
           Instr = Code["hook"][37], Step
    PROVE  /\ HookFrame(E, 38, sp', mem') /\ HookRegs(E, 38, gpr', lr', ctr', cr')
           /\ Carries(E.mem, mem', E.sp)
<1>1. GprOK(gpr) /\ sp = E.sp - 60
      BY DEF TypesOK, HookFrame
<1>2. Instr = <<"addi", 1, 60>>
      BY DEF HookCode
<1>3. /\ mem' = From(mem, sp + 60) /\ sp' = sp + 60
      /\ gpr' = gpr /\ lr' = lr /\ ctr' = ctr /\ cr' = cr
      BY <1>1, <1>2, StepIs DEF Others
<1>4. sp' = E.sp /\ mem' = From(mem, E.sp)
      BY <1>1, <1>3
<1>5. HookFrame(E, 38, sp', mem')
      BY <1>4 DEF HookFrame
<1>6. HookRegs(E, 38, gpr', lr', ctr', cr')
      <2>1. \A r \in 3 .. 12 : 24 + r < 37
            OBVIOUS
      <2> QED BY <1>3, <2>1 DEF HookRegs
<1>7. Carries(E.mem, mem', E.sp)
      BY <1>4, CarriesFrom
<1> QED BY <1>5, <1>6, <1>7

\* Every instruction of the hook that is not a branch.
LEMMA HookStep ==
    ASSUME NEW E, E.sp \in Int, DOMAIN E.mem \subseteq Int, TypesOK, at[1] = "hook",
           FrameOK(E, at, sp, mem), RegsOK(E, at, gpr, lr, ctr, cr), Step
    PROVE  FrameOK(E, at', sp', mem') /\ RegsOK(E, at', gpr', lr', ctr', cr')
<1> DEFINE t == at[2]
           c == Code["hook"]
<1>1. /\ HookFrame(E, t, sp, mem) /\ HookRegs(E, t, gpr, lr, ctr, cr) /\ Carries(E.mem, mem, E.sp)
      /\ E.ret[1] = "compiled"
      BY DEF FrameOK, RegsOK
<1>2. HookCode(c) /\ Instr = c[t]
      BY HookIs DEF Instr
<1>3. t \in 1 .. 38 /\ GprOK(gpr)
      BY <1>1 DEF HookFrame, TypesOK
<1>4. Instr[1] \notin {"bl", "blr"} /\ at' = Following
      BY DEF Step
<1>5. at'[1] = "hook" /\ at'[2] = t + 1
      BY <1>4 DEF Following
<1>6. t # 19 /\ t # 38
      <2>1. c[19] = <<"bl", 0, 0>> /\ c[38] = <<"blr", 0, 0>>
            BY <1>2 DEF HookCode
      <2> QED BY <1>2, <1>4, <2>1
<1> DEFINE Goal == /\ HookFrame(E, t + 1, sp', mem') /\ HookRegs(E, t + 1, gpr', lr', ctr', cr')
                   /\ Carries(E.mem, mem', E.sp)
<1> SUFFICES Goal
    BY <1>1, <1>5 DEF FrameOK, RegsOK
<1>7. CASE t = 1
      BY <1>1, <1>2, <1>7, HookEnters
<1>8. CASE t \in SaveSteps
      <2>1. Instr = <<"stw", Reg(t), Disp(t)>>
            BY <1>2, <1>8 DEF HookCode
      <2> QED BY <1>1, <1>8, <2>1, HookSaves
<1>9. CASE t \in {13, 15, 17}
      BY <1>1, <1>2, <1>9, HookFetches
<1>10. CASE t \in {20, 22, 24, 26}
      BY <1>1, <1>2, <1>10, HookLoads
<1>11. CASE t \in {21, 23, 25}
      BY <1>1, <1>2, <1>11, HookMoves
<1>12. CASE t \in 27 .. 36
      <2>1. t - 24 \in 3 .. 12 /\ 24 + (t - 24) = t
            BY <1>12
      <2> HIDE DEF t
      <2> QED BY <1>1, <1>2, <2>1, HookReloads
<1>13. CASE t = 37
      BY <1>1, <1>2, <1>13, HookLeaves
<1>14. t = 1 \/ t \in SaveSteps \/ t \in {13, 15, 17} \/ t \in {20, 22, 24, 26}
       \/ t \in {21, 23, 25} \/ t \in 27 .. 36 \/ t = 37
      BY <1>3, <1>6 DEF SaveSteps
<1> HIDE DEF Goal
<1> QED BY <1>7, <1>8, <1>9, <1>10, <1>11, <1>12, <1>13, <1>14

\* Every instruction of the function that saves LR that is not a branch.
LEMMA FuncStep ==
    ASSUME NEW E, E.sp \in Int, DOMAIN E.mem \subseteq Int, TypesOK, at[1] = "func",
           FrameOK(E, at, sp, mem), RegsOK(E, at, gpr, lr, ctr, cr), Step
    PROVE  FrameOK(E, at', sp', mem') /\ RegsOK(E, at', gpr', lr', ctr', cr')
<1> DEFINE t == at[2]
           c == Code["func"]
<1>1. /\ FuncFrame(E, t, sp, mem) /\ FuncRegs(E, t, gpr, lr) /\ Carries(E.mem, mem, E.sp)
      /\ E.ret[1] = "compiled"
      BY DEF FrameOK, RegsOK
<1>2. FuncCode(c) /\ Instr = c[t]
      BY FuncIs DEF Instr
<1>3. t \in 1 .. 8 /\ GprOK(gpr) /\ DOMAIN gpr = {0} \cup 2 .. 12
      BY <1>1 DEF FuncFrame, TypesOK, GprOK
<1>4. Instr[1] \notin {"bl", "blr"} /\ at' = Following
      BY DEF Step
<1>5. at'[1] = "func" /\ at'[2] = t + 1
      BY <1>4 DEF Following
<1>6. t # 4 /\ t # 8
      <2>1. c[4] = <<"bl", 0, 0>> /\ c[8] = <<"blr", 0, 0>>
            BY <1>2 DEF FuncCode
      <2> QED BY <1>2, <1>4, <2>1
<1> DEFINE Goal == /\ FuncFrame(E, t + 1, sp', mem') /\ FuncRegs(E, t + 1, gpr', lr')
                   /\ Carries(E.mem, mem', E.sp)
<1> SUFFICES Goal
    BY <1>1, <1>5 DEF FrameOK, RegsOK
<1>7. CASE t = 1
      <2>1. Instr = <<"stwu", 1, -16>>
            BY <1>2, <1>7 DEF FuncCode
      <2>2. /\ mem' = Stored(mem, sp + (-16), <<"sp", sp>>) /\ sp' = sp + (-16) /\ lr' = lr
            BY <1>3, <2>1, StepIs DEF Others
      <2>3. sp = E.sp /\ lr = E.ret
            BY <1>1, <1>7 DEF FuncFrame, FuncRegs
      <2>4. Carries(E.mem, mem', E.sp)
            <3>1. sp + (-16) \in Int /\ sp + (-16) < E.sp
                  BY <2>3
            <3> QED BY <1>1, <2>2, <3>1, CarriesStored
      <2> QED BY <1>7, <2>2, <2>3, <2>4 DEF FuncFrame, FuncRegs
<1>8. CASE t = 2
      <2>1. Instr = <<"mflr", 2, 0>>
            BY <1>2, <1>8 DEF FuncCode
      <2>2. gpr' = [gpr EXCEPT ![2] = lr] /\ mem' = mem /\ sp' = sp /\ lr' = lr
            BY <1>3, <2>1, StepIs DEF Others
      <2>3. sp = E.sp - 16 /\ lr = E.ret
            BY <1>1, <1>8 DEF FuncFrame, FuncRegs
      <2>4. gpr'[2] = E.ret
            BY <1>3, <2>2, <2>3
      <2> QED BY <1>1, <1>8, <2>2, <2>3, <2>4 DEF FuncFrame, FuncRegs
<1>9. CASE t = 3
      <2>1. Instr = <<"stw", 2, 20>>
            BY <1>2, <1>9 DEF FuncCode
      <2>2. mem' = Stored(mem, sp + 20, gpr[2]) /\ sp' = sp
            BY <1>3, <2>1, StepIs DEF Others
      <2>3. sp = E.sp - 16 /\ gpr[2] = E.ret
            BY <1>1, <1>9 DEF FuncFrame, FuncRegs
      <2>4. Carries(E.mem, mem', E.sp)
            <3>1. sp + 20 \in Int /\ sp + 20 = E.sp + 4
                  BY <2>3
            <3> QED BY <1>1, <2>2, <3>1, CarriesStored
      <2>5. Holds(mem', sp + 20, E.ret)
            BY <2>2, <2>3, StoredHolds
      <2> QED BY <1>9, <2>2, <2>3, <2>4, <2>5 DEF FuncFrame, FuncRegs
<1>10. CASE t = 5
      <2>1. Instr = <<"lwz", 2, 20>>
            BY <1>2, <1>10 DEF FuncCode
      <2>2. gpr' = [gpr EXCEPT ![2] = mem[sp + 20]] /\ mem' = mem /\ sp' = sp
            BY <1>3, <2>1, StepIs DEF Others
      <2>3. sp = E.sp - 16 /\ Holds(mem, sp + 20, E.ret)
            BY <1>1, <1>10 DEF FuncFrame
      <2>4. gpr'[2] = E.ret
            BY <1>3, <2>2, <2>3 DEF Holds
      <2> QED BY <1>1, <1>10, <2>2, <2>3, <2>4 DEF FuncFrame, FuncRegs
<1>11. CASE t = 6
      <2>1. Instr = <<"mtlr", 2, 0>>
            BY <1>2, <1>11 DEF FuncCode
      <2>2. lr' = gpr[2] /\ mem' = mem /\ sp' = sp
            BY <1>3, <2>1, StepIs DEF Others
      <2>3. sp = E.sp - 16 /\ Holds(mem, sp + 20, E.ret) /\ gpr[2] = E.ret
            BY <1>1, <1>11 DEF FuncFrame, FuncRegs
      <2> QED BY <1>1, <1>11, <2>2, <2>3 DEF FuncFrame, FuncRegs
<1>12. CASE t = 7
      <2>1. Instr = <<"addi", 1, 16>>
            BY <1>2, <1>12 DEF FuncCode
      <2>2. mem' = From(mem, sp + 16) /\ sp' = sp + 16 /\ lr' = lr
            BY <1>3, <2>1, StepIs DEF Others
      <2>3. sp = E.sp - 16 /\ lr = E.ret
            BY <1>1, <1>12 DEF FuncFrame, FuncRegs
      <2>4. sp' = E.sp /\ mem' = From(mem, E.sp)
            BY <2>2, <2>3
      <2>5. Carries(E.mem, mem', E.sp)
            BY <1>1, <2>4, CarriesFrom
      <2> QED BY <1>12, <2>2, <2>3, <2>4, <2>5 DEF FuncFrame, FuncRegs
<1>13. t \in {1, 2, 3, 5, 6, 7}
      BY <1>3, <1>6
<1> HIDE DEF Goal
<1> QED BY <1>7, <1>8, <1>9, <1>10, <1>11, <1>12, <1>13

\* Every instruction of printf that is not a branch.
LEMMA PrintfStep ==
    ASSUME NEW E, E.sp \in Int, DOMAIN E.mem \subseteq Int, TypesOK, at[1] = "printf",
           FrameOK(E, at, sp, mem), RegsOK(E, at, gpr, lr, ctr, cr), Step
    PROVE  FrameOK(E, at', sp', mem') /\ RegsOK(E, at', gpr', lr', ctr', cr')
<1> DEFINE t == at[2]
           c == Code["printf"]
<1>1. /\ PrintfFrame(E, t, sp) /\ PrintfRegs(E, t, gpr, lr) /\ Carries(E.mem, mem, E.sp)
      /\ E.ret[1] = "compiled"
      BY DEF FrameOK, RegsOK
<1>2. PrintfCode(c) /\ Instr = c[t]
      BY PrintfIs DEF Instr
<1>3. t \in 1 .. 7 /\ GprOK(gpr) /\ DOMAIN gpr = {0} \cup 2 .. 12
      BY <1>1 DEF PrintfFrame, TypesOK, GprOK
<1>4. Instr[1] \notin {"bctrl", "blr"} /\ at' = Following
      BY DEF Step
<1>5. at'[1] = "printf" /\ at'[2] = t + 1
      BY <1>4 DEF Following
<1>6. t # 4 /\ t # 7
      <2>1. c[4] = <<"bctrl", 0, 0>> /\ c[7] = <<"blr", 0, 0>>
            BY <1>2 DEF PrintfCode
      <2> QED BY <1>2, <1>4, <2>1
<1>7. t + 1 \in 1 .. 7
      BY <1>3, <1>6
<1> DEFINE Goal == mem' = mem /\ sp' = sp /\ PrintfRegs(E, t + 1, gpr', lr')
<1> SUFFICES Goal
    BY <1>1, <1>5, <1>7 DEF FrameOK, RegsOK, PrintfFrame
<1>8. CASE t \in {1, 6}
      <2>1. Instr = <<IF t = 1 THEN "la" ELSE "li", IF t = 1 THEN 2 ELSE 3, 0>>
            BY <1>2, <1>8 DEF PrintfCode
      <2>2. Others("gpr")
            BY <1>3, <2>1, StepIs
      <2> QED BY <1>1, <1>8, <2>2 DEF Others, PrintfRegs
<1>9. CASE t = 2
      <2>1. Instr = <<"mtctr", 2, 0>>
            BY <1>2, <1>9 DEF PrintfCode
      <2>2. Others("ctr")
            BY <1>3, <2>1, StepIs
      <2> QED BY <1>1, <1>9, <2>2 DEF Others, PrintfRegs
<1>10. CASE t = 3
      <2>1. Instr = <<"mflr", 2, 0>>
            BY <1>2, <1>10 DEF PrintfCode
      <2>2. gpr' = [gpr EXCEPT ![2] = lr] /\ Others("gpr")
            BY <1>3, <2>1, StepIs
      <2>3. gpr'[2] = E.ret
            BY <1>1, <1>3, <1>10, <2>2 DEF PrintfRegs
      <2> QED BY <1>10, <2>2, <2>3 DEF Others, PrintfRegs
<1>11. CASE t = 5
      <2>1. Instr = <<"mtlr", 2, 0>>
            BY <1>2, <1>11 DEF PrintfCode
      <2>2. lr' = gpr[2] /\ Others("lr")
            BY <1>3, <2>1, StepIs
      <2> QED BY <1>1, <1>11, <2>2 DEF Others, PrintfRegs
<1>12. t \in {1, 2, 3, 5, 6}
      BY <1>3, <1>6
<1> HIDE DEF Goal
<1> QED BY <1>8, <1>9, <1>10, <1>11, <1>12

\* Where the branches are.
LEMMA BranchesAre ==
    ASSUME NEW E, NEW p, NEW m, FrameOK(E, at, p, m), IsNaked
    PROVE  /\ Instr[3] \in Int
           /\ Instr[1] \in {"bl", "bctrl"} => at[2] = IF at[1] = "hook" THEN 19 ELSE 4
           /\ Instr[1] = "blr" =>
                  at[2] = IF at[1] = "hook" THEN 38 ELSE IF at[1] = "func" THEN 8 ELSE 7
<1> DEFINE t == at[2]
           c == Code[at[1]]
<1>1. Instr = c[t] /\ at[1] \in {"hook", "func", "printf"}
      BY ProgramsAre DEF Instr, IsNaked
<1>2. CASE at[1] = "hook"
      <2>1. HookCode(c) /\ t \in 1 .. 38
            BY <1>2, HookIs DEF FrameOK, HookFrame
      <2> HIDE DEF c, t
      <2>2. CASE t \in SaveSteps
            <3>1. c[t] = <<"stw", Reg(t), Disp(t)>> /\ Disp(t) \in Int
                  BY <2>1, <2>2 DEF HookCode, SaveSteps, Disp
            <3> QED BY <1>1, <3>1 DEF t
      <2>3. CASE t \in {1, 13, 15, 17, 20, 21, 22, 23, 24, 25, 26, 37}
            <3>1. c[t][1] \notin {"bl", "bctrl", "blr"} /\ c[t][3] \in Int
                  BY <2>1, <2>3 DEF HookCode
            <3> QED BY <1>1, <3>1 DEF t
      <2>4. CASE t \in 27 .. 36
            <3>1. t - 24 \in 3 .. 12 /\ 24 + (t - 24) = t
                  BY <2>4
            <3>2. c[t] = <<"lwz", t - 24, 4 * (t - 24)>> /\ 4 * (t - 24) \in Int
                  BY <2>1, <3>1 DEF HookCode
            <3> QED BY <1>1, <3>2 DEF t
      <2>5. CASE t \in {19, 38}
            <3>1. /\ t = 19 => c[t] = <<"bl", 0, 0>>
                  /\ t = 38 => c[t] = <<"blr", 0, 0>>
                  BY <2>1 DEF HookCode
            <3> QED BY <1>1, <1>2, <2>5, <3>1 DEF t
      <2> QED BY <2>1, <2>2, <2>3, <2>4, <2>5 DEF SaveSteps
<1>3. CASE at[1] = "func"
      <2>1. FuncCode(c) /\ t \in 1 .. 8
            BY <1>3, FuncIs DEF FrameOK, FuncFrame
      <2> HIDE DEF c, t
      <2>2. c[t][3] \in Int /\ (c[t][1] \in {"bl", "bctrl"} => t = 4) /\ (c[t][1] = "blr" => t = 8)
            BY <2>1 DEF FuncCode
      <2> QED BY <1>1, <1>3, <2>2 DEF t
<1>4. CASE at[1] = "printf"
      <2>1. PrintfCode(c) /\ t \in 1 .. 7
            BY <1>4, PrintfIs DEF FrameOK, PrintfFrame
      <2> HIDE DEF c, t
      <2>2. c[t][3] \in Int /\ (c[t][1] \in {"bl", "bctrl"} => t = 4) /\ (c[t][1] = "blr" => t = 7)
            BY <2>1 DEF PrintfCode
      <2> QED BY <1>1, <1>4, <2>2 DEF t
<1> QED BY <1>1, <1>2, <1>3, <1>4

----------------------------------------------------------------------------
(* Calls and returns *)

\* A call adds an entry.
LEMMA Pushed ==
    ASSUME NEW S, calls \in Seq(S), NEW e, calls' = Append(calls, e)
    PROVE  /\ Depth \in Nat /\ Depth' = Depth + 1 /\ calls'[Depth + 1] = e
           /\ \A i \in 1 .. Depth : calls'[i] = calls[i]
           /\ \E R : calls' \in Seq(R)
<1> DEFINE R == S \cup {e}
<1>1. calls \in Seq(R) /\ e \in R
      <2>1. S \subseteq R
            OBVIOUS
      <2>2. \A i \in 1 .. Len(calls) : calls[i] \in S
            BY ElementOfSeq
      <2>3. calls \in [1 .. Len(calls) -> S] /\ Len(calls) \in Nat
            BY SeqDef, LenProperties
      <2>4. calls \in [1 .. Len(calls) -> R]
            BY <2>1, <2>3
      <2> QED BY <2>3, <2>4, SeqDef
<1> HIDE DEF R
<1>2. /\ calls' \in Seq(R) /\ Len(calls') = Len(calls) + 1
      /\ \A i \in 1 .. Len(calls) : calls'[i] = calls[i]
      /\ calls'[Len(calls) + 1] = e
      BY <1>1, AppendProperties
<1>3. Len(calls) \in Nat
      BY LenProperties
<1> QED BY <1>2, <1>3 DEF Depth

\* A return takes the last entry off.
LEMMA Popped ==
    ASSUME NEW S, calls \in Seq(S), Depth > 0, calls' = Returned
    PROVE  /\ Depth \in Nat /\ Depth' = Depth - 1
           /\ \A i \in 1 .. Depth - 1 : calls'[i] = calls[i]
           /\ \E R : calls' \in Seq(R)
<1>1. Len(calls) \in Nat /\ Len(calls) > 0
      BY LenProperties DEF Depth
<1>2. 1 \in 1 .. Len(calls) + 1 /\ Len(calls) - 1 \in 0 .. Len(calls)
      BY <1>1
<1>3. /\ SubSeq(calls, 1, Len(calls) - 1) \in Seq(S)
      /\ Len(SubSeq(calls, 1, Len(calls) - 1)) = Len(calls) - 1
      /\ \A i \in 1 .. Len(calls) - 1 : SubSeq(calls, 1, Len(calls) - 1)[i] = calls[i]
      <2> DEFINE k == Len(calls) - 1
                 t == SubSeq(calls, 1, k)
      <2>1. k \in Nat /\ k \in 0 .. Len(calls) /\ (IF 1 <= k THEN k - 1 + 1 ELSE 0) = k
            BY <1>1
      <2> HIDE DEF k
      <2>2. /\ t \in Seq(S) /\ Len(t) = IF 1 <= k THEN k - 1 + 1 ELSE 0
            /\ \A i \in 1 .. k - 1 + 1 : t[i] = calls[1 + i - 1]
            BY <1>2, <2>1, SubSeqProperties
      <2> HIDE DEF t
      <2>3. \A i \in 1 .. k : t[i] = calls[i]
            <3> SUFFICES ASSUME NEW i \in 1 .. k PROVE t[i] = calls[i]
                OBVIOUS
            <3>1. i \in 1 .. k - 1 + 1 /\ 1 + i - 1 = i
                  BY <2>1
            <3> QED BY <2>2, <3>1
      <2>4. t \in Seq(S) /\ Len(t) = k
            BY <2>1, <2>2
      <2> QED BY <2>3, <2>4 DEF t, k
<1> QED BY <1>1, <1>3 DEF Depth, Returned

\* Code in assembly runs only when it was called.
LEMMA NakedIsCalled == ASSUME NakedInv, IsNaked PROVE Depth \in Nat /\ Depth > 0
<1>1. at[1] # "compiled"
      BY ProgramsAre DEF IsNaked
<1>2. Depth # 0
      BY <1>1 DEF NakedInv, TopOK, AtBottom
<1>3. PICK S : calls \in Seq(S)
      BY DEF NakedInv, TypesOK
<1>4. Depth \in Nat
      BY <1>3, LenProperties DEF Depth
<1> QED BY <1>2, <1>4

\* The function that runs goes on.
LEMMA GoesOn ==
    ASSUME NakedInv, Depth \in Nat, Depth > 0, calls' = calls,
           GprOK(gpr'), sp' \in Int, DOMAIN mem' \subseteq Int,
           FrameOK(calls[Depth], at', sp', mem'),
           RegsOK(calls[Depth], at', gpr', lr', ctr', cr'),
           calls[Depth].ret[1] = "printf" => gpr'[2] = gpr[2]
    PROVE  NakedInv'
<1>1. TypesOK /\ TopOK /\ StackOK
      BY DEF NakedInv
<1>2. Depth' = Depth
      BY DEF Depth
<1>3. TypesOK'
      BY <1>1, <1>2 DEF TypesOK
<1>4. TopOK'
      <2>1. calls[Depth].ret[1] = "printf" => gpr[2] = calls[Depth - 1].ret
            BY <1>1 DEF TopOK
      <2> QED BY <1>2, <2>1 DEF TopOK
<1>5. StackOK'
      BY <1>1, <1>2 DEF StackOK, Suspended
<1> QED BY <1>3, <1>4, <1>5 DEF NakedInv

\* It calls another one, and waits.
LEMMA Calls ==
    ASSUME NakedInv, NEW program, NEW ret, Entering(program, ret),
           UNCHANGED <<gpr, sp, ctr, cr, mem>>,
           program \in Programs \cup {"compiled"},
           program \in Programs => ret[1] = "compiled",
           Depth = 0 => AtBottom(ret),
           Depth > 0 => /\ FrameOK(calls[Depth], ret, sp, mem) /\ Waits(ret)
                        /\ calls[Depth].ret[1] # "printf",
           ret[1] = "printf" => Depth > 0 /\ gpr[2] = calls[Depth].ret
    PROVE  NakedInv'
<1> DEFINE e == [gpr |-> gpr, sp |-> sp, ctr |-> ctr, cr |-> cr, mem |-> mem, ret |-> ret]
<1>1. TypesOK /\ TopOK /\ StackOK
      BY DEF NakedInv
<1>2. /\ e.gpr = gpr /\ e.sp = sp /\ e.ctr = ctr /\ e.cr = cr /\ e.mem = mem /\ e.ret = ret
      OBVIOUS
<1>3. /\ at'[1] = program /\ at'[2] = 1 /\ lr' = ret /\ calls' = Append(calls, e)
      BY DEF Entering
<1> HIDE DEF e
<1>4. PICK S : calls \in Seq(S)
      BY <1>1 DEF TypesOK
<1>5. /\ Depth \in Nat /\ Depth' = Depth + 1 /\ calls'[Depth + 1] = e
      /\ \A i \in 1 .. Depth : calls'[i] = calls[i]
      /\ \E R : calls' \in Seq(R)
      BY <1>3, <1>4, Pushed
<1>6. sp \in Int /\ DOMAIN mem \subseteq Int /\ GprOK(gpr)
      BY <1>1 DEF TypesOK
<1>7. TypesOK'
      <2>1. ASSUME NEW i \in 1 .. Depth'
            PROVE  calls'[i].sp \in Int /\ DOMAIN calls'[i].mem \subseteq Int
            <3>1. CASE i = Depth + 1
                  BY <1>2, <1>5, <1>6, <3>1
            <3>2. CASE i \in 1 .. Depth
                  BY <1>1, <1>5, <3>2 DEF TypesOK
            <3> QED BY <1>5, <3>1, <3>2
      <2> QED BY <1>5, <1>6, <2>1 DEF TypesOK
<1>8. FrameOK(e, at', sp', mem')
      <2>1. Carries(e.mem, mem', e.sp)
            BY <1>2 DEF Carries, Holds
      <2>2. \A s \in SaveSteps : ~(s < 1)
            BY DEF SaveSteps
      <2>3. program \in {"hook", "func", "printf", "compiled"}
            BY ProgramsAre
      <2>4. program # "compiled" => e.ret[1] = "compiled"
            BY <1>2
      <2>5. sp' = e.sp
            BY <1>2
      <2> QED BY <1>3, <2>1, <2>2, <2>3, <2>4, <2>5
              DEF FrameOK, HookFrame, FuncFrame, PrintfFrame, CompiledFrame
<1>9. RegsOK(e, at', gpr', lr', ctr', cr')
      <2>1. /\ \A r \in 3 .. 12 : ~(24 + r < 1)
            /\ ~(1 >= 22) /\ ~(1 >= 24) /\ ~(1 >= 26) /\ ~(1 >= 27)
            OBVIOUS
      <2> QED BY <1>2, <1>3, <2>1 DEF RegsOK, HookRegs, FuncRegs, PrintfRegs
<1>10. TopOK'
      <2>1. Depth' > 0 /\ calls'[Depth'] = e
            BY <1>5
      <2>2. e.ret[1] = "printf" => gpr'[2] = calls'[Depth' - 1].ret
            <3>1. Depth > 0 => calls'[Depth] = calls[Depth] /\ Depth' - 1 = Depth
                  BY <1>5
            <3> QED BY <1>2, <3>1
      <2> QED BY <1>5, <1>8, <1>9, <2>1, <2>2 DEF TopOK
<1>11. StackOK'
      <2>1. AtBottom(calls'[1].ret)
            <3>1. CASE Depth = 0
                  BY <1>2, <1>5, <3>1
            <3>2. CASE Depth > 0
                  BY <1>1, <1>5, <3>2 DEF StackOK
            <3> QED BY <1>5, <3>1, <3>2
      <2>2. ASSUME NEW i \in 1 .. Depth PROVE Suspended(i)'
            <3>1. CASE i = Depth
                  <4>1. calls'[i] = calls[Depth] /\ calls'[i + 1] = e /\ Depth > 0
                        BY <1>5, <3>1
                  <4> QED BY <1>2, <4>1 DEF Suspended
            <3>2. CASE i # Depth
                  <4>1. i \in 1 .. Depth - 1 /\ i + 1 \in 1 .. Depth
                        BY <1>5, <3>2
                  <4>2. Suspended(i)
                        BY <1>1, <4>1 DEF StackOK
                  <4> QED BY <1>5, <4>1, <4>2 DEF Suspended
            <3> QED BY <3>1, <3>2
      <2>3. Depth' - 1 = Depth
            BY <1>5
      <2> QED BY <2>1, <2>2, <2>3 DEF StackOK
<1> QED BY <1>7, <1>10, <1>11 DEF NakedInv

\* It returns to the one that waits, whose frame is as it left it.
LEMMA Returns ==
    ASSUME NakedInv, Depth > 0, calls' = Returned, gpr' = gpr,
           at' = calls[Depth].ret, sp' = calls[Depth].sp, DOMAIN mem' \subseteq Int,
           Carries(calls[Depth].mem, mem', calls[Depth].sp)
    PROVE  NakedInv'
<1>1. TypesOK /\ TopOK /\ StackOK
      BY DEF NakedInv
<1>2. PICK S : calls \in Seq(S)
      BY <1>1 DEF TypesOK
<1>3. /\ Depth \in Nat /\ Depth' = Depth - 1
      /\ \A i \in 1 .. Depth - 1 : calls'[i] = calls[i]
      /\ \E R : calls' \in Seq(R)
      BY <1>2, Popped
<1>4. TypesOK'
      <2>1. \A i \in 1 .. Depth : calls[i].sp \in Int /\ DOMAIN calls[i].mem \subseteq Int
            BY <1>1 DEF TypesOK
      <2>2. sp' \in Int
            BY <1>3, <2>1
      <2>3. \A i \in 1 .. Depth' : calls'[i].sp \in Int /\ DOMAIN calls'[i].mem \subseteq Int
            BY <1>3, <2>1
      <2>4. GprOK(gpr')
            BY <1>1 DEF TypesOK
      <2> QED BY <1>3, <2>2, <2>3, <2>4 DEF TypesOK
<1>5. CASE Depth = 1
      <2>1. TopOK'
            BY <1>1, <1>3, <1>5 DEF TopOK, StackOK
      <2>2. StackOK'
            BY <1>3, <1>5 DEF StackOK
      <2> QED BY <1>4, <2>1, <2>2 DEF NakedInv
<1>6. CASE Depth > 1
      <2> DEFINE E == calls[Depth - 1]
                 C == calls[Depth]
      <2>1. Depth - 1 \in 1 .. Depth - 1 /\ (Depth - 1) + 1 = Depth
            BY <1>3, <1>6
      <2>2. /\ FrameOK(E, C.ret, C.sp, C.mem) /\ Waits(C.ret) /\ E.ret[1] # "printf"
            BY <1>1, <2>1 DEF StackOK, Suspended
      <2>3. C.sp \in Int /\ E.sp \in Int /\ DOMAIN E.mem \subseteq Int
            BY <1>1, <2>1 DEF TypesOK
      <2>4. C.ret[1] = "printf" => gpr[2] = E.ret
            BY <1>1, <1>3, <1>6 DEF TopOK
      <2>5. at' = C.ret /\ sp' = C.sp /\ Carries(C.mem, mem', C.sp)
            OBVIOUS
      <2>6. calls'[Depth'] = E /\ Depth' > 0
            BY <1>3, <1>6, <2>1
      <2> HIDE DEF E, C
      <2>7. FrameOK(E, at', sp', mem')
            BY <2>2, <2>3, <2>5, CarriedFrame
      <2>8. RegsOK(E, at', gpr', lr', ctr', cr')
            <3>1. \A r \in 3 .. 12 : ~(24 + r < 20)
                  OBVIOUS
            <3> QED BY <2>2, <2>4, <2>5, <3>1
                    DEF RegsOK, Waits, HookRegs, FuncRegs, PrintfRegs
      <2>9. TopOK'
            BY <1>3, <2>2, <2>6, <2>7, <2>8 DEF TopOK
      <2>10. StackOK'
            <3>1. 1 \in 1 .. Depth - 1 /\ Depth > 0
                  BY <2>1, <1>3, <1>6
            <3>2. AtBottom(calls'[1].ret)
                  BY <1>1, <1>3, <3>1 DEF StackOK
            <3>3. ASSUME NEW i \in 1 .. Depth' - 1 PROVE Suspended(i)'
                  <4>1. i \in 1 .. Depth - 1 /\ i + 1 \in 1 .. Depth - 1
                        BY <1>3
                  <4>2. Suspended(i)
                        BY <1>1, <4>1 DEF StackOK
                  <4> QED BY <1>3, <4>1, <4>2 DEF Suspended
            <3> QED BY <3>2, <3>3 DEF StackOK
      <2> QED BY <1>4, <2>9, <2>10 DEF NakedInv
<1> QED BY <1>3, <1>5, <1>6

----------------------------------------------------------------------------
(* The actions *)

\* What the invariant says of the function that runs.
LEMMA TopIs ==
    ASSUME NakedInv, Depth \in Nat, Depth > 0, NEW E, E = calls[Depth]
    PROVE  /\ E.sp \in Int /\ DOMAIN E.mem \subseteq Int
           /\ FrameOK(E, at, sp, mem) /\ RegsOK(E, at, gpr, lr, ctr, cr)
           /\ E.ret[1] = "printf" => gpr[2] = calls[Depth - 1].ret
           /\ TypesOK /\ sp \in Int /\ GprOK(gpr) /\ DOMAIN mem \subseteq Int
BY DEF NakedInv, TypesOK, TopOK

\* An instruction that is not a branch changes the frame of the one that runs.
LEMMA StepKeeps == ASSUME NakedInv, Step PROVE NakedInv'
<1>1. IsNaked /\ calls' = calls
      BY DEF Step
<1>2. Depth \in Nat /\ Depth > 0
      BY <1>1, NakedIsCalled
<1> DEFINE E == calls[Depth]
<1>3. /\ E.sp \in Int /\ DOMAIN E.mem \subseteq Int
      /\ FrameOK(E, at, sp, mem) /\ RegsOK(E, at, gpr, lr, ctr, cr)
      /\ TypesOK /\ sp \in Int /\ GprOK(gpr) /\ DOMAIN mem \subseteq Int
      BY <1>2, TopIs
<1> HIDE DEF E
<1>4. at[1] \in {"hook", "func", "printf"}
      BY <1>1, ProgramsAre DEF IsNaked
<1>5. FrameOK(E, at', sp', mem') /\ RegsOK(E, at', gpr', lr', ctr', cr')
      BY <1>3, <1>4, HookStep, FuncStep, PrintfStep
<1>6. E.ret[1] # "printf"
      BY <1>3, <1>4 DEF FrameOK
<1>7. sp' \in Int /\ DOMAIN mem' \subseteq Int
      <2>1. Instr[3] \in Int
            BY <1>1, <1>3, BranchesAre
      <2> DEFINE d == Instr[3]
      <2>2. /\ sp' = IF Instr[1] \in {"stwu", "addi"} THEN sp + d ELSE sp
            /\ \/ mem' = Stored(mem, sp + d, <<"sp", sp>>)
               \/ mem' = Stored(mem, sp + d, gpr[Instr[2]])
               \/ mem' = From(mem, sp + d)
               \/ mem' = mem
            BY DEF Step
      <2>3. sp + d \in Int
            BY <1>3, <2>1
      <2>4. /\ \A v : DOMAIN Stored(mem, sp + d, v) \subseteq Int
            /\ DOMAIN From(mem, sp + d) \subseteq Int
            BY <1>3, <2>3 DEF Stored, From
      <2> HIDE DEF d
      <2> QED BY <1>3, <2>2, <2>3, <2>4
<1>8. GprOK(gpr')
      <2>1. \/ gpr' = gpr
            \/ \E v : gpr' = [gpr EXCEPT ![Instr[2]] = v]
            BY DEF Step
      <2>2. ASSUME NEW v, gpr' = [gpr EXCEPT ![Instr[2]] = v] PROVE GprOK(gpr')
            BY <1>3, <2>2 DEF GprOK
      <2> QED BY <1>3, <2>1, <2>2
<1> QED BY <1>1, <1>2, <1>5, <1>6, <1>7, <1>8, GoesOn DEF E

\* A call from assembly: what the caller needs later is on the stack, or, for printf,
\* in r2, which stays as long as nothing in assembly runs under it.
LEMMA CallCompiledKeeps == ASSUME NakedInv, CallCompiled PROVE NakedInv'
<1>1. /\ IsNaked /\ Instr[1] \in {"bl", "bctrl"} /\ Entering("compiled", Following)
      /\ UNCHANGED <<gpr, sp, ctr, cr, mem>>
      BY DEF CallCompiled
<1>2. Depth \in Nat /\ Depth > 0
      BY <1>1, NakedIsCalled
<1> DEFINE E == calls[Depth]
           pc == Following
<1>3. FrameOK(E, at, sp, mem) /\ RegsOK(E, at, gpr, lr, ctr, cr)
      BY <1>2, TopIs
<1> HIDE DEF E
<1>4. at[1] \in {"hook", "func", "printf"}
      BY <1>1, ProgramsAre DEF IsNaked
<1>5. at[2] = IF at[1] = "hook" THEN 19 ELSE 4
      BY <1>1, <1>3, BranchesAre
<1>6. pc[1] = at[1] /\ pc[2] = IF at[1] = "hook" THEN 20 ELSE 5
      BY <1>5 DEF Following
<1> HIDE DEF pc
<1>7. FrameOK(E, pc, sp, mem)
      <2>1. ASSUME at[1] = "hook" PROVE HookFrame(E, 20, sp, mem)
            <3>1. HookFrame(E, 19, sp, mem)
                  BY <1>3, <1>5, <2>1 DEF FrameOK
            <3>2. \A s \in SaveSteps : s < 19
                  BY DEF SaveSteps
            <3> QED BY <3>1, <3>2 DEF HookFrame
      <2>2. at[1] = "func" => FuncFrame(E, 5, sp, mem)
            BY <1>3, <1>5 DEF FrameOK, FuncFrame
      <2>3. at[1] = "printf" => PrintfFrame(E, 5, sp)
            BY <1>3, <1>5 DEF FrameOK, PrintfFrame
      <2> QED BY <1>3, <1>4, <1>6, <2>1, <2>2, <2>3 DEF FrameOK
<1>8. Waits(pc) /\ pc[1] # "compiled"
      BY <1>4, <1>6 DEF Waits
<1>9. E.ret[1] = "compiled"
      BY <1>3, <1>4 DEF FrameOK
<1>10. pc[1] = "printf" => gpr[2] = E.ret
      BY <1>3, <1>5, <1>6 DEF RegsOK, PrintfRegs
<1>11. "compiled" \notin Programs
      BY ProgramsAre
<1> QED BY <1>1, <1>2, <1>7, <1>8, <1>9, <1>10, <1>11, Calls DEF E, pc

\* A return from assembly.
LEMMA BlrKeeps == ASSUME NakedInv, Blr PROVE NakedInv'
<1>1. /\ IsNaked /\ Instr[1] = "blr" /\ at' = lr /\ calls' = Returned
      /\ UNCHANGED <<gpr, sp, mem>>
      BY DEF Blr, regs
<1>2. Depth \in Nat /\ Depth > 0
      BY <1>1, NakedIsCalled
<1> DEFINE E == calls[Depth]
<1>3. /\ FrameOK(E, at, sp, mem) /\ RegsOK(E, at, gpr, lr, ctr, cr)
      /\ DOMAIN mem \subseteq Int
      BY <1>2, TopIs
<1> HIDE DEF E
<1>4. at[1] \in {"hook", "func", "printf"}
      BY <1>1, ProgramsAre DEF IsNaked
<1>5. at[2] = IF at[1] = "hook" THEN 38 ELSE IF at[1] = "func" THEN 8 ELSE 7
      BY <1>1, <1>3, BranchesAre
<1>6. sp = E.sp
      BY <1>3, <1>4, <1>5 DEF FrameOK, HookFrame, FuncFrame, PrintfFrame
<1>7. lr = E.ret
      BY <1>3, <1>4, <1>5 DEF RegsOK, HookRegs, FuncRegs, PrintfRegs
<1>8. Carries(E.mem, mem, E.sp)
      BY <1>3 DEF FrameOK
<1> QED BY <1>1, <1>2, <1>3, <1>6, <1>7, <1>8, Returns DEF E

\* What the invariant says of a compiled function that runs.
LEMMA CompiledTop ==
    ASSUME NakedInv, at[1] = "compiled", Depth # 0 \/ at[2] = 2
    PROVE  /\ Depth \in Nat /\ Depth > 0
           /\ CompiledFrame(calls[Depth], at[2], sp, mem)
           /\ at[2] = 1 => lr = calls[Depth].ret
           /\ Carries(calls[Depth].mem, mem, calls[Depth].sp)
<1>1. PICK S : calls \in Seq(S)
      BY DEF NakedInv, TypesOK
<1>2. Depth \in Nat
      BY <1>1, LenProperties DEF Depth
<1>3. Depth # 0
      BY DEF NakedInv, TopOK, AtBottom
<1> QED BY <1>2, <1>3 DEF NakedInv, TopOK, FrameOK, RegsOK

\* LR goes to the word above r1, which its caller does not count on.
LEMMA PrologueKeeps == ASSUME NakedInv, Prologue PROVE NakedInv'
<1>1. /\ at[1] = "compiled" /\ at[2] = 1 /\ Depth > 0
      /\ mem' = Stored(Stored(mem, sp + 4, lr), sp - 16, <<"sp", sp>>)
      /\ sp' = sp - 16 /\ at'[1] = "compiled" /\ at'[2] = 2
      /\ gpr' = gpr /\ calls' = calls
      BY DEF Prologue, InCompiled, FrameSize, Following, regs
<1> DEFINE E == calls[Depth]
<1>2. /\ Depth \in Nat /\ CompiledFrame(E, 1, sp, mem) /\ lr = E.ret /\ Carries(E.mem, mem, E.sp)
      BY <1>1, CompiledTop
<1>3. /\ E.sp \in Int /\ DOMAIN E.mem \subseteq Int
      /\ sp \in Int /\ GprOK(gpr) /\ DOMAIN mem \subseteq Int
      BY <1>1, <1>2, TopIs
<1> HIDE DEF E
<1>4. sp = E.sp /\ sp' = E.sp - 16 /\ sp' + 20 = E.sp + 4 /\ sp' \in Int
      BY <1>1, <1>2, <1>3 DEF CompiledFrame
<1> DEFINE m == Stored(mem, sp + 4, lr)
<1>5. Carries(E.mem, m, E.sp)
      BY <1>2, <1>3, <1>4, CarriesStored
<1>6. Holds(m, sp + 4, E.ret) /\ DOMAIN m \subseteq Int
      <2>1. Holds(m, sp + 4, E.ret)
            BY <1>2, StoredHolds
      <2>2. DOMAIN m = DOMAIN mem \cup {sp + 4} /\ sp + 4 \in Int
            BY <1>3 DEF Stored
      <2> QED BY <1>3, <2>1, <2>2
<1> HIDE DEF m
<1>7. mem' = Stored(m, sp - 16, <<"sp", sp>>)
      BY <1>1 DEF m
<1>8. Carries(E.mem, mem', E.sp)
      <2>1. sp - 16 \in Int /\ sp - 16 < E.sp
            BY <1>3, <1>4
      <2> QED BY <1>3, <1>5, <1>7, <2>1, CarriesStored
<1>9. Holds(mem', sp' + 20, E.ret)
      <2>1. sp' + 20 = sp + 4 /\ sp + 4 # sp - 16
            BY <1>3, <1>4
      <2> QED BY <1>6, <1>7, <2>1, StoredHolds
<1>10. DOMAIN mem' \subseteq Int
      BY <1>3, <1>6, <1>7 DEF Stored
<1>11. FrameOK(E, at', sp', mem')
      BY <1>1, <1>4, <1>8, <1>9 DEF FrameOK, CompiledFrame
<1>12. RegsOK(E, at', gpr', lr', ctr', cr')
      BY <1>1 DEF RegsOK
<1> QED BY <1>1, <1>2, <1>3, <1>4, <1>10, <1>11, <1>12, GoesOn DEF E

\* Volatile registers are lost, and r2 is not one.
LEMMA ClobberKeeps == ASSUME NakedInv, Clobber PROVE NakedInv'
<1>1. /\ at[1] = "compiled" /\ UNCHANGED <<sp, lr, mem, at, calls>>
      /\ gpr' = [r \in DOMAIN gpr |-> IF r \in Volatile THEN <<"lost", r, Depth>> ELSE gpr[r]]
      BY DEF Clobber, InBody, InCompiled
<1>2. TypesOK /\ TopOK /\ StackOK
      BY DEF NakedInv
<1>3. GprOK(gpr') /\ gpr'[2] = gpr[2]
      <2>1. GprOK(gpr) /\ DOMAIN gpr = {0} \cup 2 .. 12
            BY <1>2 DEF TypesOK, GprOK
      <2>2. GprOK(gpr')
            BY <1>1, <2>1 DEF GprOK
      <2>3. 2 \in DOMAIN gpr /\ 2 \notin Volatile
            BY <2>1 DEF Volatile
      <2> QED BY <1>1, <2>2, <2>3
<1>4. CASE Depth = 0
      <2>1. TypesOK' /\ TopOK' /\ StackOK'
            BY <1>1, <1>2, <1>3, <1>4 DEF TypesOK, TopOK, StackOK, AtBottom, Depth
      <2> QED BY <2>1 DEF NakedInv
<1>5. CASE Depth # 0
      <2> DEFINE E == calls[Depth]
      <2>1. Depth \in Nat /\ Depth > 0 /\ (at[2] = 1 => lr = E.ret)
            BY <1>1, <1>5, CompiledTop
      <2>2. FrameOK(E, at, sp, mem) /\ sp \in Int /\ DOMAIN mem \subseteq Int
            BY <2>1, TopIs
      <2> HIDE DEF E
      <2>3. RegsOK(E, at', gpr', lr', ctr', cr')
            BY <1>1, <2>1 DEF RegsOK
      <2>4. FrameOK(E, at', sp', mem') /\ sp' \in Int /\ DOMAIN mem' \subseteq Int
            BY <1>1, <2>2
      <2> QED BY <1>1, <1>3, <2>1, <2>3, <2>4, GoesOn DEF E
<1> QED BY <1>4, <1>5

\* A call into assembly.
LEMMA CallNakedKeeps == ASSUME NakedInv, CallNaked PROVE NakedInv'
<1>1. /\ at[1] = "compiled" /\ (at[2] = 2 \/ (at[2] = 1 /\ Depth = 0)) /\ ~UnderPrintf
      /\ UNCHANGED <<gpr, sp, ctr, cr, mem>>
      BY DEF CallNaked, InBody, InCompiled
<1>2. PICK p \in Programs : Entering(p, at)
      BY DEF CallNaked
<1>3. CASE Depth = 0
      <2>1. AtBottom(at)
            BY <1>3 DEF NakedInv, TopOK
      <2>2. ~(Depth > 0)
            BY <1>3
      <2> QED BY <1>1, <1>2, <2>1, <2>2, Calls
<1>4. CASE Depth # 0
      <2>1. Depth \in Nat /\ Depth > 0
            BY <1>1, <1>4, CompiledTop
      <2>2. FrameOK(calls[Depth], at, sp, mem)
            BY <2>1, TopIs
      <2>3. Waits(at)
            BY <1>1, <1>4 DEF Waits
      <2>4. calls[Depth].ret[1] # "printf"
            <3>1. PICK S : calls \in Seq(S)
                  BY DEF NakedInv, TypesOK
            <3>2. Depth \in DOMAIN calls
                  BY <2>1, <3>1, LenProperties DEF Depth
            <3> QED BY <1>1, <3>2 DEF UnderPrintf
      <2> QED BY <1>1, <1>2, <1>4, <2>1, <2>2, <2>3, <2>4, Calls
<1> QED BY <1>3, <1>4

\* A return from compiled code.
LEMMA EpilogueKeeps == ASSUME NakedInv, Epilogue PROVE NakedInv'
<1>1. /\ at[1] = "compiled" /\ at[2] = 2
      /\ sp' = sp + 16 /\ at' = mem[sp + 16 + 4]
      /\ mem' = From(mem, sp + 16) /\ calls' = Returned /\ gpr' = gpr
      BY DEF Epilogue, InCompiled, FrameSize
<1> DEFINE E == calls[Depth]
<1>2. /\ Depth \in Nat /\ Depth > 0 /\ CompiledFrame(E, 2, sp, mem) /\ Carries(E.mem, mem, E.sp)
      BY <1>1, CompiledTop
<1>3. E.sp \in Int /\ DOMAIN E.mem \subseteq Int /\ sp \in Int /\ DOMAIN mem \subseteq Int
      BY <1>2, TopIs
<1> HIDE DEF E
<1>4. sp = E.sp - 16 /\ mem[sp + 20] = E.ret
      BY <1>2 DEF CompiledFrame, Holds
<1>5. sp + 16 = E.sp /\ sp + 16 + 4 = sp + 20
      BY <1>3, <1>4
<1>6. sp' = E.sp /\ at' = E.ret /\ mem' = From(mem, E.sp)
      BY <1>1, <1>4, <1>5
<1>7. Carries(E.mem, mem', E.sp) /\ DOMAIN mem' \subseteq Int
      <2>1. Carries(E.mem, mem', E.sp)
            BY <1>2, <1>3, <1>6, CarriesFrom
      <2> QED BY <1>3, <1>6, <2>1 DEF From
<1> QED BY <1>1, <1>2, <1>6, <1>7, Returns DEF E

\* Every step keeps the invariant.
LEMMA NextKeeps == NakedInv /\ [NakedNext]_nakedVars => NakedInv'
<1> SUFFICES ASSUME NakedInv, [NakedNext]_nakedVars PROVE NakedInv'
    OBVIOUS
<1>1. CASE UNCHANGED nakedVars
      BY <1>1 DEF nakedVars, NakedInv, TypesOK, TopOK, StackOK, Suspended, Depth
<1> QED BY <1>1, StepKeeps, CallCompiledKeeps, BlrKeeps, PrologueKeeps, ClobberKeeps,
           CallNakedKeeps, EpilogueKeeps DEF NakedNext

----------------------------------------------------------------------------
(* The theorems *)

\* At its return, a function in assembly has the stack pointer it was entered with,
\* and LR leads back.
LEMMA AtReturn ==
    ASSUME NakedInv, NEW p \in Programs, AtBlr(p), NEW E, E = Entry
    PROVE  /\ sp = E.sp /\ lr = E.ret /\ Carries(E.mem, mem, E.sp)
           /\ p = "hook" => /\ ctr = E.ctr /\ cr = E.cr
                            /\ \A r \in Volatile : gpr[r] = E.gpr[r]
<1>1. at[1] = p /\ IsNaked /\ Instr[1] = "blr"
      BY DEF AtBlr, IsNaked
<1>2. Depth \in Nat /\ Depth > 0 /\ E = calls[Depth]
      BY <1>1, NakedIsCalled DEF Entry, Depth
<1>3. FrameOK(E, at, sp, mem) /\ RegsOK(E, at, gpr, lr, ctr, cr)
      BY <1>2, TopIs
<1>4. at[2] = IF at[1] = "hook" THEN 38 ELSE IF at[1] = "func" THEN 8 ELSE 7
      BY <1>1, <1>3, BranchesAre
<1>5. p \in {"hook", "func", "printf"}
      BY ProgramsAre
<1>6. sp = E.sp /\ Carries(E.mem, mem, E.sp)
      BY <1>1, <1>3, <1>4, <1>5 DEF FrameOK, HookFrame, FuncFrame, PrintfFrame
<1>7. lr = E.ret
      BY <1>1, <1>3, <1>4, <1>5 DEF RegsOK, HookRegs, FuncRegs, PrintfRegs
<1>8. p = "hook" => HookRegs(E, 38, gpr, lr, ctr, cr)
      BY <1>1, <1>3, <1>4 DEF RegsOK
<1>9. \A r \in 3 .. 12 : 24 + r < 38
      OBVIOUS
<1> QED BY <1>6, <1>7, <1>8, <1>9 DEF HookRegs, Volatile

\* However deep the calls, and whatever compiled code does with the registers in
\* between: a hook that saves its registers by the macros leaves the function it
\* interrupted with all of them, its stack pointer and its stack as they were.
THEOREM HooksLeaveRegisters == NakedSpec => []RegistersSurvive
<1>1. ASSUME NakedInv PROVE RegistersSurvive
      <2> SUFFICES ASSUME AtBlr("hook")
                   PROVE  /\ \A r \in Volatile : gpr[r] = Entry.gpr[r]
                          /\ sp = Entry.sp /\ ctr = Entry.ctr /\ cr = Entry.cr
                          /\ \A a \in DOMAIN Entry.mem :
                                 a >= sp /\ a # sp + 4 => mem[a] = Entry.mem[a]
          BY DEF RegistersSurvive
      <2> DEFINE E == Entry
      <2>1. "hook" \in Programs
            BY ProgramsAre
      <2>2. /\ sp = E.sp /\ Carries(E.mem, mem, E.sp) /\ ctr = E.ctr /\ cr = E.cr
            /\ \A r \in Volatile : gpr[r] = E.gpr[r]
            BY <1>1, <2>1, AtReturn
      <2> HIDE DEF E
      <2>3. \A a \in DOMAIN E.mem : a >= sp /\ a # sp + 4 => mem[a] = E.mem[a]
            BY <2>2 DEF Carries, Holds
      <2> QED BY <2>2, <2>3 DEF E
<1> QED BY <1>1, NakedStart, NextKeeps, PTL DEF NakedSpec

\* However deep the calls: a hook, a function that saves LR and printf return to
\* their callers, with the stack pointer these had.
THEOREM AssemblyReturns == NakedSpec => []ReturnsToCaller
<1>1. ASSUME NakedInv PROVE ReturnsToCaller
      <2> SUFFICES ASSUME NEW p \in Programs, AtBlr(p)
                   PROVE  lr = Entry.ret /\ sp = Entry.sp
          BY DEF ReturnsToCaller
      <2> QED BY <1>1, AtReturn
<1> QED BY <1>1, NakedStart, NextKeeps, PTL DEF NakedSpec
=============================================================================
