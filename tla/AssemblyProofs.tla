-------------------------- MODULE AssemblyProofs ---------------------------
(***************************************************************************)
(* What is written in assembly.                                            *)
(*                                                                         *)
(* The Cemu launcher, for every number of calls, every stack it may be     *)
(* called on and every place it may be called from: it keeps to its words, *)
(* it calls init once, and the call that does so comes back balanced.      *)
(*                                                                         *)
(* The assembler, for every mnemonic and every operand that fits: what it  *)
(* makes of a line is read as that line, and does what its name says.      *)
(***************************************************************************)
EXTENDS CemuBootstrap, AssembledCode, SequenceTheorems, TLAPS

\* x is a stack pointer that n calls, each of which may keep a frame, can lead to.
Below(x, n) == \E s \in Stacks, k \in -n .. 0 : x = s + k * Frame

\* From "acquire" on the routine runs for the first time.
FirstRun == {"acquire", "find", "call", "epilogue"}

\* How often init was called, and what the flag says of it.
OnceInv ==
    /\ pc = "outside" => \/ calls = 0 /\ Initialized = FALSE /\ inits = 0
                         \/ calls > 0 /\ Initialized = TRUE /\ inits = 1
    /\ pc \in {"prologue", "guard"} => \/ calls = 1 /\ Initialized = FALSE /\ inits = 0
                                       \/ calls > 1 /\ Initialized = TRUE /\ inits = 1
    /\ pc \in FirstRun => Initialized = TRUE /\ calls = 1
    /\ pc \in {"acquire", "find", "call", "crashed"} => inits = 0
    /\ pc \in {"epilogue", "returned"} => inits = 1
    /\ pc = "returned" => Initialized = TRUE

\* Where the stack pointer stands to the caller's, and where the caller's link
\* register is.
StackInv ==
    /\ pc = "outside" => Below(r1, calls)
    /\ pc # "outside" => /\ calls > 0 /\ caller.site \in Sites
                         /\ caller.r1 \in Int /\ Below(caller.r1, calls - 1)
    /\ pc = "prologue" => r1 = caller.r1 /\ lr = caller.site
    /\ pc \in {"guard"} \cup FirstRun =>
           /\ r1 = caller.r1 - Frame
           /\ caller.r1 + 4 \in SaveWords /\ saved[caller.r1 + 4] = caller.site
    /\ pc = "returned" => r1 = caller.r1 \/ r1 = caller.r1 - Frame
    /\ ReturnsBalanced

BootInv == TypeOK /\ OnceInv /\ StackInv

\* The word above a stack pointer that was called on is a link register save word.
LEMMA SavesItsWord ==
    ASSUME NEW n \in 0 .. MaxCalls, NEW x \in Int, Below(x, n)
    PROVE  x + 4 \in SaveWords
<1>1. MaxCalls \in Nat /\ \A s \in Stacks : s \in Int
      BY BootAssumption
<1>2. PICK s \in Stacks, k \in -n .. 0 : x = s + k * Frame
      BY DEF Below
<1>3. k \in -MaxCalls .. 0 /\ x + 4 = s + k * Frame + 4
      BY <1>1, <1>2 DEF Frame
<1> QED BY <1>3 DEF SaveWords

\* A call that keeps its frame goes one frame further down.
LEMMA BelowNext ==
    ASSUME NEW n \in Nat, NEW x \in Int, Below(x, n)
    PROVE  Below(x, n + 1) /\ Below(x - Frame, n + 1)
<1>1. \A s \in Stacks : s \in Int
      BY BootAssumption
<1>2. PICK s \in Stacks, k \in -n .. 0 : x = s + k * Frame
      BY DEF Below
<1>3. /\ k \in -(n + 1) .. 0 /\ k - 1 \in -(n + 1) .. 0
      /\ x - Frame = s + (k - 1) * Frame
      BY <1>1, <1>2 DEF Frame
<1> QED BY <1>2, <1>3 DEF Below

\* The first call has all before it.
LEMMA BootStart == Init => BootInv
<1> SUFFICES ASSUME Init PROVE BootInv
    OBVIOUS
<1>1. MaxCalls \in Nat /\ r1 \in Stacks /\ r1 \in Int /\ calls = 0
      BY BootAssumption DEF Init
<1>2. Below(r1, calls)
      <2>1. 0 \in -calls .. 0 /\ r1 = r1 + 0 * Frame
            BY <1>1 DEF Frame
      <2> QED BY <1>1, <2>1 DEF Below
<1>3. TypeOK
      <2>1. saved \in [SaveWords -> Sites \cup {Null, Inside}]
            BY DEF Init
      <2>2. lr \in Sites \cup {Null, Inside} /\ TelkinRPLHandle \in {Null, "Telkin"}
            BY DEF Init
      <2>3. Initialized \in BOOLEAN /\ TelkinInitFuncHandle \in {Null, "init"}
            BY DEF Init
      <2> QED BY <1>1, <2>1, <2>2, <2>3 DEF TypeOK, Init
<1> QED BY <1>1, <1>2, <1>3 DEF Init, BootInv, OnceInv, StackInv, FirstRun, ReturnsBalanced

\* Every step keeps the words, the count and the stack.
LEMMA BootStep == BootInv /\ [Next]_vars => BootInv'
<1> SUFFICES ASSUME BootInv, [Next]_vars PROVE BootInv'
    OBVIOUS
<1> USE DEF FirstRun, Frame
<1>1. MaxCalls \in Nat /\ r1 \in Int /\ calls \in 0 .. MaxCalls
      BY BootAssumption DEF BootInv, TypeOK
<1>2. ASSUME NEW site \in Sites, Call(site) PROVE BootInv'
      <2>1. TypeOK'
            BY <1>1, <1>2 DEF Call, BootInv, TypeOK, dataVars
      <2>2. OnceInv'
            BY <1>1, <1>2 DEF Call, BootInv, OnceInv, dataVars
      <2>3. Below(r1, calls) /\ calls = calls' - 1 /\ calls' > 0
            BY <1>1, <1>2 DEF Call, BootInv, StackInv
      <2>4. StackInv'
            BY <1>1, <1>2, <2>3 DEF Call, StackInv, ReturnsBalanced, Below
      <2> QED BY <2>1, <2>2, <2>4 DEF BootInv
<1>3. CASE Prologue
      <2>1. calls > 0 /\ Below(caller.r1, calls - 1) /\ caller.r1 = r1 /\ caller.site = lr
            BY <1>3 DEF Prologue, BootInv, StackInv
      <2>2. caller.r1 + 4 \in SaveWords
            BY <1>1, <2>1, SavesItsWord
      <2>3. /\ r1' = r1 - Frame /\ r1' + Frame + 4 = caller.r1 + 4
            /\ saved' = [saved EXCEPT ![caller.r1 + 4] = lr]
            BY <1>1, <1>3, <2>1 DEF Prologue
      <2>4. TypeOK'
            <3>1. saved' \in [SaveWords -> Sites \cup {Null, Inside}]
                  BY <2>3 DEF BootInv, TypeOK
            <3>2. SaveWords' = SaveWords
                  BY DEF SaveWords
            <3> QED BY <1>1, <1>3, <3>1, <3>2 DEF Prologue, BootInv, TypeOK, dataVars
      <2>5. OnceInv'
            BY <1>3 DEF Prologue, BootInv, OnceInv, dataVars
      <2>6. saved'[caller.r1 + 4] = caller.site
            BY <2>1, <2>2, <2>3 DEF BootInv, TypeOK
      <2>7. StackInv'
            BY <1>1, <1>3, <2>1, <2>2, <2>3, <2>6
               DEF Prologue, BootInv, StackInv, ReturnsBalanced, SaveWords, Below
      <2> QED BY <2>4, <2>5, <2>7 DEF BootInv
<1>4. CASE ReturnEarly
      <2>1. calls > 1
            BY <1>1, <1>4 DEF ReturnEarly, BootInv, OnceInv
      <2> QED BY <1>1, <1>4, <2>1 DEF ReturnEarly, BootInv, TypeOK, OnceInv, StackInv,
                  ReturnsBalanced, dataVars, SaveWords, Below
<1>5. CASE SetFlag
      <2>1. calls = 1
            BY <1>1, <1>5 DEF SetFlag, BootInv, OnceInv, StackInv
      <2> QED BY <1>1, <1>5, <2>1 DEF SetFlag, BootInv, TypeOK, OnceInv, StackInv,
                  ReturnsBalanced, dataVars, SaveWords, Below
<1>6. CASE Acquire
      BY <1>1, <1>6 DEF Acquire, BootInv, TypeOK, OnceInv, StackInv, ReturnsBalanced,
                        SaveWords, Below
<1>7. CASE FindExport
      BY <1>1, <1>7 DEF FindExport, BootInv, TypeOK, OnceInv, StackInv, ReturnsBalanced,
                        SaveWords, Below
<1>8. CASE CallInit
      <2>1. inits = 0 /\ calls = 1 /\ 1 \in 0 .. MaxCalls
            BY <1>1, <1>8 DEF CallInit, BootInv, OnceInv
      <2> QED BY <1>1, <1>8, <2>1 DEF CallInit, BootInv, TypeOK, OnceInv, StackInv,
                  ReturnsBalanced, SaveWords, Below
<1>9. CASE Epilogue
      <2>1. /\ calls = 1 /\ r1 = caller.r1 - Frame /\ caller.r1 \in Int
            /\ caller.r1 + 4 \in SaveWords /\ saved[caller.r1 + 4] = caller.site
            BY <1>9 DEF Epilogue, BootInv, OnceInv, StackInv
      <2>2. r1 + Frame + 4 = caller.r1 + 4 /\ r1 + Frame = caller.r1
            BY <2>1
      <2>3. r1' = caller.r1 /\ lr' = caller.site
            BY <1>9, <2>1, <2>2 DEF Epilogue
      <2> QED BY <1>1, <1>9, <2>1, <2>3 DEF Epilogue, BootInv, TypeOK, OnceInv, StackInv,
                  ReturnsBalanced, dataVars, SaveWords, Below
<1>10. CASE Land
      <2>1. Below(caller.r1, calls - 1) /\ calls > 0 /\ caller.r1 \in Int
            BY <1>10 DEF Land, BootInv, StackInv
      <2>2. Below(caller.r1, calls) /\ Below(caller.r1 - Frame, calls)
            <3>1. calls - 1 \in Nat /\ calls = (calls - 1) + 1
                  BY <1>1, <2>1
            <3> HIDE DEF Frame
            <3> QED BY <2>1, <3>1, BelowNext
      <2>3. Below(r1, calls)
            BY <1>10, <2>2 DEF Land, BootInv, StackInv
      <2>4. StackInv'
            BY <1>10, <2>3 DEF Land, StackInv, ReturnsBalanced, Below
      <2>5. OnceInv'
            BY <1>1, <1>10, <2>1 DEF Land, BootInv, OnceInv, dataVars
      <2>6. TypeOK'
            BY <1>10 DEF Land, BootInv, TypeOK, dataVars, SaveWords
      <2> QED BY <2>4, <2>5, <2>6 DEF BootInv
<1>11. CASE UNCHANGED vars
      BY <1>11 DEF vars, dataVars, BootInv, TypeOK, OnceInv, StackInv, ReturnsBalanced,
                   SaveWords, Below
<1> QED BY <1>2, <1>3, <1>4, <1>5, <1>6, <1>7, <1>8, <1>9, <1>10, <1>11 DEF Next

\* For every number of calls, the routine writes link registers to the words of
\* its frames only, and handles and functions to the words meant for them.
THEOREM KeepsToItsWords == Spec => []TypeOK
<1>1. BootInv => TypeOK
      BY DEF BootInv
<1> QED BY <1>1, BootStart, BootStep, PTL DEF Spec

\* However often the routine is called, it calls init once.
THEOREM CallsInitOnce == Spec => []InitOnce
<1>1. BootInv => InitOnce
      <2> SUFFICES ASSUME BootInv PROVE InitOnce
          OBVIOUS
      <2>1. inits \in {0, 1} /\ (pc = "returned" => inits = 1)
            BY DEF BootInv, TypeOK, OnceInv, FirstRun
      <2> QED BY <2>1 DEF InitOnce
<1> QED BY <1>1, BootStart, BootStep, PTL DEF Spec

\* The call that runs init goes back to where it came from, with the caller's stack.
THEOREM FirstCallReturns == Spec => []ReturnsBalanced
<1>1. BootInv => ReturnsBalanced
      BY DEF BootInv, StackInv
<1> QED BY <1>1, BootStart, BootStep, PTL DEF Spec

----------------------------------------------------------------------------
(* Words of branches and traps *)

\* A word with two registers and sixteen bits after them.
Made(w, t, a, z) ==
    /\ t \in 0 .. 31 /\ a \in 0 .. 31 /\ z \in Nat /\ z < 2^16
    /\ w[2] \in Int /\ w[2] = t * 2^21 + a * 2^16 + z
ReadBack(w, t, a, z) == Bits(w, 21, 5) = t /\ Bits(w, 16, 5) = a /\ Bits(w, 0, 16) = z

LEMMA RegistersOf ==
    ASSUME NEW w, NEW t, NEW a, NEW z, Made(w, t, a, z) PROVE ReadBack(w, t, a, z)
<1> DEFINE x == w[2]
<1>1. /\ t \in 0 .. 31 /\ a \in 0 .. 31 /\ z \in Nat /\ z < 65536
      /\ x \in Int /\ x = t * 2097152 + a * 65536 + z
      BY SMT DEF Made
<1> HIDE DEF x
<1>2. x \div 2097152 = t /\ x \div 65536 = t * 32 + a /\ x % 65536 = z
      BY ONLY <1>1, SMT
<1>3. t % 32 = t /\ (t * 32 + a) % 32 = a
      BY ONLY <1>1, SMT
<1>4. 2^21 = 2097152 /\ 2^16 = 65536 /\ 2^5 = 32 /\ 2^0 = 1 /\ x \div 1 = x
      BY <1>1, SMT
<1> QED BY <1>2, <1>3, <1>4, SMT DEF Bits, ReadBack, x

\* The parts of a branch's sixteen bits.
Offset(bd, aa, lk) == bd * 4 + aa * 2 + lk
MadeOffset(w, t, a, bd, aa, lk) ==
    /\ bd \in Nat /\ bd < 2^14 /\ aa \in {0, 1} /\ lk \in {0, 1}
    /\ Made(w, t, a, Offset(bd, aa, lk))
OffsetBack(w, bd, aa, lk) ==
    /\ Bits(w, 2, 14) = bd /\ Bits(w, 1, 1) = aa /\ Bits(w, 0, 1) = lk
    /\ Bits(w, 1, 10) = (bd * 2 + aa) % 1024

LEMMA RestOf ==
    ASSUME NEW w, NEW t, NEW a, NEW bd, NEW aa, NEW lk, MadeOffset(w, t, a, bd, aa, lk)
    PROVE  OffsetBack(w, bd, aa, lk)
<1> DEFINE x == w[2]
<1>1. /\ t \in 0 .. 31 /\ a \in 0 .. 31 /\ bd \in Nat /\ bd < 16384 /\ aa \in {0, 1} /\ lk \in {0, 1}
      /\ x \in Int /\ x = t * 2097152 + a * 65536 + bd * 4 + aa * 2 + lk
      BY SMT DEF Made, MadeOffset, Offset
<1> HIDE DEF x
<1>2. x \div 4 = (t * 32 + a) * 16384 + bd /\ ((t * 32 + a) * 16384 + bd) % 16384 = bd
      BY ONLY <1>1, SMT
<1>3. x \div 2 = (t * 32 + a) * 32768 + bd * 2 + aa
      BY ONLY <1>1, SMT
<1>4. ((t * 32 + a) * 32768 + bd * 2 + aa) % 2 = aa
      BY ONLY <1>1, SMT
<1>5. ((t * 32 + a) * 32768 + bd * 2 + aa) % 1024 = (bd * 2 + aa) % 1024
      BY ONLY <1>1, SMT
<1>6. x \div 1 = x /\ x % 2 = lk
      BY ONLY <1>1, SMT
<1>7. 2^2 = 4 /\ 2^14 = 16384 /\ 2^1 = 2 /\ 2^10 = 1024 /\ 2^0 = 1
      BY SMT
<1> QED BY <1>2, <1>3, <1>4, <1>5, <1>6, <1>7, SMT DEF Bits, OffsetBack, x

\* An offset that fits comes back from its field.
LEMMA OffsetComesBack ==
    ASSUME NEW to, Reaches(to, 16)
    PROVE  LET bd == Low(TowardZero(to, 4), 14)
           IN  bd \in Nat /\ bd < 2^14 /\ Extends(bd, 14) * 4 = to /\ to \in Int
<1>1. to \in Int /\ -32768 <= to /\ to <= 32767 /\ to % 4 = 0
      BY SMT DEF Reaches
<1> DEFINE k == TowardZero(to, 4)
<1>2. k \in Int /\ -8192 <= k /\ k < 8192 /\ k * 4 = to
      <2>1. CASE to < 0
            <3>1. k = -((-to) \div 4)
                  BY <2>1 DEF TowardZero
            <3>2. (-to) % 4 = 0
                  BY <1>1, SMT
            <3> QED BY <1>1, <3>1, <3>2, SMT
      <2>2. CASE ~(to < 0)
            <3>1. k = to \div 4
                  BY <2>2 DEF TowardZero
            <3> QED BY <1>1, <2>2, <3>1, SMT
      <2> QED BY <2>1, <2>2
<1> HIDE DEF k
<1>3. Low(k, 14) = IF k < 0 THEN k + 16384 ELSE k
      BY <1>2, SMT DEF Low
<1>4. Low(k, 14) \in Nat /\ Low(k, 14) < 2^14 /\ Extends(Low(k, 14), 14) = k
      BY <1>2, <1>3, SMT DEF Extends
<1> QED BY <1>1, <1>2, <1>4 DEF k

LEMMA FarOffsetComesBack ==
    ASSUME NEW to, Reaches(to, 26)
    PROVE  LET li == Low(TowardZero(to, 4), 24)
           IN  li \in Nat /\ li < 2^24 /\ Extends(li, 24) * 4 = to /\ to \in Int
<1>1. to \in Int /\ -33554432 <= to /\ to <= 33554431 /\ to % 4 = 0
      BY SMT DEF Reaches
<1> DEFINE k == TowardZero(to, 4)
<1>2. k \in Int /\ -8388608 <= k /\ k < 8388608 /\ k * 4 = to
      <2>1. CASE to < 0
            <3>1. k = -((-to) \div 4)
                  BY <2>1 DEF TowardZero
            <3>2. (-to) % 4 = 0
                  BY <1>1, SMT
            <3> QED BY <1>1, <3>1, <3>2, SMT
      <2>2. CASE ~(to < 0)
            <3>1. k = to \div 4
                  BY <2>2 DEF TowardZero
            <3> QED BY <1>1, <2>2, <3>1, SMT
      <2> QED BY <2>1, <2>2
<1> HIDE DEF k
<1>3. Low(k, 24) = IF k < 0 THEN k + 2^24 ELSE k
      BY <1>2, SMT DEF Low
<1>4. Low(k, 24) \in Nat /\ Low(k, 24) < 2^24 /\ Extends(Low(k, 24), 24) = k
      BY <1>2, <1>3, SMT DEF Extends
<1> QED BY <1>1, <1>2, <1>4 DEF k

----------------------------------------------------------------------------
(* What the processor does with them *)

\* Whether a branch is taken, by its bo and bi.
BoBit(bo, n) == (bo \div n) % 2 = 1
CtrAfter(bo, cpu) == IF BoBit(bo, 4) THEN cpu.ctr ELSE cpu.ctr - 1
Taken(bo, bi, cpu) ==
    /\ BoBit(bo, 4) \/ ((CtrAfter(bo, cpu) = 0) <=> BoBit(bo, 2))
    /\ BoBit(bo, 16) \/ (bi \in cpu.cr <=> BoBit(bo, 8))

\* Where a suffix leads to.
Links(suffix) == suffix \in {"l", "la", "lrl", "ctrl"}
TargetOf(suffix, to, cpu) ==
    CASE suffix \in {"plain", "l"} -> cpu.cia + to
      [] suffix \in {"a", "la"} -> to
      [] suffix \in {"lr", "lrl"} -> cpu.lr
      [] suffix \in {"ctr", "ctrl"} -> cpu.ctr

\* A jump that goes to target if it is taken.
Jump(taken, target, suffix, counter, cpu) ==
    [nia |-> IF taken THEN target ELSE cpu.cia + 4,
     lr |-> IF Links(suffix) THEN cpu.cia + 4 ELSE cpu.lr,
     ctr |-> counter]

\* The word of a conditional branch with a suffix.
SuffixRest(suffix, to) ==
    (CASE suffix \in {"lr", "lrl"} -> 8
       [] suffix \in {"ctr", "ctrl"} -> 264
       [] OTHER -> Low(TowardZero(to, 4), 14)) * 4
    + Bit(suffix \in {"a", "la"}) * 2 + Bit(Links(suffix))
SuffixOp(suffix) == IF suffix \in DOMAIN ToRegister THEN 19 ELSE 16
SuffixWord(suffix, bo, bi, to) ==
    <<SuffixOp(suffix), bo * 2^21 + bi * 2^16 + SuffixRest(suffix, to)>>

LEMMA EndingsAre == /\ Endings = {"plain", "a", "l", "la", "lr", "ctr", "lrl", "ctrl"}
                    /\ DOMAIN ToRegister = {"lr", "ctr", "lrl", "ctrl"}
                    /\ DOMAIN ToOffset = {"plain", "a", "l", "la"}
<1>1. DOMAIN ToOffset = {"plain", "a", "l", "la"}
      BY DEF ToOffset
<1>2. DOMAIN ToRegister = {"lr", "ctr", "lrl", "ctrl"}
      BY DEF ToRegister
<1> QED BY <1>1, <1>2 DEF Endings

\* A conditional branch does what its suffix, its bo and its bi say.
LEMMA SuffixJumps ==
    ASSUME NEW suffix \in Endings, NEW bo \in 0 .. 31, NEW bi \in 0 .. 31, NEW to, Reaches(to, 16),
           NEW cpu
    PROVE  Branches(SuffixWord(suffix, bo, bi, to), cpu) =
               Jump(Taken(bo, bi, cpu), TargetOf(suffix, to, cpu), suffix, CtrAfter(bo, cpu), cpu)
<1> DEFINE w == SuffixWord(suffix, bo, bi, to)
           bd == CASE suffix \in {"lr", "lrl"} -> 8
                   [] suffix \in {"ctr", "ctrl"} -> 264
                   [] OTHER -> Low(TowardZero(to, 4), 14)
           aa == Bit(suffix \in {"a", "la"})
           lk == Bit(Links(suffix))
           x == bo * 2^21 + bi * 2^16 + SuffixRest(suffix, to)
<1>1. bd \in Nat /\ bd < 2^14 /\ aa \in {0, 1} /\ lk \in {0, 1}
      <2>1. aa \in {0, 1} /\ lk \in {0, 1}
            BY DEF Bit
      <2>2. bd \in Nat /\ bd < 2^14
            <3>1. /\ Low(TowardZero(to, 4), 14) \in Nat /\ Low(TowardZero(to, 4), 14) < 2^14
                  BY OffsetComesBack
            <3>2. CASE suffix \in {"lr", "lrl"}
                  BY <3>2, SMT
            <3>3. CASE suffix \in {"ctr", "ctrl"}
                  BY <3>3, SMT
            <3>4. CASE suffix \notin {"lr", "lrl", "ctr", "ctrl"}
                  BY <3>1, <3>4, SMT
            <3> QED BY <3>2, <3>3, <3>4
      <2> QED BY <2>1, <2>2
<1>2. SuffixRest(suffix, to) = bd * 4 + aa * 2 + lk
      BY DEF SuffixRest
<1>3. w[1] = SuffixOp(suffix) /\ w[2] = x
      BY DEF SuffixWord
<1> HIDE DEF bd, aa, lk
<1>4. MadeOffset(w, bo, bi, bd, aa, lk)
      <2>1. x \in Int /\ x = bo * 2^21 + bi * 2^16 + Offset(bd, aa, lk)
            BY <1>1, <1>2, SMT DEF Offset
      <2>2. Offset(bd, aa, lk) \in Nat /\ Offset(bd, aa, lk) < 2^16
            BY <1>1, SMT DEF Offset
      <2> HIDE DEF x
      <2> QED BY <1>1, <1>3, <2>1, <2>2, Zenon DEF Made, MadeOffset
<1>5. /\ Bits(w, 21, 5) = bo /\ Bits(w, 16, 5) = bi
      /\ Bits(w, 2, 14) = bd /\ Bits(w, 1, 1) = aa /\ Bits(w, 0, 1) = lk
      /\ Bits(w, 1, 10) = (bd * 2 + aa) % 1024
      <2>1. OffsetBack(w, bd, aa, lk)
            BY <1>4, RestOf
      <2>2. ReadBack(w, bo, bi, Offset(bd, aa, lk))
            BY <1>4, RegistersOf, Zenon DEF MadeOffset
      <2> QED BY <2>1, <2>2, Zenon DEF OffsetBack, ReadBack
<1> HIDE DEF w, x
<1>6. w[1] # 18
      BY <1>3, SMT DEF SuffixOp
<1> DEFINE counts == IF w[1] = 18 \/ BoBit(Bits(w, 21, 5), 4) THEN cpu.ctr ELSE cpu.ctr - 1
           taken == \/ w[1] = 18
                    \/ /\ BoBit(Bits(w, 21, 5), 4) \/ ((counts = 0) <=> BoBit(Bits(w, 21, 5), 2))
                       /\ \/ BoBit(Bits(w, 21, 5), 16)
                          \/ Bits(w, 16, 5) \in cpu.cr <=> BoBit(Bits(w, 21, 5), 8)
           offset == IF w[1] = 18 THEN Extends(Bits(w, 2, 24), 24) * 4
                     ELSE Extends(Bits(w, 2, 14), 14) * 4
           target == CASE w[1] = 19 /\ Bits(w, 1, 10) = 16 -> cpu.lr
                       [] w[1] = 19 /\ Bits(w, 1, 10) = 528 -> cpu.ctr
                       [] w[1] \in {16, 18} /\ Bits(w, 1, 1) = 1 -> offset
                       [] w[1] \in {16, 18} /\ Bits(w, 1, 1) = 0 -> cpu.cia + offset
           lr0 == IF Bits(w, 0, 1) = 1 THEN cpu.cia + 4 ELSE cpu.lr
<1>7. Branches(w, cpu) = [nia |-> IF taken THEN target ELSE cpu.cia + 4, lr |-> lr0, ctr |-> counts]
      BY DEF Branches, BoBit
<1>8. /\ counts = CtrAfter(bo, cpu) /\ taken = Taken(bo, bi, cpu)
      /\ offset = Extends(bd, 14) * 4
      <2>1. counts = CtrAfter(bo, cpu)
            BY <1>5, <1>6 DEF CtrAfter
      <2>2. offset = Extends(bd, 14) * 4
            BY <1>5, <1>6
      <2> HIDE DEF counts
      <2> QED BY <1>5, <1>6, <2>1, <2>2, Zenon DEF Taken
<1> HIDE DEF offset, taken, counts
<1>9. lr0 = IF Links(suffix) THEN cpu.cia + 4 ELSE cpu.lr
      BY <1>5 DEF lk, Bit
<1>10. target = TargetOf(suffix, to, cpu)
      <2>1. CASE suffix \in {"lr", "lrl"}
            <3>1. w[1] = 19 /\ Bits(w, 1, 10) = 16
                  BY <1>3, <1>5, <2>1, SMT DEF SuffixOp, ToRegister, bd, aa, Bit
            <3>2. target = cpu.lr
                  BY <3>1, SMT
            <3> QED BY <2>1, <3>2 DEF TargetOf
      <2>2. CASE suffix \in {"ctr", "ctrl"}
            <3>1. w[1] = 19 /\ Bits(w, 1, 10) = 528
                  BY <1>3, <1>5, <2>2, SMT DEF SuffixOp, ToRegister, bd, aa, Bit
            <3>2. target = cpu.ctr
                  BY <3>1, SMT
            <3> QED BY <2>2, <3>2 DEF TargetOf
      <2>3. suffix \in {"plain", "l", "a", "la"} => w[1] = 16 /\ offset = to
            BY <1>3, <1>8, OffsetComesBack, SMT DEF SuffixOp, ToRegister, bd
      <2>4. CASE suffix \in {"plain", "l"}
            <3>1. Bits(w, 1, 1) = 0
                  BY <1>5, <2>4 DEF aa, Bit
            <3>2. target = cpu.cia + to
                  BY <2>3, <2>4, <3>1, SMT
            <3> QED BY <2>4, <3>2 DEF TargetOf
      <2>5. CASE suffix \in {"a", "la"}
            <3>1. Bits(w, 1, 1) = 1
                  BY <1>5, <2>5 DEF aa, Bit
            <3>2. target = to
                  BY <2>3, <2>5, <3>1, SMT
            <3>3. TargetOf(suffix, to, cpu) = to
                  BY <2>5 DEF TargetOf
            <3> QED BY <3>2, <3>3
      <2> QED BY <2>1, <2>2, <2>4, <2>5, EndingsAre
<1> HIDE DEF lr0, target
<1> QED BY <1>7, <1>8, <1>9, <1>10, Zenon DEF Jump, w

----------------------------------------------------------------------------
(* The conditions in the names *)

\* A jump that is taken when the test in its name holds does what the name says.
LEMMA NamedJump ==
    ASSUME NEW test, NEW x, NEW to, NEW taken, NEW ctr0, job.suffix \in Endings,
           did = Jump(taken, TargetOf(job.suffix, to, job.cpu), job.suffix, ctr0, job.cpu),
           Met(test, x, job.cpu.cr, job.cpu.ctr) <=> taken,
           ctr0 = IF test \in Steps THEN job.cpu.ctr - 1 ELSE job.cpu.ctr
    PROVE  BranchesAsNamed(test, x, to)
<1> DEFINE target == TargetOf(job.suffix, to, job.cpu)
           named == CASE job.suffix \in {"plain", "l"} -> job.cpu.cia + to
                      [] job.suffix \in {"a", "la"} -> to
                      [] job.suffix \in {"lr", "lrl"} -> job.cpu.lr
                      [] job.suffix \in {"ctr", "ctrl"} -> job.cpu.ctr
<1>1. did = Jump(taken, target, job.suffix, ctr0, job.cpu)
      OBVIOUS
<1>2. target = named
      BY DEF TargetOf
<1> HIDE DEF target, named
<1>3. /\ did.nia = IF taken THEN target ELSE job.cpu.cia + 4
      /\ did.lr = IF Links(job.suffix) THEN job.cpu.cia + 4 ELSE job.cpu.lr
      /\ did.ctr = ctr0
      BY <1>1 DEF Jump
<1>4. /\ did.nia = IF Met(test, x, job.cpu.cr, job.cpu.ctr) THEN named ELSE job.cpu.cia + 4
      /\ did.lr = IF job.suffix \in {"l", "la", "lrl", "ctrl"} THEN job.cpu.cia + 4 ELSE job.cpu.lr
      /\ did.ctr = IF test \in Steps THEN job.cpu.ctr - 1 ELSE job.cpu.ctr
      BY <1>2, <1>3 DEF Links
<1> QED BY <1>4, Zenon DEF BranchesAsNamed, named

\* So does a branch whose bo and bi are those of its name.
BranchLike(test, x, to, bo, bi) ==
    /\ bo \in 0 .. 31 /\ bi \in 0 .. 31 /\ job.suffix \in Endings /\ Reaches(to, 16)
    /\ did = Branches(SuffixWord(job.suffix, bo, bi, to), job.cpu)
    /\ Met(test, x, job.cpu.cr, job.cpu.ctr) <=> Taken(bo, bi, job.cpu)
    /\ test \in Steps <=> ~BoBit(bo, 4)
LEMMA NamedBranch ==
    ASSUME NEW test, NEW x, NEW to, NEW bo, NEW bi, BranchLike(test, x, to, bo, bi)
    PROVE  BranchesAsNamed(test, x, to)
<1>0. /\ bo \in 0 .. 31 /\ bi \in 0 .. 31 /\ job.suffix \in Endings /\ Reaches(to, 16)
      /\ did = Branches(SuffixWord(job.suffix, bo, bi, to), job.cpu)
      /\ Met(test, x, job.cpu.cr, job.cpu.ctr) <=> Taken(bo, bi, job.cpu)
      /\ test \in Steps <=> ~BoBit(bo, 4)
      BY Zenon DEF BranchLike
<1> DEFINE taken == Taken(bo, bi, job.cpu)
           ctr0 == CtrAfter(bo, job.cpu)
<1>1. did = Jump(taken, TargetOf(job.suffix, to, job.cpu), job.suffix, ctr0, job.cpu)
      BY <1>0, SuffixJumps
<1>2. ctr0 = IF test \in Steps THEN job.cpu.ctr - 1 ELSE job.cpu.ctr
      BY <1>0 DEF CtrAfter
<1>3. Met(test, x, job.cpu.cr, job.cpu.ctr) <=> taken
      BY <1>0, Zenon
<1> HIDE DEF taken, ctr0
<1> QED BY <1>0, <1>1, <1>2, <1>3, NamedJump

\* The bits of the values that bo has.
LEMMA BoBits ==
    /\ \A bo \in {0, 2, 4, 8, 10, 12, 16, 18, 20} :
           /\ BoBit(bo, 16) <=> bo \in {16, 18, 20}
           /\ BoBit(bo, 8) <=> bo \in {8, 10, 12}
           /\ BoBit(bo, 4) <=> bo \in {4, 12, 20}
           /\ BoBit(bo, 2) <=> bo \in {2, 10, 18}
BY SMT DEF BoBit

Tests == {"bt", "bf", "bdnz", "bdz", "bdnzt", "bdnzf", "bdzt", "bdzf", "b"}
LEMMA BoOfIs ==
    /\ DOMAIN BoOf = Tests
    /\ BoOf["bt"] = 12 /\ BoOf["bf"] = 4 /\ BoOf["bdnz"] = 16 /\ BoOf["bdz"] = 18
    /\ BoOf["bdnzt"] = 8 /\ BoOf["bdnzf"] = 0 /\ BoOf["bdzt"] = 10 /\ BoOf["bdzf"] = 2
    /\ BoOf["b"] = 20
BY DEF BoOf, Tests

\* The values of bo are those the tests need.
LEMMA MetIsTaken ==
    ASSUME NEW test \in Tests, NEW x, NEW cpu, cpu.ctr \in Int
    PROVE  /\ BoOf[test] \in 0 .. 31
           /\ Met(test, x, cpu.cr, cpu.ctr) <=> Taken(BoOf[test], x, cpu)
           /\ test \in Steps <=> ~BoBit(BoOf[test], 4)
<1>1. cpu.ctr - 1 = 0 <=> cpu.ctr = 1
      OBVIOUS
<1>2. CASE test = "b"
      BY <1>2, BoOfIs, BoBits, SMT DEF Met, Taken, CtrAfter, Steps
<1>3. CASE test = "bt"
      BY <1>3, BoOfIs, BoBits, SMT DEF Met, Taken, CtrAfter, Steps
<1>4. CASE test = "bf"
      BY <1>4, BoOfIs, BoBits, SMT DEF Met, Taken, CtrAfter, Steps
<1>5. CASE test = "bdnz"
      BY <1>1, <1>5, BoOfIs, BoBits, SMT DEF Met, Taken, CtrAfter, Steps
<1>6. CASE test = "bdz"
      BY <1>1, <1>6, BoOfIs, BoBits, SMT DEF Met, Taken, CtrAfter, Steps
<1>7. CASE test = "bdnzt"
      BY <1>1, <1>7, BoOfIs, BoBits, SMT DEF Met, Taken, CtrAfter, Steps
<1>8. CASE test = "bdnzf"
      BY <1>1, <1>8, BoOfIs, BoBits, SMT DEF Met, Taken, CtrAfter, Steps
<1>9. CASE test = "bdzt"
      BY <1>1, <1>9, BoOfIs, BoBits, SMT DEF Met, Taken, CtrAfter, Steps
<1>10. CASE test = "bdzf"
      BY <1>1, <1>10, BoOfIs, BoBits, SMT DEF Met, Taken, CtrAfter, Steps
<1> QED BY <1>2, <1>3, <1>4, <1>5, <1>6, <1>7, <1>8, <1>9, <1>10 DEF Tests

\* On a field of the CR: what bo and the bit in the field are.
WhenSet == {"blt", "beq", "bgt", "bso", "bun"}
WhenNot == {"ble", "bng", "bge", "bnl", "bne", "bns", "bnu"}
FieldBo(test) == IF test \in WhenSet THEN 12 ELSE 4
FieldFlag(test) == CASE test \in {"blt", "bge", "bnl"} -> 0
                     [] test \in {"bgt", "ble", "bng"} -> 1
                     [] test \in {"beq", "bne"} -> 2
                     [] test \in {"bso", "bun", "bns", "bnu"} -> 3
LEMMA MetOnField ==
    ASSUME NEW test \in WhenSet \cup WhenNot, NEW x \in 0 .. 7, NEW cpu
    PROVE  /\ FieldBo(test) \in {4, 12} /\ FieldFlag(test) \in 0 .. 3
           /\ 4 * x + FieldFlag(test) \in 0 .. 31
           /\ Met(test, x, cpu.cr, cpu.ctr) <=> Taken(FieldBo(test), 4 * x + FieldFlag(test), cpu)
           /\ test \notin Steps /\ BoBit(FieldBo(test), 4)
<1>1. FieldBo(test) \in {4, 12}
      BY DEF FieldBo
<1>2. FieldFlag(test) \in 0 .. 3
      BY DEF FieldFlag, WhenSet, WhenNot
<1>3. 4 * x + FieldFlag(test) \in 0 .. 31
      BY <1>2
<1>4. test \notin Steps
      BY DEF Steps, WhenSet, WhenNot
<1>5. BoBit(FieldBo(test), 4) /\ ~BoBit(FieldBo(test), 16) /\ (BoBit(FieldBo(test), 8) <=> test \in WhenSet)
      BY BoBits, SMT DEF FieldBo
<1> DEFINE set == 4 * x + FieldFlag(test) \in cpu.cr
<1>6. Taken(FieldBo(test), 4 * x + FieldFlag(test), cpu) <=> (set <=> test \in WhenSet)
      BY <1>5 DEF Taken
<1>7. Met(test, x, cpu.cr, cpu.ctr) <=> (set <=> test \in WhenSet)
      <2>1. CASE test \in {"blt", "bge", "bnl"}
            <3>1. FieldFlag(test) = 0
                  BY <2>1 DEF FieldFlag
            <3> QED BY <2>1, <3>1 DEF Met, WhenSet
      <2>2. CASE test \in {"bgt", "ble", "bng"}
            <3>1. FieldFlag(test) = 1
                  BY <2>2 DEF FieldFlag
            <3> QED BY <2>2, <3>1 DEF Met, WhenSet
      <2>3. CASE test \in {"beq", "bne"}
            <3>1. FieldFlag(test) = 2
                  BY <2>3 DEF FieldFlag
            <3> QED BY <2>3, <3>1 DEF Met, WhenSet
      <2>4. CASE test \in {"bso", "bun", "bns", "bnu"}
            <3>1. FieldFlag(test) = 3
                  BY <2>4 DEF FieldFlag
            <3> QED BY <2>4, <3>1 DEF Met, WhenSet
      <2> QED BY <2>1, <2>2, <2>3, <2>4 DEF WhenSet, WhenNot
<1> QED BY <1>1, <1>2, <1>3, <1>4, <1>5, <1>6, <1>7

----------------------------------------------------------------------------
(* The words of conditional branches *)

\* A number is the word with that opcode and that rest.
LEMMA WordIs ==
    ASSUME NEW op \in 0 .. 63, NEW rest \in Nat, rest < 2^26
    PROVE  Word(op * 2^26 + rest) = <<op, rest>>
<1>1. rest < 67108864 /\ 2^26 = 67108864
      BY SMT
<1>2. (op * 67108864 + rest) \div 67108864 = op /\ (op * 67108864 + rest) % 67108864 = rest
      BY <1>1, SMT
<1> QED BY <1>1, <1>2, SMT DEF Word

\* What a branch's number has before the offset and the CR bit: its opcode, bo, and
\* the bits of the suffix.
Numbered(base, bo, suffix) ==
    IF suffix \in DOMAIN ToRegister
    THEN base = 19 * 2^26 + bo * 2^21 + (IF suffix \in {"lr", "lrl"} THEN 8 ELSE 264) * 4
                + Bit(Links(suffix))
    ELSE base = 16 * 2^26 + bo * 2^21 + Bit(suffix \in {"a", "la"}) * 2 + Bit(Links(suffix))

LEMMA NumberedIs ==
    ASSUME NEW plain \in Int, NEW bo \in Int, plain = 16 * 2^26 + bo * 2^21, NEW suffix \in Endings
    PROVE  /\ suffix \in DOMAIN ToRegister => Numbered(plain + ToRegister[suffix], bo, suffix)
           /\ suffix \in DOMAIN ToOffset => Numbered(plain + ToOffset[suffix], bo, suffix)
<1>1. CASE suffix \in {"lr", "lrl"}
      <2>1. ToRegister[suffix] = 3 * 2^26 + 8 * 4 + Bit(Links(suffix))
            BY <1>1, SMT DEF ToRegister, Bit, Links
      <2>2. suffix \in DOMAIN ToRegister /\ suffix \notin DOMAIN ToOffset
            BY <1>1, EndingsAre
      <2>3. Bit(Links(suffix)) \in {0, 1}
            BY DEF Bit
      <2>4. plain + ToRegister[suffix] = 19 * 2^26 + bo * 2^21 + 8 * 4 + Bit(Links(suffix))
            BY <2>1, <2>3, SMT
      <2> QED BY <1>1, <2>2, <2>4, SMT DEF Numbered
<1>2. CASE suffix \in {"ctr", "ctrl"}
      <2>1. ToRegister[suffix] = 3 * 2^26 + 264 * 4 + Bit(Links(suffix))
            BY <1>2, SMT DEF ToRegister, Bit, Links
      <2>2. suffix \in DOMAIN ToRegister /\ suffix \notin DOMAIN ToOffset
            BY <1>2, EndingsAre
      <2>3. Bit(Links(suffix)) \in {0, 1}
            BY DEF Bit
      <2>4. plain + ToRegister[suffix] = 19 * 2^26 + bo * 2^21 + 264 * 4 + Bit(Links(suffix))
            BY <2>1, <2>3, SMT
      <2> QED BY <1>2, <2>2, <2>4, SMT DEF Numbered
<1>3. CASE suffix \in DOMAIN ToOffset
      <2>1. ToOffset[suffix] = Bit(suffix \in {"a", "la"}) * 2 + Bit(Links(suffix))
            BY <1>3, EndingsAre, SMT DEF ToOffset, Bit, Links
      <2>2. suffix \notin DOMAIN ToRegister
            BY <1>3, EndingsAre
      <2>3. Bit(Links(suffix)) \in {0, 1} /\ Bit(suffix \in {"a", "la"}) \in {0, 1}
            BY DEF Bit
      <2>4. plain + ToOffset[suffix] =
                16 * 2^26 + bo * 2^21 + Bit(suffix \in {"a", "la"}) * 2 + Bit(Links(suffix))
            BY <2>1, <2>3, SMT
      <2> QED BY <2>2, <2>4, SMT DEF Numbered
<1> QED BY <1>1, <1>2, <1>3, EndingsAre

WithBit(base, bi) == base + bi * 2^16
Fitting(base, bo, bi, suffix, to) ==
    /\ bo \in 0 .. 31 /\ bi \in 0 .. 31 /\ suffix \in Endings /\ Reaches(to, 16)
    /\ Numbered(base, bo, suffix)

\* With an offset or without one, and with the CR bit, that is the branch's word.
LEMMA NumberedWord ==
    ASSUME NEW base, NEW bo, NEW bi, NEW suffix, NEW to, Fitting(base, bo, bi, suffix, to)
    PROVE  /\ suffix \in DOMAIN ToRegister => Word(WithBit(base, bi)) = SuffixWord(suffix, bo, bi, to)
           /\ suffix \in DOMAIN ToOffset =>
                  branch_disp(WithBit(base, bi), to) = SuffixWord(suffix, bo, bi, to)
<1> DEFINE rest == bo * 2^21 + bi * 2^16 + SuffixRest(suffix, to)
           lk == Bit(Links(suffix))
           aa == Bit(suffix \in {"a", "la"})
           bd == Low(TowardZero(to, 4), 14)
<1> bo \in 0 .. 31 /\ bi \in 0 .. 31 /\ suffix \in Endings /\ Reaches(to, 16)
    BY DEF Fitting
<1>1. lk \in {0, 1} /\ aa \in {0, 1}
      BY DEF Bit
<1>2. bd \in Nat /\ bd < 2^14
      BY OffsetComesBack
<1>3. SuffixRest(suffix, to) \in Nat /\ SuffixRest(suffix, to) < 2^16
      <2>1. CASE suffix \in {"lr", "lrl"}
            <3>1. SuffixRest(suffix, to) = 8 * 4 + 0 * 2 + lk
                  BY <2>1, SMT DEF SuffixRest, Bit
            <3> HIDE DEF lk
            <3> QED BY <1>1, <3>1, SMT
      <2>2. CASE suffix \in {"ctr", "ctrl"}
            <3>1. SuffixRest(suffix, to) = 264 * 4 + 0 * 2 + lk
                  BY <2>2, SMT DEF SuffixRest, Bit
            <3> HIDE DEF lk
            <3> QED BY <1>1, <3>1, SMT
      <2>3. CASE suffix \notin {"lr", "lrl", "ctr", "ctrl"}
            <3>1. SuffixRest(suffix, to) = bd * 4 + aa * 2 + lk
                  BY <2>3, SMT DEF SuffixRest
            <3> HIDE DEF lk, aa, bd
            <3> QED BY <1>1, <1>2, <3>1, SMT
      <2> QED BY <2>1, <2>2, <2>3
<1>4. rest \in Nat /\ rest < 2^26
      BY <1>3, SMT
<1>5. ASSUME suffix \in DOMAIN ToRegister
      PROVE  Word(WithBit(base, bi)) = SuffixWord(suffix, bo, bi, to)
      <2>1. SuffixRest(suffix, to) = (IF suffix \in {"lr", "lrl"} THEN 8 ELSE 264) * 4 + lk
            BY <1>1, <1>5, EndingsAre, SMT DEF SuffixRest, Bit
      <2>2. base = 19 * 2^26 + bo * 2^21 + (IF suffix \in {"lr", "lrl"} THEN 8 ELSE 264) * 4 + lk
            BY <1>5, Zenon DEF Numbered, Fitting
      <2>3. WithBit(base, bi) = 19 * 2^26 + rest
            <3> DEFINE k == IF suffix \in {"lr", "lrl"} THEN 8 ELSE 264
            <3>1. k \in {8, 264} /\ SuffixRest(suffix, to) = k * 4 + lk
                  BY <2>1
            <3>2. base = 19 * 2^26 + bo * 2^21 + k * 4 + lk
                  BY <2>2
            <3> HIDE DEF k, lk
            <3> QED BY <1>1, <3>1, <3>2, SMT DEF WithBit
      <2>4. SuffixWord(suffix, bo, bi, to) = <<19, rest>>
            BY <1>5, Zenon DEF SuffixWord, SuffixOp
      <2> HIDE DEF rest
      <2>5. Word(19 * 2^26 + rest) = <<19, rest>>
            <3>1. 19 \in 0 .. 63
                  BY SMT
            <3> QED BY <1>4, <3>1, WordIs, Zenon
      <2> QED BY <2>3, <2>4, <2>5, Zenon
<1>6. ASSUME suffix \in DOMAIN ToOffset
      PROVE  branch_disp(WithBit(base, bi), to) = SuffixWord(suffix, bo, bi, to)
      <2>1. SuffixRest(suffix, to) = bd * 4 + aa * 2 + lk
            BY <1>6, EndingsAre, Zenon DEF SuffixRest
      <2>2. base = 16 * 2^26 + bo * 2^21 + aa * 2 + lk
            BY <1>6, EndingsAre, Zenon DEF Numbered, Fitting
      <2>3. WithBit(base, bi) + bd * 4 = 16 * 2^26 + rest
            <3> HIDE DEF lk, aa, bd
            <3> QED BY <1>1, <1>2, <2>1, <2>2, SMT DEF WithBit
      <2>4. SuffixWord(suffix, bo, bi, to) = <<16, rest>>
            BY <1>6, EndingsAre, Zenon DEF SuffixWord, SuffixOp
      <2>5. branch_disp(WithBit(base, bi), to) = Word(WithBit(base, bi) + bd * 4)
            BY DEF branch_disp
      <2> HIDE DEF rest, bd
      <2>6. Word(16 * 2^26 + rest) = <<16, rest>>
            <3>1. 16 \in 0 .. 63
                  BY SMT
            <3> QED BY <1>4, <3>1, WordIs, Zenon
      <2> QED BY <2>3, <2>4, <2>5, <2>6, Zenon
<1> QED BY <1>5, <1>6

\* The branches whose numbers are typed, by what is in front of their suffix.
LEMMA TestsAre ==
    /\ DOMAIN OnBit = {"bt", "bf", "bdnzt", "bdnzf", "bdzt", "bdzf"}
    /\ DOMAIN OnCounter = {"bdnz", "bdz"}
    /\ DOMAIN OnField = WhenSet \cup WhenNot
<1>1. DOMAIN OnBit = {"bt", "bf", "bdnzt", "bdnzf", "bdzt", "bdzf"}
      BY SMT DEF OnBit
<1>2. DOMAIN OnCounter = {"bdnz", "bdz"}
      BY SMT DEF OnCounter
<1>3. DOMAIN OnField = WhenSet \cup WhenNot
      BY SMT DEF OnField, WhenSet, WhenNot
<1> QED BY <1>1, <1>2, <1>3

\* Their numbers are those of bc with the bo of the test.
LEMMA OnBitIs ==
    ASSUME NEW test \in DOMAIN OnBit
    PROVE  OnBit[test] \in Int /\ OnBit[test] = 16 * 2^26 + BoOf[test] * 2^21
BY TestsAre, BoOfIs, SMT DEF OnBit

LEMMA OnCounterIs ==
    ASSUME NEW test \in DOMAIN OnCounter
    PROVE  OnCounter[test] \in Int /\ OnCounter[test] = 16 * 2^26 + BoOf[test] * 2^21
BY TestsAre, BoOfIs, SMT DEF OnCounter

LEMMA OnFieldIs ==
    ASSUME NEW test \in DOMAIN OnField
    PROVE  /\ OnField[test] \in Int
           /\ OnField[test] = 16 * 2^26 + FieldBo(test) * 2^21 + FieldFlag(test) * 2^16
<1>1. test \in WhenSet \cup WhenNot
      BY TestsAre
<1>2. CASE test = "blt"
      BY <1>2, SMT DEF OnField, FieldBo, FieldFlag, WhenSet
<1>3. CASE test \in {"ble", "bng"}
      BY <1>3, SMT DEF OnField, FieldBo, FieldFlag, WhenSet
<1>4. CASE test = "beq"
      BY <1>4, SMT DEF OnField, FieldBo, FieldFlag, WhenSet
<1>5. CASE test \in {"bge", "bnl"}
      BY <1>5, SMT DEF OnField, FieldBo, FieldFlag, WhenSet
<1>6. CASE test = "bgt"
      BY <1>6, SMT DEF OnField, FieldBo, FieldFlag, WhenSet
<1>7. CASE test = "bne"
      BY <1>7, SMT DEF OnField, FieldBo, FieldFlag, WhenSet
<1>8. CASE test \in {"bso", "bun"}
      BY <1>8, SMT DEF OnField, FieldBo, FieldFlag, WhenSet
<1>9. CASE test \in {"bns", "bnu"}
      BY <1>9, SMT DEF OnField, FieldBo, FieldFlag, WhenSet
<1> QED BY <1>1, <1>2, <1>3, <1>4, <1>5, <1>6, <1>7, <1>8, <1>9 DEF WhenSet, WhenNot

\* The word of a branch that tests a bit.
LEMMA OnBitWord ==
    ASSUME NEW test \in DOMAIN OnBit, NEW suffix \in Endings, NEW x \in 0 .. 31, NEW to, Reaches(to, 16)
    PROVE  Branch(test, suffix, x, to) = SuffixWord(suffix, BoOf[test], x, to)
<1>1. test \in Tests /\ test \notin DOMAIN OnCounter /\ test \notin DOMAIN OnField /\ test # "b"
      BY TestsAre, SMT DEF Tests, WhenSet, WhenNot
<1> DEFINE bo == BoOf[test]
           w == SuffixWord(suffix, bo, x, to)
<1>2. bo \in 0 .. 31 /\ x \in 0 .. 31 /\ Reaches(to, 16) /\ suffix \in Endings
      BY <1>1, BoOfIs, SMT DEF Tests
<1>3. Low(x, 5) = x
      BY SMT DEF Low
<1>4. CASE suffix \in DOMAIN ToRegister
      <2> DEFINE base == OnBit[test] + ToRegister[suffix]
      <2>1. Numbered(base, bo, suffix)
            <3>1. OnBit[test] \in Int /\ OnBit[test] = 16 * 2^26 + bo * 2^21 /\ bo \in Int
                  BY <1>2, OnBitIs
            <3> HIDE DEF bo
            <3> QED BY ONLY <1>4, <3>1, NumberedIs, suffix \in Endings
      <2>2. Branch(test, suffix, x, to) = branch_xl_bi(base, x)
            BY <1>1, <1>4, Zenon DEF Branch
      <2> HIDE DEF base, bo
      <2>3. Fitting(base, bo, x, suffix, to)
            BY <1>2, <2>1 DEF Fitting
      <2>4. Word(WithBit(base, x)) = w
            BY ONLY <1>4, <2>3, NumberedWord
      <2> QED BY <1>3, <2>2, <2>4, Zenon DEF branch_xl_bi, WithBit, bo
<1>5. CASE suffix \in DOMAIN ToOffset
      <2>1. suffix \notin DOMAIN ToRegister
            BY <1>5, EndingsAre
      <2> DEFINE base == OnBit[test] + ToOffset[suffix]
      <2>2. Numbered(base, bo, suffix)
            <3>1. OnBit[test] \in Int /\ OnBit[test] = 16 * 2^26 + bo * 2^21 /\ bo \in Int
                  BY <1>2, OnBitIs
            <3> HIDE DEF bo
            <3> QED BY ONLY <1>5, <3>1, NumberedIs, suffix \in Endings
      <2>3. Branch(test, suffix, x, to) = branch_bi(base, x, to)
            BY <1>1, <2>1, Zenon DEF Branch
      <2> HIDE DEF base, bo
      <2>4. Fitting(base, bo, x, suffix, to)
            BY <1>2, <2>2 DEF Fitting
      <2>5. branch_disp(WithBit(base, x), to) = w
            BY ONLY <1>5, <2>4, NumberedWord
      <2> QED BY <1>3, <2>3, <2>5, Zenon DEF branch_bi, WithBit, bo
<1> QED BY <1>4, <1>5, EndingsAre

\* The word of a branch that tests the counter alone; it has no CR bit.
LEMMA OnCounterWord ==
    ASSUME NEW test \in DOMAIN OnCounter, NEW suffix \in Endings, NEW x, NEW to, Reaches(to, 16)
    PROVE  Branch(test, suffix, x, to) = SuffixWord(suffix, BoOf[test], 0, to)
<1>1. test \in Tests /\ test \notin DOMAIN OnBit /\ test \notin DOMAIN OnField /\ test # "b"
      BY TestsAre, SMT DEF Tests, WhenSet, WhenNot
<1> DEFINE bo == BoOf[test]
           w == SuffixWord(suffix, bo, 0, to)
<1>2. bo \in 0 .. 31 /\ 0 \in 0 .. 31
      BY <1>1, BoOfIs, SMT DEF Tests
<1>3. CASE suffix \in DOMAIN ToRegister
      <2> DEFINE base == OnCounter[test] + ToRegister[suffix]
      <2>1. Numbered(base, bo, suffix)
            BY <1>2, <1>3, OnCounterIs, NumberedIs
      <2>2. Branch(test, suffix, x, to) = Word(base)
            BY <1>1, <1>3, Zenon DEF Branch
      <2>3. WithBit(base, 0) = base
            BY <1>3, OnCounterIs, EndingsAre, SMT DEF ToRegister, WithBit
      <2> HIDE DEF base, bo
      <2>4. Fitting(base, bo, 0, suffix, to)
            BY <1>2, <2>1 DEF Fitting
      <2>5. Word(WithBit(base, 0)) = w
            BY ONLY <1>3, <2>4, NumberedWord
      <2> QED BY <2>2, <2>3, <2>5, Zenon DEF bo
<1>4. CASE suffix \in DOMAIN ToOffset
      <2>1. suffix \notin DOMAIN ToRegister
            BY <1>4, EndingsAre
      <2> DEFINE base == OnCounter[test] + ToOffset[suffix]
      <2>2. Numbered(base, bo, suffix)
            BY <1>2, <1>4, OnCounterIs, NumberedIs
      <2>3. Branch(test, suffix, x, to) = branch_disp(base, to)
            BY <1>1, <2>1, Zenon DEF Branch
      <2>4. WithBit(base, 0) = base
            BY <1>4, OnCounterIs, EndingsAre, SMT DEF ToOffset, WithBit
      <2> HIDE DEF base, bo
      <2>5. Fitting(base, bo, 0, suffix, to)
            BY <1>2, <2>2 DEF Fitting
      <2>6. branch_disp(WithBit(base, 0), to) = w
            BY ONLY <1>4, <2>5, NumberedWord
      <2> QED BY <2>3, <2>4, <2>6, Zenon DEF bo
<1> QED BY <1>3, <1>4, EndingsAre

\* The word of a branch that tests a field: the flag is in its number.
LEMMA OnFieldWord ==
    ASSUME NEW test \in DOMAIN OnField, NEW suffix \in Endings, NEW x \in 0 .. 7, NEW to, Reaches(to, 16)
    PROVE  Branch(test, suffix, x, to) = SuffixWord(suffix, FieldBo(test), 4 * x + FieldFlag(test), to)
<1>1. test \notin DOMAIN OnBit /\ test \notin DOMAIN OnCounter /\ test # "b"
      BY TestsAre, SMT DEF WhenSet, WhenNot
<1> DEFINE bo == FieldBo(test)
           flag == FieldFlag(test)
           bi == 4 * x + flag
           w == SuffixWord(suffix, bo, bi, to)
           plain == 16 * 2^26 + bo * 2^21
<1>2. /\ bo \in 0 .. 31 /\ flag \in 0 .. 3 /\ bi \in 0 .. 31
      /\ Reaches(to, 16) /\ suffix \in Endings
      BY TestsAre, MetOnField
<1>3. Low(x, 3) = x
      BY SMT DEF Low
<1>4. OnField[test] = plain + flag * 2^16 /\ plain \in Int
      <2>1. OnField[test] = plain + flag * 2^16
            BY OnFieldIs
      <2>2. bo * 2^21 \in Int
            <3> HIDE DEF bo
            <3> QED BY <1>2, SMT
      <2>3. 16 * 2^26 \in Int
            BY SMT
      <2> QED BY <2>1, <2>2, <2>3, SMT
<1>5. CASE suffix \in DOMAIN ToRegister
      <2> DEFINE base == plain + ToRegister[suffix]
                 typed == OnField[test] + ToRegister[suffix]
      <2>1. Numbered(base, bo, suffix)
            <3>1. plain = 16 * 2^26 + bo * 2^21
                  OBVIOUS
            <3> HIDE DEF bo, plain
            <3>2. bo \in Int
                  BY <1>2
            <3> QED BY <1>4, <1>5, <3>1, <3>2, NumberedIs
      <2>2. ToRegister[suffix] \in Int
            BY <1>5, EndingsAre, SMT DEF ToRegister
      <2>3. typed + x * 2^18 = WithBit(base, bi)
            <3> HIDE DEF bo, flag, plain
            <3> QED BY <1>2, <1>4, <2>2, SMT DEF WithBit
      <2>4. Branch(test, suffix, x, to) = branch_xl_cr(typed, x)
            BY <1>1, <1>5, Zenon DEF Branch
      <2> HIDE DEF base, typed, bo, bi
      <2>5. Fitting(base, bo, bi, suffix, to)
            BY <1>2, <2>1 DEF Fitting
      <2>6. Word(WithBit(base, bi)) = w
            BY ONLY <1>5, <2>5, NumberedWord
      <2> QED BY <1>3, <2>3, <2>4, <2>6, Zenon DEF branch_xl_cr, bo, bi
<1>6. CASE suffix \in DOMAIN ToOffset
      <2> DEFINE base == plain + ToOffset[suffix]
                 typed == OnField[test] + ToOffset[suffix]
      <2>1. Numbered(base, bo, suffix)
            <3>1. plain = 16 * 2^26 + bo * 2^21
                  OBVIOUS
            <3> HIDE DEF bo, plain
            <3>2. bo \in Int
                  BY <1>2
            <3> QED BY <1>4, <1>6, <3>1, <3>2, NumberedIs
      <2>2. ToOffset[suffix] \in Int /\ suffix \notin DOMAIN ToRegister
            BY <1>6, EndingsAre, SMT DEF ToOffset
      <2>3. typed + x * 2^18 = WithBit(base, bi)
            <3> HIDE DEF bo, flag, plain
            <3> QED BY <1>2, <1>4, <2>2, SMT DEF WithBit
      <2>4. Branch(test, suffix, x, to) = branch_cr(typed, x, to)
            BY <1>1, <2>2, Zenon DEF Branch
      <2> HIDE DEF base, typed, bo, bi
      <2>5. Fitting(base, bo, bi, suffix, to)
            BY <1>2, <2>1 DEF Fitting
      <2>6. branch_disp(WithBit(base, bi), to) = w
            BY ONLY <1>6, <2>5, NumberedWord
      <2> QED BY <1>3, <2>3, <2>4, <2>6, Zenon DEF branch_cr, bo, bi
<1> QED BY <1>5, <1>6, EndingsAre

\* The word of bc with a suffix.
LEMMA GeneralWord ==
    ASSUME NEW suffix \in Endings, NEW bo \in 0 .. 31, NEW bi \in 0 .. 31, NEW to, Reaches(to, 16)
    PROVE  GeneralBranch(suffix, bo, bi, to) = SuffixWord(suffix, bo, bi, to)
<1> DEFINE lk == Bit(Links(suffix))
           bd == Low(TowardZero(to, 4), 14)
<1>1. lk \in {0, 1}
      BY DEF Bit
<1>2. Registers3(bo, bi, 0) = bo * 2^21 + bi * 2^16
      <2>1. Low(bo, 5) = bo /\ Low(bi, 5) = bi /\ Low(0, 5) = 0
            BY SMT DEF Low
      <2>2. 0 * 2^11 = 0 /\ bo * 2^21 \in Int /\ bi * 2^16 \in Int
            BY SMT
      <2> QED BY <2>1, <2>2, SMT DEF Registers3
<1> DEFINE regs0 == Registers3(bo, bi, 0)
<1>3. regs0 \in Int
      BY <1>2, SMT
<1>4. CASE suffix \in {"lr", "lrl"}
      <2>1. GeneralBranch(suffix, bo, bi, to) = <<19, regs0 + Low(16, 10) * 2 + lk>>
            BY <1>4, SMT DEF GeneralBranch, Links, XL_form
      <2>2. SuffixRest(suffix, to) = 8 * 4 + 0 * 2 + lk
            BY <1>4, SMT DEF SuffixRest, Bit
      <2>3. Low(16, 10) = 16
            BY SMT DEF Low
      <2>4. SuffixWord(suffix, bo, bi, to) = <<19, regs0 + SuffixRest(suffix, to)>>
            BY <1>2, <1>4, EndingsAre, Zenon DEF SuffixWord, SuffixOp
      <2> HIDE DEF lk, regs0
      <2>5. regs0 + SuffixRest(suffix, to) = regs0 + Low(16, 10) * 2 + lk
            BY <1>1, <1>3, <2>2, <2>3, SMT
      <2> QED BY <2>1, <2>4, <2>5
<1>5. CASE suffix \in {"ctr", "ctrl"}
      <2>1. GeneralBranch(suffix, bo, bi, to) = <<19, regs0 + Low(528, 10) * 2 + lk>>
            BY <1>5, SMT DEF GeneralBranch, Links, XL_form
      <2>2. SuffixRest(suffix, to) = 264 * 4 + 0 * 2 + lk
            BY <1>5, SMT DEF SuffixRest, Bit
      <2>3. Low(528, 10) = 528
            BY SMT DEF Low
      <2>4. SuffixWord(suffix, bo, bi, to) = <<19, regs0 + SuffixRest(suffix, to)>>
            BY <1>2, <1>5, EndingsAre, Zenon DEF SuffixWord, SuffixOp
      <2> HIDE DEF lk, regs0
      <2>5. regs0 + SuffixRest(suffix, to) = regs0 + Low(528, 10) * 2 + lk
            BY <1>1, <1>3, <2>2, <2>3, SMT
      <2> QED BY <2>1, <2>4, <2>5, SMT
<1>6. CASE suffix \in {"plain", "l", "a", "la"}
      <2> DEFINE aa == Bit(suffix \in {"a", "la"})
      <2>1. aa \in {0, 1}
            BY DEF Bit
      <2>2. suffix \notin {"lr", "lrl", "ctr", "ctrl"} /\ suffix \notin DOMAIN ToRegister
            BY <1>6, EndingsAre
      <2>3. GeneralBranch(suffix, bo, bi, to) = <<16, regs0 + bd * 4 + aa * 2 + lk>>
            BY <1>6, <2>2, SMT DEF GeneralBranch, B_form, Links
      <2>4. SuffixWord(suffix, bo, bi, to) = <<16, regs0 + (bd * 4 + aa * 2 + lk)>>
            BY <1>2, <2>2, Zenon DEF SuffixWord, SuffixOp, SuffixRest
      <2>5. bd \in Nat
            BY OffsetComesBack
      <2> HIDE DEF lk, regs0, bd, aa
      <2>6. regs0 + bd * 4 + aa * 2 + lk = regs0 + (bd * 4 + aa * 2 + lk)
            BY ONLY <1>1, <1>3, <2>1, <2>5, SMT
      <2> QED BY <2>3, <2>4, <2>6
<1> QED BY <1>4, <1>5, <1>6, EndingsAre

\* The unconditional branch.
LEMMA PlainBranch ==
    ASSUME NEW suffix \in Endings, NEW x, NEW to, Reaches(to, 26), NEW cpu
    PROVE  Branches(Branch("b", suffix, x, to), cpu) =
               Jump(TRUE, TargetOf(suffix, to, cpu), suffix, cpu.ctr, cpu)
<1> DEFINE lk == Bit(Links(suffix))
           w == Branch("b", suffix, x, to)
<1>1. lk \in {0, 1} /\ (lk = 1 <=> Links(suffix))
      BY DEF Bit
<1>2. "b" \notin DOMAIN OnBit /\ "b" \notin DOMAIN OnCounter /\ "b" \notin DOMAIN OnField
      BY TestsAre, SMT DEF WhenSet, WhenNot
<1>3. CASE suffix \in DOMAIN ToRegister
      <2>1. w = Word(Always[suffix])
            BY <1>2, <1>3, Zenon DEF Branch
      <2>2. Word(Always[suffix]) = SuffixWord(suffix, 20, 0, 0)
            <3> DEFINE k == IF suffix \in {"lr", "lrl"} THEN 8 ELSE 264
            <3>1. Always[suffix] = 19 * 2^26 + (20 * 2^21 + 0 * 2^16 + (k * 4 + lk))
                  <4>1. CASE suffix = "lr"
                        BY <4>1, SMT DEF Always, Bit, Links
                  <4>2. CASE suffix = "lrl"
                        BY <4>2, SMT DEF Always, Bit, Links
                  <4>3. CASE suffix = "ctr"
                        BY <4>3, SMT DEF Always, Bit, Links
                  <4>4. CASE suffix = "ctrl"
                        BY <4>4, SMT DEF Always, Bit, Links
                  <4> QED BY <1>3, <4>1, <4>2, <4>3, <4>4, EndingsAre
            <3>2. SuffixRest(suffix, 0) = k * 4 + lk
                  <4>1. SuffixRest(suffix, 0) = k * 4 + 0 * 2 + lk
                        BY <1>3, EndingsAre, SMT DEF SuffixRest, Bit
                  <4>2. k \in {8, 264}
                        BY SMT
                  <4> HIDE DEF lk, k
                  <4> QED BY <1>1, <4>1, <4>2, SMT
            <3> DEFINE rest == 20 * 2^21 + 0 * 2^16 + (k * 4 + lk)
            <3>3. rest \in Nat /\ rest < 2^26
                  <4>1. k \in {8, 264}
                        BY SMT
                  <4> HIDE DEF lk, k
                  <4> QED BY <1>1, <4>1, SMT
            <3>4. SuffixWord(suffix, 20, 0, 0) = <<19, rest>>
                  BY <1>3, <3>2, Zenon DEF SuffixWord, SuffixOp
            <3> HIDE DEF rest
            <3>5. Word(19 * 2^26 + rest) = <<19, rest>>
                  <4>1. 19 \in 0 .. 63
                        BY SMT
                  <4> QED BY <3>3, <4>1, WordIs, Zenon
            <3> QED BY <3>1, <3>4, <3>5, Zenon DEF rest
      <2>3. Reaches(0, 16) /\ 20 \in 0 .. 31 /\ 0 \in 0 .. 31
            BY SMT DEF Reaches
      <2>4. Branches(SuffixWord(suffix, 20, 0, 0), cpu) =
                Jump(Taken(20, 0, cpu), TargetOf(suffix, 0, cpu), suffix, CtrAfter(20, cpu), cpu)
            BY <2>3, SuffixJumps
      <2>5. Taken(20, 0, cpu) = TRUE /\ CtrAfter(20, cpu) = cpu.ctr
            BY BoBits, SMT DEF Taken, CtrAfter
      <2>6. TargetOf(suffix, 0, cpu) = TargetOf(suffix, to, cpu)
            BY <1>3, EndingsAre DEF TargetOf
      <2> QED BY <2>1, <2>2, <2>4, <2>5, <2>6, Zenon
<1>4. CASE suffix \in DOMAIN ToOffset
      <2> DEFINE aa == Bit(suffix \in {"a", "la"})
                 li == Low(TowardZero(to, 4), 24)
                 offset == Extends(li, 24) * 4
      <2>1. w = <<18, li * 4 + aa * 2 + lk>>
            <3>1. suffix \notin DOMAIN ToRegister
                  BY <1>4, EndingsAre
            <3> QED BY <1>2, <3>1, SMT DEF Branch, I_form, Links
      <2>2. li \in Nat /\ li < 2^24 /\ offset = to
            BY FarOffsetComesBack
      <2>3. aa \in {0, 1} /\ (aa = 1 <=> suffix \in {"a", "la"})
            BY DEF Bit
      <2> HIDE DEF w, aa, lk, li
      <2>4. w[1] = 18 /\ w[2] = li * 4 + aa * 2 + lk
            BY <2>1, SMT
      <2>5. Bits(w, 2, 24) = li /\ Bits(w, 1, 1) = aa /\ Bits(w, 0, 1) = lk
            <3> DEFINE n == w[2]
            <3>1. n \in Int /\ n = li * 4 + aa * 2 + lk /\ li \in Nat /\ li < 16777216
                  BY <1>1, <2>2, <2>3, <2>4, SMT
            <3> HIDE DEF n
            <3>2. n \div 4 = li /\ li % 16777216 = li
                  BY ONLY <1>1, <2>3, <3>1, SMT
            <3>3. n \div 2 = li * 2 + aa /\ (li * 2 + aa) % 2 = aa
                  BY ONLY <1>1, <2>3, <3>1, SMT
            <3>4. n \div 1 = n /\ n % 2 = lk
                  BY ONLY <1>1, <2>3, <3>1, SMT
            <3>5. 2^2 = 4 /\ 2^24 = 16777216 /\ 2^1 = 2 /\ 2^0 = 1
                  BY SMT
            <3> QED BY <3>2, <3>3, <3>4, <3>5, SMT DEF Bits, n
      <2> DEFINE target == CASE w[1] = 19 /\ Bits(w, 1, 10) = 16 -> cpu.lr
                             [] w[1] = 19 /\ Bits(w, 1, 10) = 528 -> cpu.ctr
                             [] w[1] \in {16, 18} /\ Bits(w, 1, 1) = 1 -> Extends(Bits(w, 2, 24), 24) * 4
                             [] w[1] \in {16, 18} /\ Bits(w, 1, 1) = 0 ->
                                    cpu.cia + Extends(Bits(w, 2, 24), 24) * 4
                 lr0 == IF Bits(w, 0, 1) = 1 THEN cpu.cia + 4 ELSE cpu.lr
      <2>6. Branches(w, cpu) = [nia |-> target, lr |-> lr0, ctr |-> cpu.ctr]
            BY <2>4, SMT DEF Branches
      <2>7. target = TargetOf(suffix, to, cpu)
            <3>1. CASE suffix \in {"plain", "l"}
                  <4>1. target = cpu.cia + to
                        BY <2>2, <2>3, <2>4, <2>5, <3>1, SMT
                  <4>2. TargetOf(suffix, to, cpu) = cpu.cia + to
                        BY <3>1 DEF TargetOf
                  <4> QED BY <4>1, <4>2
            <3>2. CASE suffix \in {"a", "la"}
                  <4>1. target = to
                        BY <2>2, <2>3, <2>4, <2>5, <3>2, SMT
                  <4>2. TargetOf(suffix, to, cpu) = to
                        BY <3>2 DEF TargetOf
                  <4> QED BY <4>1, <4>2
            <3> QED BY <1>4, <3>1, <3>2, EndingsAre
      <2>8. lr0 = IF Links(suffix) THEN cpu.cia + 4 ELSE cpu.lr
            BY <1>1, <2>5
      <2> HIDE DEF target, lr0
      <2> QED BY <2>6, <2>7, <2>8, Zenon DEF Jump, w
<1> QED BY <1>3, <1>4, EndingsAre

----------------------------------------------------------------------------
(* Traps *)

\* When each condition fires, as the field of the word that says so.
TrapTo(cond) == CASE cond = "lt" -> 16 [] cond \in {"le", "ng"} -> 20 [] cond = "eq" -> 4
                  [] cond \in {"ge", "nl"} -> 12 [] cond = "gt" -> 8 [] cond = "ne" -> 24
                  [] cond = "llt" -> 2 [] cond \in {"lle", "lng"} -> 6
                  [] cond \in {"lge", "lnl"} -> 5 [] cond = "lgt" -> 1
TrapNames == {"lt", "le", "eq", "ge", "gt", "nl", "ne", "ng", "llt", "lle", "lge", "lgt", "lnl", "lng"}

FiresOn(n, x, y) ==
    \/ (n \div 16) % 2 = 1 /\ x < y
    \/ (n \div 8) % 2 = 1 /\ x > y
    \/ (n \div 4) % 2 = 1 /\ x = y
    \/ (n \div 2) % 2 = 1 /\ Unsigned(x, y)
    \/ n % 2 = 1 /\ Unsigned(y, x)

LEMMA TrapNumbers ==
    ASSUME NEW cond \in TrapNames
    PROVE  /\ TrapTo(cond) \in 0 .. 31
           /\ TrapOnImmediate[cond] = 3 * 2^26 + TrapTo(cond) * 2^21
           /\ TrapOnRegister[cond] = 31 * 2^26 + TrapTo(cond) * 2^21 + 8
<1>1. CASE cond = "lt"
      BY <1>1, SMT DEF TrapTo, TrapOnImmediate, TrapOnRegister
<1>2. CASE cond = "le"
      BY <1>2, SMT DEF TrapTo, TrapOnImmediate, TrapOnRegister
<1>3. CASE cond = "eq"
      BY <1>3, SMT DEF TrapTo, TrapOnImmediate, TrapOnRegister
<1>4. CASE cond = "ge"
      BY <1>4, SMT DEF TrapTo, TrapOnImmediate, TrapOnRegister
<1>5. CASE cond = "gt"
      BY <1>5, SMT DEF TrapTo, TrapOnImmediate, TrapOnRegister
<1>6. CASE cond = "nl"
      BY <1>6, SMT DEF TrapTo, TrapOnImmediate, TrapOnRegister
<1>7. CASE cond = "ne"
      BY <1>7, SMT DEF TrapTo, TrapOnImmediate, TrapOnRegister
<1>8. CASE cond = "ng"
      BY <1>8, SMT DEF TrapTo, TrapOnImmediate, TrapOnRegister
<1>9. CASE cond = "llt"
      BY <1>9, SMT DEF TrapTo, TrapOnImmediate, TrapOnRegister
<1>10. CASE cond = "lle"
      BY <1>10, SMT DEF TrapTo, TrapOnImmediate, TrapOnRegister
<1>11. CASE cond = "lge"
      BY <1>11, SMT DEF TrapTo, TrapOnImmediate, TrapOnRegister
<1>12. CASE cond = "lgt"
      BY <1>12, SMT DEF TrapTo, TrapOnImmediate, TrapOnRegister
<1>13. CASE cond = "lnl"
      BY <1>13, SMT DEF TrapTo, TrapOnImmediate, TrapOnRegister
<1>14. CASE cond = "lng"
      BY <1>14, SMT DEF TrapTo, TrapOnImmediate, TrapOnRegister
<1> QED BY <1>1, <1>2, <1>3, <1>4, <1>5, <1>6, <1>7, <1>8, <1>9, <1>10, <1>11, <1>12, <1>13, <1>14, Zenon
        DEF TrapNames

\* Of two numbers exactly one is the smaller, with signs and without, or they are equal.
LEMMA UnsignedIs ==
    ASSUME NEW x \in Int, NEW y \in Int
    PROVE  /\ ~(Unsigned(x, y) /\ Unsigned(y, x))
           /\ x # y <=> Unsigned(x, y) \/ Unsigned(y, x)
BY DEF Unsigned

LEMMA TrapFires ==
    ASSUME NEW cond \in TrapNames, NEW x \in Int, NEW y \in Int
    PROVE  FiresOn(TrapTo(cond), x, y) <=> TrapMeant(cond, x, y)
<1>1. CASE cond = "lt"
      BY <1>1, SMT DEF TrapTo, FiresOn, TrapMeant
<1>2. CASE cond \in {"le", "ng"}
      <2>1. TrapTo(cond) = 20
            BY <1>2 DEF TrapTo
      <2>2. FiresOn(20, x, y) <=> x < y \/ x = y
            BY SMT DEF FiresOn
      <2>3. TrapMeant(cond, x, y) <=> x <= y
            BY <1>2 DEF TrapMeant
      <2> QED BY <2>1, <2>2, <2>3, UnsignedIs
<1>3. CASE cond = "eq"
      BY <1>3, SMT DEF TrapTo, FiresOn, TrapMeant
<1>4. CASE cond \in {"ge", "nl"}
      <2>1. TrapTo(cond) = 12
            BY <1>4 DEF TrapTo
      <2>2. FiresOn(12, x, y) <=> x > y \/ x = y
            BY SMT DEF FiresOn
      <2>3. TrapMeant(cond, x, y) <=> x >= y
            BY <1>4 DEF TrapMeant
      <2> QED BY <2>1, <2>2, <2>3, UnsignedIs
<1>5. CASE cond = "gt"
      BY <1>5, SMT DEF TrapTo, FiresOn, TrapMeant
<1>6. CASE cond = "ne"
      BY <1>6, SMT DEF TrapTo, FiresOn, TrapMeant
<1>7. CASE cond = "llt"
      BY <1>7, SMT DEF TrapTo, FiresOn, TrapMeant
<1>8. CASE cond \in {"lle", "lng"}
      <2>1. TrapTo(cond) = 6
            BY <1>8 DEF TrapTo
      <2>2. FiresOn(6, x, y) <=> x = y \/ Unsigned(x, y)
            BY SMT DEF FiresOn
      <2>3. TrapMeant(cond, x, y) <=> ~Unsigned(y, x)
            BY <1>8 DEF TrapMeant
      <2> QED BY <2>1, <2>2, <2>3, UnsignedIs
<1>9. CASE cond \in {"lge", "lnl"}
      <2>1. TrapTo(cond) = 5
            BY <1>9 DEF TrapTo
      <2>2. FiresOn(5, x, y) <=> x = y \/ Unsigned(y, x)
            BY SMT DEF FiresOn
      <2>3. TrapMeant(cond, x, y) <=> ~Unsigned(x, y)
            BY <1>9 DEF TrapMeant
      <2> QED BY <2>1, <2>2, <2>3, UnsignedIs
<1>10. CASE cond = "lgt"
      BY <1>10, SMT DEF TrapTo, FiresOn, TrapMeant
<1> QED BY <1>1, <1>2, <1>3, <1>4, <1>5, <1>6, <1>7, <1>8, <1>9, <1>10 DEF TrapNames

LEMMA TrapIsMeant ==
    ASSUME NEW cond \in TrapNames, NEW x \in Int, NEW y \in Int
    PROVE  FiresOn(TrapTo(cond), x, y) = TrapMeant(cond, x, y)
<1>1. FiresOn(TrapTo(cond), x, y) <=> TrapMeant(cond, x, y)
      BY TrapFires
<1>2. FiresOn(TrapTo(cond), x, y) \in BOOLEAN
      BY Zenon DEF FiresOn
<1>3. TrapMeant(cond, x, y) \in BOOLEAN
      <2>1. Unsigned(x, y) \in BOOLEAN /\ Unsigned(y, x) \in BOOLEAN
            <3>1. /\ (x < y) \in BOOLEAN /\ (y < x) \in BOOLEAN
                  /\ (x < 0) \in BOOLEAN /\ (y < 0) \in BOOLEAN
                  BY SMT
            <3> QED BY <3>1, Zenon DEF Unsigned
      <2>2. (x < y) \in BOOLEAN /\ (x <= y) \in BOOLEAN /\ (x >= y) \in BOOLEAN /\ (x > y) \in BOOLEAN
            BY SMT
      <2> QED BY <2>1, <2>2 DEF TrapMeant, TrapNames
<1>4. ASSUME NEW p \in BOOLEAN, NEW q \in BOOLEAN, p <=> q PROVE p = q
      BY <1>4
<1> QED BY <1>1, <1>2, <1>3, <1>4, Zenon

\* A trap compares what it is given: two registers, or a register and a number.
LEMMA RegisterTrap ==
    ASSUME NEW cond \in TrapNames, NEW args, args[1] \in 0 .. 31, args[2] \in 0 .. 31, NEW g
    PROVE  Fires(Trap(cond, FALSE, args), g) = FiresOn(TrapTo(cond), g[args[1]], g[args[2]])
<1> DEFINE t == TrapTo(cond)
           a1 == args[1]
           a2 == args[2]
           rest == t * 2^21 + a1 * 2^16 + (a2 * 2^11 + 8)
           w == Trap(cond, FALSE, args)
<1>1. t \in 0 .. 31 /\ a1 \in 0 .. 31 /\ a2 \in 0 .. 31
      BY TrapNumbers
<1>2. w = Word(TrapOnRegister[cond] + a1 * 2^16 + a2 * 2^11)
      BY DEF Trap
<1>3. TrapOnRegister[cond] = 31 * 2^26 + t * 2^21 + 8
      BY TrapNumbers
<1> HIDE DEF t, a1, a2, w
<1>4. TrapOnRegister[cond] + a1 * 2^16 + a2 * 2^11 = 31 * 2^26 + rest
      BY ONLY <1>1, <1>3, SMT
<1>5. rest \in Nat /\ rest < 2^26
      BY ONLY <1>1, SMT
<1>6. a2 * 2^11 + 8 \in Nat /\ a2 * 2^11 + 8 < 2^16
      BY ONLY <1>1, SMT
<1>7. (a2 * 2^11 + 8) \div 2^11 = a2 /\ (rest \div 2^11) % 2^5 = a2
      <2>1. rest = t * 2097152 + a1 * 65536 + a2 * 2048 + 8
            BY ONLY <1>1, SMT
      <2>2. rest \div 2048 = t * 1024 + a1 * 32 + a2
            BY ONLY <1>1, <2>1, SMT
      <2>3. (t * 1024 + a1 * 32 + a2) % 32 = a2
            BY ONLY <1>1, SMT
      <2>4. 2^11 = 2048 /\ 2^5 = 32 /\ (a2 * 2048 + 8) \div 2048 = a2
            BY ONLY <1>1, SMT
      <2> HIDE DEF rest
      <2> QED BY ONLY <2>2, <2>3, <2>4, SMT
<1>8. w = <<31, rest>>
      <2> HIDE DEF rest
      <2>1. 31 \in 0 .. 63
            BY SMT
      <2> QED BY <1>2, <1>4, <1>5, <2>1, WordIs, Zenon
<1>9. Made(w, t, a1, a2 * 2^11 + 8)
      BY <1>1, <1>5, <1>6, <1>8, SMT DEF Made
<1>10. Bits(w, 21, 5) = t /\ Bits(w, 16, 5) = a1
      BY <1>9, RegistersOf, Zenon DEF ReadBack
<1>11. Bits(w, 11, 5) = a2 /\ w[1] # 3
      BY <1>7, <1>8, SMT DEF Bits
<1>12. Fires(w, g) = FiresOn(t, g[a1], g[a2])
      BY <1>10, <1>11, Zenon DEF Fires, FiresOn
<1> QED BY <1>12 DEF t, a1, a2, w

LEMMA ImmediateTrap ==
    ASSUME NEW cond \in TrapNames, NEW args, args[1] \in 0 .. 31, args[2] \in -(2^15) .. 2^15 - 1, NEW g
    PROVE  Fires(Trap(cond, TRUE, args), g) = FiresOn(TrapTo(cond), g[args[1]], args[2])
<1> DEFINE t == TrapTo(cond)
           a1 == args[1]
           y == args[2]
           z == Low(y, 16)
           rest == t * 2^21 + a1 * 2^16 + z
           w == Trap(cond, TRUE, args)
<1>1. t \in 0 .. 31 /\ a1 \in 0 .. 31
      BY TrapNumbers
<1>2. w = Word(TrapOnImmediate[cond] + a1 * 2^16 + z)
      BY DEF Trap
<1>3. TrapOnImmediate[cond] = 3 * 2^26 + t * 2^21
      BY TrapNumbers
<1>4. y \in Int /\ -32768 <= y /\ y <= 32767
      BY SMT
<1> HIDE DEF t, a1, w, y
<1>5. z = IF y < 0 THEN y + 65536 ELSE y
      BY ONLY <1>4, SMT DEF Low
<1>6. z \in Nat /\ z < 2^16 /\ Extends(z, 16) = y
      <2> HIDE DEF z
      <2> QED BY ONLY <1>4, <1>5, SMT DEF Extends
<1> HIDE DEF z
<1>7. TrapOnImmediate[cond] + a1 * 2^16 + z = 3 * 2^26 + rest
      BY ONLY <1>1, <1>3, <1>6, SMT
<1>8. rest \in Nat /\ rest < 2^26
      BY ONLY <1>1, <1>6, SMT
<1>9. w = <<3, rest>>
      <2> HIDE DEF rest
      <2>1. 3 \in 0 .. 63
            BY SMT
      <2> QED BY <1>2, <1>7, <1>8, <2>1, WordIs, Zenon
<1>10. Made(w, t, a1, z)
      BY <1>1, <1>6, <1>8, <1>9, SMT DEF Made
<1>11. Bits(w, 21, 5) = t /\ Bits(w, 16, 5) = a1 /\ Bits(w, 0, 16) = z
      BY <1>10, RegistersOf, Zenon DEF ReadBack
<1>12. w[1] = 3
      BY <1>9
<1>13. Fires(w, g) = FiresOn(t, g[a1], y)
      BY <1>6, <1>11, <1>12, Zenon DEF Fires, FiresOn
<1> QED BY <1>13 DEF t, a1, y, w

----------------------------------------------------------------------------
(* Words with a row, read back *)

\* A number that fits into n bits.
Fitted(x, n) == x \in Int /\ 0 <= x /\ x < 2^n

\* The fields a word was put together from are found where they were put, form by form.
MadeD(w, t, a, z) ==
    /\ Fitted(t, 5) /\ Fitted(a, 5) /\ Fitted(z, 16)
    /\ w[2] = t * 2^21 + a * 2^16 + z
LEMMA BackD ==
    ASSUME NEW w, NEW t, NEW a, NEW z, MadeD(w, t, a, z)
    PROVE  Bits(w, 21, 5) = t /\ Bits(w, 16, 5) = a /\ Bits(w, 0, 16) = z
<1> DEFINE x == w[2]
<1>1. /\ t \in Int /\ 0 <= t /\ t < 32 /\ a \in Int /\ 0 <= a /\ a < 32 /\ z \in Int /\ 0 <= z /\ z < 65536
      /\ x \in Int /\ x = t * 2097152 + a * 65536 + z
      BY SMT DEF MadeD, Fitted
<1> HIDE DEF x
<1>2. x \div 2097152 = t
      BY ONLY <1>1, SMT
<1>3. t % 32 = t
      BY ONLY <1>1, SMT
<1>4. x \div 65536 = t * 32 + a
      BY ONLY <1>1, SMT
<1>5. (t * 32 + a) % 32 = a
      BY ONLY <1>1, SMT
<1>6. x \div 1 = (t * 32 + a) * 65536 + z
      BY ONLY <1>1, SMT
<1>7. ((t * 32 + a) * 65536 + z) % 65536 = z
      BY ONLY <1>1, SMT
<1> QED BY <1>2, <1>3, <1>4, <1>5, <1>6, <1>7, SMT DEF Bits, x

MadeX(w, t, a, b, xo, rc) ==
    /\ Fitted(t, 5) /\ Fitted(a, 5) /\ Fitted(b, 5) /\ Fitted(xo, 10) /\ Fitted(rc, 1)
    /\ w[2] = t * 2^21 + a * 2^16 + b * 2^11 + xo * 2^1 + rc
LEMMA BackX ==
    ASSUME NEW w, NEW t, NEW a, NEW b, NEW xo, NEW rc, MadeX(w, t, a, b, xo, rc)
    PROVE  /\ Bits(w, 21, 5) = t /\ Bits(w, 16, 5) = a /\ Bits(w, 11, 5) = b /\ Bits(w, 1, 10) = xo
           /\ Bits(w, 0, 1) = rc
<1> DEFINE x == w[2]
<1>1. /\ t \in Int /\ 0 <= t /\ t < 32 /\ a \in Int /\ 0 <= a /\ a < 32 /\ b \in Int /\ 0 <= b
      /\ b < 32 /\ xo \in Int /\ 0 <= xo /\ xo < 1024 /\ rc \in Int /\ 0 <= rc /\ rc < 2
      /\ x \in Int /\ x = t * 2097152 + a * 65536 + b * 2048 + xo * 2 + rc
      BY SMT DEF MadeX, Fitted
<1> HIDE DEF x
<1>2. x \div 2097152 = t
      BY ONLY <1>1, SMT
<1>3. t % 32 = t
      BY ONLY <1>1, SMT
<1>4. x \div 65536 = t * 32 + a
      BY ONLY <1>1, SMT
<1>5. (t * 32 + a) % 32 = a
      BY ONLY <1>1, SMT
<1>6. x \div 2048 = (t * 32 + a) * 32 + b
      BY ONLY <1>1, SMT
<1>7. ((t * 32 + a) * 32 + b) % 32 = b
      BY ONLY <1>1, SMT
<1>8. x \div 2 = ((t * 32 + a) * 32 + b) * 1024 + xo
      BY ONLY <1>1, SMT
<1>9. (((t * 32 + a) * 32 + b) * 1024 + xo) % 1024 = xo
      BY ONLY <1>1, SMT
<1>10. x \div 1 = (((t * 32 + a) * 32 + b) * 1024 + xo) * 2 + rc
      BY ONLY <1>1, SMT
<1>11. ((((t * 32 + a) * 32 + b) * 1024 + xo) * 2 + rc) % 2 = rc
      BY ONLY <1>1, SMT
<1> QED BY <1>2, <1>3, <1>4, <1>5, <1>6, <1>7, <1>8, <1>9, <1>10, <1>11, SMT DEF Bits, x

MadeA(w, t, a, b, c, e, rc) ==
    /\ Fitted(t, 5) /\ Fitted(a, 5) /\ Fitted(b, 5) /\ Fitted(c, 5) /\ Fitted(e, 5) /\ Fitted(rc, 1)
    /\ w[2] = t * 2^21 + a * 2^16 + b * 2^11 + c * 2^6 + e * 2^1 + rc
LEMMA BackA ==
    ASSUME NEW w, NEW t, NEW a, NEW b, NEW c, NEW e, NEW rc, MadeA(w, t, a, b, c, e, rc)
    PROVE  /\ Bits(w, 21, 5) = t /\ Bits(w, 16, 5) = a /\ Bits(w, 11, 5) = b /\ Bits(w, 6, 5) = c
           /\ Bits(w, 1, 5) = e /\ Bits(w, 0, 1) = rc
<1> DEFINE x == w[2]
<1>1. /\ t \in Int /\ 0 <= t /\ t < 32 /\ a \in Int /\ 0 <= a /\ a < 32 /\ b \in Int /\ 0 <= b
      /\ b < 32 /\ c \in Int /\ 0 <= c /\ c < 32 /\ e \in Int /\ 0 <= e /\ e < 32 /\ rc \in Int
      /\ 0 <= rc /\ rc < 2
      /\ x \in Int /\ x = t * 2097152 + a * 65536 + b * 2048 + c * 64 + e * 2 + rc
      BY SMT DEF MadeA, Fitted
<1> HIDE DEF x
<1>2. x \div 2097152 = t
      BY ONLY <1>1, SMT
<1>3. t % 32 = t
      BY ONLY <1>1, SMT
<1>4. x \div 65536 = t * 32 + a
      BY ONLY <1>1, SMT
<1>5. (t * 32 + a) % 32 = a
      BY ONLY <1>1, SMT
<1>6. x \div 2048 = (t * 32 + a) * 32 + b
      BY ONLY <1>1, SMT
<1>7. ((t * 32 + a) * 32 + b) % 32 = b
      BY ONLY <1>1, SMT
<1>8. x \div 64 = ((t * 32 + a) * 32 + b) * 32 + c
      BY ONLY <1>1, SMT
<1>9. (((t * 32 + a) * 32 + b) * 32 + c) % 32 = c
      BY ONLY <1>1, SMT
<1>10. x \div 2 = (((t * 32 + a) * 32 + b) * 32 + c) * 32 + e
      BY ONLY <1>1, SMT
<1>11. ((((t * 32 + a) * 32 + b) * 32 + c) * 32 + e) % 32 = e
      BY ONLY <1>1, SMT
<1>12. x \div 1 = ((((t * 32 + a) * 32 + b) * 32 + c) * 32 + e) * 2 + rc
      BY ONLY <1>1, SMT
<1>13. (((((t * 32 + a) * 32 + b) * 32 + c) * 32 + e) * 2 + rc) % 2 = rc
      BY ONLY <1>1, SMT
<1> QED BY <1>2, <1>3, <1>4, <1>5, <1>6, <1>7, <1>8, <1>9, <1>10, <1>11, <1>12, <1>13, SMT DEF Bits, x

MadeXFX_crm(w, t, crm, xo) ==
    /\ Fitted(t, 5) /\ Fitted(crm, 8) /\ Fitted(xo, 10)
    /\ w[2] = t * 2^21 + crm * 2^12 + xo * 2^1
LEMMA BackXFX_crm ==
    ASSUME NEW w, NEW t, NEW crm, NEW xo, MadeXFX_crm(w, t, crm, xo)
    PROVE  /\ Bits(w, 21, 5) = t /\ Bits(w, 20, 1) = 0 /\ Bits(w, 12, 8) = crm /\ Bits(w, 11, 1) = 0
           /\ Bits(w, 1, 10) = xo /\ Bits(w, 0, 1) = 0
<1> DEFINE x == w[2]
<1>1. /\ t \in Int /\ 0 <= t /\ t < 32 /\ crm \in Int /\ 0 <= crm /\ crm < 256 /\ xo \in Int
      /\ 0 <= xo /\ xo < 1024
      /\ x \in Int /\ x = t * 2097152 + crm * 4096 + xo * 2
      BY SMT DEF MadeXFX_crm, Fitted
<1> HIDE DEF x
<1>2. x \div 2097152 = t
      BY ONLY <1>1, SMT
<1>3. t % 32 = t
      BY ONLY <1>1, SMT
<1>4. x \div 1048576 = t * 2
      BY ONLY <1>1, SMT
<1>5. (t * 2) % 2 = 0
      BY ONLY <1>1, SMT
<1>6. x \div 4096 = (t * 2) * 256 + crm
      BY ONLY <1>1, SMT
<1>7. ((t * 2) * 256 + crm) % 256 = crm
      BY ONLY <1>1, SMT
<1>8. x \div 2048 = ((t * 2) * 256 + crm) * 2
      BY ONLY <1>1, SMT
<1>9. (((t * 2) * 256 + crm) * 2) % 2 = 0
      BY ONLY <1>1, SMT
<1>10. x \div 2 = (((t * 2) * 256 + crm) * 2) * 1024 + xo
      BY ONLY <1>1, SMT
<1>11. ((((t * 2) * 256 + crm) * 2) * 1024 + xo) % 1024 = xo
      BY ONLY <1>1, SMT
<1>12. x \div 1 = ((((t * 2) * 256 + crm) * 2) * 1024 + xo) * 2
      BY ONLY <1>1, SMT
<1>13. (((((t * 2) * 256 + crm) * 2) * 1024 + xo) * 2) % 2 = 0
      BY ONLY <1>1, SMT
<1> QED BY <1>2, <1>3, <1>4, <1>5, <1>6, <1>7, <1>8, <1>9, <1>10, <1>11, <1>12, <1>13, SMT DEF Bits, x

MadeXFL(w, fm, b, xo, rc) ==
    /\ Fitted(fm, 8) /\ Fitted(b, 5) /\ Fitted(xo, 10) /\ Fitted(rc, 1)
    /\ w[2] = fm * 2^17 + b * 2^11 + xo * 2^1 + rc
LEMMA BackXFL ==
    ASSUME NEW w, NEW fm, NEW b, NEW xo, NEW rc, MadeXFL(w, fm, b, xo, rc)
    PROVE  /\ Bits(w, 25, 1) = 0 /\ Bits(w, 17, 8) = fm /\ Bits(w, 16, 1) = 0 /\ Bits(w, 11, 5) = b
           /\ Bits(w, 1, 10) = xo /\ Bits(w, 0, 1) = rc
<1> DEFINE x == w[2]
<1>1. /\ fm \in Int /\ 0 <= fm /\ fm < 256 /\ b \in Int /\ 0 <= b /\ b < 32 /\ xo \in Int /\ 0 <= xo
      /\ xo < 1024 /\ rc \in Int /\ 0 <= rc /\ rc < 2
      /\ x \in Int /\ x = fm * 131072 + b * 2048 + xo * 2 + rc
      BY SMT DEF MadeXFL, Fitted
<1> HIDE DEF x
<1>2. x \div 33554432 = 0
      BY ONLY <1>1, SMT
<1>3. 0 % 2 = 0
      BY ONLY <1>1, SMT
<1>4. x \div 131072 = fm
      BY ONLY <1>1, SMT
<1>5. fm % 256 = fm
      BY ONLY <1>1, SMT
<1>6. x \div 65536 = fm * 2
      BY ONLY <1>1, SMT
<1>7. (fm * 2) % 2 = 0
      BY ONLY <1>1, SMT
<1>8. x \div 2048 = (fm * 2) * 32 + b
      BY ONLY <1>1, SMT
<1>9. ((fm * 2) * 32 + b) % 32 = b
      BY ONLY <1>1, SMT
<1>10. x \div 2 = ((fm * 2) * 32 + b) * 1024 + xo
      BY ONLY <1>1, SMT
<1>11. (((fm * 2) * 32 + b) * 1024 + xo) % 1024 = xo
      BY ONLY <1>1, SMT
<1>12. x \div 1 = (((fm * 2) * 32 + b) * 1024 + xo) * 2 + rc
      BY ONLY <1>1, SMT
<1>13. ((((fm * 2) * 32 + b) * 1024 + xo) * 2 + rc) % 2 = rc
      BY ONLY <1>1, SMT
<1> QED BY <1>2, <1>3, <1>4, <1>5, <1>6, <1>7, <1>8, <1>9, <1>10, <1>11, <1>12, <1>13, SMT DEF Bits, x

Mademtfsfi(w, t, imm4, xo, rc) ==
    /\ Fitted(t, 5) /\ Fitted(imm4, 4) /\ Fitted(xo, 10) /\ Fitted(rc, 1)
    /\ w[2] = t * 2^21 + imm4 * 2^12 + xo * 2^1 + rc
LEMMA Backmtfsfi ==
    ASSUME NEW w, NEW t, NEW imm4, NEW xo, NEW rc, Mademtfsfi(w, t, imm4, xo, rc)
    PROVE  /\ Bits(w, 21, 5) = t /\ Bits(w, 16, 5) = 0 /\ Bits(w, 12, 4) = imm4
           /\ Bits(w, 11, 1) = 0 /\ Bits(w, 1, 10) = xo /\ Bits(w, 0, 1) = rc
<1> DEFINE x == w[2]
<1>1. /\ t \in Int /\ 0 <= t /\ t < 32 /\ imm4 \in Int /\ 0 <= imm4 /\ imm4 < 16 /\ xo \in Int
      /\ 0 <= xo /\ xo < 1024 /\ rc \in Int /\ 0 <= rc /\ rc < 2
      /\ x \in Int /\ x = t * 2097152 + imm4 * 4096 + xo * 2 + rc
      BY SMT DEF Mademtfsfi, Fitted
<1> HIDE DEF x
<1>2. x \div 2097152 = t
      BY ONLY <1>1, SMT
<1>3. t % 32 = t
      BY ONLY <1>1, SMT
<1>4. x \div 65536 = t * 32
      BY ONLY <1>1, SMT
<1>5. (t * 32) % 32 = 0
      BY ONLY <1>1, SMT
<1>6. x \div 4096 = (t * 32) * 16 + imm4
      BY ONLY <1>1, SMT
<1>7. ((t * 32) * 16 + imm4) % 16 = imm4
      BY ONLY <1>1, SMT
<1>8. x \div 2048 = ((t * 32) * 16 + imm4) * 2
      BY ONLY <1>1, SMT
<1>9. (((t * 32) * 16 + imm4) * 2) % 2 = 0
      BY ONLY <1>1, SMT
<1>10. x \div 2 = (((t * 32) * 16 + imm4) * 2) * 1024 + xo
      BY ONLY <1>1, SMT
<1>11. ((((t * 32) * 16 + imm4) * 2) * 1024 + xo) % 1024 = xo
      BY ONLY <1>1, SMT
<1>12. x \div 1 = ((((t * 32) * 16 + imm4) * 2) * 1024 + xo) * 2 + rc
      BY ONLY <1>1, SMT
<1>13. (((((t * 32) * 16 + imm4) * 2) * 1024 + xo) * 2 + rc) % 2 = rc
      BY ONLY <1>1, SMT
<1> QED BY <1>2, <1>3, <1>4, <1>5, <1>6, <1>7, <1>8, <1>9, <1>10, <1>11, <1>12, <1>13, SMT DEF Bits, x

MadeDW(w, t, a, w0, i, z) ==
    /\ Fitted(t, 5) /\ Fitted(a, 5) /\ Fitted(w0, 1) /\ Fitted(i, 3) /\ Fitted(z, 12)
    /\ w[2] = t * 2^21 + a * 2^16 + w0 * 2^15 + i * 2^12 + z
LEMMA BackDW ==
    ASSUME NEW w, NEW t, NEW a, NEW w0, NEW i, NEW z, MadeDW(w, t, a, w0, i, z)
    PROVE  /\ Bits(w, 21, 5) = t /\ Bits(w, 16, 5) = a /\ Bits(w, 15, 1) = w0 /\ Bits(w, 12, 3) = i
           /\ Bits(w, 0, 12) = z
<1> DEFINE x == w[2]
<1>1. /\ t \in Int /\ 0 <= t /\ t < 32 /\ a \in Int /\ 0 <= a /\ a < 32 /\ w0 \in Int /\ 0 <= w0
      /\ w0 < 2 /\ i \in Int /\ 0 <= i /\ i < 8 /\ z \in Int /\ 0 <= z /\ z < 4096
      /\ x \in Int /\ x = t * 2097152 + a * 65536 + w0 * 32768 + i * 4096 + z
      BY SMT DEF MadeDW, Fitted
<1> HIDE DEF x
<1>2. x \div 2097152 = t
      BY ONLY <1>1, SMT
<1>3. t % 32 = t
      BY ONLY <1>1, SMT
<1>4. x \div 65536 = t * 32 + a
      BY ONLY <1>1, SMT
<1>5. (t * 32 + a) % 32 = a
      BY ONLY <1>1, SMT
<1>6. x \div 32768 = (t * 32 + a) * 2 + w0
      BY ONLY <1>1, SMT
<1>7. ((t * 32 + a) * 2 + w0) % 2 = w0
      BY ONLY <1>1, SMT
<1>8. x \div 4096 = ((t * 32 + a) * 2 + w0) * 8 + i
      BY ONLY <1>1, SMT
<1>9. (((t * 32 + a) * 2 + w0) * 8 + i) % 8 = i
      BY ONLY <1>1, SMT
<1>10. x \div 1 = (((t * 32 + a) * 2 + w0) * 8 + i) * 4096 + z
      BY ONLY <1>1, SMT
<1>11. ((((t * 32 + a) * 2 + w0) * 8 + i) * 4096 + z) % 4096 = z
      BY ONLY <1>1, SMT
<1> QED BY <1>2, <1>3, <1>4, <1>5, <1>6, <1>7, <1>8, <1>9, <1>10, <1>11, SMT DEF Bits, x

MadeXW(w, t, a, b, w0, i, xo) ==
    /\ Fitted(t, 5) /\ Fitted(a, 5) /\ Fitted(b, 5) /\ Fitted(w0, 1) /\ Fitted(i, 3) /\ Fitted(xo, 6)
    /\ w[2] = t * 2^21 + a * 2^16 + b * 2^11 + w0 * 2^10 + i * 2^7 + xo * 2^1
LEMMA BackXW ==
    ASSUME NEW w, NEW t, NEW a, NEW b, NEW w0, NEW i, NEW xo, MadeXW(w, t, a, b, w0, i, xo)
    PROVE  /\ Bits(w, 21, 5) = t /\ Bits(w, 16, 5) = a /\ Bits(w, 11, 5) = b /\ Bits(w, 10, 1) = w0
           /\ Bits(w, 7, 3) = i /\ Bits(w, 1, 6) = xo /\ Bits(w, 0, 1) = 0
<1> DEFINE x == w[2]
<1>1. /\ t \in Int /\ 0 <= t /\ t < 32 /\ a \in Int /\ 0 <= a /\ a < 32 /\ b \in Int /\ 0 <= b
      /\ b < 32 /\ w0 \in Int /\ 0 <= w0 /\ w0 < 2 /\ i \in Int /\ 0 <= i /\ i < 8 /\ xo \in Int
      /\ 0 <= xo /\ xo < 64
      /\ x \in Int /\ x = t * 2097152 + a * 65536 + b * 2048 + w0 * 1024 + i * 128 + xo * 2
      BY SMT DEF MadeXW, Fitted
<1> HIDE DEF x
<1>2. x \div 2097152 = t
      BY ONLY <1>1, SMT
<1>3. t % 32 = t
      BY ONLY <1>1, SMT
<1>4. x \div 65536 = t * 32 + a
      BY ONLY <1>1, SMT
<1>5. (t * 32 + a) % 32 = a
      BY ONLY <1>1, SMT
<1>6. x \div 2048 = (t * 32 + a) * 32 + b
      BY ONLY <1>1, SMT
<1>7. ((t * 32 + a) * 32 + b) % 32 = b
      BY ONLY <1>1, SMT
<1>8. x \div 1024 = ((t * 32 + a) * 32 + b) * 2 + w0
      BY ONLY <1>1, SMT
<1>9. (((t * 32 + a) * 32 + b) * 2 + w0) % 2 = w0
      BY ONLY <1>1, SMT
<1>10. x \div 128 = (((t * 32 + a) * 32 + b) * 2 + w0) * 8 + i
      BY ONLY <1>1, SMT
<1>11. ((((t * 32 + a) * 32 + b) * 2 + w0) * 8 + i) % 8 = i
      BY ONLY <1>1, SMT
<1>12. x \div 2 = ((((t * 32 + a) * 32 + b) * 2 + w0) * 8 + i) * 64 + xo
      BY ONLY <1>1, SMT
<1>13. (((((t * 32 + a) * 32 + b) * 2 + w0) * 8 + i) * 64 + xo) % 64 = xo
      BY ONLY <1>1, SMT
<1>14. x \div 1 = (((((t * 32 + a) * 32 + b) * 2 + w0) * 8 + i) * 64 + xo) * 2
      BY ONLY <1>1, SMT
<1>15. ((((((t * 32 + a) * 32 + b) * 2 + w0) * 8 + i) * 64 + xo) * 2) % 2 = 0
      BY ONLY <1>1, SMT
<1> QED BY <1>2, <1>3, <1>4, <1>5, <1>6, <1>7, <1>8, <1>9, <1>10, <1>11, <1>12, <1>13, <1>14, <1>15,
           SMT DEF Bits, x

----------------------------------------------------------------------------
(* The fields of a word *)

\* What a field of the word of row has, if its fields are given f.
Held(row, f, fld) ==
    CASE fld = "xo" -> row.xo
      [] fld = "rc" -> f.rc + row.rc
      [] fld = "d" -> f.d % (IF row.form = "DW" THEN 2^12 ELSE 2^16)
      [] fld = "spr" -> (f.spr % 32) * 32 + f.spr \div 32
      [] fld \in {"z", "z1", "z2"} -> 0
      [] OTHER -> f[fld]

\* Field values of the right size for a row.
FieldsFit(row, f) ==
    /\ \A fld \in {"t", "a", "b", "c", "e"} : Fitted(f[fld], 5)
    /\ Fitted(f.crm, 8) /\ Fitted(f.fm, 8) /\ Fitted(f.w, 1) /\ Fitted(f.i, 3) /\ Fitted(f.imm4, 4)
    /\ Fitted(f.spr, 10) /\ f.d \in Int /\ Fitted(f.rc + row.rc, 1)
    /\ row.form \in {"XFX_spr", "XFX_crm", "XW"} => f.rc + row.rc = 0
    /\ row.form = "mtfsfi" => f.a = 0

\* The word of row and f has in each field of its form what was put there.
Readable(row, f) ==
    /\ Formed(row, f)[1] = row.op /\ Formed(row, f)[2] \in Int
    /\ \A fld \in DOMAIN Layout[row.form] : Field(Formed(row, f), row.form, fld) = Held(row, f, fld)

\* What fits is not cut.
LEMMA NotCut ==
    /\ \A x : Fitted(x, 3) => Low(x, 3) = x
    /\ \A x : Fitted(x, 4) => Low(x, 4) = x
    /\ \A x : Fitted(x, 5) => Low(x, 5) = x
    /\ \A x : Fitted(x, 6) => Low(x, 6) = x
    /\ \A x : Fitted(x, 9) => Low(x, 9) = x
    /\ \A x : Fitted(x, 10) => Low(x, 10) = x
    /\ Low(0, 5) * 2^11 = 0
BY SMT DEF Low, Fitted

LEMMA FieldsAre ==
    ASSUME NEW row, NEW f, FieldsFit(row, f)
    PROVE  /\ Fitted(f.t, 5) /\ Fitted(f.a, 5) /\ Fitted(f.b, 5) /\ Fitted(f.c, 5) /\ Fitted(f.e, 5)
           /\ Fitted(f.crm, 8) /\ Fitted(f.fm, 8) /\ Fitted(f.w, 1) /\ Fitted(f.i, 3)
           /\ Fitted(f.imm4, 4) /\ Fitted(f.spr, 10) /\ Fitted(f.rc + row.rc, 1)
BY Zenon DEF FieldsFit

\* A row's extended opcode fits its field.
LEMMA XoFits ==
    ASSUME NEW row, Sound(row)
    PROVE  /\ row.form = "A" => Fitted(row.xo, 5)
           /\ row.form = "XW" => Fitted(row.xo, 6)
           /\ row.form \notin {"A", "XW", "D", "M", "DW"} => Fitted(row.xo, 10)
<1>1. row.xo \in 0 .. XoSize(row.form) - 1
      BY DEF Sound
<1> QED BY <1>1, SMT DEF XoSize, Fitted

\* Where the fields of each form are.
LEMMA DLayout ==
    LET L == Layout["D"]
    IN  /\ DOMAIN L = {"t", "a", "d"}
        /\ L["t"] = <<21, 5>> /\ L["a"] = <<16, 5>> /\ L["d"] = <<0, 16>>
BY DEF Layout

LEMMA XLayout ==
    LET L == Layout["X"]
    IN  /\ DOMAIN L = {"t", "a", "b", "xo", "rc"}
        /\ L["t"] = <<21, 5>> /\ L["a"] = <<16, 5>> /\ L["b"] = <<11, 5>> /\ L["xo"] = <<1, 10>>
        /\ L["rc"] = <<0, 1>>
BY DEF Layout

LEMMA XLLayout ==
    LET L == Layout["XL"]
    IN  /\ DOMAIN L = {"t", "a", "b", "xo", "rc"}
        /\ L["t"] = <<21, 5>> /\ L["a"] = <<16, 5>> /\ L["b"] = <<11, 5>> /\ L["xo"] = <<1, 10>>
        /\ L["rc"] = <<0, 1>>
BY DEF Layout

LEMMA XOLayout ==
    LET L == Layout["XO"]
    IN  /\ DOMAIN L = {"t", "a", "b", "xo", "rc"}
        /\ L["t"] = <<21, 5>> /\ L["a"] = <<16, 5>> /\ L["b"] = <<11, 5>> /\ L["xo"] = <<1, 10>>
        /\ L["rc"] = <<0, 1>>
BY DEF Layout

LEMMA ALayout ==
    LET L == Layout["A"]
    IN  /\ DOMAIN L = {"t", "a", "b", "c", "xo", "rc"}
        /\ L["t"] = <<21, 5>> /\ L["a"] = <<16, 5>> /\ L["b"] = <<11, 5>> /\ L["c"] = <<6, 5>>
        /\ L["xo"] = <<1, 5>> /\ L["rc"] = <<0, 1>>
BY DEF Layout

LEMMA MLayout ==
    LET L == Layout["M"]
    IN  /\ DOMAIN L = {"t", "a", "b", "c", "e", "rc"}
        /\ L["t"] = <<21, 5>> /\ L["a"] = <<16, 5>> /\ L["b"] = <<11, 5>> /\ L["c"] = <<6, 5>>
        /\ L["e"] = <<1, 5>> /\ L["rc"] = <<0, 1>>
BY DEF Layout

LEMMA XFX_sprLayout ==
    LET L == Layout["XFX_spr"]
    IN  /\ DOMAIN L = {"t", "spr", "xo", "rc"}
        /\ L["t"] = <<21, 5>> /\ L["spr"] = <<11, 10>> /\ L["xo"] = <<1, 10>> /\ L["rc"] = <<0, 1>>
BY DEF Layout

LEMMA XFX_crmLayout ==
    LET L == Layout["XFX_crm"]
    IN  /\ DOMAIN L = {"t", "z1", "crm", "z2", "xo", "rc"}
        /\ L["t"] = <<21, 5>> /\ L["z1"] = <<20, 1>> /\ L["crm"] = <<12, 8>> /\ L["z2"] = <<11, 1>>
        /\ L["xo"] = <<1, 10>> /\ L["rc"] = <<0, 1>>
BY DEF Layout

LEMMA XFLLayout ==
    LET L == Layout["XFL"]
    IN  /\ DOMAIN L = {"z1", "fm", "z2", "b", "xo", "rc"}
        /\ L["z1"] = <<25, 1>> /\ L["fm"] = <<17, 8>> /\ L["z2"] = <<16, 1>> /\ L["b"] = <<11, 5>>
        /\ L["xo"] = <<1, 10>> /\ L["rc"] = <<0, 1>>
BY DEF Layout

LEMMA mtfsfiLayout ==
    LET L == Layout["mtfsfi"]
    IN  /\ DOMAIN L = {"t", "a", "imm4", "z", "xo", "rc"}
        /\ L["t"] = <<21, 5>> /\ L["a"] = <<16, 5>> /\ L["imm4"] = <<12, 4>> /\ L["z"] = <<11, 1>>
        /\ L["xo"] = <<1, 10>> /\ L["rc"] = <<0, 1>>
BY DEF Layout

LEMMA DWLayout ==
    LET L == Layout["DW"]
    IN  /\ DOMAIN L = {"t", "a", "w", "i", "d"}
        /\ L["t"] = <<21, 5>> /\ L["a"] = <<16, 5>> /\ L["w"] = <<15, 1>> /\ L["i"] = <<12, 3>>
        /\ L["d"] = <<0, 12>>
BY DEF Layout

LEMMA XWLayout ==
    LET L == Layout["XW"]
    IN  /\ DOMAIN L = {"t", "a", "b", "w", "i", "xo", "rc"}
        /\ L["t"] = <<21, 5>> /\ L["a"] = <<16, 5>> /\ L["b"] = <<11, 5>> /\ L["w"] = <<10, 1>>
        /\ L["i"] = <<7, 3>> /\ L["xo"] = <<1, 6>> /\ L["rc"] = <<0, 1>>
BY DEF Layout

\* The word of each form holds its fields.
LEMMA DIsRead ==
    ASSUME NEW row, Sound(row), NEW f, FieldsFit(row, f), row.form = "D"
    PROVE  Readable(row, f)
<1> DEFINE w == Formed(row, f)
           z == f.d % 2^16
<1>1. w = D_form(row.op, f.t, f.a, f.d)
      BY DEF Formed
<1>2. Fitted(f.t, 5) /\ Fitted(f.a, 5) /\ Fitted(z, 16)
      <2>1. f.d \in Int
            BY DEF FieldsFit
      <2>2. Fitted(z, 16)
            BY <2>1, SMT DEF Fitted
      <2> HIDE DEF z
      <2> QED BY <2>2, FieldsAre, Zenon
<1>3. w[1] = row.op /\ w[2] = f.t * 2^21 + f.a * 2^16 + z /\ w[2] \in Int
      <2>1. Low(f.t, 5) = f.t /\ Low(f.a, 5) = f.a /\ Low(f.d, 16) = z
            BY <1>2, NotCut, Zenon DEF Low
      <2>2. w = <<row.op, f.t * 2^21 + f.a * 2^16 + Low(0, 5) * 2^11 + z>>
            BY <1>1, <2>1, Zenon DEF D_form, Registers3
      <2> HIDE DEF w, z
      <2> QED BY ONLY <1>2, <2>2, NotCut, SMT DEF Fitted
<1> HIDE DEF w, z
<1>4. Bits(w, 21, 5) = f.t /\ Bits(w, 16, 5) = f.a /\ Bits(w, 0, 16) = z
      <2>1. MadeD(w, f.t, f.a, z)
            BY <1>2, <1>3, Zenon DEF MadeD
      <2> QED BY <2>1, BackD, Zenon
<1>5. Field(w, "D", "t") = f.t /\ Field(w, "D", "a") = f.a /\ Field(w, "D", "d") = z
      BY <1>4, DLayout DEF Field
<1>6. Held(row, f, "t") = f.t /\ Held(row, f, "a") = f.a /\ Held(row, f, "d") = z
      BY DEF Held, z
<1> QED BY <1>3, <1>5, <1>6, DLayout, Zenon DEF Readable, w

LEMMA XIsRead ==
    ASSUME NEW row, Sound(row), NEW f, FieldsFit(row, f), row.form = "X"
    PROVE  Readable(row, f)
<1> DEFINE w == Formed(row, f)
           rc == f.rc + row.rc
<1>1. w = X_form(row.op, f.t, f.a, f.b, row.xo, rc)
      BY DEF Formed
<1>2. Fitted(f.t, 5) /\ Fitted(f.a, 5) /\ Fitted(f.b, 5) /\ Fitted(row.xo, 10) /\ Fitted(rc, 1)
      BY FieldsAre, XoFits, Zenon
<1>3. w[1] = row.op /\ w[2] = f.t * 2^21 + f.a * 2^16 + f.b * 2^11 + row.xo * 2^1 + rc /\ w[2] \in Int
      <2>1. Low(f.t, 5) = f.t /\ Low(f.a, 5) = f.a /\ Low(f.b, 5) = f.b /\ Low(row.xo, 10) = row.xo
            BY <1>2, NotCut, Zenon
      <2>2. w = <<row.op, f.t * 2^21 + f.a * 2^16 + f.b * 2^11 + row.xo * 2 + rc>>
            BY <1>1, <2>1, Zenon DEF X_form, Registers3
      <2> HIDE DEF w, rc
      <2> QED BY ONLY <1>2, <2>2, NotCut, SMT DEF Fitted
<1> HIDE DEF w, rc
<1>4. MadeX(w, f.t, f.a, f.b, row.xo, rc)
      BY <1>2, <1>3, Zenon DEF MadeX
<1>5. /\ Bits(w, 21, 5) = f.t /\ Bits(w, 16, 5) = f.a /\ Bits(w, 11, 5) = f.b
      /\ Bits(w, 1, 10) = row.xo /\ Bits(w, 0, 1) = rc
      BY <1>4, BackX, Zenon
<1>6. /\ Field(w, "X", "t") = f.t /\ Field(w, "X", "a") = f.a /\ Field(w, "X", "b") = f.b
      /\ Field(w, "X", "xo") = row.xo /\ Field(w, "X", "rc") = rc
      BY <1>5, XLayout DEF Field
<1>7. /\ Held(row, f, "t") = f.t /\ Held(row, f, "a") = f.a /\ Held(row, f, "b") = f.b
      /\ Held(row, f, "xo") = row.xo /\ Held(row, f, "rc") = rc
      BY DEF Held, rc
<1> QED BY <1>3, <1>6, <1>7, XLayout, Zenon DEF Readable, w

LEMMA XLIsRead ==
    ASSUME NEW row, Sound(row), NEW f, FieldsFit(row, f), row.form = "XL"
    PROVE  Readable(row, f)
<1> DEFINE w == Formed(row, f)
           rc == f.rc + row.rc
<1>1. w = XL_form(row.op, f.t, f.a, f.b, row.xo, rc)
      BY DEF Formed
<1>2. Fitted(f.t, 5) /\ Fitted(f.a, 5) /\ Fitted(f.b, 5) /\ Fitted(row.xo, 10) /\ Fitted(rc, 1)
      BY FieldsAre, XoFits, Zenon
<1>3. w[1] = row.op /\ w[2] = f.t * 2^21 + f.a * 2^16 + f.b * 2^11 + row.xo * 2^1 + rc /\ w[2] \in Int
      <2>1. Low(f.t, 5) = f.t /\ Low(f.a, 5) = f.a /\ Low(f.b, 5) = f.b /\ Low(row.xo, 10) = row.xo
            BY <1>2, NotCut, Zenon
      <2>2. w = <<row.op, f.t * 2^21 + f.a * 2^16 + f.b * 2^11 + row.xo * 2 + rc>>
            BY <1>1, <2>1, Zenon DEF XL_form, Registers3
      <2> HIDE DEF w, rc
      <2> QED BY ONLY <1>2, <2>2, NotCut, SMT DEF Fitted
<1> HIDE DEF w, rc
<1>4. MadeX(w, f.t, f.a, f.b, row.xo, rc)
      BY <1>2, <1>3, Zenon DEF MadeX
<1>5. /\ Bits(w, 21, 5) = f.t /\ Bits(w, 16, 5) = f.a /\ Bits(w, 11, 5) = f.b
      /\ Bits(w, 1, 10) = row.xo /\ Bits(w, 0, 1) = rc
      BY <1>4, BackX, Zenon
<1>6. /\ Field(w, "XL", "t") = f.t /\ Field(w, "XL", "a") = f.a /\ Field(w, "XL", "b") = f.b
      /\ Field(w, "XL", "xo") = row.xo /\ Field(w, "XL", "rc") = rc
      BY <1>5, XLLayout DEF Field
<1>7. /\ Held(row, f, "t") = f.t /\ Held(row, f, "a") = f.a /\ Held(row, f, "b") = f.b
      /\ Held(row, f, "xo") = row.xo /\ Held(row, f, "rc") = rc
      BY DEF Held, rc
<1> QED BY <1>3, <1>6, <1>7, XLLayout, Zenon DEF Readable, w

LEMMA XOIsRead ==
    ASSUME NEW row, Sound(row), NEW f, FieldsFit(row, f), row.form = "XO"
    PROVE  Readable(row, f)
<1> DEFINE w == Formed(row, f)
           rc == f.rc + row.rc
<1>1. w = XO_form(row.op, f.t, f.a, f.b, row.xo \div OE, row.xo % OE, rc)
      BY DEF Formed
<1>2. Fitted(f.t, 5) /\ Fitted(f.a, 5) /\ Fitted(f.b, 5) /\ Fitted(row.xo, 10) /\ Fitted(rc, 1)
      BY FieldsAre, XoFits, Zenon
<1>3. w[1] = row.op /\ w[2] = f.t * 2^21 + f.a * 2^16 + f.b * 2^11 + row.xo * 2^1 + rc /\ w[2] \in Int
      <2>0. Fitted(row.xo % OE, 9)
            BY <1>2, SMT DEF OE, Fitted
      <2>1. Low(f.t, 5) = f.t /\ Low(f.a, 5) = f.a /\ Low(f.b, 5) = f.b /\ Low(row.xo % OE, 9) = row.xo % OE
            BY <1>2, <2>0, NotCut, Zenon
      <2>2. w = <<row.op,
                  f.t * 2^21 + f.a * 2^16 + f.b * 2^11 + (row.xo \div OE) * 2^10 + (row.xo % OE) * 2 + rc>>
            BY <1>1, <2>1, Zenon DEF XO_form, Registers3
      <2> HIDE DEF w, rc
      <2> QED BY ONLY <1>2, <2>2, NotCut, SMT DEF Fitted, OE
<1> HIDE DEF w, rc
<1>4. MadeX(w, f.t, f.a, f.b, row.xo, rc)
      BY <1>2, <1>3, Zenon DEF MadeX
<1>5. /\ Bits(w, 21, 5) = f.t /\ Bits(w, 16, 5) = f.a /\ Bits(w, 11, 5) = f.b
      /\ Bits(w, 1, 10) = row.xo /\ Bits(w, 0, 1) = rc
      BY <1>4, BackX, Zenon
<1>6. /\ Field(w, "XO", "t") = f.t /\ Field(w, "XO", "a") = f.a /\ Field(w, "XO", "b") = f.b
      /\ Field(w, "XO", "xo") = row.xo /\ Field(w, "XO", "rc") = rc
      BY <1>5, XOLayout DEF Field
<1>7. /\ Held(row, f, "t") = f.t /\ Held(row, f, "a") = f.a /\ Held(row, f, "b") = f.b
      /\ Held(row, f, "xo") = row.xo /\ Held(row, f, "rc") = rc
      BY DEF Held, rc
<1> QED BY <1>3, <1>6, <1>7, XOLayout, Zenon DEF Readable, w

LEMMA AIsRead ==
    ASSUME NEW row, Sound(row), NEW f, FieldsFit(row, f), row.form = "A"
    PROVE  Readable(row, f)
<1> DEFINE w == Formed(row, f)
           rc == f.rc + row.rc
<1>1. w = A_form(row.op, f.t, f.a, f.b, f.c, row.xo, rc)
      BY DEF Formed
<1>2. /\ Fitted(f.t, 5) /\ Fitted(f.a, 5) /\ Fitted(f.b, 5) /\ Fitted(f.c, 5) /\ Fitted(row.xo, 5)
      /\ Fitted(rc, 1)
      BY FieldsAre, XoFits, Zenon
<1>3. /\ w[1] = row.op
      /\ w[2] = f.t * 2^21 + f.a * 2^16 + f.b * 2^11 + f.c * 2^6 + row.xo * 2^1 + rc /\ w[2] \in Int
      <2>1. /\ Low(f.t, 5) = f.t /\ Low(f.a, 5) = f.a /\ Low(f.b, 5) = f.b /\ Low(f.c, 5) = f.c
            /\ Low(row.xo, 5) = row.xo
            BY <1>2, NotCut, Zenon
      <2>2. w = <<row.op, f.t * 2^21 + f.a * 2^16 + f.b * 2^11 + f.c * 2^6 + row.xo * 2 + rc>>
            BY <1>1, <2>1, Zenon DEF A_form, Registers3
      <2> HIDE DEF w, rc
      <2> QED BY ONLY <1>2, <2>2, NotCut, SMT DEF Fitted
<1> HIDE DEF w, rc
<1>4. MadeA(w, f.t, f.a, f.b, f.c, row.xo, rc)
      BY <1>2, <1>3, Zenon DEF MadeA
<1>5. /\ Bits(w, 21, 5) = f.t /\ Bits(w, 16, 5) = f.a /\ Bits(w, 11, 5) = f.b /\ Bits(w, 6, 5) = f.c
      /\ Bits(w, 1, 5) = row.xo /\ Bits(w, 0, 1) = rc
      BY <1>4, BackA, Zenon
<1>6. /\ Field(w, "A", "t") = f.t /\ Field(w, "A", "a") = f.a /\ Field(w, "A", "b") = f.b
      /\ Field(w, "A", "c") = f.c /\ Field(w, "A", "xo") = row.xo /\ Field(w, "A", "rc") = rc
      BY <1>5, ALayout DEF Field
<1>7. /\ Held(row, f, "t") = f.t /\ Held(row, f, "a") = f.a /\ Held(row, f, "b") = f.b
      /\ Held(row, f, "c") = f.c /\ Held(row, f, "xo") = row.xo /\ Held(row, f, "rc") = rc
      BY DEF Held, rc
<1> QED BY <1>3, <1>6, <1>7, ALayout, Zenon DEF Readable, w

LEMMA MIsRead ==
    ASSUME NEW row, Sound(row), NEW f, FieldsFit(row, f), row.form = "M"
    PROVE  Readable(row, f)
<1> DEFINE w == Formed(row, f)
           rc == f.rc + row.rc
<1>1. w = M_form(row.op, f.t, f.a, f.b, f.c, f.e, rc)
      BY DEF Formed
<1>2. Fitted(f.t, 5) /\ Fitted(f.a, 5) /\ Fitted(f.b, 5) /\ Fitted(f.c, 5) /\ Fitted(f.e, 5) /\ Fitted(rc, 1)
      BY FieldsAre, XoFits, Zenon
<1>3. /\ w[1] = row.op /\ w[2] = f.t * 2^21 + f.a * 2^16 + f.b * 2^11 + f.c * 2^6 + f.e * 2^1 + rc
      /\ w[2] \in Int
      <2>1. /\ Low(f.t, 5) = f.t /\ Low(f.a, 5) = f.a /\ Low(f.b, 5) = f.b /\ Low(f.c, 5) = f.c
            /\ Low(f.e, 5) = f.e
            BY <1>2, NotCut, Zenon
      <2>2. w = <<row.op, f.t * 2^21 + f.a * 2^16 + f.b * 2^11 + f.c * 2^6 + f.e * 2 + rc>>
            BY <1>1, <2>1, Zenon DEF M_form, Registers3
      <2> HIDE DEF w, rc
      <2> QED BY ONLY <1>2, <2>2, NotCut, SMT DEF Fitted
<1> HIDE DEF w, rc
<1>4. MadeA(w, f.t, f.a, f.b, f.c, f.e, rc)
      BY <1>2, <1>3, Zenon DEF MadeA
<1>5. /\ Bits(w, 21, 5) = f.t /\ Bits(w, 16, 5) = f.a /\ Bits(w, 11, 5) = f.b /\ Bits(w, 6, 5) = f.c
      /\ Bits(w, 1, 5) = f.e /\ Bits(w, 0, 1) = rc
      BY <1>4, BackA, Zenon
<1>6. /\ Field(w, "M", "t") = f.t /\ Field(w, "M", "a") = f.a /\ Field(w, "M", "b") = f.b
      /\ Field(w, "M", "c") = f.c /\ Field(w, "M", "e") = f.e /\ Field(w, "M", "rc") = rc
      BY <1>5, MLayout DEF Field
<1>7. /\ Held(row, f, "t") = f.t /\ Held(row, f, "a") = f.a /\ Held(row, f, "b") = f.b
      /\ Held(row, f, "c") = f.c /\ Held(row, f, "e") = f.e /\ Held(row, f, "rc") = rc
      BY DEF Held, rc
<1> QED BY <1>3, <1>6, <1>7, MLayout, Zenon DEF Readable, w

LEMMA XFX_crmIsRead ==
    ASSUME NEW row, Sound(row), NEW f, FieldsFit(row, f), row.form = "XFX_crm"
    PROVE  Readable(row, f)
<1> DEFINE w == Formed(row, f)
           rc == f.rc + row.rc
<1>1. w = XFX_crm_form(row.op, f.t, f.crm, row.xo)
      BY DEF Formed
<1>2. Fitted(f.t, 5) /\ Fitted(f.crm, 8) /\ Fitted(row.xo, 10)
      BY FieldsAre, XoFits, Zenon
<1>3. rc = 0
      BY DEF FieldsFit
<1>4. w[1] = row.op /\ w[2] = f.t * 2^21 + f.crm * 2^12 + row.xo * 2^1 /\ w[2] \in Int
      <2>1. Low(f.t, 5) = f.t /\ Low(row.xo, 10) = row.xo
            BY <1>2, NotCut, Zenon
      <2>2. w = <<row.op, f.t * 2^21 + f.crm * 2^12 + row.xo * 2>>
            BY <1>1, <2>1, Zenon DEF XFX_crm_form
      <2> HIDE DEF w, rc
      <2> QED BY ONLY <1>2, <1>3, <2>2, NotCut, SMT DEF Fitted
<1> HIDE DEF w, rc
<1>5. MadeXFX_crm(w, f.t, f.crm, row.xo)
      BY <1>2, <1>4, Zenon DEF MadeXFX_crm
<1>6. /\ Bits(w, 21, 5) = f.t /\ Bits(w, 20, 1) = 0 /\ Bits(w, 12, 8) = f.crm /\ Bits(w, 11, 1) = 0
      /\ Bits(w, 1, 10) = row.xo /\ Bits(w, 0, 1) = 0
      BY <1>5, BackXFX_crm, Zenon
<1>7. /\ Field(w, "XFX_crm", "t") = f.t /\ Field(w, "XFX_crm", "z1") = 0
      /\ Field(w, "XFX_crm", "crm") = f.crm /\ Field(w, "XFX_crm", "z2") = 0
      /\ Field(w, "XFX_crm", "xo") = row.xo /\ Field(w, "XFX_crm", "rc") = 0
      BY <1>6, XFX_crmLayout DEF Field
<1>8. /\ Held(row, f, "t") = f.t /\ Held(row, f, "z1") = 0 /\ Held(row, f, "crm") = f.crm
      /\ Held(row, f, "z2") = 0 /\ Held(row, f, "xo") = row.xo /\ Held(row, f, "rc") = 0
      BY <1>3 DEF Held, rc
<1> QED BY <1>4, <1>7, <1>8, XFX_crmLayout, Zenon DEF Readable, w

LEMMA XFLIsRead ==
    ASSUME NEW row, Sound(row), NEW f, FieldsFit(row, f), row.form = "XFL"
    PROVE  Readable(row, f)
<1> DEFINE w == Formed(row, f)
           rc == f.rc + row.rc
<1>1. w = XFL_form(row.op, f.fm, f.b, row.xo, rc)
      BY DEF Formed
<1>2. Fitted(f.fm, 8) /\ Fitted(f.b, 5) /\ Fitted(row.xo, 10) /\ Fitted(rc, 1)
      BY FieldsAre, XoFits, Zenon
<1>3. w[1] = row.op /\ w[2] = f.fm * 2^17 + f.b * 2^11 + row.xo * 2^1 + rc /\ w[2] \in Int
      <2>1. Low(f.b, 5) = f.b /\ Low(row.xo, 10) = row.xo
            BY <1>2, NotCut, Zenon
      <2>2. w = <<row.op, f.fm * 2^17 + f.b * 2^11 + row.xo * 2 + rc>>
            BY <1>1, <2>1, Zenon DEF XFL_form
      <2> HIDE DEF w, rc
      <2> QED BY ONLY <1>2, <2>2, NotCut, SMT DEF Fitted
<1> HIDE DEF w, rc
<1>4. MadeXFL(w, f.fm, f.b, row.xo, rc)
      BY <1>2, <1>3, Zenon DEF MadeXFL
<1>5. /\ Bits(w, 25, 1) = 0 /\ Bits(w, 17, 8) = f.fm /\ Bits(w, 16, 1) = 0 /\ Bits(w, 11, 5) = f.b
      /\ Bits(w, 1, 10) = row.xo /\ Bits(w, 0, 1) = rc
      BY <1>4, BackXFL, Zenon
<1>6. /\ Field(w, "XFL", "z1") = 0 /\ Field(w, "XFL", "fm") = f.fm /\ Field(w, "XFL", "z2") = 0
      /\ Field(w, "XFL", "b") = f.b /\ Field(w, "XFL", "xo") = row.xo /\ Field(w, "XFL", "rc") = rc
      BY <1>5, XFLLayout DEF Field
<1>7. /\ Held(row, f, "z1") = 0 /\ Held(row, f, "fm") = f.fm /\ Held(row, f, "z2") = 0
      /\ Held(row, f, "b") = f.b /\ Held(row, f, "xo") = row.xo /\ Held(row, f, "rc") = rc
      BY DEF Held, rc
<1> QED BY <1>3, <1>6, <1>7, XFLLayout, Zenon DEF Readable, w

LEMMA mtfsfiIsRead ==
    ASSUME NEW row, Sound(row), NEW f, FieldsFit(row, f), row.form = "mtfsfi"
    PROVE  Readable(row, f)
<1> DEFINE w == Formed(row, f)
           rc == f.rc + row.rc
<1>1. w = <<row.op, 268 + f.t * 2^21 + Low(f.imm4, 4) * 2^12 + rc>>
      BY DEF Formed
<1>2. Fitted(f.t, 5) /\ Fitted(f.imm4, 4) /\ Fitted(row.xo, 10) /\ Fitted(rc, 1)
      BY FieldsAre, XoFits, Zenon
<1>3. row.xo = 134 /\ f.a = 0
      BY DEF FieldsFit, Sound
<1>4. w[1] = row.op /\ w[2] = f.t * 2^21 + f.imm4 * 2^12 + row.xo * 2^1 + rc /\ w[2] \in Int
      <2>1. Low(f.imm4, 4) = f.imm4
            BY <1>2, NotCut, Zenon
      <2>2. w = <<row.op, 268 + f.t * 2^21 + f.imm4 * 2^12 + rc>>
            BY <1>1, <2>1, Zenon
      <2> HIDE DEF w, rc
      <2> QED BY ONLY <1>2, <1>3, <2>2, NotCut, SMT DEF Fitted
<1> HIDE DEF w, rc
<1>5. Mademtfsfi(w, f.t, f.imm4, row.xo, rc)
      BY <1>2, <1>4, Zenon DEF Mademtfsfi
<1>6. /\ Bits(w, 21, 5) = f.t /\ Bits(w, 16, 5) = 0 /\ Bits(w, 12, 4) = f.imm4 /\ Bits(w, 11, 1) = 0
      /\ Bits(w, 1, 10) = row.xo /\ Bits(w, 0, 1) = rc
      BY <1>5, Backmtfsfi, Zenon
<1>7. /\ Field(w, "mtfsfi", "t") = f.t /\ Field(w, "mtfsfi", "a") = 0
      /\ Field(w, "mtfsfi", "imm4") = f.imm4 /\ Field(w, "mtfsfi", "z") = 0
      /\ Field(w, "mtfsfi", "xo") = row.xo /\ Field(w, "mtfsfi", "rc") = rc
      BY <1>6, mtfsfiLayout DEF Field
<1>8. /\ Held(row, f, "t") = f.t /\ Held(row, f, "a") = 0 /\ Held(row, f, "imm4") = f.imm4
      /\ Held(row, f, "z") = 0 /\ Held(row, f, "xo") = row.xo /\ Held(row, f, "rc") = rc
      BY <1>3 DEF Held, rc
<1> QED BY <1>4, <1>7, <1>8, mtfsfiLayout, Zenon DEF Readable, w

LEMMA DWIsRead ==
    ASSUME NEW row, Sound(row), NEW f, FieldsFit(row, f), row.form = "DW"
    PROVE  Readable(row, f)
<1> DEFINE w == Formed(row, f)
           rc == f.rc + row.rc
           z == f.d % 2^12
<1>1. w = DW_form(row.op, f.t, f.a, f.d, f.w, f.i)
      BY DEF Formed
<1>2. Fitted(f.t, 5) /\ Fitted(f.a, 5) /\ Fitted(f.w, 1) /\ Fitted(f.i, 3) /\ Fitted(z, 12)
      <2>1. f.d \in Int
            BY DEF FieldsFit
      <2>2. Fitted(z, 12)
            BY <2>1, SMT DEF Fitted
      <2> HIDE DEF z
      <2> QED BY <2>2, FieldsAre, Zenon
<1>3. w[1] = row.op /\ w[2] = f.t * 2^21 + f.a * 2^16 + f.w * 2^15 + f.i * 2^12 + z /\ w[2] \in Int
      <2>1. Low(f.t, 5) = f.t /\ Low(f.a, 5) = f.a /\ Low(f.i, 3) = f.i /\ Low(f.d, 12) = z
            BY <1>2, NotCut, Zenon DEF Low
      <2>2. w = <<row.op, f.t * 2^21 + f.a * 2^16 + Low(0, 5) * 2^11 + f.w * 2^15 + f.i * 2^12 + z>>
            BY <1>1, <2>1, Zenon DEF DW_form, Registers3
      <2> HIDE DEF w, rc, z
      <2> QED BY ONLY <1>2, <2>2, NotCut, SMT DEF Fitted
<1> HIDE DEF w, rc, z
<1>4. MadeDW(w, f.t, f.a, f.w, f.i, z)
      BY <1>2, <1>3, Zenon DEF MadeDW
<1>5. /\ Bits(w, 21, 5) = f.t /\ Bits(w, 16, 5) = f.a /\ Bits(w, 15, 1) = f.w
      /\ Bits(w, 12, 3) = f.i /\ Bits(w, 0, 12) = z
      BY <1>4, BackDW, Zenon
<1>6. /\ Field(w, "DW", "t") = f.t /\ Field(w, "DW", "a") = f.a /\ Field(w, "DW", "w") = f.w
      /\ Field(w, "DW", "i") = f.i /\ Field(w, "DW", "d") = z
      BY <1>5, DWLayout DEF Field
<1>7. /\ Held(row, f, "t") = f.t /\ Held(row, f, "a") = f.a /\ Held(row, f, "w") = f.w
      /\ Held(row, f, "i") = f.i /\ Held(row, f, "d") = z
      BY DEF Held, rc, z
<1> QED BY <1>3, <1>6, <1>7, DWLayout, Zenon DEF Readable, w

LEMMA XWIsRead ==
    ASSUME NEW row, Sound(row), NEW f, FieldsFit(row, f), row.form = "XW"
    PROVE  Readable(row, f)
<1> DEFINE w == Formed(row, f)
           rc == f.rc + row.rc
<1>1. w = XW_form(row.xo, f.t, f.a, f.b, f.w, f.i)
      BY DEF Formed
<1>2. /\ Fitted(f.t, 5) /\ Fitted(f.a, 5) /\ Fitted(f.b, 5) /\ Fitted(f.w, 1) /\ Fitted(f.i, 3)
      /\ Fitted(row.xo, 6)
      BY FieldsAre, XoFits, Zenon
<1>3. rc = 0
      BY DEF FieldsFit
<1>4. row.op = 4
      BY DEF Sound
<1>5. /\ w[1] = row.op
      /\ w[2] = f.t * 2^21 + f.a * 2^16 + f.b * 2^11 + f.w * 2^10 + f.i * 2^7 + row.xo * 2^1
      /\ w[2] \in Int
      <2>1. /\ Low(f.t, 5) = f.t /\ Low(f.a, 5) = f.a /\ Low(f.b, 5) = f.b /\ Low(f.i, 3) = f.i
            /\ Low(row.xo, 6) = row.xo
            BY <1>2, NotCut, Zenon
      <2>2. w = <<4, f.t * 2^21 + f.a * 2^16 + f.b * 2^11 + f.w * 2^10 + f.i * 2^7 + row.xo * 2>>
            BY <1>1, <2>1, Zenon DEF XW_form, Registers3
      <2> HIDE DEF w, rc
      <2> QED BY ONLY <1>2, <1>3, <1>4, <2>2, NotCut, SMT DEF Fitted
<1> HIDE DEF w, rc
<1>6. MadeXW(w, f.t, f.a, f.b, f.w, f.i, row.xo)
      BY <1>2, <1>5, Zenon DEF MadeXW
<1>7. /\ Bits(w, 21, 5) = f.t /\ Bits(w, 16, 5) = f.a /\ Bits(w, 11, 5) = f.b
      /\ Bits(w, 10, 1) = f.w /\ Bits(w, 7, 3) = f.i /\ Bits(w, 1, 6) = row.xo /\ Bits(w, 0, 1) = 0
      BY <1>6, BackXW, ZenonT(40)
<1>8. /\ Field(w, "XW", "t") = f.t /\ Field(w, "XW", "a") = f.a /\ Field(w, "XW", "b") = f.b
      /\ Field(w, "XW", "w") = f.w /\ Field(w, "XW", "i") = f.i /\ Field(w, "XW", "xo") = row.xo
      /\ Field(w, "XW", "rc") = 0
      BY <1>7, XWLayout DEF Field
<1>9. /\ Held(row, f, "t") = f.t /\ Held(row, f, "a") = f.a /\ Held(row, f, "b") = f.b
      /\ Held(row, f, "w") = f.w /\ Held(row, f, "i") = f.i /\ Held(row, f, "xo") = row.xo
      /\ Held(row, f, "rc") = 0
      BY <1>3, <1>4 DEF Held, rc
<1> QED BY <1>5, <1>8, <1>9, XWLayout, Zenon DEF Readable, w

LEMMA XFX_sprIsRead ==
    ASSUME NEW row, Sound(row), NEW f, FieldsFit(row, f), row.form = "XFX_spr"
    PROVE  Readable(row, f)
<1> DEFINE w == Formed(row, f)
           lo == f.spr % 2^5
           hi == f.spr \div 2^5
<1>1. w = XFX_spr_form(row.op, f.t, f.spr, row.xo)
      BY DEF Formed
<1>2. /\ Fitted(f.t, 5) /\ Fitted(lo, 5) /\ Fitted(hi, 5) /\ Fitted(row.xo, 10) /\ Fitted(0, 1)
      /\ f.rc + row.rc = 0
      <2>1. Fitted(f.t, 5) /\ Fitted(row.xo, 10) /\ Fitted(f.spr, 10)
            BY FieldsAre, XoFits, Zenon
      <2>2. Fitted(lo, 5) /\ Fitted(hi, 5)
            BY <2>1, SMT DEF Fitted
      <2>3. Fitted(0, 1)
            BY SMT DEF Fitted
      <2>4. f.rc + row.rc = 0
            BY DEF FieldsFit
      <2> HIDE DEF lo, hi
      <2> QED BY <2>1, <2>2, <2>3, <2>4, Zenon
<1>3. /\ w[1] = row.op /\ w[2] = f.t * 2^21 + lo * 2^16 + hi * 2^11 + row.xo * 2^1 + 0
      /\ w[2] \in Int
      <2>0. Low(f.spr, 5) = lo /\ Low(f.spr \div 2^5, 5) = Low(hi, 5)
            BY Zenon DEF Low
      <2>1. Low(f.t, 5) = f.t /\ Low(lo, 5) = lo /\ Low(hi, 5) = hi /\ Low(row.xo, 10) = row.xo
            <3> HIDE DEF lo, hi
            <3> QED BY <1>2, NotCut, Zenon
      <2>2. w = <<row.op, f.t * 2^21 + lo * 2^16 + hi * 2^11 + row.xo * 2 + 0>>
            <3>1. w = X_form(row.op, f.t, lo, hi, row.xo, 0)
                  <4> HIDE DEF w
                  <4> QED BY <1>1, <2>0, <2>1, Zenon DEF XFX_spr_form
            <3> HIDE DEF w, lo, hi
            <3> QED BY <3>1, <2>1, Zenon DEF X_form, Registers3
      <2> HIDE DEF w, lo, hi
      <2> QED BY ONLY <1>2, <2>2, SMT DEF Fitted
<1> HIDE DEF w, lo, hi
<1>4. MadeX(w, f.t, lo, hi, row.xo, 0)
      BY <1>2, <1>3, Zenon DEF MadeX
<1>5. /\ Bits(w, 21, 5) = f.t /\ Bits(w, 1, 10) = row.xo /\ Bits(w, 0, 1) = 0
      /\ Bits(w, 16, 5) = lo /\ Bits(w, 11, 5) = hi
      BY <1>4, BackX, Zenon
<1>6. Bits(w, 11, 10) = lo * 32 + hi
      <2> DEFINE x == w[2]
      <2>1. /\ f.t \in Int /\ 0 <= f.t /\ f.t < 32 /\ lo \in Int /\ 0 <= lo /\ lo < 32
            /\ hi \in Int /\ 0 <= hi /\ hi < 32 /\ row.xo \in Int /\ 0 <= row.xo /\ row.xo < 1024
            /\ x \in Int /\ x = f.t * 2097152 + lo * 65536 + hi * 2048 + row.xo * 2
            BY <1>2, <1>3, SMT DEF Fitted
      <2> HIDE DEF x
      <2>2. x \div 2048 = f.t * 1024 + (lo * 32 + hi)
            <3> DEFINE k == (f.t * 32 + lo) * 32 + hi
            <3>1. k \in Int /\ k * 2048 <= x /\ x < k * 2048 + 2048
                  BY ONLY <2>1, SMT
            <3>2. k = f.t * 1024 + (lo * 32 + hi)
                  BY ONLY <2>1, SMT
            <3> HIDE DEF k
            <3>3. x \div 2048 = k
                  BY ONLY <3>1, <2>1, SMT
            <3> QED BY <3>2, <3>3
      <2>3. (f.t * 1024 + (lo * 32 + hi)) % 1024 = lo * 32 + hi
            BY ONLY <2>1, SMT
      <2> QED BY <2>2, <2>3, SMT DEF Bits, x
<1>7. /\ Field(w, "XFX_spr", "t") = f.t /\ Field(w, "XFX_spr", "spr") = lo * 32 + hi
      /\ Field(w, "XFX_spr", "xo") = row.xo /\ Field(w, "XFX_spr", "rc") = 0
      BY <1>5, <1>6, XFX_sprLayout DEF Field
<1>8. /\ Held(row, f, "t") = f.t /\ Held(row, f, "spr") = lo * 32 + hi
      /\ Held(row, f, "xo") = row.xo /\ Held(row, f, "rc") = 0
      BY <1>2 DEF Held, lo, hi
<1> QED BY <1>3, <1>7, <1>8, XFX_sprLayout, Zenon DEF Readable, w

\* Each field of a word of the table's is what its row, and what it was given, have there.
LEMMA RowIsRead ==
    ASSUME NEW row, Sound(row), NEW f, FieldsFit(row, f)
    PROVE  Readable(row, f)
<1>1. row.form \in {"D", "X", "XO", "A", "M", "XL", "XFX_spr", "XFX_crm", "XFL", "mtfsfi", "DW", "XW"}
      BY DEF Sound, Layout
<1> QED BY <1>1, DIsRead, XIsRead, XOIsRead, AIsRead, MIsRead, XLIsRead, XFX_sprIsRead, XFX_crmIsRead,
           XFLIsRead, mtfsfiIsRead, DWIsRead, XWIsRead

----------------------------------------------------------------------------
(* The manual and the code *)

\* The code gives each mnemonic the form, the opcodes and the fields of the manual's
\* instruction of that name.
LEMMA GroupsAreBooks == Groups \subseteq Books
<1>1. IntegerArithmetic \subseteq OnImmediates \cup Arithmetic31
      <2> DEFINE first == D(<<"t", "a", "d">>, [addi |-> 14, addis |-> 15, addic |-> 12,
                                                addic_dot |-> 13, subfic |-> 8, mulli |-> 7])
      <2>1. first \in OnImmediates
            BY ZenonT(60) DEF D, Single, OnImmediates
      <2>2. IntegerArithmetic \ {first} \subseteq Arithmetic31
            BY DEF Rows, Book, IntegerArithmetic, Arithmetic31, OE
      <2> QED BY <2>1, <2>2
<1>2. IntegerCompare \subseteq OnImmediates \cup Logic31
      BY ZenonT(60) DEF D, X, Rows, Single, Book, IntegerCompare, OnImmediates, Logic31
<1>3. IntegerLogical \subseteq OnImmediates \cup Logic31 \cup Arithmetic31
      BY ZenonT(60) DEF D, X, Rows, Single, Book, IntegerLogical, OnImmediates, Logic31, Arithmetic31
<1>4. IntegerRotateAndShift \subseteq Rotations \cup Logic31
      BY ZenonT(60) DEF M, X, Rows, Single, Book, IntegerRotateAndShift, Rotations, Logic31
<1>5. FloatingPointArithmetic \subseteq FloatingPoint
      BY ZenonT(60) DEF Rows, Book, FloatingPointArithmetic, FloatingPoint
<1>6. IntegerLoadsAndStores \subseteq OnImmediates \cup Storage31
      BY ZenonT(60) DEF D, X, Rows, Single, Book, IntegerLoadsAndStores, OnImmediates, Storage31
<1>7. MemorySynchronization \subseteq Storage31 \cup Opcode19
      BY ZenonT(60) DEF X, Rows, Book, MemorySynchronization, Storage31, Opcode19
<1>8. FloatingPointLoadsAndStores \subseteq OnImmediates \cup Storage31 \cup FloatingPoint
      <2> DEFINE moves == Rows("X", <<"t", "b", "rc">>, 63, [fmr |-> 72, fabs |-> 264, fneg |-> 40,
                                                             fnabs |-> 136])
      <2>1. moves \in FloatingPoint
            BY ZenonT(60) DEF Rows, Book, FloatingPoint
      <2>2. FloatingPointLoadsAndStores \subseteq OnImmediates \cup Storage31 \cup {moves}
            BY ZenonT(60) DEF D, X, Rows, Single, Book, FloatingPointLoadsAndStores, OnImmediates, Storage31
      <2> QED BY <2>1, <2>2
<1>9. ConditionRegister \subseteq Opcode19
      BY ZenonT(60) DEF Rows, Book, ConditionRegister, Opcode19
<1>10. Traps \subseteq OnImmediates \cup Logic31
      BY ZenonT(60) DEF D, X, Rows, Single, Book, Traps, OnImmediates, Logic31
<1>11. SpecialRegisters \subseteq System31
      BY ZenonT(60) DEF X, Rows, Book, SpecialRegisters, System31
<1>12. CacheManagement \subseteq Storage31
      BY ZenonT(60) DEF X, Rows, Book, CacheManagement, Storage31
<1>13. SegmentRegisters \subseteq System31
      BY ZenonT(60) DEF X, Rows, Book, SegmentRegisters, System31
<1>14. TlbAndExternalControl \subseteq System31 \cup Storage31
      BY ZenonT(60) DEF X, Rows, Book, TlbAndExternalControl, System31, Storage31
<1>15. StandardExtensions \subseteq FloatingPoint \cup Storage31 \cup System31
      <2> DEFINE fres == Rows("A", <<"t", "b", "rc">>, 59, [fres |-> 24])
                 frsqrte == Rows("A", <<"t", "b", "rc">>, 63, [frsqrte |-> 26])
                 fsel == Rows("A", <<"t", "a", "c", "b", "rc">>, 63, [fsel |-> 23])
      <2>1. fres \in FloatingPoint /\ frsqrte \in FloatingPoint /\ fsel \in FloatingPoint
            BY ZenonT(60) DEF Rows, Book, FloatingPoint
      <2>2. StandardExtensions \subseteq {fres, frsqrte, fsel} \cup Storage31 \cup System31
            BY ZenonT(60) DEF X, Rows, Book, StandardExtensions, Storage31, System31
      <2> QED BY <2>1, <2>2
<1>16. PairedSingles \subseteq Pairs
      BY ZenonT(60) DEF Rows, Single, Book, PairedSingles, Pairs
<1> QED BY <1>1, <1>2, <1>3, <1>4, <1>5, <1>6, <1>7, <1>8, <1>9, <1>10, <1>11, <1>12, <1>13,
           <1>14, <1>15, <1>16 DEF Groups, Books

LEMMA RowsOfManual ==
    ASSUME NEW rows \in Groups, NEW m \in DOMAIN rows
    PROVE  m \in DOMAIN Manual /\ Manual[m] = rows[m]
<1>1. rows \in Books
      BY GroupsAreBooks
<1>2. m \in DOMAIN Manual
      BY <1>1, Zenon DEF Manual
<1> QED BY <1>1, <1>2, ManualAssumption, Zenon

LEMMA RowIs ==
    ASSUME NEW rows \in Groups, NEW m \in DOMAIN rows
    PROVE  m \in DOMAIN Table /\ Table[m] = rows[m]
<1> DEFINE first == CHOOSE r \in Groups : m \in DOMAIN r
<1>1. m \in DOMAIN Table /\ Table[m] = first[m]
      BY Zenon DEF Table
<1>2. first \in Groups /\ m \in DOMAIN first
      BY Zenon
<1> HIDE DEF first
<1>3. Manual[m] = first[m] /\ Manual[m] = rows[m]
      BY <1>2, RowsOfManual, Zenon
<1> QED BY <1>1, <1>3, Zenon

LEMMA TableIsManual == \A m \in DOMAIN Table : m \in DOMAIN Manual /\ Table[m] = Manual[m]
<1> SUFFICES ASSUME NEW m \in DOMAIN Table
             PROVE  m \in DOMAIN Manual /\ Table[m] = Manual[m]
    OBVIOUS
<1>1. PICK rows \in Groups : m \in DOMAIN rows
      BY Zenon DEF Table
<1> QED BY <1>1, RowIs, RowsOfManual, Zenon

LEMMA ManualIsSound == \A m \in DOMAIN Manual : Sound(Manual[m])
BY ManualAssumption, Zenon

LEMMA RowsAreSound == \A m \in DOMAIN Table : Sound(Table[m])
BY TableIsManual, ManualIsSound, Zenon

----------------------------------------------------------------------------
(* Operands and the fields they go to *)

\* The parameters there are.
LEMMA Parameters ==
    DOMAIN Operand = {"t", "a", "b", "c", "e", "d", "u", "d12", "rc", "w", "i", "crt", "cra", "sr",
                      "spr", "crm", "fm", "imm4"}
BY DEF Operand

\* An operand is a number of what the parameter takes.
LEMMA Operands5 == \A p \in {"t", "a", "b", "c", "e"} : \A x \in Operand[p] : Fitted(x, 5)
<1>1. /\ Operand["t"] = 0 .. 31 /\ Operand["a"] = 0 .. 31 /\ Operand["b"] = 0 .. 31
      /\ Operand["c"] = 0 .. 31 /\ Operand["e"] = 0 .. 31
      BY DEF Operand
<1> QED BY <1>1, SMT DEF Fitted

LEMMA OperandsD ==
    /\ \A x \in Operand["d"] : x \in Int /\ -(2^15) <= x /\ x < 2^15
    /\ \A x \in Operand["u"] : x \in Int /\ 0 <= x /\ x < 2^16
    /\ \A x \in Operand["d12"] : x \in Int /\ -(2^11) <= x /\ x < 2^11
<1>1. /\ Operand["d"] = -(2^15) .. 2^15 - 1 /\ Operand["u"] = 0 .. 2^16 - 1
      /\ Operand["d12"] = -(2^11) .. 2^11 - 1
      BY DEF Operand
<1>2. \A x \in -(2^15) .. 2^15 - 1 : x \in Int /\ -(2^15) <= x /\ x < 2^15
      BY SMT
<1>3. \A x \in 0 .. 2^16 - 1 : x \in Int /\ 0 <= x /\ x < 2^16
      BY SMT
<1>4. \A x \in -(2^11) .. 2^11 - 1 : x \in Int /\ -(2^11) <= x /\ x < 2^11
      BY SMT
<1> QED BY <1>1, <1>2, <1>3, <1>4, Zenon

LEMMA OperandsC ==
    /\ \A p \in {"crt", "cra"} : \A x \in Operand[p] : Fitted(x, 3)
    /\ \A x \in Operand["sr"] : Fitted(x, 4) /\ Fitted(x, 5)
<1>1. Operand["crt"] = 0 .. 7 /\ Operand["cra"] = 0 .. 7 /\ Operand["sr"] = 0 .. 15
      BY DEF Operand
<1> QED BY <1>1, SMT DEF Fitted

LEMMA OperandsOther ==
    /\ \A p \in {"rc", "w"} : \A x \in Operand[p] : Fitted(x, 1)
    /\ \A x \in Operand["i"] : Fitted(x, 3)
    /\ \A x \in Operand["imm4"] : Fitted(x, 4)
    /\ \A x \in Operand["spr"] : Fitted(x, 10)
    /\ \A p \in {"crm", "fm"} : \A x \in Operand[p] : Fitted(x, 8)
<1>1. /\ Operand["rc"] = 0 .. 1 /\ Operand["w"] = 0 .. 1 /\ Operand["i"] = 0 .. 7 
      /\ Operand["imm4"] = 0 .. 15 /\ Operand["spr"] = 0 .. 1023 /\ Operand["crm"] = 0 .. 255
      /\ Operand["fm"] = 0 .. 255
      BY DEF Operand
<1> QED BY <1>1, SMT DEF Fitted

\* Where a parameter goes, and what is done to its operand on the way.
LEMMA PlaceOfParameter ==
    /\ \A p \in {"t", "a", "b", "c", "e", "d", "rc", "w", "i", "spr", "crm", "fm", "imm4"} : Place(p) = p
    /\ Place("u") = "d" /\ Place("d12") = "d" /\ Place("crt") = "t"
    /\ Place("cra") = "a" /\ Place("sr") = "a"
BY DEF Place

LEMMA ConvertedParameter ==
    /\ \A p \in DOMAIN Operand \ {"crt", "cra", "sr"} : \A x : Converted(p, x) = x
    /\ \A p \in {"crt", "cra"} : \A x \in Operand[p] : Converted(p, x) = x * 4
    /\ \A x \in Operand["sr"] : Converted("sr", x) = x
<1>1. \A p \in DOMAIN Operand \ {"crt", "cra", "sr"} : \A x : Converted(p, x) = x
      BY DEF Converted
<1>2. ASSUME NEW p \in {"crt", "cra"}, NEW x \in Operand[p]
      PROVE  Converted(p, x) = x * 4
      <2>1. Converted(p, x) = cr_field(x)
            BY DEF Converted
      <2>2. Low(x, 3) = x
            BY OperandsC, NotCut, Zenon
      <2> QED BY <2>1, <2>2, Zenon DEF cr_field
<1>3. ASSUME NEW x \in Operand["sr"]
      PROVE  Converted("sr", x) = x
      <2>1. Low(x, 4) = x
            BY OperandsC, NotCut, Zenon
      <2> QED BY <2>1 DEF Converted
<1> QED BY <1>1, <1>2, <1>3, Zenon

\* What a field has to hold, whatever the instruction.
Fits(fld, x) ==
    /\ fld \in {"t", "a", "b", "c", "e"} => Fitted(x, 5)
    /\ fld \in {"crm", "fm"} => Fitted(x, 8)
    /\ fld \in {"w", "rc"} => Fitted(x, 1)
    /\ fld = "i" => Fitted(x, 3)
    /\ fld = "imm4" => Fitted(x, 4)
    /\ fld = "spr" => Fitted(x, 10)
    /\ fld = "d" => x \in Int

LEMMA ZeroFits == \A fld : Fits(fld, 0)
<1>1. Fitted(0, 5) /\ Fitted(0, 8) /\ Fitted(0, 1) /\ Fitted(0, 3) /\ Fitted(0, 4) /\ Fitted(0, 10)
      BY SMT DEF Fitted
<1> QED BY <1>1 DEF Fits

\* What a parameter takes fits the field it goes to.
LEMMA OperandFits ==
    ASSUME NEW p \in DOMAIN Operand, NEW x \in Operand[p]
    PROVE  Fits(Place(p), Converted(p, x))
<1>1. CASE p \in {"t", "a", "b", "c", "e"}
      <2>1. Fitted(x, 5)
            BY <1>1, Operands5, Zenon
      <2>2. Place(p) = p /\ Converted(p, x) = x
            BY <1>1, PlaceOfParameter, ConvertedParameter
      <2> QED BY <1>1, <2>1, <2>2 DEF Fits
<1>2. CASE p \in {"d", "u", "d12"}
      <2>1. x \in Int
            BY <1>2, OperandsD, Zenon
      <2>2. Place(p) = "d" /\ Converted(p, x) = x
            BY <1>2, PlaceOfParameter, ConvertedParameter
      <2> QED BY <2>1, <2>2 DEF Fits
<1>3. CASE p \in {"crt", "cra"}
      <2>1. Fitted(x, 3)
            BY <1>3, OperandsC, Zenon
      <2>2. Fitted(x * 4, 5)
            BY <2>1, SMT DEF Fitted
      <2>3. Converted(p, x) = x * 4 /\ Place(p) \in {"t", "a"}
            BY <1>3, PlaceOfParameter, ConvertedParameter, Zenon
      <2> QED BY <2>2, <2>3 DEF Fits
<1>4. CASE p = "sr"
      <2>1. Fitted(x, 5)
            BY <1>4, OperandsC, Zenon
      <2>2. Place(p) = "a" /\ Converted(p, x) = x
            BY <1>4, PlaceOfParameter, ConvertedParameter
      <2> QED BY <2>1, <2>2 DEF Fits
<1>5. CASE p \in {"rc", "w", "i", "spr", "crm", "fm", "imm4"}
      <2>1. /\ p \in {"rc", "w"} => Fitted(x, 1)
            /\ p = "i" => Fitted(x, 3)
            /\ p = "imm4" => Fitted(x, 4)
            /\ p = "spr" => Fitted(x, 10)
            /\ p \in {"crm", "fm"} => Fitted(x, 8)
            BY OperandsOther, Zenon
      <2>2. Place(p) = p /\ Converted(p, x) = x
            BY <1>5, PlaceOfParameter, ConvertedParameter
      <2> QED BY <1>5, <2>1, <2>2 DEF Fits
<1> QED BY <1>1, <1>2, <1>3, <1>4, <1>5, Parameters

----------------------------------------------------------------------------
LEMMA FieldNamesAre == \A p \in DOMAIN Operand : Place(p) \in FieldNames
<1>1. \A p \in DOMAIN Operand : Place(p) \in {"t", "a", "b", "c", "e", "d", "rc", "w", "i", "spr",
                                                "crm", "fm", "imm4"}
      BY Parameters, PlaceOfParameter
<1> QED BY <1>1 DEF FieldNames

LEMMA ParameterKinds ==
    \A m \in DOMAIN Table : \A i \in DOMAIN Table[m].params : Table[m].params[i] \in DOMAIN Operand
<1> SUFFICES ASSUME NEW m \in DOMAIN Table, NEW i \in DOMAIN Table[m].params
             PROVE  Table[m].params[i] \in DOMAIN Operand
    OBVIOUS
<1>1. Table[m].params \in Seq(DOMAIN Operand)
      BY RowsAreSound, Zenon DEF Sound
<1> QED BY <1>1

\* A row's parameters, each with a field of its own.
LEMMA ParametersOf ==
    ASSUME NEW m, NEW args, Suits(m, args), NEW i \in DOMAIN Table[m].params
    PROVE  Table[m].params[i] \in DOMAIN Operand /\ args[i] \in Operand[Table[m].params[i]]
BY ParameterKinds, Zenon DEF Suits

\* Each parameter has a field to itself, and what nothing is given for is zero.
LEMMA FieldsGiven ==
    ASSUME NEW m \in DOMAIN Table, NEW args
    PROVE  LET row == Table[m]  f == FieldsOf(m, args)
           IN  /\ \A i \in DOMAIN row.params : f[Place(row.params[i])] = Converted(row.params[i], args[i])
               /\ \A fld \in FieldNames \ Open(row) : f[fld] = 0
<1> DEFINE params == Table[m].params
           f == FieldsOf(m, args)
           At(fld) == CHOOSE i \in DOMAIN params : Place(params[i]) = fld
<1>1. \A fld \in FieldNames :
          f[fld] = IF \E i \in DOMAIN params : Place(params[i]) = fld
                   THEN Converted(params[At(fld)], args[At(fld)]) ELSE 0
      BY Zenon DEF FieldsOf, FieldOf, Place
<1>2. ASSUME NEW i \in DOMAIN params
      PROVE  f[Place(params[i])] = Converted(params[i], args[i])
      <2> DEFINE fld == Place(params[i])
      <2>1. fld \in FieldNames
            BY ParameterKinds, FieldNamesAre, Zenon
      <2>2. At(fld) \in DOMAIN params /\ Place(params[At(fld)]) = fld
            OBVIOUS
      <2>3. Sound(Table[m])
            BY RowsAreSound, Zenon
      <2>4. At(fld) = i
            BY <2>2, <2>3, Zenon DEF Sound
      <2>5. f[fld] = Converted(params[At(fld)], args[At(fld)])
            <3> HIDE DEF f, At
            <3> QED BY <1>1, <2>1, Zenon
      <2> HIDE DEF f, At
      <2> QED BY <2>4, <2>5, Zenon
<1>3. ASSUME NEW fld \in FieldNames \ Open(Table[m])
      PROVE  f[fld] = 0
      <2>1. ~ \E i \in DOMAIN params : Place(params[i]) = fld
            BY Zenon DEF Open
      <2> HIDE DEF f, At
      <2> QED BY <1>1, <2>1, Zenon
<1> QED BY <1>2, <1>3, Zenon

\* With suitable operands every field is given a value of its size.
LEMMA EachFits ==
    ASSUME NEW m, NEW args, Suits(m, args), NEW fld \in FieldNames
    PROVE  Fits(fld, FieldsOf(m, args)[fld])
<1> DEFINE f == FieldsOf(m, args)
           params == Table[m].params
<1>1. CASE fld \in Open(Table[m])
      <2>1. PICK i \in DOMAIN params : Place(params[i]) = fld
            BY <1>1, Zenon DEF Open
      <2>2. f[Place(params[i])] = Converted(params[i], args[i])
            BY FieldsGiven, Zenon DEF Suits
      <2>3. Fits(Place(params[i]), Converted(params[i], args[i]))
            BY ParametersOf, OperandFits, Zenon
      <2> QED BY <2>1, <2>2, <2>3, Zenon
<1>2. CASE fld \notin Open(Table[m])
      <2>1. f[fld] = 0
            BY <1>2, FieldsGiven, Zenon DEF Suits
      <2> QED BY <2>1, ZeroFits, Zenon
<1> QED BY <1>1, <1>2, Zenon

LEMMA AllFit ==
    ASSUME NEW m, NEW args, Suits(m, args)
    PROVE  FieldsFit(Table[m], FieldsOf(m, args))
<1> DEFINE f == FieldsOf(m, args)
           row == Table[m]
<1>1. Sound(row)
      BY RowsAreSound, Zenon DEF Suits
<1>2. \A fld \in FieldNames : Fits(fld, f[fld])
      BY EachFits, Zenon
<1>3. \A fld \in FieldNames \ Open(row) : f[fld] = 0
      BY FieldsGiven, Zenon DEF Suits
<1> HIDE DEF f, row
<1>4. /\ \A fld \in {"t", "a", "b", "c", "e"} : Fitted(f[fld], 5)
      /\ Fitted(f.crm, 8) /\ Fitted(f.fm, 8) /\ Fitted(f.w, 1) /\ Fitted(f.i, 3) /\ Fitted(f.imm4, 4)
      /\ Fitted(f.spr, 10) /\ f.d \in Int /\ Fitted(f.rc, 1)
      BY <1>2 DEF Fits, FieldNames
<1>5. /\ Fitted(f.rc + row.rc, 1)
      /\ row.form \in {"XFX_spr", "XFX_crm", "XW"} => f.rc + row.rc = 0
      <2>1. row.rc \in {0, 1} /\ (row.rc = 1 => f.rc = 0)
            BY <1>1, <1>3 DEF Sound, FieldNames
      <2>2. row.form \in {"XFX_spr", "XFX_crm", "XW"} => row.rc = 0 /\ f.rc = 0
            BY <1>1, <1>3 DEF Sound, FieldNames
      <2> QED BY <1>4, <2>1, <2>2, SMT DEF Fitted
<1>6. row.form = "mtfsfi" => f.a = 0
      BY <1>1, <1>3 DEF Sound, FieldNames
<1> QED BY <1>4, <1>5, <1>6, Zenon DEF FieldsFit, f, row

\* What a word made from suitable operands has in each of its fields.
LEMMA WordsAreRead ==
    ASSUME NEW m, NEW args, Suits(m, args)
    PROVE  Sound(Table[m]) /\ Readable(Table[m], FieldsOf(m, args))
BY RowsAreSound, AllFit, RowIsRead, Zenon DEF Suits

\* A field, read again as the operand it was given.
LEMMA HeldIs ==
    ASSUME NEW row, NEW f
    PROVE  /\ \A fld \in {"t", "a", "b", "c", "e", "w", "i", "crm", "fm", "imm4"} : Held(row, f, fld) = f[fld]
           /\ Held(row, f, "xo") = row.xo
           /\ Held(row, f, "rc") = f["rc"] + row.rc
           /\ row.form = "DW" => Held(row, f, "d") = f["d"] % 2^12
           /\ row.form # "DW" => Held(row, f, "d") = f["d"] % 2^16
           /\ Held(row, f, "spr") = (f["spr"] % 32) * 32 + f["spr"] \div 32
           /\ \A fld \in {"z", "z1", "z2"} : Held(row, f, fld) = 0
<1>1. \A fld \in {"t", "a", "b", "c", "e", "w", "i", "crm", "fm", "imm4"} : Held(row, f, fld) = f[fld]
      BY DEF Held
<1>2. /\ Held(row, f, "xo") = row.xo
      /\ Held(row, f, "rc") = f["rc"] + row.rc
      /\ Held(row, f, "spr") = (f["spr"] % 32) * 32 + f["spr"] \div 32
      BY DEF Held
<1>3. \A fld \in {"z", "z1", "z2"} : Held(row, f, fld) = 0
      BY DEF Held
<1>4. Held(row, f, "d") = f["d"] % (IF row.form = "DW" THEN 2^12 ELSE 2^16)
      BY Zenon DEF Held
<1> QED BY <1>1, <1>2, <1>3, <1>4, Zenon

LEMMA HeldNumber ==
    ASSUME NEW row, NEW f
    PROVE  /\ Held(row, f, "d") = f["d"] % (IF row.form = "DW" THEN 2^12 ELSE 2^16)
           /\ Held(row, f, "spr") = (f["spr"] % 32) * 32 + f["spr"] \div 32
BY HeldIs

LEMMA ReadIs ==
    ASSUME NEW w, NEW form, NEW p, NEW x, x = Field(w, form, Place(p))
    PROVE  /\ p = "d" => Read(w, form, p) = Extends(x, 16)
           /\ p = "d12" => Read(w, form, p) = Extends(x, 12)
           /\ p = "spr" => Read(w, form, p) = (x % 32) * 32 + x \div 32
           /\ p \in {"crt", "cra"} => Read(w, form, p) = x \div 4
           /\ p \notin {"d", "d12", "spr", "crt", "cra"} => Read(w, form, p) = x
BY DEF Read

\* A number's low bits read as a signed number, and swapped halves swapped again.
LEMMA Signed16 == \A x \in Int : -(2^15) <= x /\ x < 2^15 => Extends(x % 2^16, 16) = x
<1> SUFFICES ASSUME NEW x \in Int, -32768 <= x, x < 32768
             PROVE  Extends(x % 2^16, 16) = x
    BY SMT
<1>1. x % 65536 = IF x < 0 THEN x + 65536 ELSE x
      BY SMT
<1>2. Extends(x % 2^16, 16) = IF x % 65536 >= 32768 THEN (x % 65536) - 65536 ELSE x % 65536
      BY SMT DEF Extends
<1> QED BY <1>1, <1>2, SMT

LEMMA Signed12 == \A x \in Int : -(2^11) <= x /\ x < 2^11 => Extends(x % 2^12, 12) = x
<1> SUFFICES ASSUME NEW x \in Int, -2048 <= x, x < 2048
             PROVE  Extends(x % 2^12, 12) = x
    BY SMT
<1>1. x % 4096 = IF x < 0 THEN x + 4096 ELSE x
      BY SMT
<1>2. Extends(x % 2^12, 12) = IF x % 4096 >= 2048 THEN (x % 4096) - 4096 ELSE x % 4096
      BY SMT DEF Extends
<1> QED BY <1>1, <1>2, SMT

LEMMA Unsigned16 == \A x \in Int : 0 <= x /\ x < 2^16 => x % 2^16 = x
BY SMT

LEMMA SwappedTwice ==
    ASSUME NEW x, Fitted(x, 10)
    PROVE  LET y == (x % 32) * 32 + x \div 32 IN (y % 32) * 32 + y \div 32 = x
<1> DEFINE lo == x % 32
           hi == x \div 32
           y == lo * 32 + hi
<1>1. /\ x \in Int /\ lo \in Int /\ 0 <= lo /\ lo < 32 /\ hi \in Int /\ 0 <= hi /\ hi < 32
      /\ x = hi * 32 + lo
      BY SMT DEF Fitted
<1> HIDE DEF lo, hi
<1>2. y % 32 = hi
      BY <1>1, SMT
<1>3. y \div 32 = lo
      BY <1>1, SMT
<1> QED BY <1>1, <1>2, <1>3, SMT DEF lo, hi

\* The operands come back.
LEMMA OperandsAreRead ==
    ASSUME NEW m, NEW args, Suits(m, args), NEW i \in DOMAIN Table[m].params
    PROVE  LET p == Table[m].params[i]
               form == Table[m].form
           IN  /\ Read(Encode(m, args), form, p) = args[i]
               /\ p \in {"crt", "cra"} => Field(Encode(m, args), form, Place(p)) % 4 = 0
<1> DEFINE row == Table[m]
           f == FieldsOf(m, args)
           w == Encode(m, args)
           p == row.params[i]
           x == args[i]
           y == Field(w, row.form, Place(p))
<1>1. Sound(row) /\ p \in DOMAIN Operand /\ x \in Operand[p]
      BY RowsAreSound, ParametersOf, Zenon DEF Suits
<1>2. y = Held(row, f, Place(p))
      <2>1. Place(p) \in Open(row)
            BY Zenon DEF Open
      <2>2. Open(row) \subseteq DOMAIN Layout[row.form]
            BY <1>1, Zenon DEF Sound
      <2>3. Readable(row, f)
            BY WordsAreRead, Zenon
      <2> QED BY <2>1, <2>2, <2>3, Zenon DEF Readable, Encode
<1>3. f[Place(p)] = Converted(p, x)
      BY FieldsGiven, Zenon DEF Suits
<1>4. Place(p) = "d" => (p = "d12" <=> row.form = "DW")
      BY <1>1, Zenon DEF Sound
<1>5. row.rc = 1 => Place(p) # "rc"
      <2>1. row.rc = 1 => "rc" \notin Open(row)
            BY <1>1, Zenon DEF Sound
      <2>2. Place(p) \in Open(row)
            BY Zenon DEF Open
      <2> QED BY <2>1, <2>2, Zenon
<1>6. row.rc \in {0, 1}
      BY <1>1, Zenon DEF Sound
<1> SUFFICES Read(w, row.form, p) = x /\ (p \in {"crt", "cra"} => y % 4 = 0)
    BY Zenon
<1>7. /\ p = "d" => Read(w, row.form, p) = Extends(y, 16)
      /\ p = "d12" => Read(w, row.form, p) = Extends(y, 12)
      /\ p = "spr" => Read(w, row.form, p) = (y % 32) * 32 + y \div 32
      /\ p \in {"crt", "cra"} => Read(w, row.form, p) = y \div 4
      /\ p \notin {"d", "d12", "spr", "crt", "cra"} => Read(w, row.form, p) = y
      <2> HIDE DEF w, p
      <2> QED BY ReadIs DEF y
<1> HIDE DEF row, f, w, p, x, y
<1>8. CASE p \in {"t", "a", "b", "c", "e", "w", "i", "crm", "fm", "imm4"}
      <2>1. Place(p) = p /\ Converted(p, x) = x
            BY <1>8, <1>1, PlaceOfParameter, ConvertedParameter
      <2>2. Held(row, f, p) = f[p]
            BY <1>8, HeldIs
      <2>3. y = x
            BY <1>2, <1>3, <2>1, <2>2, Zenon
      <2> QED BY <1>7, <1>8, <2>3
<1>9. CASE p = "sr"
      <2>1. Place(p) = "a" /\ Converted(p, x) = x
            BY <1>9, <1>1, PlaceOfParameter, ConvertedParameter
      <2>2. y = x
            BY <1>2, <1>3, <2>1, HeldIs
      <2> QED BY <1>7, <1>9, <2>2
<1>10. CASE p \in {"crt", "cra"}
      <2>1. Place(p) \in {"t", "a"} /\ Converted(p, x) = x * 4
            BY <1>10, <1>1, PlaceOfParameter, ConvertedParameter
      <2>2. y = x * 4
            BY <1>2, <1>3, <2>1, HeldIs
      <2>3. Fitted(x, 3)
            BY <1>1, <1>10, OperandsC, Zenon
      <2>4. y \div 4 = x /\ y % 4 = 0
            BY <2>2, <2>3, SMT DEF Fitted
      <2> QED BY <1>7, <1>10, <2>4
<1>11. CASE p = "rc"
      <2>1. Place(p) = "rc" /\ Converted(p, x) = x
            BY <1>11, <1>1, PlaceOfParameter, ConvertedParameter
      <2>2. y = x + row.rc /\ row.rc = 0
            BY <1>2, <1>3, <1>5, <1>6, <2>1, HeldIs
      <2>3. Fitted(x, 1)
            BY <1>1, <1>11, OperandsOther, Zenon
      <2>4. y = x
            BY <2>2, <2>3, SMT DEF Fitted
      <2> QED BY <1>7, <1>11, <2>4
<1>12. CASE p = "d"
      <2>1. Place(p) = "d" /\ Converted(p, x) = x
            BY <1>12, <1>1, PlaceOfParameter, ConvertedParameter
      <2>0. Held(row, f, "d") = f["d"] % 2^16
            <3>1. row.form # "DW"
                  BY <1>4, <1>12, <2>1
            <3> QED BY <3>1, HeldIs, Zenon
      <2>2. y = x % 2^16
            BY <1>2, <1>3, <2>0, <2>1, Zenon
      <2>3. Extends(y, 16) = x
            BY <1>1, <1>12, <2>2, OperandsD, Signed16, Zenon
      <2> QED BY <1>7, <1>12, <2>3
<1>13. CASE p = "u"
      <2>1. Place(p) = "d" /\ Converted(p, x) = x
            BY <1>13, <1>1, PlaceOfParameter, ConvertedParameter
      <2>0. Held(row, f, "d") = f["d"] % 2^16
            <3>1. row.form # "DW"
                  BY <1>4, <1>13, <2>1
            <3> QED BY <3>1, HeldIs, Zenon
      <2>2. y = x % 2^16
            BY <1>2, <1>3, <2>0, <2>1, Zenon
      <2>3. y = x
            BY <1>1, <1>13, <2>2, OperandsD, Unsigned16, Zenon
      <2> QED BY <1>7, <1>13, <2>3
<1>14. CASE p = "d12"
      <2>1. Place(p) = "d" /\ Converted(p, x) = x
            BY <1>14, <1>1, PlaceOfParameter, ConvertedParameter
      <2>2. y = x % 2^12
            BY <1>2, <1>3, <1>4, <1>14, <2>1, HeldNumber
      <2>3. Extends(y, 12) = x
            BY <1>1, <1>14, <2>2, OperandsD, Signed12, Zenon
      <2> QED BY <1>7, <1>14, <2>3
<1>15. CASE p = "spr"
      <2>1. Place(p) = "spr" /\ Converted(p, x) = x
            BY <1>15, <1>1, PlaceOfParameter, ConvertedParameter
      <2>2. y = (x % 32) * 32 + x \div 32
            BY <1>2, <1>3, <2>1, HeldIs, ZenonT(40)
      <2>3. Fitted(x, 10)
            BY <1>1, <1>15, OperandsOther, Zenon
      <2>4. (y % 32) * 32 + y \div 32 = x
            BY <2>2, <2>3, SwappedTwice, Zenon
      <2> QED BY <1>7, <1>15, <2>4
<1> QED BY <1>1, <1>8, <1>9, <1>10, <1>11, <1>12, <1>13, <1>14, <1>15, Parameters

Forms == {"D", "X", "XO", "A", "M", "XL", "XFX_spr", "XFX_crm", "XFL", "mtfsfi", "DW", "XW"}
\* The forms there are, and where each has its extended opcode.
LEMMA LayoutsAre ==
    ASSUME NEW form \in DOMAIN Layout
    PROVE  /\ form \in Forms
           /\ DOMAIN Layout[form] \subseteq FieldNames \cup {"xo", "z", "z1", "z2"}
           /\ form \notin {"D", "M", "DW"} => "xo" \in DOMAIN Layout[form]
           /\ form \notin {"D", "M", "DW", "A", "XW"} => Layout[form]["xo"] = <<1, 10>>
           /\ form = "A" => Layout[form]["xo"] = <<1, 5>>
           /\ form = "XW" => Layout[form]["xo"] = <<1, 6>>
<1>1. form \in Forms
      BY DEF Layout, Forms
<1>2. FieldNames \cup {"xo", "z", "z1", "z2"} =
          {"t", "a", "b", "c", "d", "e", "rc", "w", "i", "spr", "crm", "fm", "imm4", "xo", "z", "z1", "z2"}
      BY DEF FieldNames
<1>3. CASE form \in {"D", "M", "DW"}
      BY <1>1, <1>2, <1>3, DLayout, MLayout, DWLayout
<1>4. CASE form \in {"X", "XO", "XL"}
      BY <1>1, <1>2, <1>4, XLayout, XOLayout, XLLayout
<1>5. CASE form \in {"A", "XW"}
      BY <1>1, <1>2, <1>5, ALayout, XWLayout
<1>6. CASE form \in {"XFX_spr", "XFX_crm"}
      BY <1>1, <1>2, <1>6, XFX_sprLayout, XFX_crmLayout
<1>7. CASE form \in {"XFL", "mtfsfi"}
      BY <1>1, <1>2, <1>7, XFLLayout, mtfsfiLayout
<1> QED BY <1>1, <1>3, <1>4, <1>5, <1>6, <1>7 DEF Forms

\* No operand goes into the extended opcode.
LEMMA NoParameterIsXo == \A row : Sound(row) => "xo" \notin Open(row)
<1> SUFFICES ASSUME NEW row, Sound(row), NEW i \in DOMAIN row.params
             PROVE  Place(row.params[i]) # "xo"
    BY Zenon DEF Open
<1>1. row.params \in Seq(DOMAIN Operand)
      BY Zenon DEF Sound
<1>2. row.params[i] \in DOMAIN Operand
      BY <1>1
<1>3. Place(row.params[i]) \in FieldNames
      BY <1>2, FieldNamesAre, Zenon
<1> QED BY <1>3 DEF FieldNames

\* The word of a mnemonic is an instruction of that mnemonic.
LEMMA WordIsItself ==
    ASSUME NEW m, NEW args, Suits(m, args)
    PROVE  IsInstruction(Encode(m, args), m)
<1> DEFINE row == Table[m]
           f == FieldsOf(m, args)
           w == Encode(m, args)
<1>1. Sound(row) /\ Readable(row, f)
      BY WordsAreRead, Zenon
<1>2. ASSUME NEW fld \in DOMAIN Layout[row.form] \ Open(row)
      PROVE  Field(w, row.form, fld) = (CASE fld = "xo" -> row.xo [] fld = "rc" -> row.rc [] OTHER -> 0)
      <2>1. Field(w, row.form, fld) = Held(row, f, fld)
            BY <1>1, Zenon DEF Readable, Encode
      <2>2. fld \in FieldNames \cup {"xo", "z", "z1", "z2"}
            <3>1. row.form \in DOMAIN Layout
                  BY <1>1, Zenon DEF Sound
            <3> QED BY <3>1, LayoutsAre, Zenon
      <2>3. fld \in FieldNames => f[fld] = 0
            BY FieldsGiven, Zenon DEF Suits
      <2>4. row.rc \in {0, 1}
            BY <1>1, Zenon DEF Sound
      <2> HIDE DEF w, f, row
      <2>5. CASE fld = "xo"
            BY <2>1, <2>5, HeldIs
      <2>6. CASE fld = "rc"
            <3>1. f["rc"] = 0
                  BY <2>3, <2>6 DEF FieldNames
            <3>2. Held(row, f, "rc") = 0 + row.rc
                  BY <3>1, HeldIs, Zenon
            <3>3. 0 + row.rc = row.rc
                  BY <2>4
            <3> QED BY <2>1, <2>6, <3>2, <3>3
      <2>7. CASE fld \in {"z", "z1", "z2"}
            BY <2>1, <2>7, HeldIs
      <2>8. CASE fld = "d"
            <3>1. f["d"] = 0
                  BY <2>3, <2>8 DEF FieldNames
            <3>2. 0 % 2^12 = 0 /\ 0 % 2^16 = 0
                  BY SMT
            <3>3. Held(row, f, "d") = 0
                  BY <3>1, <3>2, HeldNumber
            <3> QED BY <2>1, <2>8, <3>3
      <2>9. CASE fld = "spr"
            <3>1. f["spr"] = 0
                  BY <2>3, <2>9 DEF FieldNames
            <3>2. (0 % 32) * 32 + 0 \div 32 = 0
                  BY SMT
            <3>3. Held(row, f, "spr") = 0
                  BY <3>1, <3>2, HeldNumber
            <3> QED BY <2>1, <2>9, <3>3
      <2>10. CASE fld \in {"t", "a", "b", "c", "e", "w", "i", "crm", "fm", "imm4"}
            <3>1. Held(row, f, fld) = f[fld]
                  BY <2>10, HeldIs
            <3>2. f[fld] = 0
                  BY <2>3, <2>10 DEF FieldNames
            <3> QED BY <2>1, <2>10, <3>1, <3>2
      <2> QED BY <2>2, <2>5, <2>6, <2>7, <2>8, <2>9, <2>10 DEF FieldNames
<1>3. ASSUME NEW i \in DOMAIN row.params, row.params[i] \in {"crt", "cra"}
      PROVE  Field(w, row.form, Place(row.params[i])) % 4 = 0
      BY <1>3, OperandsAreRead, Zenon
<1>4. row = Manual[m]
      BY TableIsManual, Zenon DEF Suits
<1> HIDE DEF row, w, f
<1> QED BY <1>2, <1>3, <1>4, Zenon DEF IsInstruction, w

\* The sizes of an extended opcode: each divides the next.
Divides(n) == n \in {1, 32, 64, 1024}

\* What a word has of the extended opcode of what it is.
LEMMA XoIsSeen ==
    ASSUME NEW w, w[2] \in Int, NEW m \in DOMAIN Manual, IsInstruction(w, m)
    PROVE  LET n == XoSize(Manual[m].form)
           IN  Divides(n) /\ Manual[m].xo \in Int /\ (w[2] \div 2) % n = Manual[m].xo % n
<1> DEFINE row == Manual[m]
           n == XoSize(row.form)
           k == Layout[row.form]["xo"]
<1>1. Sound(row)
      BY ManualIsSound, Zenon
<1>2. /\ row.form \in {"D", "M", "DW"} => n = 1
      /\ row.form = "A" => n = 32
      /\ row.form = "XW" => n = 64
      /\ row.form \notin {"D", "M", "DW", "A", "XW"} => n = 1024
      BY DEF XoSize
<1>3. row.xo \in 0 .. n - 1 /\ row.form \in DOMAIN Layout
      BY <1>1, Zenon DEF Sound
<1>4. Divides(n)
      BY <1>2 DEF Divides
<1> HIDE DEF n
<1>5. row.xo \in Int /\ row.xo % n = row.xo
      BY <1>3, <1>4, SMT DEF Divides
<1>6. CASE row.form \in {"D", "M", "DW"}
      <2>1. n = 1 /\ row.xo = 0
            BY <1>2, <1>3, <1>6
      <2>2. (w[2] \div 2) % n = 0
            BY <2>1, SMT
      <2> QED BY <1>4, <1>5, <2>1, <2>2, SMT DEF n, Divides
<1>7. CASE row.form \notin {"D", "M", "DW"}
      <2>1. "xo" \in DOMAIN Layout[row.form] \ Open(row)
            BY <1>1, <1>3, <1>7, LayoutsAre, NoParameterIsXo, Zenon
      <2>2. Field(w, row.form, "xo") = row.xo
            <3>1. Field(w, row.form, "xo") =
                      (CASE "xo" = "xo" -> row.xo [] "xo" = "rc" -> row.rc [] OTHER -> 0)
                  BY <2>1, Zenon DEF IsInstruction, Open
            <3> QED BY <3>1
      <2>3. Bits(w, k[1], k[2]) = row.xo
            BY <2>2, Zenon DEF Field
      <2>4. k[1] = 1 /\ 2^k[2] = n
            <3>1. /\ row.form \notin {"A", "XW"} => k = <<1, 10>>
                  /\ row.form = "A" => k = <<1, 5>>
                  /\ row.form = "XW" => k = <<1, 6>>
                  BY <1>3, <1>7, LayoutsAre
            <3>2. 2^10 = 1024 /\ 2^5 = 32 /\ 2^6 = 64
                  BY SMT
            <3> HIDE DEF k
            <3>3. CASE row.form = "A"
                  <4>1. k[1] = 1 /\ k[2] = 5 /\ n = 32
                        BY <1>2, <3>1, <3>3
                  <4>2. 2^k[2] = 2^5
                        BY <4>1, Zenon
                  <4> QED BY <3>2, <4>1, <4>2, SMT
            <3>4. CASE row.form = "XW"
                  <4>1. k[1] = 1 /\ k[2] = 6 /\ n = 64
                        BY <1>2, <3>1, <3>4
                  <4>2. 2^k[2] = 2^6
                        BY <4>1, Zenon
                  <4> QED BY <3>2, <4>1, <4>2, SMT
            <3>5. CASE row.form \notin {"A", "XW"}
                  <4>1. k[1] = 1 /\ k[2] = 10 /\ n = 1024
                        BY <1>2, <1>7, <3>1, <3>5
                  <4>2. 2^k[2] = 2^10
                        BY <4>1, Zenon
                  <4> QED BY <3>2, <4>1, <4>2, SMT
            <3> QED BY <3>3, <3>4, <3>5
      <2>5. (w[2] \div 2^1) % n = row.xo
            <3> HIDE DEF row, k
            <3> QED BY <2>3, <2>4, Zenon DEF Bits
      <2>6. 2^1 = 2
            BY SMT
      <2> QED BY <1>4, <1>5, <2>5, <2>6, Zenon DEF n
<1> QED BY <1>6, <1>7

\* The low bits of the low bits are the low bits.
LEMMA SmallerModulus ==
    ASSUME NEW x \in Int, NEW n, NEW k, Divides(n), Divides(k), k <= n
    PROVE  (x % n) % k = x % k
<1> DEFINE q == x \div n
           r == x % n
<1>1. x = q * n + r /\ q \in Int /\ r \in Int /\ 0 <= r /\ r < n
      BY SMT DEF Divides
<1> HIDE DEF q, r
<1> QED BY <1>1, SMT DEF r, Divides

\* No word is two instructions.
LEMMA OneInstruction ==
    ASSUME NEW w, w[2] \in Int, NEW m \in DOMAIN Manual, NEW o \in DOMAIN Manual,
           IsInstruction(w, m), IsInstruction(w, o), Manual[m].op = Manual[o].op
    PROVE  m = o
<1> SUFFICES ASSUME m # o PROVE FALSE
    OBVIOUS
<1> DEFINE n == XoSize(Manual[m].form)
           k == XoSize(Manual[o].form)
           size == IF n < k THEN n ELSE k
           x == w[2] \div 2
<1>1. x \in Int
      BY SMT
<1>2. /\ Divides(n) /\ Manual[m].xo \in Int /\ x % n = Manual[m].xo % n
      /\ Divides(k) /\ Manual[o].xo \in Int /\ x % k = Manual[o].xo % k
      <2>1. Divides(n) /\ Manual[m].xo \in Int /\ x % n = Manual[m].xo % n
            BY XoIsSeen, Zenon
      <2>2. Divides(k) /\ Manual[o].xo \in Int /\ x % k = Manual[o].xo % k
            BY XoIsSeen, Zenon
      <2> QED BY <2>1, <2>2, Zenon
<1>3. ToldApart(Manual[m], Manual[o])
      BY ManualAssumption, Zenon
<1>4. Manual[m].xo % size # Manual[o].xo % size
      BY <1>3, Zenon DEF ToldApart
<1> HIDE DEF n, k, x
<1>5. Divides(size) /\ size <= n /\ size <= k
      BY <1>2, SMT DEF Divides
<1> HIDE DEF size
<1>6. (x % n) % size = x % size /\ (x % k) % size = x % size
      <2>1. (x % n) % size = x % size
            BY <1>1, <1>2, <1>5, SmallerModulus
      <2>2. (x % k) % size = x % size
            BY <1>1, <1>2, <1>5, SmallerModulus
      <2> QED BY <2>1, <2>2, Zenon
<1>7. /\ (Manual[m].xo % n) % size = Manual[m].xo % size
      /\ (Manual[o].xo % k) % size = Manual[o].xo % size
      <2>1. (Manual[m].xo % n) % size = Manual[m].xo % size
            BY <1>2, <1>5, SmallerModulus
      <2>2. (Manual[o].xo % k) % size = Manual[o].xo % size
            BY <1>2, <1>5, SmallerModulus
      <2> QED BY <2>1, <2>2, Zenon
<1> QED BY <1>2, <1>4, <1>6, <1>7, Zenon

\* The processor reads what was assembled, and nothing else, with its operands.
LEMMA ReadsBack ==
    ASSUME NEW m, NEW args, Suits(m, args)
    PROVE  /\ Instructions(Encode(m, args)) = {m}
           /\ Operands(Encode(m, args), m) = args
<1> DEFINE row == Table[m]
           w == Encode(m, args)
<1>1. m \in DOMAIN Table
      BY Zenon DEF Suits
<1>2. Sound(row) /\ w[1] = row.op /\ w[2] \in Int
      BY WordsAreRead, Zenon DEF Readable, Encode
<1>3. row.op \in 0 .. 63
      BY <1>2, Zenon DEF Sound
<1>0. m \in DOMAIN Manual /\ row = Manual[m]
      BY <1>1, TableIsManual, Zenon
<1>4. OfOpcode[row.op] = {o \in DOMAIN Manual : Manual[o].op = row.op}
      BY <1>3, Zenon DEF OfOpcode
<1>5. Instructions(w) = {o \in DOMAIN Manual : Manual[o].op = row.op /\ IsInstruction(w, o)}
      BY <1>2, <1>4, Zenon DEF Instructions
<1>6. IsInstruction(w, m)
      BY WordIsItself, Zenon
<1>7. \A o \in DOMAIN Manual : Manual[o].op = row.op /\ IsInstruction(w, o) => o = m
      BY <1>0, <1>2, <1>6, OneInstruction, Zenon
<1>8. Instructions(w) = {m}
      <2> HIDE DEF w, row
      <2> QED BY <1>0, <1>5, <1>6, <1>7, Zenon
<1>9. Operands(w, m) = args
      <2>1. row.params \in Seq(DOMAIN Operand)
            BY <1>2, Zenon DEF Sound
      <2>2. DOMAIN row.params = 1 .. Len(row.params)
            BY <2>1, LenProperties, Zenon
      <2>3. args = [i \in 1 .. Len(row.params) |-> args[i]]
            <3>1. args \in Seq(Int) /\ Len(args) = Len(row.params)
                  BY Zenon DEF Suits
            <3> HIDE DEF row
            <3> QED BY <3>1
      <2>4. \A i \in DOMAIN row.params : Read(w, row.form, row.params[i]) = args[i]
            BY OperandsAreRead, Zenon
      <2>5. Operands(w, m) = [i \in DOMAIN row.params |-> Read(w, row.form, row.params[i])]
            <3> HIDE DEF w, row
            <3> QED BY <1>0, Zenon DEF Operands
      <2>6. Operands(w, m) = [i \in DOMAIN row.params |-> args[i]]
            <3> HIDE DEF w, row
            <3> QED BY <2>4, <2>5, Zenon
      <2> QED BY <2>2, <2>3, <2>6, Zenon
<1> QED BY <1>8, <1>9, Zenon

----------------------------------------------------------------------------
(* The rows the shorthands use *)

\* A mnemonic of a group has the row it has there.
LEMMA RotationRows ==
    \A m \in {"rlwinm", "rlwnm", "rlwimi"} :
        /\ m \in DOMAIN Table /\ Table[m].form = "M" /\ Table[m].rc = 0
        /\ Table[m].params = <<"a", "t", "b", "c", "e", "rc">>
<1> DEFINE rows == M(<<"a", "t", "b", "c", "e", "rc">>, [rlwinm |-> 21, rlwnm |-> 23, rlwimi |-> 20])
<1>1. rows \in Groups
      BY DEF Groups, IntegerRotateAndShift
<1>2. DOMAIN rows = {"rlwinm", "rlwnm", "rlwimi"}
      BY DEF M
<1>3. \A m \in DOMAIN rows : rows[m].form = "M" /\ rows[m].rc = 0 /\
                             rows[m].params = <<"a", "t", "b", "c", "e", "rc">>
      BY DEF M
<1> HIDE DEF rows
<1> QED BY <1>1, <1>2, <1>3, RowIs, Zenon

LEMMA AddRows ==
    \A m \in {"addi", "addis", "addic", "addic_dot"} :
        m \in DOMAIN Table /\ Table[m].form = "D" /\ Table[m].params = <<"t", "a", "d">>
<1> DEFINE rows == D(<<"t", "a", "d">>, [addi |-> 14, addis |-> 15, addic |-> 12, addic_dot |-> 13,
                                         subfic |-> 8, mulli |-> 7])
<1>1. rows \in Groups
      BY DEF Groups, IntegerArithmetic
<1>2. DOMAIN rows = {"addi", "addis", "addic", "addic_dot", "subfic", "mulli"}
      BY DEF D
<1>3. \A m \in DOMAIN rows : rows[m].form = "D" /\ rows[m].params = <<"t", "a", "d">>
      BY DEF D
<1> HIDE DEF rows
<1> QED BY <1>1, <1>2, <1>3, RowIs, Zenon

LEMMA SubtractionRows ==
    \A m \in {"subf", "subfo", "subfc", "subfco"} :
        m \in DOMAIN Table /\ Table[m].form = "XO" /\ Table[m].params = <<"t", "a", "b", "rc">>
<1> DEFINE rows == Rows("XO", <<"t", "a", "b", "rc">>, 31,
                        [add |-> 266, addo |-> OE + 266, addc |-> 10, addco |-> OE + 10, subfc |-> 8,
                         subfco |-> OE + 8, adde |-> 138, addeo |-> OE + 138, subfe |-> 136,
                         subfeo |-> OE + 136, subf |-> 40, subfo |-> OE + 40, mullw |-> 235,
                         mullwo |-> OE + 235, mulhw |-> 75, mulhwu |-> 11, divw |-> 491,
                         divwo |-> OE + 491, divwu |-> 459, divwuo |-> OE + 459])
<1>1. rows \in Groups
      BY DEF Groups, IntegerArithmetic
<1>2. {"subf", "subfo", "subfc", "subfco"} \subseteq DOMAIN rows
      BY DEF Rows
<1>3. \A m \in DOMAIN rows : rows[m].form = "XO" /\ rows[m].params = <<"t", "a", "b", "rc">>
      BY DEF Rows
<1> HIDE DEF rows
<1> QED BY <1>1, <1>2, <1>3, RowIs, Zenon

LEMMA LogicalRows ==
    /\ \A m \in {"orr", "norr"} :
           m \in DOMAIN Table /\ Table[m].form = "X" /\ Table[m].params = <<"a", "t", "b", "rc">>
    /\ Table["orr"].op = 31 /\ Table["orr"].xo = 444 /\ Table["orr"].rc = 0
<1> DEFINE rows == X(<<"a", "t", "b", "rc">>, [andr |-> 28, xorr |-> 316, orr |-> 444, nand |-> 476,
                                               norr |-> 124, andc |-> 60, eqv |-> 284, orc |-> 412])
<1>1. rows \in Groups
      BY DEF Groups, IntegerLogical
<1>2. {"orr", "norr"} \subseteq DOMAIN rows
      BY DEF Rows, X
<1>3. \A m \in DOMAIN rows : rows[m].form = "X" /\ rows[m].params = <<"a", "t", "b", "rc">>
      BY DEF Rows, X
<1>4. rows["orr"].op = 31 /\ rows["orr"].xo = 444 /\ rows["orr"].rc = 0
      BY DEF Rows, X
<1> HIDE DEF rows
<1>5. \A m \in {"orr", "norr"} : m \in DOMAIN rows /\ m \in DOMAIN Table /\ Table[m] = rows[m]
      BY <1>1, <1>2, RowIs, Zenon
<1> QED BY <1>3, <1>4, <1>5

LEMMA SelectionRow ==
    /\ "isel" \in DOMAIN Table /\ Table["isel"].form = "A"
    /\ Table["isel"].params = <<"t", "a", "b", "c">>
<1> DEFINE rows == Rows("A", <<"t", "a", "b", "c">>, 31, [isel |-> 15])
<1>1. rows \in Groups
      BY DEF Groups, IntegerLogical
<1>2. "isel" \in DOMAIN rows /\ rows["isel"].form = "A" /\ rows["isel"].params = <<"t", "a", "b", "c">>
      BY DEF Rows
<1> HIDE DEF rows
<1> QED BY <1>1, <1>2, RowIs, Zenon

LEMMA ConditionRows ==
    \A m \in {"crxor", "cror", "crnor", "creqv"} :
        m \in DOMAIN Table /\ Table[m].form = "XL" /\ Table[m].params = <<"t", "a", "b">>
<1> DEFINE rows == Rows("XL", <<"t", "a", "b">>, 19,
                        [crand |-> 257, crxor |-> 193, cror |-> 449, crnand |-> 225, crnor |-> 33,
                         crandc |-> 129, creqv |-> 289, crorc |-> 417])
<1>1. rows \in Groups
      BY DEF Groups, ConditionRegister
<1>2. {"crxor", "cror", "crnor", "creqv"} \subseteq DOMAIN rows
      BY DEF Rows
<1>3. \A m \in DOMAIN rows : rows[m].form = "XL" /\ rows[m].params = <<"t", "a", "b">>
      BY DEF Rows
<1> HIDE DEF rows
<1> QED BY <1>1, <1>2, <1>3, RowIs, Zenon

LEMMA TrapRow ==
    /\ "tw" \in DOMAIN Table /\ Table["tw"].form = "X" /\ Table["tw"].params = <<"t", "a", "b">>
    /\ Table["tw"].op = 31 /\ Table["tw"].xo = 4 /\ Table["tw"].rc = 0
<1> DEFINE rows == X(<<"t", "a", "b">>, [tw |-> 4])
<1>1. rows \in Groups
      BY DEF Groups, Traps
<1>2. /\ "tw" \in DOMAIN rows /\ rows["tw"].form = "X" /\ rows["tw"].params = <<"t", "a", "b">>
      /\ rows["tw"].op = 31 /\ rows["tw"].xo = 4 /\ rows["tw"].rc = 0
      BY DEF Rows, X
<1> HIDE DEF rows
<1> QED BY <1>1, <1>2, RowIs, Zenon

LEMMA MoveRows ==
    /\ "mtspr" \in DOMAIN Table /\ Table["mtspr"].form = "XFX_spr" /\ Table["mtspr"].params = <<"spr", "t">>
    /\ "mfspr" \in DOMAIN Table /\ Table["mfspr"].form = "XFX_spr" /\ Table["mfspr"].params = <<"t", "spr">>
<1> DEFINE to == Rows("XFX_spr", <<"spr", "t">>, 31, [mtspr |-> 467])
           from == Rows("XFX_spr", <<"t", "spr">>, 31, [mfspr |-> 339])
<1>1. to \in Groups /\ from \in Groups
      BY DEF Groups, SpecialRegisters
<1>2. /\ "mtspr" \in DOMAIN to /\ to["mtspr"].form = "XFX_spr" /\ to["mtspr"].params = <<"spr", "t">>
      /\ "mfspr" \in DOMAIN from /\ from["mfspr"].form = "XFX_spr" /\ from["mfspr"].params = <<"t", "spr">>
      BY DEF Rows
<1> HIDE DEF to, from
<1> QED BY <1>1, <1>2, RowIs, Zenon

LEMMA CompareRows ==
    /\ /\ "cmpi" \in DOMAIN Table /\ Table["cmpi"].params = <<"a", "d", "crt">>
       /\ "cmpli" \in DOMAIN Table /\ Table["cmpli"].params = <<"a", "u", "crt">>
    /\ \A m \in {"cmp", "cmpl"} : m \in DOMAIN Table /\ Table[m].params = <<"a", "b", "crt">>
<1> DEFINE signed == D(<<"a", "d", "crt">>, [cmpi |-> 11])
           unsigned == D(<<"a", "u", "crt">>, [cmpli |-> 10])
           both == X(<<"a", "b", "crt">>, [cmp |-> 0, cmpl |-> 32])
<1>1. signed \in Groups /\ unsigned \in Groups /\ both \in Groups
      BY DEF Groups, IntegerCompare
<1>2. /\ "cmpi" \in DOMAIN signed /\ signed["cmpi"].params = <<"a", "d", "crt">>
      /\ "cmpli" \in DOMAIN unsigned /\ unsigned["cmpli"].params = <<"a", "u", "crt">>
      BY DEF D
<1>3. \A m \in {"cmp", "cmpl"} : m \in DOMAIN both /\ both[m].params = <<"a", "b", "crt">>
      BY DEF X, Rows
<1> HIDE DEF signed, unsigned, both
<1> QED BY <1>1, <1>2, <1>3, RowIs, Zenon

LEMMA RestRows ==
    /\ "ori" \in DOMAIN Table /\ Table["ori"].params = <<"a", "t", "u">>
    /\ "sync" \in DOMAIN Table /\ Table["sync"].params = <<"t">>
    /\ "mtcrf" \in DOMAIN Table /\ Table["mtcrf"].params = <<"crm", "t">>
<1> DEFINE immediate == D(<<"a", "t", "u">>, [andi |-> 28, andis |-> 29, ori |-> 24, oris |-> 25, xori |-> 26,
                                              xoris |-> 27])
           barrier == X(<<"t">>, [sync |-> 598])
           fields == Rows("XFX_crm", <<"crm", "t">>, 31, [mtcrf |-> 144])
<1>1. immediate \in Groups /\ barrier \in Groups /\ fields \in Groups
      BY DEF Groups, IntegerLogical, MemorySynchronization, SpecialRegisters
<1>2. "ori" \in DOMAIN immediate /\ immediate["ori"].params = <<"a", "t", "u">>
      BY DEF D
<1>3. "sync" \in DOMAIN barrier /\ barrier["sync"].params = <<"t">>
      BY DEF X, Rows
<1>4. "mtcrf" \in DOMAIN fields /\ fields["mtcrf"].params = <<"crm", "t">>
      BY DEF Rows
<1> HIDE DEF immediate, barrier, fields
<1> QED BY <1>1, <1>2, <1>3, <1>4, RowIs, Zenon

----------------------------------------------------------------------------
(* What is computed with the operands *)

\* The operands the shorthands are expanded to are suitable ones.
LEMMA SmallOperands ==
    /\ \A p \in {"t", "a", "b", "c", "e"} : \A x \in 0 .. 31 : x \in Operand[p]
    /\ \A x \in 0 .. 1 : x \in Operand["rc"]
    /\ \A x \in -(2^15) .. 2^15 - 1 : x \in Operand["d"]
    /\ \A x \in 0 .. 2^16 - 1 : x \in Operand["u"]
    /\ \A x \in 0 .. 1023 : x \in Operand["spr"]
    /\ \A x \in 0 .. 7 : x \in Operand["crt"]
    /\ \A x \in 0 .. 255 : x \in Operand["crm"]
<1>1. /\ Operand["t"] = 0 .. 31 /\ Operand["a"] = 0 .. 31 /\ Operand["b"] = 0 .. 31
      /\ Operand["c"] = 0 .. 31 /\ Operand["e"] = 0 .. 31 /\ Operand["rc"] = 0 .. 1
      /\ Operand["spr"] = 0 .. 1023 /\ Operand["crt"] = 0 .. 7 /\ Operand["crm"] = 0 .. 255
      BY DEF Operand
<1>2. Operand["d"] = -(2^15) .. 2^15 - 1 /\ Operand["u"] = 0 .. 2^16 - 1
      BY DEF Operand
<1>3. \A p \in {"t", "a", "b", "c", "e"} : \A x \in 0 .. 31 : x \in Operand[p]
      BY <1>1
<1>4. /\ \A x \in 0 .. 1 : x \in Operand["rc"]
      /\ \A x \in 0 .. 1023 : x \in Operand["spr"]
      /\ \A x \in 0 .. 7 : x \in Operand["crt"]
      /\ \A x \in 0 .. 255 : x \in Operand["crm"]
      BY <1>1
<1> QED BY <1>2, <1>3, <1>4, Zenon

\* A call with operands that suit it: the word is read as the mnemonic, the operands as
\* what they were, and whether it records is among them or is not to be asked for.
Called(m, params, n, args) ==
    /\ m \in DOMAIN Table /\ Table[m].params = params
    /\ n \in Nat /\ DOMAIN params = 1 .. n /\ Len(params) = n
    /\ args \in Seq(Int) /\ Len(args) = n /\ \A i \in 1 .. n : args[i] \in Operand[params[i]]
ReadAs(m, params, n, args, w) ==
    /\ Instructions(w) = {m}
    /\ \A i \in 1 .. n : Read(w, Manual[m].form, params[i]) = args[i]
    /\ "rc" \in Open(Manual[m]) <=> \E i \in 1 .. n : params[i] = "rc"
LEMMA RcIsItself == \A p \in DOMAIN Operand : Place(p) = "rc" <=> p = "rc"
<1>1. \A p \in {"t", "a", "b", "c", "e", "d", "w", "i", "spr", "crm", "fm", "imm4"} :
          Place(p) # "rc" /\ p # "rc"
      BY PlaceOfParameter
<1>2. \A p \in {"u", "d12", "crt", "cra", "sr"} : Place(p) # "rc" /\ p # "rc"
      BY PlaceOfParameter
<1>3. Place("rc") = "rc"
      BY PlaceOfParameter
<1> QED BY <1>1, <1>2, <1>3, Parameters
LEMMA CallIsRead ==
    ASSUME NEW m, NEW params, NEW n, NEW args, Called(m, params, n, args)
    PROVE  Suits(m, args) /\ ReadAs(m, params, n, args, Encode(m, args))
<1> DEFINE w == Encode(m, args)
<1>0. Called(m, params, n, args)
      OBVIOUS
<1>1. Suits(m, args)
      BY <1>0, Zenon DEF Suits, Called
<1>2. Instructions(w) = {m}
      BY <1>1, ReadsBack, Zenon
<1>3. Manual[m] = Table[m] /\ Manual[m].params = params
      BY <1>0, TableIsManual, Zenon DEF Called
<1>4. ASSUME NEW i \in 1 .. n
      PROVE  Read(w, Manual[m].form, params[i]) = args[i]
      <2>1. i \in DOMAIN Table[m].params /\ Table[m].params[i] = params[i]
            BY <1>0, Zenon DEF Called
      <2>2. Read(w, Table[m].form, Table[m].params[i]) = args[i]
            BY <1>1, <2>1, OperandsAreRead, Zenon
      <2> HIDE DEF w
      <2> QED BY <1>3, <2>1, <2>2, Zenon
<1>5. "rc" \in Open(Manual[m]) <=> \E i \in 1 .. n : params[i] = "rc"
      <2>1. \A i \in 1 .. n : params[i] \in DOMAIN Operand
            BY <1>0, ParameterKinds, Zenon DEF Called
      <2>2. "rc" \in Open(Manual[m]) <=> \E i \in 1 .. n : Place(params[i]) = "rc"
            BY <1>0, <1>3, Zenon DEF Open, Called
      <2> QED BY <2>1, <2>2, RcIsItself, Zenon
<1> QED BY <1>1, <1>2, <1>4, <1>5, Zenon DEF ReadAs

\* The instructions the shorthands come to, read field by field: the rotations, the sums,
\* the differences, the logical ones, the selection, and those on bits of the CR.
RotationArgs(m, a, t, b, c, e, rc) ==
    /\ m \in {"rlwinm", "rlwnm", "rlwimi"} /\ a \in 0 .. 31 /\ t \in 0 .. 31
    /\ b \in 0 .. 31 /\ c \in 0 .. 31 /\ e \in 0 .. 31 /\ rc \in 0 .. 1
RotationRead(m, a, t, b, c, e, rc, w) ==
    /\ Instructions(w) = {m} /\ Manual[m].form = "M"
    /\ "rc" \in Open(Manual[m]) /\ Read(w, "M", "rc") = rc
    /\ Read(w, "M", "a") = a
    /\ Read(w, "M", "t") = t
    /\ Read(w, "M", "b") = b
    /\ Read(w, "M", "c") = c
    /\ Read(w, "M", "e") = e
LEMMA RotationFields ==
    ASSUME NEW m, NEW a, NEW t, NEW b, NEW c, NEW e, NEW rc, RotationArgs(m, a, t, b, c, e, rc)
    PROVE  RotationRead(m, a, t, b, c, e, rc, Encode(m, <<a, t, b, c, e, rc>>))
<1> DEFINE args == <<a, t, b, c, e, rc>>
           params == <<"a", "t", "b", "c", "e", "rc">>
           w == Encode(m, args)
<1>0. /\ m \in {"rlwinm", "rlwnm", "rlwimi"} /\ a \in 0 .. 31 /\ t \in 0 .. 31
      /\ b \in 0 .. 31 /\ c \in 0 .. 31 /\ e \in 0 .. 31 /\ rc \in 0 .. 1
      BY Zenon DEF RotationArgs
<1>1. /\ m \in DOMAIN Table /\ Table[m].form = "M" /\ Table[m].params = params
      /\ Manual[m] = Table[m]
      BY <1>0, TableIsManual, RotationRows, Zenon
<1>2. /\ DOMAIN params = 1 .. 6 /\ Len(params) = 6 /\ args \in Seq(Int) /\ Len(args) = 6
      /\ params[1] = "a" /\ params[2] = "t" /\ params[3] = "b" /\ params[4] = "c" /\ params[5] = "e"
      /\ params[6] = "rc"
      /\ args[1] = a /\ args[2] = t /\ args[3] = b /\ args[4] = c /\ args[5] = e /\ args[6] = rc
      BY <1>0
<1>3. \A i \in 1 .. 6 : args[i] \in Operand[params[i]]
      <2>1. /\ a \in Operand["a"] /\ t \in Operand["t"] /\ b \in Operand["b"]
            /\ c \in Operand["c"] /\ e \in Operand["e"] /\ rc \in Operand["rc"]
            BY <1>0, SmallOperands, Zenon
      <2> QED BY <2>1
<1> HIDE DEF args, params
<1>4. /\ Instructions(w) = {m}
      /\ \A i \in 1 .. 6 : Read(w, Manual[m].form, params[i]) = args[i]
      /\ "rc" \in Open(Manual[m]) <=> \E i \in 1 .. 6 : params[i] = "rc"
      <2>1. 6 \in Nat
            OBVIOUS
      <2>2. Called(m, params, 6, args)
            BY <1>1, <1>2, <1>3, <2>1, Zenon DEF Called
      <2>3. ReadAs(m, params, 6, args, w)
            BY <2>2, CallIsRead, Zenon
      <2> HIDE DEF w
      <2> QED BY <2>3, Zenon DEF ReadAs
<1> HIDE DEF w
<1>5. 1 \in 1 .. 6 /\ 2 \in 1 .. 6 /\ 3 \in 1 .. 6 /\ 4 \in 1 .. 6 /\ 5 \in 1 .. 6 /\ 6 \in 1 .. 6
      OBVIOUS
<1>6. /\ "rc" \in Open(Manual[m]) /\ Read(w, "M", "rc") = rc
      /\ Read(w, "M", "a") = a
      /\ Read(w, "M", "t") = t
      /\ Read(w, "M", "b") = b
      /\ Read(w, "M", "c") = c
      /\ Read(w, "M", "e") = e
      <2>1. Read(w, "M", "a") = a
            BY <1>1, <1>2, <1>4, <1>5, Zenon
      <2>2. Read(w, "M", "t") = t
            BY <1>1, <1>2, <1>4, <1>5, Zenon
      <2>3. Read(w, "M", "b") = b
            BY <1>1, <1>2, <1>4, <1>5, Zenon
      <2>4. Read(w, "M", "c") = c
            BY <1>1, <1>2, <1>4, <1>5, Zenon
      <2>5. Read(w, "M", "e") = e
            BY <1>1, <1>2, <1>4, <1>5, Zenon
      <2>6. Read(w, "M", "rc") = rc /\ "rc" \in Open(Manual[m])
            BY <1>1, <1>2, <1>4, <1>5, Zenon
      <2> QED BY <2>1, <2>2, <2>3, <2>4, <2>5, <2>6, Zenon
<1> QED BY <1>1, <1>4, <1>6, Zenon DEF w, args, RotationRead

AddArgs(m, t, a, d) ==
    /\ m \in {"addi", "addis", "addic", "addic_dot"} /\ t \in 0 .. 31 /\ a \in 0 .. 31
    /\ d \in -(2^15) .. 2^15 - 1
AddRead(m, t, a, d, w) ==
    /\ Instructions(w) = {m} /\ Manual[m].form = "D"
    /\ "rc" \notin Open(Manual[m])
    /\ Read(w, "D", "t") = t
    /\ Read(w, "D", "a") = a
    /\ Read(w, "D", "d") = d
LEMMA AddFields ==
    ASSUME NEW m, NEW t, NEW a, NEW d, AddArgs(m, t, a, d)
    PROVE  AddRead(m, t, a, d, Encode(m, <<t, a, d>>))
<1> DEFINE args == <<t, a, d>>
           params == <<"t", "a", "d">>
           w == Encode(m, args)
<1>0. /\ m \in {"addi", "addis", "addic", "addic_dot"} /\ t \in 0 .. 31 /\ a \in 0 .. 31
      /\ d \in -(2^15) .. 2^15 - 1
      BY Zenon DEF AddArgs
<1>1. /\ m \in DOMAIN Table /\ Table[m].form = "D" /\ Table[m].params = params
      /\ Manual[m] = Table[m]
      BY <1>0, TableIsManual, AddRows, Zenon
<1>2. /\ DOMAIN params = 1 .. 3 /\ Len(params) = 3 /\ args \in Seq(Int) /\ Len(args) = 3
      /\ params[1] = "t" /\ params[2] = "a" /\ params[3] = "d"
      /\ args[1] = t /\ args[2] = a /\ args[3] = d
      BY <1>0
<1>3. \A i \in 1 .. 3 : args[i] \in Operand[params[i]]
      <2>1. /\ t \in Operand["t"] /\ a \in Operand["a"] /\ d \in Operand["d"]
            BY <1>0, SmallOperands, Zenon
      <2> QED BY <2>1
<1> HIDE DEF args, params
<1>4. /\ Instructions(w) = {m}
      /\ \A i \in 1 .. 3 : Read(w, Manual[m].form, params[i]) = args[i]
      /\ "rc" \in Open(Manual[m]) <=> \E i \in 1 .. 3 : params[i] = "rc"
      <2>1. 3 \in Nat
            OBVIOUS
      <2>2. Called(m, params, 3, args)
            BY <1>1, <1>2, <1>3, <2>1, Zenon DEF Called
      <2>3. ReadAs(m, params, 3, args, w)
            BY <2>2, CallIsRead, Zenon
      <2> HIDE DEF w
      <2> QED BY <2>3, Zenon DEF ReadAs
<1> HIDE DEF w
<1>5. 1 \in 1 .. 3 /\ 2 \in 1 .. 3 /\ 3 \in 1 .. 3
      OBVIOUS
<1>6. /\ "rc" \notin Open(Manual[m])
      /\ Read(w, "D", "t") = t
      /\ Read(w, "D", "a") = a
      /\ Read(w, "D", "d") = d
      <2>1. Read(w, "D", "t") = t
            BY <1>1, <1>2, <1>4, <1>5, Zenon
      <2>2. Read(w, "D", "a") = a
            BY <1>1, <1>2, <1>4, <1>5, Zenon
      <2>3. Read(w, "D", "d") = d
            BY <1>1, <1>2, <1>4, <1>5, Zenon
      <2>4. "rc" \notin Open(Manual[m])
            <3>1. \A i \in 1 .. 3 : params[i] # "rc"
                  BY <1>2
            <3> QED BY <1>4, <3>1, Zenon
      <2> QED BY <2>1, <2>2, <2>3, <2>4, Zenon
<1> QED BY <1>1, <1>4, <1>6, Zenon DEF w, args, AddRead

SubtractionArgs(m, t, a, b, rc) ==
    /\ m \in {"subf", "subfo", "subfc", "subfco"} /\ t \in 0 .. 31 /\ a \in 0 .. 31
    /\ b \in 0 .. 31 /\ rc \in 0 .. 1
SubtractionRead(m, t, a, b, rc, w) ==
    /\ Instructions(w) = {m} /\ Manual[m].form = "XO"
    /\ "rc" \in Open(Manual[m]) /\ Read(w, "XO", "rc") = rc
    /\ Read(w, "XO", "t") = t
    /\ Read(w, "XO", "a") = a
    /\ Read(w, "XO", "b") = b
LEMMA SubtractionFields ==
    ASSUME NEW m, NEW t, NEW a, NEW b, NEW rc, SubtractionArgs(m, t, a, b, rc)
    PROVE  SubtractionRead(m, t, a, b, rc, Encode(m, <<t, a, b, rc>>))
<1> DEFINE args == <<t, a, b, rc>>
           params == <<"t", "a", "b", "rc">>
           w == Encode(m, args)
<1>0. /\ m \in {"subf", "subfo", "subfc", "subfco"} /\ t \in 0 .. 31 /\ a \in 0 .. 31
      /\ b \in 0 .. 31 /\ rc \in 0 .. 1
      BY Zenon DEF SubtractionArgs
<1>1. /\ m \in DOMAIN Table /\ Table[m].form = "XO" /\ Table[m].params = params
      /\ Manual[m] = Table[m]
      BY <1>0, TableIsManual, SubtractionRows, Zenon
<1>2. /\ DOMAIN params = 1 .. 4 /\ Len(params) = 4 /\ args \in Seq(Int) /\ Len(args) = 4
      /\ params[1] = "t" /\ params[2] = "a" /\ params[3] = "b" /\ params[4] = "rc"
      /\ args[1] = t /\ args[2] = a /\ args[3] = b /\ args[4] = rc
      BY <1>0
<1>3. \A i \in 1 .. 4 : args[i] \in Operand[params[i]]
      <2>1. /\ t \in Operand["t"] /\ a \in Operand["a"] /\ b \in Operand["b"]
            /\ rc \in Operand["rc"]
            BY <1>0, SmallOperands, Zenon
      <2> QED BY <2>1
<1> HIDE DEF args, params
<1>4. /\ Instructions(w) = {m}
      /\ \A i \in 1 .. 4 : Read(w, Manual[m].form, params[i]) = args[i]
      /\ "rc" \in Open(Manual[m]) <=> \E i \in 1 .. 4 : params[i] = "rc"
      <2>1. 4 \in Nat
            OBVIOUS
      <2>2. Called(m, params, 4, args)
            BY <1>1, <1>2, <1>3, <2>1, Zenon DEF Called
      <2>3. ReadAs(m, params, 4, args, w)
            BY <2>2, CallIsRead, Zenon
      <2> HIDE DEF w
      <2> QED BY <2>3, Zenon DEF ReadAs
<1> HIDE DEF w
<1>5. 1 \in 1 .. 4 /\ 2 \in 1 .. 4 /\ 3 \in 1 .. 4 /\ 4 \in 1 .. 4
      OBVIOUS
<1>6. /\ "rc" \in Open(Manual[m]) /\ Read(w, "XO", "rc") = rc
      /\ Read(w, "XO", "t") = t
      /\ Read(w, "XO", "a") = a
      /\ Read(w, "XO", "b") = b
      <2>1. Read(w, "XO", "t") = t
            BY <1>1, <1>2, <1>4, <1>5, Zenon
      <2>2. Read(w, "XO", "a") = a
            BY <1>1, <1>2, <1>4, <1>5, Zenon
      <2>3. Read(w, "XO", "b") = b
            BY <1>1, <1>2, <1>4, <1>5, Zenon
      <2>4. Read(w, "XO", "rc") = rc /\ "rc" \in Open(Manual[m])
            BY <1>1, <1>2, <1>4, <1>5, Zenon
      <2> QED BY <2>1, <2>2, <2>3, <2>4, Zenon
<1> QED BY <1>1, <1>4, <1>6, Zenon DEF w, args, SubtractionRead

LogicalArgs(m, a, t, b, rc) ==
    /\ m \in {"orr", "norr"} /\ a \in 0 .. 31 /\ t \in 0 .. 31 /\ b \in 0 .. 31
    /\ rc \in 0 .. 1
LogicalRead(m, a, t, b, rc, w) ==
    /\ Instructions(w) = {m} /\ Manual[m].form = "X"
    /\ "rc" \in Open(Manual[m]) /\ Read(w, "X", "rc") = rc
    /\ Read(w, "X", "a") = a
    /\ Read(w, "X", "t") = t
    /\ Read(w, "X", "b") = b
LEMMA LogicalFields ==
    ASSUME NEW m, NEW a, NEW t, NEW b, NEW rc, LogicalArgs(m, a, t, b, rc)
    PROVE  LogicalRead(m, a, t, b, rc, Encode(m, <<a, t, b, rc>>))
<1> DEFINE args == <<a, t, b, rc>>
           params == <<"a", "t", "b", "rc">>
           w == Encode(m, args)
<1>0. /\ m \in {"orr", "norr"} /\ a \in 0 .. 31 /\ t \in 0 .. 31 /\ b \in 0 .. 31
      /\ rc \in 0 .. 1
      BY Zenon DEF LogicalArgs
<1>1. /\ m \in DOMAIN Table /\ Table[m].form = "X" /\ Table[m].params = params
      /\ Manual[m] = Table[m]
      BY <1>0, TableIsManual, LogicalRows, ZenonT(40)
<1>2. /\ DOMAIN params = 1 .. 4 /\ Len(params) = 4 /\ args \in Seq(Int) /\ Len(args) = 4
      /\ params[1] = "a" /\ params[2] = "t" /\ params[3] = "b" /\ params[4] = "rc"
      /\ args[1] = a /\ args[2] = t /\ args[3] = b /\ args[4] = rc
      BY <1>0
<1>3. \A i \in 1 .. 4 : args[i] \in Operand[params[i]]
      <2>1. /\ a \in Operand["a"] /\ t \in Operand["t"] /\ b \in Operand["b"]
            /\ rc \in Operand["rc"]
            BY <1>0, SmallOperands, Zenon
      <2> QED BY <2>1
<1> HIDE DEF args, params
<1>4. /\ Instructions(w) = {m}
      /\ \A i \in 1 .. 4 : Read(w, Manual[m].form, params[i]) = args[i]
      /\ "rc" \in Open(Manual[m]) <=> \E i \in 1 .. 4 : params[i] = "rc"
      <2>1. 4 \in Nat
            OBVIOUS
      <2>2. Called(m, params, 4, args)
            BY <1>1, <1>2, <1>3, <2>1, Zenon DEF Called
      <2>3. ReadAs(m, params, 4, args, w)
            BY <2>2, CallIsRead, Zenon
      <2> HIDE DEF w
      <2> QED BY <2>3, Zenon DEF ReadAs
<1> HIDE DEF w
<1>5. 1 \in 1 .. 4 /\ 2 \in 1 .. 4 /\ 3 \in 1 .. 4 /\ 4 \in 1 .. 4
      OBVIOUS
<1>6. /\ "rc" \in Open(Manual[m]) /\ Read(w, "X", "rc") = rc
      /\ Read(w, "X", "a") = a
      /\ Read(w, "X", "t") = t
      /\ Read(w, "X", "b") = b
      <2>1. Read(w, "X", "a") = a
            BY <1>1, <1>2, <1>4, <1>5, Zenon
      <2>2. Read(w, "X", "t") = t
            BY <1>1, <1>2, <1>4, <1>5, Zenon
      <2>3. Read(w, "X", "b") = b
            BY <1>1, <1>2, <1>4, <1>5, Zenon
      <2>4. Read(w, "X", "rc") = rc /\ "rc" \in Open(Manual[m])
            BY <1>1, <1>2, <1>4, <1>5, Zenon
      <2> QED BY <2>1, <2>2, <2>3, <2>4, Zenon
<1> QED BY <1>1, <1>4, <1>6, Zenon DEF w, args, LogicalRead

SelectionArgs(t, a, b, c) ==
    /\ t \in 0 .. 31 /\ a \in 0 .. 31 /\ b \in 0 .. 31 /\ c \in 0 .. 31
SelectionRead(t, a, b, c, w) ==
    /\ Instructions(w) = {"isel"} /\ Manual["isel"].form = "A"
    /\ "rc" \notin Open(Manual["isel"])
    /\ Read(w, "A", "t") = t
    /\ Read(w, "A", "a") = a
    /\ Read(w, "A", "b") = b
    /\ Read(w, "A", "c") = c
LEMMA SelectionFields ==
    ASSUME NEW t, NEW a, NEW b, NEW c, SelectionArgs(t, a, b, c)
    PROVE  SelectionRead(t, a, b, c, Encode("isel", <<t, a, b, c>>))
<1> DEFINE args == <<t, a, b, c>>
           params == <<"t", "a", "b", "c">>
           w == Encode("isel", args)
<1>0. /\ t \in 0 .. 31 /\ a \in 0 .. 31 /\ b \in 0 .. 31 /\ c \in 0 .. 31
      BY Zenon DEF SelectionArgs
<1>1. /\ "isel" \in DOMAIN Table /\ Table["isel"].form = "A" /\ Table["isel"].params = params
      /\ Manual["isel"] = Table["isel"]
      BY TableIsManual, SelectionRow, Zenon
<1>2. /\ DOMAIN params = 1 .. 4 /\ Len(params) = 4 /\ args \in Seq(Int) /\ Len(args) = 4
      /\ params[1] = "t" /\ params[2] = "a" /\ params[3] = "b" /\ params[4] = "c"
      /\ args[1] = t /\ args[2] = a /\ args[3] = b /\ args[4] = c
      BY <1>0
<1>3. \A i \in 1 .. 4 : args[i] \in Operand[params[i]]
      <2>1. /\ t \in Operand["t"] /\ a \in Operand["a"] /\ b \in Operand["b"]
            /\ c \in Operand["c"]
            BY <1>0, SmallOperands, Zenon
      <2> QED BY <2>1
<1> HIDE DEF args, params
<1>4. /\ Instructions(w) = {"isel"}
      /\ \A i \in 1 .. 4 : Read(w, Manual["isel"].form, params[i]) = args[i]
      /\ "rc" \in Open(Manual["isel"]) <=> \E i \in 1 .. 4 : params[i] = "rc"
      <2>1. 4 \in Nat
            OBVIOUS
      <2>2. Called("isel", params, 4, args)
            BY <1>1, <1>2, <1>3, <2>1, Zenon DEF Called
      <2>3. ReadAs("isel", params, 4, args, w)
            BY <2>2, CallIsRead, Zenon
      <2> HIDE DEF w
      <2> QED BY <2>3, Zenon DEF ReadAs
<1> HIDE DEF w
<1>5. 1 \in 1 .. 4 /\ 2 \in 1 .. 4 /\ 3 \in 1 .. 4 /\ 4 \in 1 .. 4
      OBVIOUS
<1>6. /\ "rc" \notin Open(Manual["isel"])
      /\ Read(w, "A", "t") = t
      /\ Read(w, "A", "a") = a
      /\ Read(w, "A", "b") = b
      /\ Read(w, "A", "c") = c
      <2>1. Read(w, "A", "t") = t
            BY <1>1, <1>2, <1>4, <1>5, Zenon
      <2>2. Read(w, "A", "a") = a
            BY <1>1, <1>2, <1>4, <1>5, Zenon
      <2>3. Read(w, "A", "b") = b
            BY <1>1, <1>2, <1>4, <1>5, Zenon
      <2>4. Read(w, "A", "c") = c
            BY <1>1, <1>2, <1>4, <1>5, Zenon
      <2>5. "rc" \notin Open(Manual["isel"])
            <3>1. \A i \in 1 .. 4 : params[i] # "rc"
                  BY <1>2
            <3> QED BY <1>4, <3>1, Zenon
      <2> QED BY <2>1, <2>2, <2>3, <2>4, <2>5, Zenon
<1> QED BY <1>1, <1>4, <1>6, Zenon DEF w, args, SelectionRead

ConditionArgs(m, t, a, b) ==
    /\ m \in {"crxor", "cror", "crnor", "creqv"} /\ t \in 0 .. 31 /\ a \in 0 .. 31
    /\ b \in 0 .. 31
ConditionRead(m, t, a, b, w) ==
    /\ Instructions(w) = {m} /\ Manual[m].form = "XL"
    /\ "rc" \notin Open(Manual[m])
    /\ Read(w, "XL", "t") = t
    /\ Read(w, "XL", "a") = a
    /\ Read(w, "XL", "b") = b
LEMMA ConditionFields ==
    ASSUME NEW m, NEW t, NEW a, NEW b, ConditionArgs(m, t, a, b)
    PROVE  ConditionRead(m, t, a, b, Encode(m, <<t, a, b>>))
<1> DEFINE args == <<t, a, b>>
           params == <<"t", "a", "b">>
           w == Encode(m, args)
<1>0. /\ m \in {"crxor", "cror", "crnor", "creqv"} /\ t \in 0 .. 31 /\ a \in 0 .. 31
      /\ b \in 0 .. 31
      BY Zenon DEF ConditionArgs
<1>1. /\ m \in DOMAIN Table /\ Table[m].form = "XL" /\ Table[m].params = params
      /\ Manual[m] = Table[m]
      BY <1>0, TableIsManual, ConditionRows, Zenon
<1>2. /\ DOMAIN params = 1 .. 3 /\ Len(params) = 3 /\ args \in Seq(Int) /\ Len(args) = 3
      /\ params[1] = "t" /\ params[2] = "a" /\ params[3] = "b"
      /\ args[1] = t /\ args[2] = a /\ args[3] = b
      BY <1>0
<1>3. \A i \in 1 .. 3 : args[i] \in Operand[params[i]]
      <2>1. /\ t \in Operand["t"] /\ a \in Operand["a"] /\ b \in Operand["b"]
            BY <1>0, SmallOperands, Zenon
      <2> QED BY <2>1
<1> HIDE DEF args, params
<1>4. /\ Instructions(w) = {m}
      /\ \A i \in 1 .. 3 : Read(w, Manual[m].form, params[i]) = args[i]
      /\ "rc" \in Open(Manual[m]) <=> \E i \in 1 .. 3 : params[i] = "rc"
      <2>1. 3 \in Nat
            OBVIOUS
      <2>2. Called(m, params, 3, args)
            BY <1>1, <1>2, <1>3, <2>1, Zenon DEF Called
      <2>3. ReadAs(m, params, 3, args, w)
            BY <2>2, CallIsRead, Zenon
      <2> HIDE DEF w
      <2> QED BY <2>3, Zenon DEF ReadAs
<1> HIDE DEF w
<1>5. 1 \in 1 .. 3 /\ 2 \in 1 .. 3 /\ 3 \in 1 .. 3
      OBVIOUS
<1>6. /\ "rc" \notin Open(Manual[m])
      /\ Read(w, "XL", "t") = t
      /\ Read(w, "XL", "a") = a
      /\ Read(w, "XL", "b") = b
      <2>1. Read(w, "XL", "t") = t
            BY <1>1, <1>2, <1>4, <1>5, Zenon
      <2>2. Read(w, "XL", "a") = a
            BY <1>1, <1>2, <1>4, <1>5, Zenon
      <2>3. Read(w, "XL", "b") = b
            BY <1>1, <1>2, <1>4, <1>5, Zenon
      <2>4. "rc" \notin Open(Manual[m])
            <3>1. \A i \in 1 .. 3 : params[i] # "rc"
                  BY <1>2
            <3> QED BY <1>4, <3>1, Zenon
      <2> QED BY <2>1, <2>2, <2>3, <2>4, Zenon
<1> QED BY <1>1, <1>4, <1>6, Zenon DEF w, args, ConditionRead

\* Those with few operands, none of which records.
Plainly(p, x) == p # "rc" /\ x \in Operand[p] /\ x \in Int
ReadAlone(m, w) == Instructions(w) = {m} /\ "rc" \notin Open(Manual[m])
IsRead(m, w, p, x) == Read(w, Manual[m].form, p) = x
LEMMA ThreeRead ==
    ASSUME NEW m, NEW p, NEW q, NEW r, NEW x, NEW y, NEW z,
           m \in DOMAIN Table, Table[m].params = <<p, q, r>>, Plainly(p, x), Plainly(q, y), Plainly(r, z)
    PROVE  LET w == Encode(m, <<x, y, z>>)
           IN  ReadAlone(m, w) /\ IsRead(m, w, p, x) /\ IsRead(m, w, q, y) /\ IsRead(m, w, r, z)
<1> DEFINE args == <<x, y, z>>
           params == <<p, q, r>>
           w == Encode(m, args)
<1>1. x \in Int /\ y \in Int /\ z \in Int /\ p # "rc" /\ q # "rc" /\ r # "rc"
      BY Zenon DEF Plainly
<1>2. /\ DOMAIN params = 1 .. 3 /\ Len(params) = 3 /\ args \in Seq(Int) /\ Len(args) = 3 /\ 3 \in Nat
      /\ params[1] = p /\ params[2] = q /\ params[3] = r /\ args[1] = x /\ args[2] = y /\ args[3] = z
      BY <1>1
<1>3. \A i \in 1 .. 3 : i = 1 \/ i = 2 \/ i = 3
      OBVIOUS
<1>4. Table[m].params = params
      OBVIOUS
<1> HIDE DEF args, params
<1>5. Called(m, params, 3, args)
      <2>1. \A i \in 1 .. 3 : args[i] \in Operand[params[i]]
            BY <1>2, <1>3, Zenon DEF Plainly
      <2> QED BY <1>2, <1>4, <2>1, Zenon DEF Called
<1>6. ReadAs(m, params, 3, args, w)
      BY <1>5, CallIsRead, Zenon
<1> HIDE DEF w
<1>7. 1 \in 1 .. 3 /\ 2 \in 1 .. 3 /\ 3 \in 1 .. 3
      OBVIOUS
<1>8. "rc" \notin Open(Manual[m])
      BY <1>1, <1>2, <1>3, <1>6, Zenon DEF ReadAs
<1>9. /\ Read(w, Manual[m].form, p) = x /\ Read(w, Manual[m].form, q) = y
      /\ Read(w, Manual[m].form, r) = z
      BY <1>2, <1>6, <1>7, Zenon DEF ReadAs
<1> QED BY <1>6, <1>8, <1>9, Zenon DEF ReadAs, ReadAlone, IsRead, w, args

LEMMA TwoRead ==
    ASSUME NEW m, NEW p, NEW q, NEW x, NEW y,
           m \in DOMAIN Table, Table[m].params = <<p, q>>, Plainly(p, x), Plainly(q, y)
    PROVE  LET w == Encode(m, <<x, y>>)
           IN  ReadAlone(m, w) /\ IsRead(m, w, p, x) /\ IsRead(m, w, q, y)
<1> DEFINE args == <<x, y>>
           params == <<p, q>>
           w == Encode(m, args)
<1>1. x \in Int /\ y \in Int /\ p # "rc" /\ q # "rc"
      BY Zenon DEF Plainly
<1>2. /\ DOMAIN params = 1 .. 2 /\ Len(params) = 2 /\ args \in Seq(Int) /\ Len(args) = 2 /\ 2 \in Nat
      /\ params[1] = p /\ params[2] = q /\ args[1] = x /\ args[2] = y
      BY <1>1
<1>3. \A i \in 1 .. 2 : i = 1 \/ i = 2
      OBVIOUS
<1>4. Table[m].params = params
      OBVIOUS
<1> HIDE DEF args, params
<1>5. Called(m, params, 2, args)
      <2>1. \A i \in 1 .. 2 : args[i] \in Operand[params[i]]
            BY <1>2, <1>3, Zenon DEF Plainly
      <2> QED BY <1>2, <1>4, <2>1, Zenon DEF Called
<1>6. ReadAs(m, params, 2, args, w)
      BY <1>5, CallIsRead, Zenon
<1> HIDE DEF w
<1>7. 1 \in 1 .. 2 /\ 2 \in 1 .. 2
      OBVIOUS
<1>8. "rc" \notin Open(Manual[m])
      BY <1>1, <1>2, <1>3, <1>6, Zenon DEF ReadAs
<1>9. Read(w, Manual[m].form, p) = x /\ Read(w, Manual[m].form, q) = y
      BY <1>2, <1>6, <1>7, Zenon DEF ReadAs
<1> QED BY <1>6, <1>8, <1>9, Zenon DEF ReadAs, ReadAlone, IsRead, w, args

LEMMA OneRead ==
    ASSUME NEW m, NEW p, NEW x, m \in DOMAIN Table, Table[m].params = <<p>>, Plainly(p, x)
    PROVE  LET w == Encode(m, <<x>>)
           IN  ReadAlone(m, w) /\ IsRead(m, w, p, x)
<1> DEFINE args == <<x>>
           params == <<p>>
           w == Encode(m, args)
<1>1. x \in Int /\ p # "rc"
      BY Zenon DEF Plainly
<1>2. /\ DOMAIN params = 1 .. 1 /\ Len(params) = 1 /\ args \in Seq(Int) /\ Len(args) = 1 /\ 1 \in Nat
      /\ params[1] = p /\ args[1] = x
      BY <1>1
<1>3. 1 \in 1 .. 1 /\ \A i \in 1 .. 1 : i = 1
      OBVIOUS
<1>4. Table[m].params = params
      OBVIOUS
<1> HIDE DEF args, params
<1>5. Called(m, params, 1, args)
      <2>1. \A i \in 1 .. 1 : args[i] \in Operand[params[i]]
            BY <1>2, <1>3, Zenon DEF Plainly
      <2> QED BY <1>2, <1>4, <2>1, Zenon DEF Called
<1>6. ReadAs(m, params, 1, args, w)
      BY <1>5, CallIsRead, Zenon
<1> HIDE DEF w
<1>8. "rc" \notin Open(Manual[m])
      BY <1>1, <1>2, <1>3, <1>6, Zenon DEF ReadAs
<1>9. Read(w, Manual[m].form, p) = x
      BY <1>2, <1>3, <1>6, Zenon DEF ReadAs
<1> QED BY <1>6, <1>8, <1>9, Zenon DEF ReadAs, ReadAlone, IsRead, w, args

\* Where each writes, and which bits it sets beside.
Recorded(rc) == IF rc = 1 THEN {"CR0"} ELSE {}
Carried(m) == IF m \in {"addic", "addic_dot", "subfc", "subfco"} THEN {"CA"} ELSE {}
Overflown(m) == IF m \in {"subfo", "subfco"} THEN {"OV"} ELSE {}
LEMMA BesideIs ==
    ASSUME NEW w, NEW m, NEW rc,
           IF "rc" \in Open(Manual[m]) THEN Read(w, Manual[m].form, "rc") = rc ELSE rc = 0
    PROVE  Beside(w, m) = Recorded(IF m = "addic_dot" THEN 1 ELSE rc) \cup Carried(m) \cup Overflown(m)
<1> DEFINE records == "rc" \in Open(Manual[m]) /\ Read(w, Manual[m].form, "rc") = 1
<1>1. records <=> rc = 1
      OBVIOUS
<1>2. Beside(w, m) = {bit \in {"CR0", "CA", "OV"} :
          \/ bit = "CR0" /\ m = "addic_dot"
          \/ bit = "CR0" /\ records
          \/ bit = "CA" /\ m \in {"addic", "addic_dot", "subfc", "subfco"}
          \/ bit = "OV" /\ m \in {"subfo", "subfco"}}
      BY Zenon DEF Beside
<1> HIDE DEF records
<1> QED BY <1>1, <1>2 DEF Recorded, Carried, Overflown

\* The word is f and nothing else, it writes to and sets those bits.
AimsAt(w, f, to, also) == Instructions(w) = {f} /\ Target(w, f) = to /\ Beside(w, f) = also
LEMMA TargetIs ==
    ASSUME NEW w, NEW m
    PROVE  LET R(operand) == Read(w, Manual[m].form, operand)
           IN  /\ m \in IntoA => Target(w, m) = <<"gpr", R("a")>>
               /\ m \in IntoT => Target(w, m) = <<"gpr", R("t")>>
               /\ m \in {"cmpi", "cmpli", "cmp", "cmpl"} => Target(w, m) = <<"crfs", {R("crt")}>>
               /\ m = "mtcrf" => Target(w, m) = <<"crfs", {f \in 0 .. 7 : (R("crm") \div 2^(7 - f)) % 2 = 1}>>
               /\ m \in BitLogic => Target(w, m) = <<"cr">>
               /\ m = "mtspr" => Target(w, m) = <<"spr", Special(R("spr"), TRUE)>>
               /\ m = "sync" => Target(w, m) = <<"storage">>
BY DEF Target, IntoA, IntoT, BitLogic

LEMMA TargetIsA == \A w : \A m \in IntoA : Target(w, m) = <<"gpr", Read(w, Manual[m].form, "a")>>
BY TargetIs, Zenon
LEMMA TargetIsT == \A w : \A m \in IntoT : Target(w, m) = <<"gpr", Read(w, Manual[m].form, "t")>>
BY TargetIs, Zenon

LEMMA RotationAims ==
    ASSUME NEW m, NEW a, NEW t, NEW b, NEW c, NEW e, NEW rc, NEW w,
           m \in {"rlwinm", "rlwnm", "rlwimi"}, RotationRead(m, a, t, b, c, e, rc, w)
    PROVE  AimsAt(w, m, <<"gpr", a>>, Recorded(rc))
<1>1. /\ Instructions(w) = {m} /\ Manual[m].form = "M" /\ Read(w, "M", "a") = a
      /\ "rc" \in Open(Manual[m]) /\ Read(w, "M", "rc") = rc
      BY Zenon DEF RotationRead
<1>2. Target(w, m) = <<"gpr", a>>
      <2>1. m \in IntoA
            BY DEF IntoA
      <2> QED BY <1>1, <2>1, TargetIsA, Zenon
<1>3. Beside(w, m) = Recorded(IF m = "addic_dot" THEN 1 ELSE rc) \cup Carried(m) \cup Overflown(m)
      BY <1>1, BesideIs, Zenon
<1>4. m # "addic_dot" /\ Carried(m) = {} /\ Overflown(m) = {}
      BY DEF Carried, Overflown
<1> QED BY <1>1, <1>2, <1>3, <1>4 DEF AimsAt

LEMMA SumAims ==
    ASSUME NEW m, NEW t, NEW a, NEW d, AddArgs(m, t, a, d)
    PROVE  AimsAt(Encode(m, <<t, a, d>>), m, <<"gpr", t>>,
                  (IF m = "addic_dot" THEN {"CR0"} ELSE {}) \cup Carried(m))
<1> DEFINE w == Encode(m, <<t, a, d>>)
<1>0. AddRead(m, t, a, d, w) /\ m \in {"addi", "addis", "addic", "addic_dot"}
      BY AddFields, Zenon DEF AddArgs
<1> HIDE DEF w
<1>1. /\ Instructions(w) = {m} /\ Manual[m].form = "D" /\ Read(w, "D", "t") = t
      /\ "rc" \notin Open(Manual[m])
      BY <1>0, Zenon DEF AddRead
<1>2. Target(w, m) = <<"gpr", t>>
      <2>1. m \in IntoT
            BY <1>0 DEF IntoT
      <2> QED BY <1>1, <2>1, TargetIsT, Zenon
<1>3. Beside(w, m) = Recorded(IF m = "addic_dot" THEN 1 ELSE 0) \cup Carried(m) \cup Overflown(m)
      BY <1>1, BesideIs, Zenon
<1>4. Overflown(m) = {} /\ Recorded(IF m = "addic_dot" THEN 1 ELSE 0) = IF m = "addic_dot" THEN {"CR0"} ELSE {}
      BY <1>0 DEF Overflown, Recorded
<1> QED BY <1>1, <1>2, <1>3, <1>4 DEF AimsAt, w

LEMMA DifferenceAims ==
    ASSUME NEW m, NEW t, NEW a, NEW b, NEW rc, SubtractionArgs(m, t, a, b, rc)
    PROVE  AimsAt(Encode(m, <<t, a, b, rc>>), m, <<"gpr", t>>,
                  Recorded(rc) \cup Carried(m) \cup Overflown(m))
<1> DEFINE w == Encode(m, <<t, a, b, rc>>)
<1>0. SubtractionRead(m, t, a, b, rc, w) /\ m \in {"subf", "subfo", "subfc", "subfco"}
      BY SubtractionFields, Zenon DEF SubtractionArgs
<1> HIDE DEF w
<1>1. /\ Instructions(w) = {m} /\ Manual[m].form = "XO" /\ Read(w, "XO", "t") = t
      /\ "rc" \in Open(Manual[m]) /\ Read(w, "XO", "rc") = rc
      BY <1>0, Zenon DEF SubtractionRead
<1>2. Target(w, m) = <<"gpr", t>>
      <2>1. m \in IntoT
            BY <1>0 DEF IntoT
      <2> QED BY <1>1, <2>1, TargetIsT, Zenon
<1>3. Beside(w, m) = Recorded(IF m = "addic_dot" THEN 1 ELSE rc) \cup Carried(m) \cup Overflown(m)
      BY <1>1, BesideIs, Zenon
<1>4. m # "addic_dot"
      BY <1>0
<1> QED BY <1>1, <1>2, <1>3, <1>4, Zenon DEF AimsAt, w

LEMMA LogicalAims ==
    ASSUME NEW m, NEW a, NEW t, NEW b, NEW rc, LogicalArgs(m, a, t, b, rc)
    PROVE  AimsAt(Encode(m, <<a, t, b, rc>>), m, <<"gpr", a>>, Recorded(rc))
<1> DEFINE w == Encode(m, <<a, t, b, rc>>)
<1>0. LogicalRead(m, a, t, b, rc, w) /\ m \in {"orr", "norr"}
      BY LogicalFields, Zenon DEF LogicalArgs
<1> HIDE DEF w
<1>1. /\ Instructions(w) = {m} /\ Manual[m].form = "X" /\ Read(w, "X", "a") = a
      /\ "rc" \in Open(Manual[m]) /\ Read(w, "X", "rc") = rc
      BY <1>0, Zenon DEF LogicalRead
<1>2. Target(w, m) = <<"gpr", a>>
      <2>1. m \in IntoA
            BY <1>0 DEF IntoA
      <2> QED BY <1>1, <2>1, TargetIsA, Zenon
<1>3. Beside(w, m) = Recorded(IF m = "addic_dot" THEN 1 ELSE rc) \cup Carried(m) \cup Overflown(m)
      BY <1>1, BesideIs, Zenon
<1>4. m # "addic_dot" /\ Carried(m) = {} /\ Overflown(m) = {}
      BY <1>0 DEF Carried, Overflown
<1> QED BY <1>1, <1>2, <1>3, <1>4 DEF AimsAt, w

LEMMA SelectionAims ==
    ASSUME NEW t, NEW a, NEW b, NEW c, SelectionArgs(t, a, b, c)
    PROVE  AimsAt(Encode("isel", <<t, a, b, c>>), "isel", <<"gpr", t>>, {})
<1> DEFINE w == Encode("isel", <<t, a, b, c>>)
<1>0. SelectionRead(t, a, b, c, w)
      BY SelectionFields, Zenon
<1> HIDE DEF w
<1>1. /\ Instructions(w) = {"isel"} /\ Manual["isel"].form = "A" /\ Read(w, "A", "t") = t
      /\ "rc" \notin Open(Manual["isel"])
      BY <1>0, Zenon DEF SelectionRead
<1>2. Target(w, "isel") = <<"gpr", t>>
      <2>1. "isel" \in IntoT
            BY DEF IntoT
      <2> QED BY <1>1, <2>1, TargetIsT, Zenon
<1>3. Beside(w, "isel") = Recorded(IF "isel" = "addic_dot" THEN 1 ELSE 0) \cup Carried("isel") \cup Overflown("isel")
      BY <1>1, BesideIs, Zenon
<1>4. Recorded(IF "isel" = "addic_dot" THEN 1 ELSE 0) = {} /\ Carried("isel") = {} /\ Overflown("isel") = {}
      BY DEF Carried, Overflown, Recorded
<1> QED BY <1>1, <1>2, <1>3, <1>4 DEF AimsAt, w

LEMMA ConditionAims ==
    ASSUME NEW m, NEW t, NEW a, NEW b, ConditionArgs(m, t, a, b)
    PROVE  AimsAt(Encode(m, <<t, a, b>>), m, <<"cr">>, {})
<1> DEFINE w == Encode(m, <<t, a, b>>)
<1>0. ConditionRead(m, t, a, b, w) /\ m \in {"crxor", "cror", "crnor", "creqv"}
      BY ConditionFields, Zenon DEF ConditionArgs
<1> HIDE DEF w
<1>1. Instructions(w) = {m} /\ "rc" \notin Open(Manual[m])
      BY <1>0, Zenon DEF ConditionRead
<1>2. Target(w, m) = <<"cr">>
      <2>1. m \in BitLogic
            BY <1>0 DEF BitLogic
      <2> QED BY <2>1, TargetIs, Zenon
<1>3. Beside(w, m) = Recorded(IF m = "addic_dot" THEN 1 ELSE 0) \cup Carried(m) \cup Overflown(m)
      BY <1>1, BesideIs, Zenon
<1>4. Recorded(IF m = "addic_dot" THEN 1 ELSE 0) = {} /\ Carried(m) = {} /\ Overflown(m) = {}
      BY <1>0 DEF Carried, Overflown, Recorded
<1> QED BY <1>1, <1>2, <1>3, <1>4 DEF AimsAt, w

\* A shift of 32 is one of 0.
LEMMA ShiftIsCut ==
    ASSUME NEW m \in {"rlwinm", "rlwimi"}, NEW a, NEW t, NEW b \in Int, NEW c, NEW e, NEW rc
    PROVE  Encode(m, <<a, t, b, c, e, rc>>) = Encode(m, <<a, t, b % 32, c, e, rc>>)
<1> DEFINE params == <<"a", "t", "b", "c", "e", "rc">>
           Args(n) == <<a, t, n, c, e, rc>>
           Cut(f) == M_form(Table[m].op, f.t, f.a, f.b, f.c, f.e, f.rc + Table[m].rc)
<1>1. m \in DOMAIN Table /\ Table[m].form = "M" /\ Table[m].params = params
      BY RotationRows, Zenon
<1>2. DOMAIN params = 1 .. 6 /\ \A i \in 1 .. 6 : Place(params[i]) = params[i]
      BY PlaceOfParameter
<1>3. \A i \in 1 .. 6 : \A x : Converted(params[i], x) = x
      <2>1. \A i \in 1 .. 6 : params[i] \in DOMAIN Operand \ {"crt", "cra", "sr"}
            BY Parameters
      <2> HIDE DEF params
      <2> QED BY <2>1, ConvertedParameter, Zenon
<1>4. ASSUME NEW n
      PROVE  LET f == FieldsOf(m, Args(n))
             IN  f.a = a /\ f.t = t /\ f.b = n /\ f.c = c /\ f.e = e /\ f.rc = rc
      <2> DEFINE f == FieldsOf(m, Args(n))
      <2>1. \A i \in 1 .. 6 : f[params[i]] = Args(n)[i]
            <3> DEFINE args == Args(n)
            <3> HIDE DEF params, args
            <3>1. ASSUME NEW i \in 1 .. 6
                  PROVE  FieldsOf(m, args)[Place(params[i])] = Converted(params[i], args[i])
                  <4>1. i \in DOMAIN Table[m].params
                        BY <1>1, <1>2, Zenon
                  <4>2. FieldsOf(m, args)[Place(Table[m].params[i])] =
                            Converted(Table[m].params[i], args[i])
                        BY <1>1, <4>1, FieldsGiven, Zenon
                  <4> QED BY <1>1, <4>2, Zenon
            <3> QED BY <1>2, <1>3, <3>1, Zenon DEF args
      <2> HIDE DEF f
      <2> QED BY <2>1 DEF f
<1>5. \A n : Encode(m, Args(n)) = M_form(Table[m].op, t, a, n, c, e, rc + Table[m].rc)
      <2> SUFFICES ASSUME NEW n
                   PROVE  Encode(m, Args(n)) = M_form(Table[m].op, t, a, n, c, e, rc + Table[m].rc)
          OBVIOUS
      <2> DEFINE f == FieldsOf(m, Args(n))
      <2>1. Encode(m, Args(n)) = Formed(Table[m], f)
            BY Zenon DEF Encode
      <2>2. Formed(Table[m], f) = Cut(f)
            <3> HIDE DEF f
            <3> QED BY <1>1 DEF Formed
      <2> QED BY <1>4, <2>1, <2>2, Zenon
<1>6. Low(b, 5) = Low(b % 32, 5)
      BY SMT DEF Low
<1>7. \A op, k : M_form(op, t, a, b, c, e, k) = M_form(op, t, a, b % 32, c, e, k)
      BY <1>6, Zenon DEF M_form, Registers3
<1> HIDE DEF Args
<1>8. Encode(m, Args(b)) = Encode(m, Args(b % 32))
      BY <1>5, <1>7, Zenon
<1> QED BY <1>8, Zenon DEF Args

Wiped(g, t, n, c, e) ==
    [i \in 0 .. 31 |-> IF c <= i /\ i <= e THEN g[t][(i + n) % 32] ELSE Nought]
Kept(g, t, a, n, c, e) ==
    [i \in 0 .. 31 |-> IF c <= i /\ i <= e THEN g[t][(i + n) % 32] ELSE g[a][i]]

\* What the rotations compute, with a mask that does not wrap.
RotationFits(a, t, b, c, e, rc) ==
    /\ a \in 0 .. 31 /\ t \in 0 .. 31 /\ b \in Int /\ c \in 0 .. 31 /\ e \in 0 .. 31 /\ rc \in 0 .. 1
    /\ c <= e
RotationComputed(g, cr, a, t, b, c, e, rc) ==
    /\ Computes(Encode("rlwinm", <<a, t, b, c, e, rc>>), "rlwinm", g, cr) = Wiped(g, t, b, c, e)
    /\ Computes(Encode("rlwnm", <<a, t, b, c, e, rc>>), "rlwnm", g, cr) = Wiped(g, t, g[b] % 32, c, e)
    /\ Computes(Encode("rlwimi", <<a, t, b, c, e, rc>>), "rlwimi", g, cr) = Kept(g, t, a, b, c, e)
LEMMA RotationComputes ==
    ASSUME NEW g, NEW cr, NEW a, NEW t, NEW b, NEW c, NEW e, NEW rc,
           RotationFits(a, t, b, c, e, rc), b \in 0 .. 31
    PROVE  RotationComputed(g, cr, a, t, b, c, e, rc)
<1>0. c <= e /\ \A m \in {"rlwinm", "rlwnm", "rlwimi"} : RotationArgs(m, a, t, b, c, e, rc)
      BY Zenon DEF RotationFits, RotationArgs
<1>1. ASSUME NEW i PROVE Masked(i, c, e) = (c <= i /\ i <= e)
      BY <1>0, Zenon DEF Masked
<1> DEFINE Wheeled(w, n, other) ==
               [i \in 0 .. 31 |-> IF Masked(i, Read(w, "M", "c"), Read(w, "M", "e"))
                                  THEN g[Read(w, "M", "t")][(i + n) % 32] ELSE other[i]]
           args == <<a, t, b, c, e, rc>>
<1>2. ASSUME NEW m \in {"rlwinm", "rlwnm", "rlwimi"}
      PROVE  /\ Manual[m].form = "M"
             /\ Read(Encode(m, args), "M", "a") = a /\ Read(Encode(m, args), "M", "t") = t
             /\ Read(Encode(m, args), "M", "b") = b
             /\ Read(Encode(m, args), "M", "c") = c /\ Read(Encode(m, args), "M", "e") = e
      <2>1. RotationArgs(m, a, t, b, c, e, rc)
            BY <1>0, Zenon
      <2>2. RotationRead(m, a, t, b, c, e, rc, Encode(m, args))
            BY <2>1, RotationFields, Zenon
      <2> HIDE DEF args
      <2> QED BY <2>2, Zenon DEF RotationRead
<1>3. ASSUME NEW m \in {"rlwinm", "rlwnm", "rlwimi"}, NEW n, NEW other
      PROVE  Wheeled(Encode(m, args), n, other) =
                 [i \in 0 .. 31 |-> IF c <= i /\ i <= e THEN g[t][(i + n) % 32] ELSE other[i]]
      <2> HIDE DEF args
      <2> QED BY <1>1, <1>2, Zenon
<1>4. ASSUME NEW w
      PROVE  /\ Manual["rlwinm"].form = "M" => Computes(w, "rlwinm", g, cr) =
                    Wheeled(w, Read(w, "M", "b"), [i \in 0 .. 31 |-> Nought])
             /\ Manual["rlwnm"].form = "M" => Computes(w, "rlwnm", g, cr) =
                    Wheeled(w, g[Read(w, "M", "b")] % 32, [i \in 0 .. 31 |-> Nought])
             /\ Manual["rlwimi"].form = "M" => Computes(w, "rlwimi", g, cr) =
                    Wheeled(w, Read(w, "M", "b"), g[Read(w, "M", "a")])
      BY Zenon DEF Computes
<1> HIDE DEF Wheeled, args
<1>5. "rlwinm" \in {"rlwinm", "rlwnm", "rlwimi"} /\ "rlwnm" \in {"rlwinm", "rlwnm", "rlwimi"} /\
      "rlwimi" \in {"rlwinm", "rlwnm", "rlwimi"}
      OBVIOUS
<1> DEFINE none == [i \in 0 .. 31 |-> Nought]
<1>6. \A i \in 0 .. 31 : none[i] = Nought
      OBVIOUS
<1> HIDE DEF none
<1>7. Computes(Encode("rlwinm", args), "rlwinm", g, cr) =
          [i \in 0 .. 31 |-> IF c <= i /\ i <= e THEN g[t][(i + b) % 32] ELSE Nought]
      <2>1. Computes(Encode("rlwinm", args), "rlwinm", g, cr) = Wheeled(Encode("rlwinm", args), b, none)
            BY <1>2, <1>4, <1>5, Zenon DEF none
      <2>2. Wheeled(Encode("rlwinm", args), b, none) =
                [i \in 0 .. 31 |-> IF c <= i /\ i <= e THEN g[t][(i + b) % 32] ELSE none[i]]
            BY <1>3, <1>5
      <2>3. \A i \in 0 .. 31 : (IF c <= i /\ i <= e THEN g[t][(i + b) % 32] ELSE none[i]) =
                                (IF c <= i /\ i <= e THEN g[t][(i + b) % 32] ELSE Nought)
            BY <1>6, Zenon
      <2> QED BY <2>1, <2>2, <2>3, Zenon
<1>8. Computes(Encode("rlwnm", args), "rlwnm", g, cr) =
          [i \in 0 .. 31 |-> IF c <= i /\ i <= e THEN g[t][(i + (g[b] % 32)) % 32] ELSE Nought]
      <2>1. Computes(Encode("rlwnm", args), "rlwnm", g, cr) = Wheeled(Encode("rlwnm", args), g[b] % 32, none)
            BY <1>2, <1>4, <1>5, Zenon DEF none
      <2>2. Wheeled(Encode("rlwnm", args), g[b] % 32, none) =
                [i \in 0 .. 31 |-> IF c <= i /\ i <= e THEN g[t][(i + (g[b] % 32)) % 32] ELSE none[i]]
            BY <1>3, <1>5
      <2>3. \A i \in 0 .. 31 : (IF c <= i /\ i <= e THEN g[t][(i + (g[b] % 32)) % 32] ELSE none[i]) =
                                (IF c <= i /\ i <= e THEN g[t][(i + (g[b] % 32)) % 32] ELSE Nought)
            BY <1>6, Zenon
      <2> QED BY <2>1, <2>2, <2>3, Zenon
<1>9. Computes(Encode("rlwimi", args), "rlwimi", g, cr) =
          [i \in 0 .. 31 |-> IF c <= i /\ i <= e THEN g[t][(i + b) % 32] ELSE g[a][i]]
      <2>1. Computes(Encode("rlwimi", args), "rlwimi", g, cr) = Wheeled(Encode("rlwimi", args), b, g[a])
            BY <1>2, <1>4, <1>5, Zenon
      <2>2. Wheeled(Encode("rlwimi", args), b, g[a]) =
                [i \in 0 .. 31 |-> IF c <= i /\ i <= e THEN g[t][(i + b) % 32] ELSE g[a][i]]
            BY <1>3, <1>5
      <2> QED BY <2>1, <2>2, Zenon
<1> QED BY <1>7, <1>8, <1>9, Zenon DEF args, Wiped, Kept, RotationComputed

----------------------------------------------------------------------------
(* The shorthands that rotate *)

\* Which shorthands come to what.
LEMMA NamesAre ==
    /\ DOMAIN Renamed = {"la", "cmpwi", "cmplwi", "cmpw", "cmplw"}
    /\ DOMAIN Negated = {"subi", "subis", "subic", "subic_dot"}
    /\ DOMAIN Reversed = {"sub", "subo", "subc", "subco"}
    /\ DOMAIN Doubled = {"mr", "notr", "crmove", "crnot"}
    /\ DOMAIN Tripled = {"crset", "crclr"}
    /\ DOMAIN Selected = {"isellt", "iselgt", "iseleq"}
    /\ DOMAIN WithZero = {"li", "lis"}
    /\ DOMAIN Synced = {"lwsync", "ptesync"}
BY DEF Renamed, Negated, Reversed, Doubled, Tripled, Selected, WithZero, Synced

LEMMA RotatingAre == Rotating = {"extlwi", "extrwi", "inslwi", "insrwi", "rotlwi", "rotrwi", "rotlw", "slwi",
                                "srwi", "clrlwi", "clrrwi", "clrlslwi"}
BY DEF Rotating, Pulled, Shifted

LEMMA ExpandRotating == \A m \in Rotating : \A x : Expand(m, x) = Rotated(m, x)
BY NamesAre, RotatingAre DEF Expand

LEMMA RotatedIs ==
    ASSUME NEW x
    PROVE  LET With(f, sh, mb, me) == <<f, <<x[1], x[2], sh, mb, me, x[Len(x)]>>>>
               five == Len(x) > 4
           IN  /\ five => Rotated("extlwi", x) = With("rlwinm", x[4], 0, u8(x[3] - 1))
               /\ five => Rotated("extrwi", x) = With("rlwinm", u8(x[4] + x[3]), u8(32 - x[3]), 31)
               /\ five => Rotated("inslwi", x) = With("rlwimi", u8(32 - x[4]), x[4], u8(x[4] + x[3] - 1))
               /\ five => Rotated("insrwi", x) =
                              With("rlwimi", u8(32 - (x[4] + x[3])), x[4], u8(x[4] + x[3] - 1))
               /\ Rotated("rotlwi", x) = With("rlwinm", x[3], 0, 31)
               /\ Rotated("rotrwi", x) = With("rlwinm", u8(32 - x[3]), 0, 31)
               /\ Rotated("rotlw", x) = With("rlwnm", x[3], 0, 31)
               /\ Rotated("slwi", x) = With("rlwinm", x[3], 0, u8(31 - x[3]))
               /\ Rotated("srwi", x) = With("rlwinm", u8(32 - x[3]), x[3], 31)
               /\ Rotated("clrlwi", x) = With("rlwinm", 0, x[3], 31)
               /\ Rotated("clrrwi", x) = With("rlwinm", 0, 0, u8(31 - x[3]))
               /\ Rotated("clrlslwi", x) = With("rlwinm", x[4], u8(x[3] - x[4]), u8(31 - x[4]))
BY DEF Rotated

\* What those that rotate are for, one by one.
LEMMA MeaningOfPieces ==
    ASSUME NEW x, NEW g, NEW cr
    PROVE  LET Means(m) == PlacingMeans(m, x, g)
           IN  /\ Means("extlwi") = Placed(g, x[2], 0, x[3] - 1, x[4])
               /\ Means("extrwi") = Placed(g, x[2], 32 - x[3], 31, x[4] - (32 - x[3]))
               /\ Means("inslwi") = Inserted(g, x[2], x[1], x[4], x[4] + x[3] - 1, -x[4])
               /\ Means("insrwi") = Inserted(g, x[2], x[1], x[4], x[4] + x[3] - 1, (32 - x[3]) - x[4])
BY DEF PlacingMeans

LEMMA MeaningOfShifts ==
    ASSUME NEW x, NEW g, NEW cr
    PROVE  LET Means(m) == PlacingMeans(m, x, g)
           IN  /\ Means("rotlwi") = Turned(g, x[2], x[3])
               /\ Means("rotrwi") = Turned(g, x[2], -x[3])
               /\ Means("rotlw") = Turned(g, x[2], g[x[3]])
               /\ Means("slwi") = Placed(g, x[2], 0, 31 - x[3], x[3])
               /\ Means("srwi") = Placed(g, x[2], x[3], 31, -x[3])
               /\ Means("clrlwi") = Placed(g, x[2], x[3], 31, 0)
               /\ Means("clrrwi") = Placed(g, x[2], 0, 31 - x[3], 0)
               /\ Means("clrlslwi") = Placed(g, x[2], x[3] - x[4], 31 - x[4], x[4])
BY DEF PlacingMeans

\* What may be the value that comes of a word, and what may come of it in all.
Yields(w, g, cr) == {Computes(w, m, g, cr) : m \in Instructions(w)}
Does(w, g, cr) == {Effect(w, m, g, cr) : m \in Instructions(w)}
Outcome(to, v, also) == [to |-> to, value |-> v, also |-> also]
ComesTo(w, g, cr, m, to, v, also) == AimsAt(w, m, to, also) /\ Yields(w, g, cr) = {v}
DoesOnly(w, g, cr, outcome) == Does(w, g, cr) = {outcome}
LEMMA DoesWhole ==
    ASSUME NEW w, NEW g, NEW cr, NEW m, NEW v, NEW to, NEW also,
           ComesTo(w, g, cr, m, to, v, also)
    PROVE  DoesOnly(w, g, cr, Outcome(to, v, also))
<1>1. Instructions(w) = {m} /\ Target(w, m) = to /\ Beside(w, m) = also
      BY Zenon DEF AimsAt, ComesTo
<1>2. Computes(w, m, g, cr) = v
      BY <1>1, Zenon DEF Yields, ComesTo
<1>3. Effect(w, m, g, cr) = Outcome(to, v, also)
      BY <1>1, <1>2, Zenon DEF Effect, Outcome
<1> QED BY <1>1, <1>3, Zenon DEF Does, DoesOnly

\* What a rotation does: its shift counts modulo 32.
RotationDone(g, cr, a, t, b, c, e, rc) ==
    /\ Yields(Encode("rlwinm", <<a, t, b, c, e, rc>>), g, cr) = {Wiped(g, t, b % 32, c, e)}
    /\ b \in 0 .. 31 =>
           Yields(Encode("rlwnm", <<a, t, b, c, e, rc>>), g, cr) = {Wiped(g, t, g[b] % 32, c, e)}
    /\ Yields(Encode("rlwimi", <<a, t, b, c, e, rc>>), g, cr) = {Kept(g, t, a, b % 32, c, e)}
LEMMA RotationDoes ==
    ASSUME NEW g, NEW cr, NEW a, NEW t, NEW b, NEW c, NEW e, NEW rc, RotationFits(a, t, b, c, e, rc)
    PROVE  RotationDone(g, cr, a, t, b, c, e, rc)
<1> DEFINE n == b % 32
<1>1. /\ a \in 0 .. 31 /\ t \in 0 .. 31 /\ b \in Int /\ c \in 0 .. 31 /\ e \in 0 .. 31 /\ rc \in 0 .. 1
      /\ c <= e
      BY Zenon DEF RotationFits
<1>2. n \in 0 .. 31
      BY <1>1, SMT
<1>3. "rlwinm" \in {"rlwinm", "rlwimi"} /\ "rlwimi" \in {"rlwinm", "rlwimi"}
      OBVIOUS
<1>4. /\ Encode("rlwinm", <<a, t, b, c, e, rc>>) = Encode("rlwinm", <<a, t, n, c, e, rc>>)
      /\ Encode("rlwimi", <<a, t, b, c, e, rc>>) = Encode("rlwimi", <<a, t, n, c, e, rc>>)
      BY <1>1, <1>3, ShiftIsCut
<1> HIDE DEF n
<1>5. \A m \in {"rlwinm", "rlwnm", "rlwimi"}, k \in 0 .. 31 : RotationArgs(m, a, t, k, c, e, rc)
      BY <1>1, Zenon DEF RotationArgs
<1>6. \A m \in {"rlwinm", "rlwnm", "rlwimi"}, k \in 0 .. 31 :
          Instructions(Encode(m, <<a, t, k, c, e, rc>>)) = {m}
      <2>1. ASSUME NEW m, NEW k, RotationArgs(m, a, t, k, c, e, rc)
            PROVE  Instructions(Encode(m, <<a, t, k, c, e, rc>>)) = {m}
            <3>1. RotationRead(m, a, t, k, c, e, rc, Encode(m, <<a, t, k, c, e, rc>>))
                  BY <2>1, RotationFields, Zenon
            <3> DEFINE w == Encode(m, <<a, t, k, c, e, rc>>)
            <3> HIDE DEF w
            <3> QED BY <3>1, Zenon DEF RotationRead, w
      <2> QED BY <1>5, <2>1, Zenon
<1>7. ASSUME NEW k \in 0 .. 31
      PROVE  /\ Yields(Encode("rlwinm", <<a, t, k, c, e, rc>>), g, cr) = {Wiped(g, t, k, c, e)}
             /\ Yields(Encode("rlwnm", <<a, t, k, c, e, rc>>), g, cr) = {Wiped(g, t, g[k] % 32, c, e)}
             /\ Yields(Encode("rlwimi", <<a, t, k, c, e, rc>>), g, cr) = {Kept(g, t, a, k, c, e)}
      <2>1. RotationFits(a, t, k, c, e, rc)
            BY <1>1, SMT DEF RotationFits
      <2>2. RotationComputed(g, cr, a, t, k, c, e, rc)
            BY <2>1, RotationComputes, Zenon
      <2>3. /\ Instructions(Encode("rlwinm", <<a, t, k, c, e, rc>>)) = {"rlwinm"}
            /\ Instructions(Encode("rlwnm", <<a, t, k, c, e, rc>>)) = {"rlwnm"}
            /\ Instructions(Encode("rlwimi", <<a, t, k, c, e, rc>>)) = {"rlwimi"}
            BY <1>6
      <2> DEFINE u == Encode("rlwinm", <<a, t, k, c, e, rc>>)
                 v == Encode("rlwnm", <<a, t, k, c, e, rc>>)
                 w == Encode("rlwimi", <<a, t, k, c, e, rc>>)
      <2>4. /\ Computes(u, "rlwinm", g, cr) = Wiped(g, t, k, c, e)
            /\ Computes(v, "rlwnm", g, cr) = Wiped(g, t, g[k] % 32, c, e)
            /\ Computes(w, "rlwimi", g, cr) = Kept(g, t, a, k, c, e)
            BY <2>2, Zenon DEF RotationComputed
      <2> HIDE DEF u, v, w
      <2>5. Instructions(u) = {"rlwinm"} /\ Instructions(v) = {"rlwnm"} /\ Instructions(w) = {"rlwimi"}
            BY <2>3, Zenon DEF u, v, w
      <2>6. Yields(u, g, cr) = {Wiped(g, t, k, c, e)}
            BY <2>4, <2>5, Zenon DEF Yields
      <2>7. Yields(v, g, cr) = {Wiped(g, t, g[k] % 32, c, e)}
            BY <2>4, <2>5, Zenon DEF Yields
      <2>8. Yields(w, g, cr) = {Kept(g, t, a, k, c, e)}
            BY <2>4, <2>5, Zenon DEF Yields
      <2> QED BY <2>6, <2>7, <2>8, Zenon DEF u, v, w
<1>8. /\ Yields(Encode("rlwinm", <<a, t, b, c, e, rc>>), g, cr) = {Wiped(g, t, n, c, e)}
      /\ Yields(Encode("rlwimi", <<a, t, b, c, e, rc>>), g, cr) = {Kept(g, t, a, n, c, e)}
      BY <1>2, <1>4, <1>7, Zenon
<1>9. b \in 0 .. 31 =>
          Yields(Encode("rlwnm", <<a, t, b, c, e, rc>>), g, cr) = {Wiped(g, t, g[b] % 32, c, e)}
      BY <1>7, Zenon
<1> QED BY <1>8, <1>9, Zenon DEF RotationDone, n

\* A rotation by b that has bits c to e come from that many further right; one that has
\* them all come so.
Reaching(b, c, e, further) ==
    \A i \in 0 .. 31 : c <= i /\ i <= e => (i + (b % 32)) % 32 = i + further
Turning(b, k) == \A i \in 0 .. 31 : (i + (b % 32)) % 32 = (i + k) % 32

\* A piece of a register is placed.
PlacedSo(g, cr, a, t, b, c, e, rc, further) ==
    /\ Yields(Encode("rlwinm", <<a, t, b, c, e, rc>>), g, cr) = {Placed(g, t, c, e, further)}
    /\ Yields(Encode("rlwimi", <<a, t, b, c, e, rc>>), g, cr) = {Inserted(g, t, a, c, e, further)}
LEMMA Places ==
    ASSUME NEW g, NEW cr, NEW a, NEW t, NEW b, NEW c, NEW e, NEW rc, RotationFits(a, t, b, c, e, rc),
           NEW further, Reaching(b, c, e, further)
    PROVE  PlacedSo(g, cr, a, t, b, c, e, rc, further)
<1>1. Wiped(g, t, b % 32, c, e) =
          Placed(g, t, c, e, further)
      <2>1. \A i \in 0 .. 31 : (IF c <= i /\ i <= e THEN g[t][(i + (b % 32)) % 32] ELSE Nought) =
                               (IF c <= i /\ i <= e THEN g[t][i + further] ELSE Nought)
            BY Zenon DEF Reaching
      <2> QED BY <2>1, Zenon DEF Placed, Wiped
<1>2. Kept(g, t, a, b % 32, c, e) =
          Inserted(g, t, a, c, e, further)
      <2>1. \A i \in 0 .. 31 : (IF c <= i /\ i <= e THEN g[t][(i + (b % 32)) % 32] ELSE g[a][i]) =
                               (IF c <= i /\ i <= e THEN g[t][i + further] ELSE g[a][i])
            BY Zenon DEF Reaching
      <2> QED BY <2>1, Zenon DEF Inserted, Kept
<1>3. RotationDone(g, cr, a, t, b, c, e, rc)
      BY RotationDoes, Zenon
<1> QED BY <1>1, <1>2, <1>3, Zenon DEF RotationDone, PlacedSo

\* A register is turned.
TurnedSo(f, g, cr, a, t, b, rc, k) ==
    Yields(Encode(f, <<a, t, b, 0, 31, rc>>), g, cr) = {Turned(g, t, k)}
LEMMA Turns ==
    ASSUME NEW g, NEW cr, NEW a, NEW t, NEW b, NEW rc, RotationFits(a, t, b, 0, 31, rc),
           NEW k
    PROVE  /\ Turning(b, k) => TurnedSo("rlwinm", g, cr, a, t, b, rc, k)
           /\ b \in 0 .. 31 /\ Turning(g[b], k) => TurnedSo("rlwnm", g, cr, a, t, b, rc, k)
<1>0. RotationDone(g, cr, a, t, b, 0, 31, rc)
      BY RotationDoes, Zenon
<1>1. \A i \in 0 .. 31 : 0 <= i /\ i <= 31
      BY SMT
<1>2. ASSUME NEW n, \A i \in 0 .. 31 : (i + n) % 32 = (i + k) % 32
      PROVE  Wiped(g, t, n, 0, 31) = Turned(g, t, k)
      <2>1. \A i \in 0 .. 31 : (IF 0 <= i /\ i <= 31 THEN g[t][(i + n) % 32] ELSE Nought) =
                               g[t][(i + k) % 32]
            BY <1>1, <1>2, Zenon
      <2> QED BY <2>1, Zenon DEF Turned, Wiped
<1>3. ASSUME Turning(b, k)
      PROVE  Yields(Encode("rlwinm", <<a, t, b, 0, 31, rc>>), g, cr) = {Turned(g, t, k)}
      <2>1. Wiped(g, t, b % 32, 0, 31) = Turned(g, t, k)
            BY <1>2, <1>3, Zenon DEF Turning
      <2> QED BY <1>0, <2>1, Zenon DEF RotationDone
<1>4. ASSUME b \in 0 .. 31, Turning(g[b], k)
      PROVE  Yields(Encode("rlwnm", <<a, t, b, 0, 31, rc>>), g, cr) = {Turned(g, t, k)}
      <2>1. Wiped(g, t, g[b] % 32, 0, 31) = Turned(g, t, k)
            BY <1>2, <1>4, Zenon DEF Turning
      <2> QED BY <1>0, <1>4, <2>1, Zenon DEF RotationDone
<1> QED BY <1>3, <1>4, Zenon DEF TurnedSo

\* The call a shorthand comes to does what the shorthand is for.
AsMeant(m, x, g, cr) ==
    Does(Encode(Expand(m, x)[1], Expand(m, x)[2]), g, cr) = {ShorthandMeans(m, x, g, cr)}

\* The operands of the shorthands that rotate.
LEMMA PulledHave ==
    ASSUME NEW m \in Pulled, NEW x, NEW g, HasMeaning(m, x, g)
    PROVE  x \in Seq(Int) /\ Len(x) = 5 /\ Registers(x, 2) /\ Piece(x[3], x[4]) /\ x[5] \in {0, 1}
<1>1. /\ m \notin Shifted
      /\ m \notin {"clrlslwi", "rotlw", "la", "mr", "notr", "crmove", "crnot", "nop", "mtcr"}
      /\ m \notin DOMAIN Negated /\ m \notin DOMAIN WithZero /\ m \notin DOMAIN Reversed
      /\ m \notin DOMAIN Selected /\ m \notin DOMAIN Tripled /\ m \notin Compares /\ m \notin DOMAIN Synced
      BY NamesAre DEF Pulled, Shifted, Compares
<1> QED BY <1>1, Zenon DEF HasMeaning
LEMMA ShiftedHave ==
    ASSUME NEW m \in Shifted, NEW x, NEW g, HasMeaning(m, x, g)
    PROVE  x \in Seq(Int) /\ Len(x) = 4 /\ Registers(x, 3) /\ x[4] \in {0, 1}
<1>1. /\ m \notin Pulled
      /\ m \notin {"clrlslwi", "rotlw", "la", "mr", "notr", "crmove", "crnot", "nop", "mtcr"}
      /\ m \notin DOMAIN Negated /\ m \notin DOMAIN WithZero /\ m \notin DOMAIN Reversed
      /\ m \notin DOMAIN Selected /\ m \notin DOMAIN Tripled /\ m \notin Compares /\ m \notin DOMAIN Synced
      BY NamesAre DEF Pulled, Shifted, Compares
<1> QED BY <1>1, Zenon DEF HasMeaning
LEMMA TurnedHave ==
    ASSUME NEW x, NEW g, HasMeaning("rotlw", x, g)
    PROVE  x \in Seq(Int) /\ Len(x) = 4 /\ Registers(x, 3) /\ g[x[3]] \in Int /\ x[4] \in {0, 1}
BY NamesAre, SMT DEF HasMeaning, Pulled, Shifted, Compares
LEMMA CutHave ==
    ASSUME NEW x, NEW g, HasMeaning("clrlslwi", x, g)
    PROVE  x \in Seq(Int) /\ Len(x) = 5 /\ Registers(x, 4) /\ x[4] <= x[3] /\ x[5] \in {0, 1}
BY NamesAre, SMT DEF HasMeaning, Pulled, Shifted, Compares

\* The rotation, however far, goes to its register.
LEMMA RotationGoes ==
    ASSUME NEW m, NEW a, NEW t, NEW b, NEW c, NEW e, NEW rc, RotationFits(a, t, b, c, e, rc),
           m \in {"rlwinm", "rlwimi"} \/ (m = "rlwnm" /\ b \in 0 .. 31)
    PROVE  AimsAt(Encode(m, <<a, t, b, c, e, rc>>), m, <<"gpr", a>>, Recorded(rc))
<1> DEFINE n == b % 32
           k == IF m = "rlwnm" THEN b ELSE n
           w == Encode(m, <<a, t, k, c, e, rc>>)
<1>1. /\ a \in 0 .. 31 /\ t \in 0 .. 31 /\ b \in Int /\ c \in 0 .. 31 /\ e \in 0 .. 31 /\ rc \in 0 .. 1
      /\ m \in {"rlwinm", "rlwnm", "rlwimi"}
      BY Zenon DEF RotationFits
<1>2. n \in 0 .. 31
      BY <1>1, SMT
<1> HIDE DEF n
<1>3. k \in 0 .. 31
      BY <1>2
<1>4. Encode(m, <<a, t, b, c, e, rc>>) = w
      <2>1. CASE m = "rlwnm"
            BY <2>1, Zenon
      <2>2. CASE m # "rlwnm"
            <3>1. m \in {"rlwinm", "rlwimi"}
                  BY <2>2
            <3>2. Encode(m, <<a, t, b, c, e, rc>>) = Encode(m, <<a, t, n, c, e, rc>>)
                  BY <1>1, <3>1, ShiftIsCut DEF n
            <3> QED BY <2>2, <3>2, Zenon
      <2> QED BY <2>1, <2>2, Zenon
<1> HIDE DEF k
<1>5. RotationArgs(m, a, t, k, c, e, rc)
      BY <1>1, <1>3, Zenon DEF RotationArgs
<1>6. RotationRead(m, a, t, k, c, e, rc, w)
      BY <1>5, RotationFields, Zenon
<1> HIDE DEF w
<1>7. AimsAt(w, m, <<"gpr", a>>, Recorded(rc))
      BY <1>1, <1>6, RotationAims
<1> QED BY <1>4, <1>7, Zenon

\* Where a shorthand writes, and what it sets beside.
Placing == Rotating \cup {"subi", "subis", "subic", "subic_dot", "la", "li", "lis", "sub", "subo", "subc",
                         "subco", "mr", "notr", "isellt", "iselgt", "iseleq"}
Asking == Rotating \cup {"sub", "subo", "subc", "subco", "mr", "notr"}
LEMMA MeantTargets ==
    ASSUME NEW m, NEW x
    PROVE  /\ m \in Placing => MeantTarget(m, x) = <<"gpr", x[1]>>
           /\ m \in {"crset", "crclr", "crmove", "crnot"} => MeantTarget(m, x) = <<"cr">>
           /\ m \in Compares => MeantTarget(m, x) = <<"crfs", {x[3]}>>
           /\ m = "mtcr" => MeantTarget(m, x) = <<"crfs", 0 .. 7>>
           /\ m \in {"lwsync", "ptesync"} => MeantTarget(m, x) = <<"storage">>
           /\ m = "nop" => MeantTarget(m, x) = <<"gpr", 0>>
BY NamesAre, RotatingAre DEF MeantTarget, Compares, OnCrBits, Placing
LEMMA MeantBesides ==
    ASSUME NEW m, NEW x
    PROVE  MeantBeside(m, x) =
               (IF m \in Asking THEN Recorded(x[Len(x)]) ELSE IF m = "subic_dot" THEN {"CR0"} ELSE {})
               \cup (IF m \in {"subic", "subic_dot", "subc", "subco"} THEN {"CA"} ELSE {})
               \cup (IF m \in {"subo", "subco"} THEN {"OV"} ELSE {})
<1>1. Recording = Asking
      BY NamesAre DEF Recording, Asking
<1>2. MeantBeside(m, x) = {bit \in {"CR0", "CA", "OV"} :
          \/ bit = "CR0" /\ m = "subic_dot"
          \/ bit = "CR0" /\ m \in Asking /\ x[Len(x)] = 1
          \/ bit = "CA" /\ m \in {"subic", "subic_dot", "subc", "subco"}
          \/ bit = "OV" /\ m \in {"subo", "subco"}}
      BY <1>1, Zenon DEF MeantBeside
<1>3. "subic_dot" \notin Asking
      BY RotatingAre DEF Asking
<1> QED BY <1>2, <1>3 DEF Recorded

\* The call of f goes where m should.
GoesAsMeant(f, args, m, x) == AimsAt(Encode(f, args), f, MeantTarget(m, x), MeantBeside(m, x))
\* A shorthand does as meant when the call it comes to has its value and goes where it should.
LEMMA MeantBy ==
    ASSUME NEW m, NEW x, NEW g, NEW cr, NEW f, NEW args, NEW v, Expand(m, x) = <<f, args>>,
           Yields(Encode(f, args), g, cr) = {v}, MeantValue(m, x, g, cr) = v,
           GoesAsMeant(f, args, m, x)
    PROVE  AsMeant(m, x, g, cr)
<1> DEFINE w == Encode(f, args)
<1>1. Expand(m, x)[1] = f /\ Expand(m, x)[2] = args
      OBVIOUS
<1> DEFINE to == MeantTarget(m, x)
           also == MeantBeside(m, x)
<1>2. ComesTo(w, g, cr, f, to, v, also)
      BY Zenon DEF GoesAsMeant, ComesTo
<1>3. ShorthandMeans(m, x, g, cr) = Outcome(to, v, also)
      BY Zenon DEF ShorthandMeans, Outcome
<1> HIDE DEF w, to, also
<1>4. DoesOnly(w, g, cr, Outcome(to, v, also))
      BY <1>2, DoesWhole, Zenon
<1> QED BY <1>1, <1>3, <1>4, Zenon DEF AsMeant, DoesOnly, w

\* So with the rotations.
LEMMA RotatingMean ==
    ASSUME NEW m \in Rotating, NEW x, NEW g, NEW cr, NEW f, NEW b, NEW c, NEW e, NEW rc, rc = x[Len(x)],
           Rotated(m, x) = <<f, <<x[1], x[2], b, c, e, rc>>>>, RotationFits(x[1], x[2], b, c, e, rc),
           f \in {"rlwinm", "rlwimi"} \/ (f = "rlwnm" /\ b \in 0 .. 31),
           Yields(Encode(f, <<x[1], x[2], b, c, e, rc>>), g, cr) = {PlacingMeans(m, x, g)}
    PROVE  AsMeant(m, x, g, cr)
<1>1. Expand(m, x) = <<f, <<x[1], x[2], b, c, e, rc>>>>
      BY ExpandRotating, Zenon
<1>2. MeantValue(m, x, g, cr) = PlacingMeans(m, x, g)
      BY NamesAre, RotatingAre, SMT DEF MeantValue
<1>3. MeantTarget(m, x) = <<"gpr", x[1]>>
      BY MeantTargets, Zenon DEF Placing
<1>4. MeantBeside(m, x) = Recorded(rc)
      <2>1. m \in Asking /\ m \notin {"subic", "subic_dot", "subc", "subco", "subo"}
            BY RotatingAre DEF Asking
      <2> QED BY <2>1, MeantBesides
<1>5. AimsAt(Encode(f, <<x[1], x[2], b, c, e, rc>>), f, <<"gpr", x[1]>>, Recorded(rc))
      BY RotationGoes, Zenon
<1>6. GoesAsMeant(f, <<x[1], x[2], b, c, e, rc>>, m, x)
      BY <1>3, <1>4, <1>5, Zenon DEF GoesAsMeant
<1> QED BY <1>1, <1>2, <1>6, MeantBy, Zenon

\* Where a bit comes from when a register is turned by b.
LEMMA WheelTurns ==
    ASSUME NEW b \in 0 .. 32, NEW i \in 0 .. 31
    PROVE  /\ i + b < 32 => (i + (b % 32)) % 32 = i + b
           /\ i + b >= 32 => (i + (b % 32)) % 32 = i + b - 32
<1>1. b % 32 = IF b = 32 THEN 0 ELSE b
      BY SMT
<1> QED BY <1>1, SMT
\* A number that fits a byte is not cut by it.
LEMMA SmallByte == \A v \in 0 .. 255 : u8(v) = v
BY SMT DEF u8, Low

\* Shorthand by shorthand: the shift and the mask it computes, and what that does.
LEMMA ExtlwiBits ==
    ASSUME NEW n \in Int, NEW b \in Int, Piece(n, b)
    PROVE  /\ u8(n - 1) = n - 1
           /\ b \in Int /\ 0 \in 0 .. 31 /\ n - 1 \in 0 .. 31 /\ 0 <= n - 1
           /\ Reaching(b, 0, n - 1, b)
<1>1. n \in 1 .. 32 /\ b \in 0 .. 31 /\ b + n <= 32
      BY DEF Piece
<1>2. u8(n - 1) = n - 1
      <2>1. n - 1 \in 0 .. 255
            BY <1>1
      <2> QED BY <2>1, SmallByte, Zenon
<1>5. ASSUME NEW i \in 0 .. 31, 0 <= i, i <= n - 1
      PROVE  (i + (b % 32)) % 32 = i + b
      <2>1. b \in 0 .. 32
            BY <1>1, <1>5
      <2>2. IF i + b < 32 THEN b = b ELSE b = b - 32
            BY <1>1, <1>5
      <2> QED BY <1>1, <2>1, <2>2, WheelTurns
<1>6. Reaching(b, 0, n - 1, b)
      BY <1>5 DEF Reaching
<1>7. b \in Int /\ 0 \in 0 .. 31 /\ n - 1 \in 0 .. 31 /\ 0 <= n - 1
      BY <1>1
<1> QED BY <1>2, <1>6, <1>7, Zenon

LEMMA ExtlwiAsMeant ==
    ASSUME NEW x, NEW g, NEW cr, HasMeaning("extlwi", x, g)
    PROVE  AsMeant("extlwi", x, g, cr)
<1>1. "extlwi" \in Pulled /\ "extlwi" \in Rotating
      BY RotatingAre DEF Pulled
<1>2. /\ x \in Seq(Int) /\ Len(x) = 5 /\ x[5] \in 0 .. 1 /\ x[3] \in Int /\ x[4] \in Int /\ Len(x) > 4
      /\ x[1] \in 0 .. 31 /\ x[2] \in 0 .. 31
      BY <1>1, PulledHave DEF Registers
<1>3. Piece(x[3], x[4])
      BY <1>1, PulledHave, Zenon
<1>4. /\ u8(x[3] - 1) = x[3] - 1
      /\ x[4] \in Int /\ 0 \in 0 .. 31 /\ x[3] - 1 \in 0 .. 31 /\ 0 <= x[3] - 1
      /\ Reaching(x[4], 0, x[3] - 1, x[4])
      BY <1>2, <1>3, ExtlwiBits, Zenon
<1>5. Rotated("extlwi", x) = <<"rlwinm", <<x[1], x[2], x[4], 0, x[3] - 1, x[5]>>>>
      BY <1>2, <1>4, RotatedIs, ZenonT(40)
<1>6. RotationFits(x[1], x[2], x[4], 0, x[3] - 1, x[5])
      BY <1>2, <1>4, Zenon DEF RotationFits
<1>7. Yields(Encode("rlwinm", <<x[1], x[2], x[4], 0, x[3] - 1, x[5]>>), g, cr) =
          {Placed(g, x[2], 0, x[3] - 1, x[4])}
      <2>1. PlacedSo(g, cr, x[1], x[2], x[4], 0, x[3] - 1, x[5], x[4])
            BY <1>4, <1>6, Places, Zenon
      <2> QED BY <2>1, Zenon DEF PlacedSo
<1>8. PlacingMeans("extlwi", x, g) = Placed(g, x[2], 0, x[3] - 1, x[4])
      BY MeaningOfPieces, Zenon
<1>9. x[Len(x)] = x[5] /\ "rlwinm" \in {"rlwinm", "rlwimi"}
      BY <1>2
<1> QED BY <1>1, <1>5, <1>6, <1>7, <1>8, <1>9, RotatingMean, Zenon

LEMMA ExtrwiBits ==
    ASSUME NEW n \in Int, NEW b \in Int, Piece(n, b)
    PROVE  /\ u8(b + n) = b + n /\ u8(32 - n) = 32 - n
           /\ b + n \in Int /\ 32 - n \in 0 .. 31 /\ 31 \in 0 .. 31 /\ 32 - n <= 31
           /\ Reaching(b + n, 32 - n, 31, b - (32 - n))
<1>1. n \in 1 .. 32 /\ b \in 0 .. 31 /\ b + n <= 32
      BY DEF Piece
<1>2. u8(b + n) = b + n
      <2>1. b + n \in 0 .. 255
            BY <1>1
      <2> QED BY <2>1, SmallByte, Zenon
<1>3. u8(32 - n) = 32 - n
      <2>1. 32 - n \in 0 .. 255
            BY <1>1
      <2> QED BY <2>1, SmallByte, Zenon
<1>5. ASSUME NEW i \in 0 .. 31, 32 - n <= i, i <= 31
      PROVE  (i + ((b + n) % 32)) % 32 = i + (b - (32 - n))
      <2>1. b + n \in 0 .. 32
            BY <1>1, <1>5
      <2>2. IF i + (b + n) < 32 THEN b - (32 - n) = b + n ELSE b - (32 - n) = (b + n) - 32
            BY <1>1, <1>5
      <2> QED BY <1>1, <2>1, <2>2, WheelTurns
<1>6. Reaching(b + n, 32 - n, 31, b - (32 - n))
      BY <1>5 DEF Reaching
<1>7. b + n \in Int /\ 32 - n \in 0 .. 31 /\ 31 \in 0 .. 31 /\ 32 - n <= 31
      BY <1>1
<1> QED BY <1>2, <1>3, <1>6, <1>7, Zenon

LEMMA ExtrwiAsMeant ==
    ASSUME NEW x, NEW g, NEW cr, HasMeaning("extrwi", x, g)
    PROVE  AsMeant("extrwi", x, g, cr)
<1>1. "extrwi" \in Pulled /\ "extrwi" \in Rotating
      BY RotatingAre DEF Pulled
<1>2. /\ x \in Seq(Int) /\ Len(x) = 5 /\ x[5] \in 0 .. 1 /\ x[3] \in Int /\ x[4] \in Int /\ Len(x) > 4
      /\ x[1] \in 0 .. 31 /\ x[2] \in 0 .. 31
      BY <1>1, PulledHave DEF Registers
<1>3. Piece(x[3], x[4])
      BY <1>1, PulledHave, Zenon
<1>4. /\ u8(x[4] + x[3]) = x[4] + x[3] /\ u8(32 - x[3]) = 32 - x[3]
      /\ x[4] + x[3] \in Int /\ 32 - x[3] \in 0 .. 31 /\ 31 \in 0 .. 31 /\ 32 - x[3] <= 31
      /\ Reaching(x[4] + x[3], 32 - x[3], 31, x[4] - (32 - x[3]))
      BY <1>2, <1>3, ExtrwiBits, Zenon
<1>5. Rotated("extrwi", x) = <<"rlwinm", <<x[1], x[2], x[4] + x[3], 32 - x[3], 31, x[5]>>>>
      BY <1>2, <1>4, RotatedIs, ZenonT(40)
<1>6. RotationFits(x[1], x[2], x[4] + x[3], 32 - x[3], 31, x[5])
      BY <1>2, <1>4, Zenon DEF RotationFits
<1>7. Yields(Encode("rlwinm", <<x[1], x[2], x[4] + x[3], 32 - x[3], 31, x[5]>>), g, cr) =
          {Placed(g, x[2], 32 - x[3], 31, x[4] - (32 - x[3]))}
      <2>1. PlacedSo(g, cr, x[1], x[2], x[4] + x[3], 32 - x[3], 31, x[5], x[4] - (32 - x[3]))
            BY <1>4, <1>6, Places, Zenon
      <2> QED BY <2>1, Zenon DEF PlacedSo
<1>8. PlacingMeans("extrwi", x, g) = Placed(g, x[2], 32 - x[3], 31, x[4] - (32 - x[3]))
      BY MeaningOfPieces, Zenon
<1>9. x[Len(x)] = x[5] /\ "rlwinm" \in {"rlwinm", "rlwimi"}
      BY <1>2
<1> QED BY <1>1, <1>5, <1>6, <1>7, <1>8, <1>9, RotatingMean, Zenon

LEMMA InslwiBits ==
    ASSUME NEW n \in Int, NEW b \in Int, Piece(n, b)
    PROVE  /\ u8(32 - b) = 32 - b /\ u8(b + n - 1) = b + n - 1
           /\ 32 - b \in Int /\ b \in 0 .. 31 /\ b + n - 1 \in 0 .. 31 /\ b <= b + n - 1
           /\ Reaching(32 - b, b, b + n - 1, -b)
<1>1. n \in 1 .. 32 /\ b \in 0 .. 31 /\ b + n <= 32
      BY DEF Piece
<1>2. u8(32 - b) = 32 - b
      <2>1. 32 - b \in 0 .. 255
            BY <1>1
      <2> QED BY <2>1, SmallByte, Zenon
<1>3. u8(b + n - 1) = b + n - 1
      <2>1. b + n - 1 \in 0 .. 255
            BY <1>1
      <2> QED BY <2>1, SmallByte, Zenon
<1>5. ASSUME NEW i \in 0 .. 31, b <= i, i <= b + n - 1
      PROVE  (i + ((32 - b) % 32)) % 32 = i + (-b)
      <2>1. 32 - b \in 0 .. 32
            BY <1>1, <1>5
      <2>2. IF i + (32 - b) < 32 THEN -b = 32 - b ELSE -b = (32 - b) - 32
            BY <1>1, <1>5
      <2> QED BY <1>1, <2>1, <2>2, WheelTurns
<1>6. Reaching(32 - b, b, b + n - 1, -b)
      BY <1>5 DEF Reaching
<1>7. 32 - b \in Int /\ b \in 0 .. 31 /\ b + n - 1 \in 0 .. 31 /\ b <= b + n - 1
      BY <1>1
<1> QED BY <1>2, <1>3, <1>6, <1>7, Zenon

LEMMA InslwiAsMeant ==
    ASSUME NEW x, NEW g, NEW cr, HasMeaning("inslwi", x, g)
    PROVE  AsMeant("inslwi", x, g, cr)
<1>1. "inslwi" \in Pulled /\ "inslwi" \in Rotating
      BY RotatingAre DEF Pulled
<1>2. /\ x \in Seq(Int) /\ Len(x) = 5 /\ x[5] \in 0 .. 1 /\ x[3] \in Int /\ x[4] \in Int /\ Len(x) > 4
      /\ x[1] \in 0 .. 31 /\ x[2] \in 0 .. 31
      BY <1>1, PulledHave DEF Registers
<1>3. Piece(x[3], x[4])
      BY <1>1, PulledHave, Zenon
<1>4. /\ u8(32 - x[4]) = 32 - x[4] /\ u8(x[4] + x[3] - 1) = x[4] + x[3] - 1
      /\ 32 - x[4] \in Int /\ x[4] \in 0 .. 31 /\ x[4] + x[3] - 1 \in 0 .. 31 /\ x[4] <= x[4] + x[3] - 1
      /\ Reaching(32 - x[4], x[4], x[4] + x[3] - 1, -x[4])
      BY <1>2, <1>3, InslwiBits, Zenon
<1>5. Rotated("inslwi", x) = <<"rlwimi", <<x[1], x[2], 32 - x[4], x[4], x[4] + x[3] - 1, x[5]>>>>
      BY <1>2, <1>4, RotatedIs, ZenonT(40)
<1>6. RotationFits(x[1], x[2], 32 - x[4], x[4], x[4] + x[3] - 1, x[5])
      BY <1>2, <1>4, Zenon DEF RotationFits
<1>7. Yields(Encode("rlwimi", <<x[1], x[2], 32 - x[4], x[4], x[4] + x[3] - 1, x[5]>>), g, cr) =
          {Inserted(g, x[2], x[1], x[4], x[4] + x[3] - 1, -x[4])}
      <2>1. PlacedSo(g, cr, x[1], x[2], 32 - x[4], x[4], x[4] + x[3] - 1, x[5], -x[4])
            BY <1>4, <1>6, Places, Zenon
      <2> QED BY <2>1, Zenon DEF PlacedSo
<1>8. PlacingMeans("inslwi", x, g) = Inserted(g, x[2], x[1], x[4], x[4] + x[3] - 1, -x[4])
      BY MeaningOfPieces, Zenon
<1>9. x[Len(x)] = x[5] /\ "rlwimi" \in {"rlwinm", "rlwimi"}
      BY <1>2
<1> QED BY <1>1, <1>5, <1>6, <1>7, <1>8, <1>9, RotatingMean, Zenon

LEMMA InsrwiBits ==
    ASSUME NEW n \in Int, NEW b \in Int, Piece(n, b)
    PROVE  /\ u8(32 - (b + n)) = 32 - (b + n) /\ u8(b + n - 1) = b + n - 1
           /\ 32 - (b + n) \in Int /\ b \in 0 .. 31 /\ b + n - 1 \in 0 .. 31 /\ b <= b + n - 1
           /\ Reaching(32 - (b + n), b, b + n - 1, (32 - n) - b)
<1>1. n \in 1 .. 32 /\ b \in 0 .. 31 /\ b + n <= 32
      BY DEF Piece
<1>2. u8(32 - (b + n)) = 32 - (b + n)
      <2>1. 32 - (b + n) \in 0 .. 255
            BY <1>1
      <2> QED BY <2>1, SmallByte, Zenon
<1>3. u8(b + n - 1) = b + n - 1
      <2>1. b + n - 1 \in 0 .. 255
            BY <1>1
      <2> QED BY <2>1, SmallByte, Zenon
<1>5. ASSUME NEW i \in 0 .. 31, b <= i, i <= b + n - 1
      PROVE  (i + ((32 - (b + n)) % 32)) % 32 = i + ((32 - n) - b)
      <2>1. 32 - (b + n) \in 0 .. 32
            BY <1>1, <1>5
      <2>2. IF i + (32 - (b + n)) < 32 THEN (32 - n) - b = 32 - (b + n)
            ELSE (32 - n) - b = (32 - (b + n)) - 32
            BY <1>1, <1>5
      <2> QED BY <1>1, <2>1, <2>2, WheelTurns
<1>6. Reaching(32 - (b + n), b, b + n - 1, (32 - n) - b)
      BY <1>5 DEF Reaching
<1>7. 32 - (b + n) \in Int /\ b \in 0 .. 31 /\ b + n - 1 \in 0 .. 31 /\ b <= b + n - 1
      BY <1>1
<1> QED BY <1>2, <1>3, <1>6, <1>7, Zenon

LEMMA InsrwiAsMeant ==
    ASSUME NEW x, NEW g, NEW cr, HasMeaning("insrwi", x, g)
    PROVE  AsMeant("insrwi", x, g, cr)
<1>1. "insrwi" \in Pulled /\ "insrwi" \in Rotating
      BY RotatingAre DEF Pulled
<1>2. /\ x \in Seq(Int) /\ Len(x) = 5 /\ x[5] \in 0 .. 1 /\ x[3] \in Int /\ x[4] \in Int /\ Len(x) > 4
      /\ x[1] \in 0 .. 31 /\ x[2] \in 0 .. 31
      BY <1>1, PulledHave DEF Registers
<1>3. Piece(x[3], x[4])
      BY <1>1, PulledHave, Zenon
<1>4. /\ u8(32 - (x[4] + x[3])) = 32 - (x[4] + x[3]) /\ u8(x[4] + x[3] - 1) = x[4] + x[3] - 1
      /\ 32 - (x[4] + x[3]) \in Int /\ x[4] \in 0 .. 31 /\ x[4] + x[3] - 1 \in 0 .. 31
      /\ x[4] <= x[4] + x[3] - 1
      /\ Reaching(32 - (x[4] + x[3]), x[4], x[4] + x[3] - 1, (32 - x[3]) - x[4])
      BY <1>2, <1>3, InsrwiBits, Zenon
<1>5. Rotated("insrwi", x) = <<"rlwimi", <<x[1], x[2], 32 - (x[4] + x[3]), x[4], x[4] + x[3] - 1, x[5]>>>>
      BY <1>2, <1>4, RotatedIs, ZenonT(40)
<1>6. RotationFits(x[1], x[2], 32 - (x[4] + x[3]), x[4], x[4] + x[3] - 1, x[5])
      BY <1>2, <1>4, Zenon DEF RotationFits
<1>7. Yields(Encode("rlwimi", <<x[1], x[2], 32 - (x[4] + x[3]), x[4], x[4] + x[3] - 1, x[5]>>), g, cr) =
          {Inserted(g, x[2], x[1], x[4], x[4] + x[3] - 1, (32 - x[3]) - x[4])}
      <2>1. PlacedSo(g, cr, x[1], x[2], 32 - (x[4] + x[3]), x[4], x[4] + x[3] - 1, x[5], (32 - x[3]) - x[4])
            BY <1>4, <1>6, Places, Zenon
      <2> QED BY <2>1, Zenon DEF PlacedSo
<1>8. PlacingMeans("insrwi", x, g) = Inserted(g, x[2], x[1], x[4], x[4] + x[3] - 1, (32 - x[3]) - x[4])
      BY MeaningOfPieces, Zenon
<1>9. x[Len(x)] = x[5] /\ "rlwimi" \in {"rlwinm", "rlwimi"}
      BY <1>2
<1> QED BY <1>1, <1>5, <1>6, <1>7, <1>8, <1>9, RotatingMean, Zenon

LEMMA RotlwiBits ==
    ASSUME NEW n \in Int, n \in 0 .. 31
    PROVE  /\ n \in Int /\ 0 \in 0 .. 31 /\ 31 \in 0 .. 31 /\ 0 <= 31
           /\ Turning(n, n)
<1>1. n \in 0 .. 31
      OBVIOUS
<1>5. ASSUME NEW i \in 0 .. 31 PROVE (i + (n % 32)) % 32 = (i + n) % 32
      BY <1>1, SMT
<1>6. Turning(n, n)
      BY <1>5 DEF Turning
<1>7. n \in Int /\ 0 \in 0 .. 31 /\ 31 \in 0 .. 31 /\ 0 <= 31
      BY <1>1
<1> QED BY <1>6, <1>7, Zenon

LEMMA RotlwiAsMeant ==
    ASSUME NEW x, NEW g, NEW cr, HasMeaning("rotlwi", x, g)
    PROVE  AsMeant("rotlwi", x, g, cr)
<1>1. "rotlwi" \in Shifted /\ "rotlwi" \in Rotating
      BY RotatingAre DEF Shifted
<1>2. /\ x \in Seq(Int) /\ Len(x) = 4 /\ x[4] \in 0 .. 1 /\ x[3] \in Int
      /\ x[1] \in 0 .. 31 /\ x[2] \in 0 .. 31 /\ x[3] \in 0 .. 31
      BY <1>1, ShiftedHave DEF Registers
<1>3. x[3] \in 0 .. 31
      BY <1>2
<1>4. /\ x[3] \in Int /\ 0 \in 0 .. 31 /\ 31 \in 0 .. 31 /\ 0 <= 31
      /\ Turning(x[3], x[3])
      BY <1>2, <1>3, RotlwiBits, Zenon
<1>5. Rotated("rotlwi", x) = <<"rlwinm", <<x[1], x[2], x[3], 0, 31, x[4]>>>>
      BY <1>2, <1>4, RotatedIs, ZenonT(40)
<1>6. RotationFits(x[1], x[2], x[3], 0, 31, x[4])
      BY <1>2, <1>4, Zenon DEF RotationFits
<1>7. Yields(Encode("rlwinm", <<x[1], x[2], x[3], 0, 31, x[4]>>), g, cr) =
          {Turned(g, x[2], x[3])}
      <2>1. TurnedSo("rlwinm", g, cr, x[1], x[2], x[3], x[4], x[3])
            BY <1>4, <1>6, Turns, Zenon
      <2> QED BY <2>1, Zenon DEF TurnedSo
<1>8. PlacingMeans("rotlwi", x, g) = Turned(g, x[2], x[3])
      BY MeaningOfShifts, Zenon
<1>9. x[Len(x)] = x[4] /\ "rlwinm" \in {"rlwinm", "rlwimi"}
      BY <1>2
<1> QED BY <1>1, <1>5, <1>6, <1>7, <1>8, <1>9, RotatingMean, Zenon

LEMMA RotrwiBits ==
    ASSUME NEW n \in Int, n \in 0 .. 31
    PROVE  /\ u8(32 - n) = 32 - n
           /\ 32 - n \in Int /\ 0 \in 0 .. 31 /\ 31 \in 0 .. 31 /\ 0 <= 31
           /\ Turning(32 - n, -n)
<1>1. n \in 0 .. 31
      OBVIOUS
<1>2. u8(32 - n) = 32 - n
      <2>1. 32 - n \in 0 .. 255
            BY <1>1
      <2> QED BY <2>1, SmallByte
<1>5. ASSUME NEW i \in 0 .. 31 PROVE (i + ((32 - n) % 32)) % 32 = (i + (-n)) % 32
      BY <1>1, SMT
<1>6. Turning(32 - n, -n)
      BY <1>5 DEF Turning
<1>7. 32 - n \in Int /\ 0 \in 0 .. 31 /\ 31 \in 0 .. 31 /\ 0 <= 31
      BY <1>1
<1> QED BY <1>2, <1>6, <1>7, Zenon

LEMMA RotrwiAsMeant ==
    ASSUME NEW x, NEW g, NEW cr, HasMeaning("rotrwi", x, g)
    PROVE  AsMeant("rotrwi", x, g, cr)
<1>1. "rotrwi" \in Shifted /\ "rotrwi" \in Rotating
      BY RotatingAre DEF Shifted
<1>2. /\ x \in Seq(Int) /\ Len(x) = 4 /\ x[4] \in 0 .. 1 /\ x[3] \in Int
      /\ x[1] \in 0 .. 31 /\ x[2] \in 0 .. 31 /\ x[3] \in 0 .. 31
      BY <1>1, ShiftedHave DEF Registers
<1>3. x[3] \in 0 .. 31
      BY <1>2
<1>4. /\ u8(32 - x[3]) = 32 - x[3]
      /\ 32 - x[3] \in Int /\ 0 \in 0 .. 31 /\ 31 \in 0 .. 31 /\ 0 <= 31
      /\ Turning(32 - x[3], -x[3])
      BY <1>2, <1>3, RotrwiBits, Zenon
<1>5. Rotated("rotrwi", x) = <<"rlwinm", <<x[1], x[2], 32 - x[3], 0, 31, x[4]>>>>
      BY <1>2, <1>4, RotatedIs, ZenonT(40)
<1>6. RotationFits(x[1], x[2], 32 - x[3], 0, 31, x[4])
      BY <1>2, <1>4, Zenon DEF RotationFits
<1>7. Yields(Encode("rlwinm", <<x[1], x[2], 32 - x[3], 0, 31, x[4]>>), g, cr) =
          {Turned(g, x[2], -x[3])}
      <2>1. TurnedSo("rlwinm", g, cr, x[1], x[2], 32 - x[3], x[4], -x[3])
            BY <1>4, <1>6, Turns, Zenon
      <2> QED BY <2>1, Zenon DEF TurnedSo
<1>8. PlacingMeans("rotrwi", x, g) = Turned(g, x[2], -x[3])
      BY MeaningOfShifts, Zenon
<1>9. x[Len(x)] = x[4] /\ "rlwinm" \in {"rlwinm", "rlwimi"}
      BY <1>2
<1> QED BY <1>1, <1>5, <1>6, <1>7, <1>8, <1>9, RotatingMean, Zenon

LEMMA SlwiBits ==
    ASSUME NEW n \in Int, n \in 0 .. 31
    PROVE  /\ u8(31 - n) = 31 - n
           /\ n \in Int /\ 0 \in 0 .. 31 /\ 31 - n \in 0 .. 31 /\ 0 <= 31 - n
           /\ Reaching(n, 0, 31 - n, n)
<1>1. n \in 0 .. 31
      OBVIOUS
<1>2. u8(31 - n) = 31 - n
      <2>1. 31 - n \in 0 .. 255
            BY <1>1
      <2> QED BY <2>1, SmallByte
<1>5. ASSUME NEW i \in 0 .. 31, 0 <= i, i <= 31 - n
      PROVE  (i + (n % 32)) % 32 = i + n
      <2>1. n \in 0 .. 32
            BY <1>1, <1>5
      <2>2. IF i + n < 32 THEN n = n ELSE n = n - 32
            BY <1>1, <1>5
      <2> QED BY <1>1, <2>1, <2>2, WheelTurns
<1>6. Reaching(n, 0, 31 - n, n)
      BY <1>5 DEF Reaching
<1>7. n \in Int /\ 0 \in 0 .. 31 /\ 31 - n \in 0 .. 31 /\ 0 <= 31 - n
      BY <1>1
<1> QED BY <1>2, <1>6, <1>7, Zenon

LEMMA SlwiAsMeant ==
    ASSUME NEW x, NEW g, NEW cr, HasMeaning("slwi", x, g)
    PROVE  AsMeant("slwi", x, g, cr)
<1>1. "slwi" \in Shifted /\ "slwi" \in Rotating
      BY RotatingAre DEF Shifted
<1>2. /\ x \in Seq(Int) /\ Len(x) = 4 /\ x[4] \in 0 .. 1 /\ x[3] \in Int
      /\ x[1] \in 0 .. 31 /\ x[2] \in 0 .. 31 /\ x[3] \in 0 .. 31
      BY <1>1, ShiftedHave DEF Registers
<1>3. x[3] \in 0 .. 31
      BY <1>2
<1>4. /\ u8(31 - x[3]) = 31 - x[3]
      /\ x[3] \in Int /\ 0 \in 0 .. 31 /\ 31 - x[3] \in 0 .. 31 /\ 0 <= 31 - x[3]
      /\ Reaching(x[3], 0, 31 - x[3], x[3])
      BY <1>2, <1>3, SlwiBits, Zenon
<1>5. Rotated("slwi", x) = <<"rlwinm", <<x[1], x[2], x[3], 0, 31 - x[3], x[4]>>>>
      BY <1>2, <1>4, RotatedIs, ZenonT(40)
<1>6. RotationFits(x[1], x[2], x[3], 0, 31 - x[3], x[4])
      BY <1>2, <1>4, Zenon DEF RotationFits
<1>7. Yields(Encode("rlwinm", <<x[1], x[2], x[3], 0, 31 - x[3], x[4]>>), g, cr) =
          {Placed(g, x[2], 0, 31 - x[3], x[3])}
      <2>1. PlacedSo(g, cr, x[1], x[2], x[3], 0, 31 - x[3], x[4], x[3])
            BY <1>4, <1>6, Places, Zenon
      <2> QED BY <2>1, Zenon DEF PlacedSo
<1>8. PlacingMeans("slwi", x, g) = Placed(g, x[2], 0, 31 - x[3], x[3])
      BY MeaningOfShifts, Zenon
<1>9. x[Len(x)] = x[4] /\ "rlwinm" \in {"rlwinm", "rlwimi"}
      BY <1>2
<1> QED BY <1>1, <1>5, <1>6, <1>7, <1>8, <1>9, RotatingMean, Zenon

LEMMA SrwiBits ==
    ASSUME NEW n \in Int, n \in 0 .. 31
    PROVE  /\ u8(32 - n) = 32 - n
           /\ 32 - n \in Int /\ n \in 0 .. 31 /\ 31 \in 0 .. 31 /\ n <= 31
           /\ Reaching(32 - n, n, 31, -n)
<1>1. n \in 0 .. 31
      OBVIOUS
<1>2. u8(32 - n) = 32 - n
      <2>1. 32 - n \in 0 .. 255
            BY <1>1
      <2> QED BY <2>1, SmallByte
<1>5. ASSUME NEW i \in 0 .. 31, n <= i, i <= 31
      PROVE  (i + ((32 - n) % 32)) % 32 = i + (-n)
      <2>1. 32 - n \in 0 .. 32
            BY <1>1, <1>5
      <2>2. IF i + (32 - n) < 32 THEN -n = 32 - n ELSE -n = (32 - n) - 32
            BY <1>1, <1>5
      <2> QED BY <1>1, <2>1, <2>2, WheelTurns
<1>6. Reaching(32 - n, n, 31, -n)
      BY <1>5 DEF Reaching
<1>7. 32 - n \in Int /\ n \in 0 .. 31 /\ 31 \in 0 .. 31 /\ n <= 31
      BY <1>1
<1> QED BY <1>2, <1>6, <1>7, Zenon

LEMMA SrwiAsMeant ==
    ASSUME NEW x, NEW g, NEW cr, HasMeaning("srwi", x, g)
    PROVE  AsMeant("srwi", x, g, cr)
<1>1. "srwi" \in Shifted /\ "srwi" \in Rotating
      BY RotatingAre DEF Shifted
<1>2. /\ x \in Seq(Int) /\ Len(x) = 4 /\ x[4] \in 0 .. 1 /\ x[3] \in Int
      /\ x[1] \in 0 .. 31 /\ x[2] \in 0 .. 31 /\ x[3] \in 0 .. 31
      BY <1>1, ShiftedHave DEF Registers
<1>3. x[3] \in 0 .. 31
      BY <1>2
<1>4. /\ u8(32 - x[3]) = 32 - x[3]
      /\ 32 - x[3] \in Int /\ x[3] \in 0 .. 31 /\ 31 \in 0 .. 31 /\ x[3] <= 31
      /\ Reaching(32 - x[3], x[3], 31, -x[3])
      BY <1>2, <1>3, SrwiBits, Zenon
<1>5. Rotated("srwi", x) = <<"rlwinm", <<x[1], x[2], 32 - x[3], x[3], 31, x[4]>>>>
      BY <1>2, <1>4, RotatedIs, ZenonT(40)
<1>6. RotationFits(x[1], x[2], 32 - x[3], x[3], 31, x[4])
      BY <1>2, <1>4, Zenon DEF RotationFits
<1>7. Yields(Encode("rlwinm", <<x[1], x[2], 32 - x[3], x[3], 31, x[4]>>), g, cr) =
          {Placed(g, x[2], x[3], 31, -x[3])}
      <2>1. PlacedSo(g, cr, x[1], x[2], 32 - x[3], x[3], 31, x[4], -x[3])
            BY <1>4, <1>6, Places, Zenon
      <2> QED BY <2>1, Zenon DEF PlacedSo
<1>8. PlacingMeans("srwi", x, g) = Placed(g, x[2], x[3], 31, -x[3])
      BY MeaningOfShifts, Zenon
<1>9. x[Len(x)] = x[4] /\ "rlwinm" \in {"rlwinm", "rlwimi"}
      BY <1>2
<1> QED BY <1>1, <1>5, <1>6, <1>7, <1>8, <1>9, RotatingMean, Zenon

LEMMA ClrlwiBits ==
    ASSUME NEW n \in Int, n \in 0 .. 31
    PROVE  /\ 0 \in Int /\ n \in 0 .. 31 /\ 31 \in 0 .. 31 /\ n <= 31
           /\ Reaching(0, n, 31, 0)
<1>1. n \in 0 .. 31
      OBVIOUS
<1>5. ASSUME NEW i \in 0 .. 31, n <= i, i <= 31
      PROVE  (i + (0 % 32)) % 32 = i + 0
      <2>1. 0 \in 0 .. 32
            BY <1>1, <1>5
      <2>2. IF i + 0 < 32 THEN 0 = 0 ELSE 0 = 0 - 32
            BY <1>1, <1>5
      <2> QED BY <1>1, <2>1, <2>2, WheelTurns
<1>6. Reaching(0, n, 31, 0)
      BY <1>5 DEF Reaching
<1>7. 0 \in Int /\ n \in 0 .. 31 /\ 31 \in 0 .. 31 /\ n <= 31
      BY <1>1
<1> QED BY <1>6, <1>7, Zenon

LEMMA ClrlwiAsMeant ==
    ASSUME NEW x, NEW g, NEW cr, HasMeaning("clrlwi", x, g)
    PROVE  AsMeant("clrlwi", x, g, cr)
<1>1. "clrlwi" \in Shifted /\ "clrlwi" \in Rotating
      BY RotatingAre DEF Shifted
<1>2. /\ x \in Seq(Int) /\ Len(x) = 4 /\ x[4] \in 0 .. 1 /\ x[3] \in Int
      /\ x[1] \in 0 .. 31 /\ x[2] \in 0 .. 31 /\ x[3] \in 0 .. 31
      BY <1>1, ShiftedHave DEF Registers
<1>3. x[3] \in 0 .. 31
      BY <1>2
<1>4. /\ 0 \in Int /\ x[3] \in 0 .. 31 /\ 31 \in 0 .. 31 /\ x[3] <= 31
      /\ Reaching(0, x[3], 31, 0)
      BY <1>2, <1>3, ClrlwiBits, Zenon
<1>5. Rotated("clrlwi", x) = <<"rlwinm", <<x[1], x[2], 0, x[3], 31, x[4]>>>>
      BY <1>2, <1>4, RotatedIs, Zenon
<1>6. RotationFits(x[1], x[2], 0, x[3], 31, x[4])
      BY <1>2, <1>4, Zenon DEF RotationFits
<1>7. Yields(Encode("rlwinm", <<x[1], x[2], 0, x[3], 31, x[4]>>), g, cr) =
          {Placed(g, x[2], x[3], 31, 0)}
      <2>1. PlacedSo(g, cr, x[1], x[2], 0, x[3], 31, x[4], 0)
            BY <1>4, <1>6, Places, Zenon
      <2> QED BY <2>1, Zenon DEF PlacedSo
<1>8. PlacingMeans("clrlwi", x, g) = Placed(g, x[2], x[3], 31, 0)
      BY MeaningOfShifts, Zenon
<1>9. x[Len(x)] = x[4] /\ "rlwinm" \in {"rlwinm", "rlwimi"}
      BY <1>2
<1> QED BY <1>1, <1>5, <1>6, <1>7, <1>8, <1>9, RotatingMean, Zenon

LEMMA ClrrwiBits ==
    ASSUME NEW n \in Int, n \in 0 .. 31
    PROVE  /\ u8(31 - n) = 31 - n
           /\ 0 \in Int /\ 0 \in 0 .. 31 /\ 31 - n \in 0 .. 31 /\ 0 <= 31 - n
           /\ Reaching(0, 0, 31 - n, 0)
<1>1. n \in 0 .. 31
      OBVIOUS
<1>2. u8(31 - n) = 31 - n
      <2>1. 31 - n \in 0 .. 255
            BY <1>1
      <2> QED BY <2>1, SmallByte
<1>5. ASSUME NEW i \in 0 .. 31, 0 <= i, i <= 31 - n
      PROVE  (i + (0 % 32)) % 32 = i + 0
      <2>1. 0 \in 0 .. 32
            BY <1>1, <1>5
      <2>2. IF i + 0 < 32 THEN 0 = 0 ELSE 0 = 0 - 32
            BY <1>1, <1>5
      <2> QED BY <1>1, <2>1, <2>2, WheelTurns
<1>6. Reaching(0, 0, 31 - n, 0)
      BY <1>5 DEF Reaching
<1>7. 0 \in Int /\ 0 \in 0 .. 31 /\ 31 - n \in 0 .. 31 /\ 0 <= 31 - n
      BY <1>1
<1> QED BY <1>2, <1>6, <1>7, Zenon

LEMMA ClrrwiAsMeant ==
    ASSUME NEW x, NEW g, NEW cr, HasMeaning("clrrwi", x, g)
    PROVE  AsMeant("clrrwi", x, g, cr)
<1>1. "clrrwi" \in Shifted /\ "clrrwi" \in Rotating
      BY RotatingAre DEF Shifted
<1>2. /\ x \in Seq(Int) /\ Len(x) = 4 /\ x[4] \in 0 .. 1 /\ x[3] \in Int
      /\ x[1] \in 0 .. 31 /\ x[2] \in 0 .. 31 /\ x[3] \in 0 .. 31
      BY <1>1, ShiftedHave DEF Registers
<1>3. x[3] \in 0 .. 31
      BY <1>2
<1>4. /\ u8(31 - x[3]) = 31 - x[3]
      /\ 0 \in Int /\ 0 \in 0 .. 31 /\ 31 - x[3] \in 0 .. 31 /\ 0 <= 31 - x[3]
      /\ Reaching(0, 0, 31 - x[3], 0)
      BY <1>2, <1>3, ClrrwiBits, Zenon
<1>5. Rotated("clrrwi", x) = <<"rlwinm", <<x[1], x[2], 0, 0, 31 - x[3], x[4]>>>>
      BY <1>2, <1>4, RotatedIs, ZenonT(40)
<1>6. RotationFits(x[1], x[2], 0, 0, 31 - x[3], x[4])
      BY <1>2, <1>4, Zenon DEF RotationFits
<1>7. Yields(Encode("rlwinm", <<x[1], x[2], 0, 0, 31 - x[3], x[4]>>), g, cr) =
          {Placed(g, x[2], 0, 31 - x[3], 0)}
      <2>1. PlacedSo(g, cr, x[1], x[2], 0, 0, 31 - x[3], x[4], 0)
            BY <1>4, <1>6, Places, Zenon
      <2> QED BY <2>1, Zenon DEF PlacedSo
<1>8. PlacingMeans("clrrwi", x, g) = Placed(g, x[2], 0, 31 - x[3], 0)
      BY MeaningOfShifts, Zenon
<1>9. x[Len(x)] = x[4] /\ "rlwinm" \in {"rlwinm", "rlwimi"}
      BY <1>2
<1> QED BY <1>1, <1>5, <1>6, <1>7, <1>8, <1>9, RotatingMean, Zenon

LEMMA ClrlslwiBits ==
    ASSUME NEW n \in Int, NEW b \in Int, n \in 0 .. 31, b \in 0 .. 31, n <= b
    PROVE  /\ u8(b - n) = b - n /\ u8(31 - n) = 31 - n
           /\ n \in Int /\ b - n \in 0 .. 31 /\ 31 - n \in 0 .. 31 /\ b - n <= 31 - n
           /\ Reaching(n, b - n, 31 - n, n)
<1>1. n \in 0 .. 31 /\ b \in 0 .. 31 /\ n <= b
      OBVIOUS
<1>2. u8(b - n) = b - n
      <2>1. b - n \in 0 .. 255
            BY <1>1
      <2> QED BY <2>1, SmallByte
<1>3. u8(31 - n) = 31 - n
      <2>1. 31 - n \in 0 .. 255
            BY <1>1
      <2> QED BY <2>1, SmallByte
<1>5. ASSUME NEW i \in 0 .. 31, b - n <= i, i <= 31 - n
      PROVE  (i + (n % 32)) % 32 = i + n
      <2>1. n \in 0 .. 32
            BY <1>1, <1>5
      <2>2. IF i + n < 32 THEN n = n ELSE n = n - 32
            BY <1>1, <1>5
      <2> QED BY <1>1, <2>1, <2>2, WheelTurns
<1>6. Reaching(n, b - n, 31 - n, n)
      BY <1>5 DEF Reaching
<1>7. n \in Int /\ b - n \in 0 .. 31 /\ 31 - n \in 0 .. 31 /\ b - n <= 31 - n
      BY <1>1
<1> QED BY <1>2, <1>3, <1>6, <1>7, Zenon

LEMMA ClrlslwiAsMeant ==
    ASSUME NEW x, NEW g, NEW cr, HasMeaning("clrlslwi", x, g)
    PROVE  AsMeant("clrlslwi", x, g, cr)
<1>1. "clrlslwi" \in Rotating
      BY RotatingAre
<1>2. /\ x \in Seq(Int) /\ Len(x) = 5 /\ x[5] \in 0 .. 1 /\ x[3] \in Int /\ x[4] \in Int /\ Len(x) > 4
      /\ x[1] \in 0 .. 31 /\ x[2] \in 0 .. 31 /\ x[3] \in 0 .. 31 /\ x[4] \in 0 .. 31
      BY <1>1, CutHave DEF Registers
<1>3. x[4] <= x[3]
      BY CutHave, Zenon
<1>4. /\ u8(x[3] - x[4]) = x[3] - x[4] /\ u8(31 - x[4]) = 31 - x[4]
      /\ x[4] \in Int /\ x[3] - x[4] \in 0 .. 31 /\ 31 - x[4] \in 0 .. 31 /\ x[3] - x[4] <= 31 - x[4]
      /\ Reaching(x[4], x[3] - x[4], 31 - x[4], x[4])
      BY <1>2, <1>3, ClrlslwiBits, Zenon
<1>5. Rotated("clrlslwi", x) = <<"rlwinm", <<x[1], x[2], x[4], x[3] - x[4], 31 - x[4], x[5]>>>>
      BY <1>2, <1>4, RotatedIs, Zenon
<1>6. RotationFits(x[1], x[2], x[4], x[3] - x[4], 31 - x[4], x[5])
      BY <1>2, <1>4, Zenon DEF RotationFits
<1>7. Yields(Encode("rlwinm", <<x[1], x[2], x[4], x[3] - x[4], 31 - x[4], x[5]>>), g, cr) =
          {Placed(g, x[2], x[3] - x[4], 31 - x[4], x[4])}
      <2>1. PlacedSo(g, cr, x[1], x[2], x[4], x[3] - x[4], 31 - x[4], x[5], x[4])
            BY <1>4, <1>6, Places, Zenon
      <2> QED BY <2>1, Zenon DEF PlacedSo
<1>8. PlacingMeans("clrlslwi", x, g) = Placed(g, x[2], x[3] - x[4], 31 - x[4], x[4])
      BY MeaningOfShifts, Zenon
<1>9. x[Len(x)] = x[5] /\ "rlwinm" \in {"rlwinm", "rlwimi"}
      BY <1>2
<1> QED BY <1>1, <1>5, <1>6, <1>7, <1>8, <1>9, RotatingMean, Zenon

LEMMA RotlwAsMeant ==
    ASSUME NEW x, NEW g, NEW cr, HasMeaning("rotlw", x, g)
    PROVE  AsMeant("rotlw", x, g, cr)
<1>1. "rotlw" \in Rotating
      BY RotatingAre
<1>2. /\ x \in Seq(Int) /\ Len(x) = 4 /\ x[4] \in 0 .. 1 /\ g[x[3]] \in Int
      /\ x[1] \in 0 .. 31 /\ x[2] \in 0 .. 31 /\ x[3] \in 0 .. 31
      BY TurnedHave DEF Registers
<1>3. Turning(g[x[3]], g[x[3]])
      <2>1. \A n \in Int : \A i \in 0 .. 31 : (i + (n % 32)) % 32 = (i + n) % 32
            BY SMT
      <2> QED BY <1>2, <2>1, Zenon DEF Turning
<1>4. Rotated("rotlw", x) = <<"rlwnm", <<x[1], x[2], x[3], 0, 31, x[4]>>>>
      BY <1>2, RotatedIs, ZenonT(40)
<1>5. RotationFits(x[1], x[2], x[3], 0, 31, x[4])
      <2>1. 0 \in 0 .. 31 /\ 31 \in 0 .. 31 /\ 0 <= 31
            OBVIOUS
      <2>2. \A v \in 0 .. 31 : v \in Int
            OBVIOUS
      <2> QED BY <1>2, <2>1, <2>2, Zenon DEF RotationFits
<1>6. Yields(Encode("rlwnm", <<x[1], x[2], x[3], 0, 31, x[4]>>), g, cr) = {Turned(g, x[2], g[x[3]])}
      <2>1. TurnedSo("rlwnm", g, cr, x[1], x[2], x[3], x[4], g[x[3]])
            BY <1>2, <1>3, <1>5, Turns, Zenon
      <2> QED BY <2>1, Zenon DEF TurnedSo
<1>7. PlacingMeans("rotlw", x, g) = Turned(g, x[2], g[x[3]])
      BY MeaningOfShifts, Zenon
<1>8. x[Len(x)] = x[4]
      BY <1>2
<1> QED BY <1>1, <1>2, <1>4, <1>5, <1>6, <1>7, <1>8, RotatingMean, Zenon

----------------------------------------------------------------------------
(* The shorthands that compute *)

\* A word that is one instruction does what that computes.
LEMMA DoesOne ==
    ASSUME NEW w, NEW m, NEW g, NEW cr, Instructions(w) = {m}
    PROVE  Yields(w, g, cr) = {Computes(w, m, g, cr)}
BY Zenon DEF Yields

\* What the instructions that are not rotations do, kind by kind.
Summed(m, g, a, d) ==
    CASE m = "addi" -> (IF a = 0 THEN 0 ELSE g[a]) + d
      [] m = "addis" -> (IF a = 0 THEN 0 ELSE g[a]) + d * 2^16
      [] m \in {"addic", "addic_dot"} -> g[a] + d
SumDone(m, g, cr, t, a, d) ==
    Yields(Encode(m, <<t, a, d>>), g, cr) = {Summed(m, g, a, d)}
LEMMA Sums ==
    ASSUME NEW m, NEW g, NEW cr, NEW t, NEW a, NEW d, AddArgs(m, t, a, d)
    PROVE  SumDone(m, g, cr, t, a, d)
<1> DEFINE w == Encode(m, <<t, a, d>>)
<1>1. AddRead(m, t, a, d, w)
      BY AddFields, Zenon
<1> HIDE DEF w
<1>2. /\ Instructions(w) = {m} /\ Manual[m].form = "D" /\ Read(w, "D", "a") = a
      /\ Read(w, "D", "d") = d
      BY <1>1, Zenon DEF AddRead
<1>3. m \in {"addi", "addis", "addic", "addic_dot"} /\ d \in Int
      BY DEF AddArgs
<1>4. m = "addi" => Computes(w, m, g, cr) = (IF a = 0 THEN 0 ELSE g[a]) + d * 1
      BY <1>2, Zenon DEF Computes
<1>5. m = "addis" => Computes(w, m, g, cr) = (IF a = 0 THEN 0 ELSE g[a]) + d * 2^16
      BY <1>2, Zenon DEF Computes
<1>6. m \in {"addic", "addic_dot"} => Computes(w, m, g, cr) = g[a] + d
      BY <1>2, Zenon DEF Computes
<1>7. d * 1 = d
      BY <1>3
<1>8. Computes(w, m, g, cr) = Summed(m, g, a, d)
      BY <1>3, <1>4, <1>5, <1>6, <1>7, Zenon DEF Summed
<1>9. Yields(w, g, cr) = {Computes(w, m, g, cr)}
      BY <1>2, DoesOne, Zenon
<1> QED BY <1>8, <1>9, Zenon DEF w, SumDone

DifferenceDone(m, g, cr, t, a, b, rc) ==
    Yields(Encode(m, <<t, a, b, rc>>), g, cr) = {g[b] - g[a]}
LEMMA Differs ==
    ASSUME NEW m, NEW g, NEW cr, NEW t, NEW a, NEW b, NEW rc, SubtractionArgs(m, t, a, b, rc)
    PROVE  DifferenceDone(m, g, cr, t, a, b, rc)
<1> DEFINE w == Encode(m, <<t, a, b, rc>>)
<1>1. SubtractionRead(m, t, a, b, rc, w)
      BY SubtractionFields, Zenon
<1> HIDE DEF w
<1>2. /\ Instructions(w) = {m} /\ Manual[m].form = "XO"
      /\ Read(w, "XO", "a") = a /\ Read(w, "XO", "b") = b
      BY <1>1, Zenon DEF SubtractionRead
<1>3. m \in {"subf", "subfo", "subfc", "subfco"}
      BY Zenon DEF SubtractionArgs
<1>4. Computes(w, m, g, cr) = g[b] - g[a]
      BY <1>2, <1>3, Zenon DEF Computes
<1>9. Yields(w, g, cr) = {Computes(w, m, g, cr)}
      BY <1>2, DoesOne, Zenon
<1> QED BY <1>4, <1>9, Zenon DEF w, DifferenceDone

LogicalDone(m, g, cr, a, t, b, rc) ==
    Yields(Encode(m, <<a, t, b, rc>>), g, cr) = {<<IF m = "orr" THEN "or" ELSE "nor", {g[t], g[b]}>>}
LEMMA Logicals ==
    ASSUME NEW m, NEW g, NEW cr, NEW a, NEW t, NEW b, NEW rc, LogicalArgs(m, a, t, b, rc)
    PROVE  LogicalDone(m, g, cr, a, t, b, rc)
<1> DEFINE w == Encode(m, <<a, t, b, rc>>)
<1>1. LogicalRead(m, a, t, b, rc, w)
      BY LogicalFields, Zenon
<1> HIDE DEF w
<1>2. /\ Instructions(w) = {m} /\ Manual[m].form = "X"
      /\ Read(w, "X", "t") = t /\ Read(w, "X", "b") = b
      BY <1>1, Zenon DEF LogicalRead
<1>3. m \in {"orr", "norr"}
      BY Zenon DEF LogicalArgs
<1>4. m = "orr" => Computes(w, m, g, cr) = <<"or", {g[t], g[b]}>>
      BY <1>2, Zenon DEF Computes
<1>5. m = "norr" => Computes(w, m, g, cr) = <<"nor", {g[t], g[b]}>>
      BY <1>2, Zenon DEF Computes
<1>6. Computes(w, m, g, cr) = <<IF m = "orr" THEN "or" ELSE "nor", {g[t], g[b]}>>
      BY <1>3, <1>4, <1>5
<1>9. Yields(w, g, cr) = {Computes(w, m, g, cr)}
      BY <1>2, DoesOne, Zenon
<1> QED BY <1>6, <1>9, Zenon DEF w, LogicalDone

SelectionDone(g, cr, t, a, b, c) ==
    Yields(Encode("isel", <<t, a, b, c>>), g, cr) =
        {IF c \notin cr THEN g[b] ELSE IF a = 0 THEN 0 ELSE g[a]}
LEMMA Selects ==
    ASSUME NEW g, NEW cr, NEW t, NEW a, NEW b, NEW c, SelectionArgs(t, a, b, c)
    PROVE  SelectionDone(g, cr, t, a, b, c)
<1> DEFINE w == Encode("isel", <<t, a, b, c>>)
<1>1. SelectionRead(t, a, b, c, w)
      BY SelectionFields, Zenon
<1> HIDE DEF w
<1>2. /\ Instructions(w) = {"isel"} /\ Manual["isel"].form = "A"
      /\ Read(w, "A", "a") = a /\ Read(w, "A", "b") = b /\ Read(w, "A", "c") = c
      BY <1>1, Zenon DEF SelectionRead
<1>3. Computes(w, "isel", g, cr) = IF c \notin cr THEN g[b] ELSE IF a = 0 THEN 0 ELSE g[a]
      BY <1>2, Zenon DEF Computes
<1>9. Yields(w, g, cr) = {Computes(w, "isel", g, cr)}
      BY <1>2, DoesOne, Zenon
<1> QED BY <1>3, <1>9, Zenon DEF w, SelectionDone

\* A bit of the CR is set or cleared.
Flags(cr, t, flag) == IF flag THEN cr \cup {t} ELSE cr \ {t}
ConditionDone(m, g, cr, t, a, b) ==
    Yields(Encode(m, <<t, a, b>>), g, cr) =
        {Flags(cr, t, CASE m = "creqv" -> a \in cr <=> b \in cr
                        [] m = "crxor" -> ~(a \in cr <=> b \in cr)
                        [] m = "cror" -> a \in cr \/ b \in cr
                        [] m = "crnor" -> a \notin cr /\ b \notin cr)}
LEMMA Conditions ==
    ASSUME NEW m, NEW g, NEW cr, NEW t, NEW a, NEW b, ConditionArgs(m, t, a, b)
    PROVE  ConditionDone(m, g, cr, t, a, b)
<1> DEFINE w == Encode(m, <<t, a, b>>)
           flag == CASE m = "creqv" -> a \in cr <=> b \in cr
                     [] m = "crxor" -> ~(a \in cr <=> b \in cr)
                     [] m = "cror" -> a \in cr \/ b \in cr
                     [] m = "crnor" -> a \notin cr /\ b \notin cr
<1>1. ConditionRead(m, t, a, b, w)
      BY ConditionFields, Zenon
<1> HIDE DEF w
<1>2. /\ Instructions(w) = {m} /\ Manual[m].form = "XL"
      /\ Read(w, "XL", "t") = t /\ Read(w, "XL", "a") = a /\ Read(w, "XL", "b") = b
      BY <1>1, Zenon DEF ConditionRead
<1>3. m \in {"creqv", "crxor", "cror", "crnor"}
      BY Zenon DEF ConditionArgs
<1>4. /\ m = "creqv" => flag = (a \in cr <=> b \in cr)
      /\ m = "crxor" => flag = ~(a \in cr <=> b \in cr)
      /\ m = "cror" => flag = (a \in cr \/ b \in cr)
      /\ m = "crnor" => flag = (a \notin cr /\ b \notin cr)
      OBVIOUS
<1> HIDE DEF flag
<1>5. CASE m = "creqv"
      <2>1. Computes(w, m, g, cr) = IF a \in cr <=> b \in cr THEN cr \cup {t} ELSE cr \ {t}
            BY <1>2, <1>5, Zenon DEF Computes
      <2> QED BY <1>4, <1>5, <2>1, <1>2, Zenon DEF Flags, Yields, w, flag, ConditionDone
<1>6. CASE m = "crxor"
      <2>1. Computes(w, m, g, cr) = IF (a \in cr) # (b \in cr) THEN cr \cup {t} ELSE cr \ {t}
            BY <1>2, <1>6, Zenon DEF Computes
      <2>2. ((a \in cr) # (b \in cr)) = ~(a \in cr <=> b \in cr)
            OBVIOUS
      <2> QED BY <1>4, <1>6, <2>1, <2>2, <1>2, Zenon DEF Flags, Yields, w, flag, ConditionDone
<1>7. CASE m = "cror"
      <2>1. Computes(w, m, g, cr) = IF a \in cr \/ b \in cr THEN cr \cup {t} ELSE cr \ {t}
            BY <1>2, <1>7, Zenon DEF Computes
      <2> QED BY <1>4, <1>7, <2>1, <1>2, Zenon DEF Flags, Yields, w, flag, ConditionDone
<1>8. CASE m = "crnor"
      <2>1. Computes(w, m, g, cr) = IF a \notin cr /\ b \notin cr THEN cr \cup {t} ELSE cr \ {t}
            BY <1>2, <1>8, Zenon DEF Computes
      <2> QED BY <1>4, <1>8, <2>1, <1>2, Zenon DEF Flags, Yields, w, flag, ConditionDone
<1> QED BY <1>3, <1>5, <1>6, <1>7, <1>8, Zenon

\* The operands of the shorthands that do not rotate, and what these are for.
LEMMA OthersHave ==
    ASSUME NEW m, NEW x, NEW g, HasMeaning(m, x, g)
    PROVE  /\ x \in Seq(Int)
           /\ m \in {"subi", "subis", "subic", "subic_dot", "la"} =>
                  /\ Len(x) = 3 /\ Registers(x, 2) /\ g[x[2]] \in Int
                  /\ x[3] \in Immediate /\ (m # "la" => -x[3] \in Immediate)
                  /\ m \notin {"subic", "subic_dot"} => x[2] # 0
           /\ m \in {"li", "lis"} => Len(x) = 2 /\ Registers(x, 1) /\ x[2] \in Immediate
           /\ m \in {"sub", "subo", "subc", "subco"} =>
                  Len(x) = 4 /\ Registers(x, 3) /\ x[4] \in {0, 1}
           /\ m \in {"mr", "notr"} => Len(x) = 3 /\ Registers(x, 2) /\ x[3] \in {0, 1}
           /\ m \in {"isellt", "iselgt", "iseleq"} => Len(x) = 3 /\ Registers(x, 3) /\ x[2] # 0
           /\ m \in {"crset", "crclr"} => Len(x) = 1 /\ Registers(x, 1)
           /\ m \in {"crmove", "crnot"} => Len(x) = 2 /\ Registers(x, 2)
           /\ m \in Compares =>
                  /\ Len(x) = 3 /\ Registers(x, 1) /\ x[3] \in 0 .. 7
                  /\ CASE m = "cmpwi" -> x[2] \in Immediate
                       [] m = "cmplwi" -> x[2] \in 0 .. 2^16 - 1
                       [] m \in {"cmpw", "cmplw"} -> x[2] \in 0 .. 31 /\ g[x[2]] \in Int
           /\ m \in {"lwsync", "ptesync", "nop"} => Len(x) = 0
           /\ m = "mtcr" => Len(x) = 1 /\ Registers(x, 1)
<1> DEFINE sum == /\ Len(x) = 3 /\ Registers(x, 2) /\ g[x[2]] \in Int
                  /\ x[3] \in Immediate /\ (m # "la" => -x[3] \in Immediate)
                  /\ m \notin {"subic", "subic_dot"} => x[2] # 0
           zero == Len(x) = 2 /\ Registers(x, 1) /\ x[2] \in Immediate
           difference == Len(x) = 4 /\ Registers(x, 3) /\ x[4] \in {0, 1}
           logical == Len(x) = 3 /\ Registers(x, 2) /\ x[3] \in {0, 1}
           selection == Len(x) = 3 /\ Registers(x, 3) /\ x[2] # 0
           one == Len(x) = 1 /\ Registers(x, 1)
           two == Len(x) = 2 /\ Registers(x, 2)
           comparison == /\ Len(x) = 3 /\ Registers(x, 1) /\ x[3] \in 0 .. 7
                         /\ CASE m = "cmpwi" -> x[2] \in Immediate
                              [] m = "cmplwi" -> x[2] \in 0 .. 2^16 - 1
                              [] m \in {"cmpw", "cmplw"} -> x[2] \in 0 .. 31 /\ g[x[2]] \in Int
           none == Len(x) = 0
<1>1. /\ x \in Seq(Int)
      /\ \/ m \in Pulled \/ m = "clrlslwi" \/ m \in Shifted \/ m = "rotlw"
         \/ m \in {"subi", "subis", "subic", "subic_dot"} \cup {"la"} /\ sum
         \/ m \in {"li", "lis"} /\ zero
         \/ m \in {"sub", "subo", "subc", "subco"} /\ difference
         \/ m \in {"mr", "notr"} /\ logical
         \/ m \in {"isellt", "iselgt", "iseleq"} /\ selection
         \/ m \in {"crset", "crclr"} /\ one
         \/ m \in {"crmove", "crnot"} /\ two
         \/ m \in Compares /\ comparison
         \/ m \in {"lwsync", "ptesync"} \cup {"nop"} /\ none
         \/ m = "mtcr" /\ one
      BY NamesAre, Zenon DEF HasMeaning
<1> HIDE DEF sum, zero, difference, logical, selection, one, two, comparison, none
<1>2. /\ m \in {"subi", "subis", "subic", "subic_dot", "la"} => sum
      /\ m \in {"li", "lis"} => zero
      /\ m \in {"sub", "subo", "subc", "subco"} => difference
      /\ m \in {"mr", "notr"} => logical
      /\ m \in {"isellt", "iselgt", "iseleq"} => selection
      /\ m \in {"crset", "crclr"} => one
      /\ m \in {"crmove", "crnot"} => two
      /\ m \in Compares => comparison
      /\ m \in {"lwsync", "ptesync", "nop"} => none
      /\ m = "mtcr" => one
      BY <1>1 DEF Pulled, Shifted, Compares
<1> QED BY <1>1, <1>2, Zenon DEF sum, zero, difference, logical, selection, one, two, comparison, none

\* The call each comes to.
LEMMA SumsExpand ==
    ASSUME NEW x
    PROVE  /\ Expand("la", x) = <<"addi", x>>
           /\ Expand("subi", x) = <<"addi", <<x[1], x[2], s16(-x[3])>>>>
           /\ Expand("subis", x) = <<"addis", <<x[1], x[2], s16(-x[3])>>>>
           /\ Expand("subic", x) = <<"addic", <<x[1], x[2], s16(-x[3])>>>>
           /\ Expand("subic_dot", x) = <<"addic_dot", <<x[1], x[2], s16(-x[3])>>>>
<1>1. /\ Renamed["la"] = "addi"
      /\ Negated["subi"] = "addi"
      /\ Negated["subis"] = "addis"
      /\ Negated["subic"] = "addic"
      /\ Negated["subic_dot"] = "addic_dot"
      BY DEF Renamed, Negated
<1>2. \A m \in {"la", "cmpwi", "cmplwi", "cmpw", "cmplw"} : Expand(m, x) = <<Renamed[m], x>>
      BY NamesAre DEF Expand
<1>3. \A m \in {"subi", "subis", "subic", "subic_dot"} : Expand(m, x) = <<Negated[m], <<x[1], x[2], s16(-x[3])>>>>
      BY NamesAre DEF Expand
<1> QED BY <1>1, <1>2, <1>3, Zenon

LEMMA NumbersExpand ==
    ASSUME NEW x
    PROVE  /\ Expand("li", x) = <<"addi", <<x[1], 0, x[2]>>>>
           /\ Expand("lis", x) = <<"addis", <<x[1], 0, x[2]>>>>
<1>1. /\ WithZero["li"] = "addi"
      /\ WithZero["lis"] = "addis"
      BY DEF WithZero
<1>2. \A m \in {"li", "lis"} : Expand(m, x) = <<WithZero[m], <<x[1], 0, x[2]>>>>
      BY NamesAre DEF Expand
<1> QED BY <1>1, <1>2, Zenon

LEMMA DifferencesExpand ==
    \A m \in {"sub", "subo", "subc", "subco"} : \A x : Expand(m, x) = <<Reversed[m], <<x[1], x[3], x[2], x[4]>>>>
BY NamesAre DEF Expand
LEMMA ChoicesExpand ==
    \A m \in {"isellt", "iselgt", "iseleq"} : \A x : Expand(m, x) = <<"isel", x \o <<Selected[m]>>>>
BY NamesAre DEF Expand

LEMMA CopiesExpand ==
    ASSUME NEW x
    PROVE  /\ Expand("mr", x) = <<"orr", <<x[1], x[2]>> \o Tail(x)>>
           /\ Expand("notr", x) = <<"norr", <<x[1], x[2]>> \o Tail(x)>>
           /\ Expand("crmove", x) = <<"cror", <<x[1], x[2]>> \o Tail(x)>>
           /\ Expand("crnot", x) = <<"crnor", <<x[1], x[2]>> \o Tail(x)>>
<1>1. /\ Doubled["mr"] = "orr"
      /\ Doubled["notr"] = "norr"
      /\ Doubled["crmove"] = "cror"
      /\ Doubled["crnot"] = "crnor"
      BY DEF Doubled
<1>2. \A m \in {"mr", "notr", "crmove", "crnot"} : Expand(m, x) = <<Doubled[m], <<x[1], x[2]>> \o Tail(x)>>
      BY NamesAre DEF Expand
<1> QED BY <1>1, <1>2, Zenon

LEMMA TripledExpand ==
    ASSUME NEW x
    PROVE  /\ Expand("crset", x) = <<"creqv", <<x[1], x[1], x[1]>>>>
           /\ Expand("crclr", x) = <<"crxor", <<x[1], x[1], x[1]>>>>
<1>1. /\ Tripled["crset"] = "creqv"
      /\ Tripled["crclr"] = "crxor"
      BY DEF Tripled
<1>2. \A m \in {"crset", "crclr"} : Expand(m, x) = <<Tripled[m], <<x[1], x[1], x[1]>>>>
      BY NamesAre DEF Expand
<1> QED BY <1>1, <1>2, Zenon

LEMMA ComparesExpand ==
    ASSUME NEW x
    PROVE  /\ Expand("cmpwi", x) = <<"cmpi", x>>
           /\ Expand("cmplwi", x) = <<"cmpli", x>>
           /\ Expand("cmpw", x) = <<"cmp", x>>
           /\ Expand("cmplw", x) = <<"cmpl", x>>
<1>1. /\ Renamed["cmpwi"] = "cmpi"
      /\ Renamed["cmplwi"] = "cmpli"
      /\ Renamed["cmpw"] = "cmp"
      /\ Renamed["cmplw"] = "cmpl"
      BY DEF Renamed
<1>2. \A m \in {"la", "cmpwi", "cmplwi", "cmpw", "cmplw"} : Expand(m, x) = <<Renamed[m], x>>
      BY NamesAre DEF Expand
<1> QED BY <1>1, <1>2, Zenon

LEMMA SyncsExpand ==
    ASSUME NEW x
    PROVE  /\ Expand("lwsync", x) = <<"sync", <<1>>>>
           /\ Expand("ptesync", x) = <<"sync", <<2>>>>
<1>1. /\ Synced["lwsync"] = 1
      /\ Synced["ptesync"] = 2
      BY DEF Synced
<1>2. \A m \in {"lwsync", "ptesync"} : Expand(m, x) = <<"sync", <<Synced[m]>>>>
      BY NamesAre DEF Expand
<1> QED BY <1>1, <1>2, Zenon

LEMMA RestExpand ==
    \A x : Expand("nop", x) = <<"ori", <<0, 0, 0>>>> /\ Expand("mtcr", x) = <<"mtcrf", <<255, x[1]>>>>
BY NamesAre DEF Expand

\* The meaning of each.
OtherMeaning(m, x, g, cr, v) ==
    /\ m \in {"subi", "subic", "subic_dot"} => v = g[x[2]] - x[3]
    /\ m = "subis" => v = g[x[2]] - x[3] * 2^16
    /\ m \in {"sub", "subo", "subc", "subco"} => v = g[x[2]] - g[x[3]]
    /\ m = "la" => v = g[x[2]] + x[3]
    /\ m = "li" => v = x[2]
    /\ m = "lis" => v = x[2] * 2^16
    /\ m = "mr" => v = <<"or", {g[x[2]]}>>
    /\ m = "notr" => v = <<"nor", {g[x[2]]}>>
    /\ m \in {"isellt", "iselgt", "iseleq"} =>
           v = IF Chooses[m] \in cr THEN g[x[2]] ELSE g[x[3]]
    /\ m = "crset" => v = cr \cup {x[1]}
    /\ m = "crclr" => v = cr \ {x[1]}
    /\ m = "crmove" => v = IF x[2] \in cr THEN cr \cup {x[1]} ELSE cr \ {x[1]}
    /\ m = "crnot" => v = IF x[2] \in cr THEN cr \ {x[1]} ELSE cr \cup {x[1]}
    /\ m = "cmpwi" => v = Order(g[x[1]], x[2])
    /\ m = "cmplwi" => v = UnsignedOrder(g[x[1]], x[2])
    /\ m = "cmpw" => v = Order(g[x[1]], g[x[2]])
    /\ m = "cmplw" => v = UnsignedOrder(g[x[1]], g[x[2]])
    /\ m = "nop" => v = g[0]
    /\ m = "mtcr" => v = g[x[1]]
    /\ m \in {"lwsync", "ptesync"} => v = m
LEMMA OthersMean ==
    ASSUME NEW m, NEW x, NEW g, NEW cr
    PROVE  OtherMeaning(m, x, g, cr, MeantValue(m, x, g, cr))
BY NamesAre, RotatingAre, SMT DEF MeantValue, OtherMeaning

\* Where the calls go that they come to.
LEMMA SumsGo ==
    ASSUME NEW m, NEW f, NEW x, NEW a, NEW d, AddArgs(f, x[1], a, d),
           <<m, f>> \in {<<"la", "addi">>, <<"li", "addi">>, <<"lis", "addis">>, <<"subi", "addi">>,
                        <<"subis", "addis">>, <<"subic", "addic">>, <<"subic_dot", "addic_dot">>}
    PROVE  GoesAsMeant(f, <<x[1], a, d>>, m, x)
<1>1. AimsAt(Encode(f, <<x[1], a, d>>), f, <<"gpr", x[1]>>,
             (IF f = "addic_dot" THEN {"CR0"} ELSE {}) \cup Carried(f))
      BY SumAims, Zenon
<1>2. /\ m \in {"la", "li", "lis", "subi", "subis", "subic", "subic_dot"}
      /\ f = "addic_dot" <=> m = "subic_dot"
      /\ f \in {"addic", "addic_dot", "subfc", "subfco"} <=> m \in {"subic", "subic_dot"}
      OBVIOUS
<1>3. MeantTarget(m, x) = <<"gpr", x[1]>>
      <2>1. m \in Placing
            BY <1>2 DEF Placing
      <2> QED BY <2>1, MeantTargets, Zenon
<1>4. MeantBeside(m, x) = (IF f = "addic_dot" THEN {"CR0"} ELSE {}) \cup Carried(f)
      <2>1. m \notin Asking
            BY <1>2, RotatingAre DEF Asking
      <2>2. MeantBeside(m, x) = (IF m = "subic_dot" THEN {"CR0"} ELSE {})
                \cup (IF m \in {"subic", "subic_dot"} THEN {"CA"} ELSE {})
            BY <1>2, <2>1, MeantBesides
      <2> QED BY <1>2, <2>2, Zenon DEF Carried
<1> QED BY <1>1, <1>3, <1>4, Zenon DEF GoesAsMeant

LEMMA DifferencesGo ==
    ASSUME NEW m, NEW f, NEW x, NEW a, NEW b, Len(x) = 4, SubtractionArgs(f, x[1], a, b, x[4]),
           <<m, f>> \in {<<"sub", "subf">>, <<"subo", "subfo">>, <<"subc", "subfc">>, <<"subco", "subfco">>}
    PROVE  GoesAsMeant(f, <<x[1], a, b, x[4]>>, m, x)
<1>1. AimsAt(Encode(f, <<x[1], a, b, x[4]>>), f, <<"gpr", x[1]>>,
             Recorded(x[4]) \cup Carried(f) \cup Overflown(f))
      BY DifferenceAims, Zenon
<1>2. /\ m \in {"sub", "subo", "subc", "subco"}
      /\ f \in {"addic", "addic_dot", "subfc", "subfco"} <=> m \in {"subic", "subic_dot", "subc", "subco"}
      /\ f \in {"subfo", "subfco"} <=> m \in {"subo", "subco"}
      OBVIOUS
<1>3. MeantTarget(m, x) = <<"gpr", x[1]>>
      <2>1. m \in Placing
            BY <1>2 DEF Placing
      <2> QED BY <2>1, MeantTargets, Zenon
<1>4. MeantBeside(m, x) = Recorded(x[4]) \cup Carried(f) \cup Overflown(f)
      <2>1. m \in Asking
            BY <1>2 DEF Asking
      <2>2. MeantBeside(m, x) = Recorded(x[Len(x)])
                \cup (IF m \in {"subic", "subic_dot", "subc", "subco"} THEN {"CA"} ELSE {})
                \cup (IF m \in {"subo", "subco"} THEN {"OV"} ELSE {})
            BY <2>1, MeantBesides, Zenon
      <2> QED BY <1>2, <2>2, Zenon DEF Carried, Overflown
<1> QED BY <1>1, <1>3, <1>4, Zenon DEF GoesAsMeant

LEMMA CopiesGo ==
    ASSUME NEW m, NEW f, NEW x, NEW t, NEW b, Len(x) = 3, LogicalArgs(f, x[1], t, b, x[3]),
           <<m, f>> \in {<<"mr", "orr">>, <<"notr", "norr">>}
    PROVE  GoesAsMeant(f, <<x[1], t, b, x[3]>>, m, x)
<1>1. AimsAt(Encode(f, <<x[1], t, b, x[3]>>), f, <<"gpr", x[1]>>, Recorded(x[3]))
      BY LogicalAims, Zenon
<1>2. m \in {"mr", "notr"}
      OBVIOUS
<1>3. MeantTarget(m, x) = <<"gpr", x[1]>>
      <2>1. m \in Placing
            BY <1>2 DEF Placing
      <2> QED BY <2>1, MeantTargets, Zenon
<1>4. MeantBeside(m, x) = Recorded(x[3])
      <2>1. m \in Asking /\ m \notin {"subic", "subic_dot", "subc", "subco", "subo"}
            BY <1>2 DEF Asking
      <2>2. MeantBeside(m, x) = Recorded(x[Len(x)])
            BY <2>1, MeantBesides
      <2> QED BY <2>2, Zenon
<1> QED BY <1>1, <1>3, <1>4, Zenon DEF GoesAsMeant

\* One of those that set nothing beside.
LEMMA NothingBeside ==
    ASSUME NEW m, NEW x,
           m \in {"isellt", "iselgt", "iseleq", "crset", "crclr", "crmove", "crnot", "nop", "mtcr",
                 "lwsync", "ptesync", "cmpwi", "cmplwi", "cmpw", "cmplw"}
    PROVE  MeantBeside(m, x) = {}
<1>1. m \notin Asking /\ m \notin {"subic", "subic_dot", "subc", "subco", "subo"}
      BY RotatingAre DEF Asking
<1> QED BY <1>1, MeantBesides

LEMMA ChoicesGo ==
    ASSUME NEW m \in {"isellt", "iselgt", "iseleq"}, NEW x, NEW a, NEW b, NEW c, SelectionArgs(x[1], a, b, c)
    PROVE  GoesAsMeant("isel", <<x[1], a, b, c>>, m, x)
<1>1. AimsAt(Encode("isel", <<x[1], a, b, c>>), "isel", <<"gpr", x[1]>>, {})
      BY SelectionAims, Zenon
<1>2. MeantTarget(m, x) = <<"gpr", x[1]>>
      <2>1. m \in Placing
            BY DEF Placing
      <2> QED BY <2>1, MeantTargets, Zenon
<1>3. MeantBeside(m, x) = {}
      BY NothingBeside
<1> QED BY <1>1, <1>2, <1>3, Zenon DEF GoesAsMeant

LEMMA BitsGo ==
    ASSUME NEW m \in {"crset", "crclr", "crmove", "crnot"}, NEW x, NEW f, NEW t, NEW a, NEW b,
           ConditionArgs(f, t, a, b)
    PROVE  GoesAsMeant(f, <<t, a, b>>, m, x)
<1>1. AimsAt(Encode(f, <<t, a, b>>), f, <<"cr">>, {})
      BY ConditionAims, Zenon
<1>2. MeantTarget(m, x) = <<"cr">>
      BY MeantTargets, Zenon
<1>3. MeantBeside(m, x) = {}
      BY NothingBeside
<1> QED BY <1>1, <1>2, <1>3, Zenon DEF GoesAsMeant

\* A number that fits a halfword is not cut by it.
LEMMA SmallHalf == \A v \in Immediate : s16(v) = v
<1> SUFFICES ASSUME NEW v \in Immediate PROVE s16(v) = v
    OBVIOUS
<1> DEFINE k == v + 2^15
<1>1. v \in Int /\ k \in Int /\ 0 <= k /\ k < 65536 /\ v = k - 32768
      BY SMT DEF Immediate
<1>2. s16(v) = (k % 2^16) - 2^15
      BY Zenon DEF s16, Low
<1>3. 2^16 = 65536 /\ 2^15 = 32768
      BY ONLY SMT
<1> HIDE DEF k
<1>4. k % 65536 = k
      BY ONLY <1>1, SMT
<1> QED BY <1>1, <1>2, <1>3, <1>4, SMT

\* The operands of a shorthand that repeats one or adds one.
LEMMA Repeated ==
    /\ \A a, b, c \in Int : <<a, b>> \o Tail(<<a, b, c>>) = <<a, b, b, c>>
    /\ \A a, b \in Int : <<a, b>> \o Tail(<<a, b>>) = <<a, b, b>>
    /\ \A a, b, c, d \in Int : <<a, b, c>> \o <<d>> = <<a, b, c, d>>
<1> USE ConcatProperties
<1>1. ASSUME NEW a \in Int, NEW b \in Int, NEW c \in Int
      PROVE  <<a, b>> \o Tail(<<a, b, c>>) = <<a, b, b, c>>
      <2> DEFINE s == <<a, b>> \o <<b, c>>
      <2>1. Tail(<<a, b, c>>) = <<b, c>>
            OBVIOUS
      <2>2. s \in Seq(Int) /\ Len(s) = 4 /\ s[1] = a /\ s[2] = b /\ s[3] = b /\ s[4] = c
            OBVIOUS
      <2> HIDE DEF s
      <2>3. s = <<a, b, b, c>>
            BY <2>2
      <2> QED BY <2>1, <2>3 DEF s
<1>2. ASSUME NEW a \in Int, NEW b \in Int
      PROVE  <<a, b>> \o Tail(<<a, b>>) = <<a, b, b>>
      <2> DEFINE s == <<a, b>> \o <<b>>
      <2>1. Tail(<<a, b>>) = <<b>>
            OBVIOUS
      <2>2. s \in Seq(Int) /\ Len(s) = 3 /\ s[1] = a /\ s[2] = b /\ s[3] = b
            OBVIOUS
      <2> HIDE DEF s
      <2>3. s = <<a, b, b>>
            BY <2>2
      <2> QED BY <2>1, <2>3 DEF s
<1>3. ASSUME NEW a \in Int, NEW b \in Int, NEW c \in Int, NEW d \in Int
      PROVE  <<a, b, c>> \o <<d>> = <<a, b, c, d>>
      <2> DEFINE s == <<a, b, c>> \o <<d>>
      <2>2. s \in Seq(Int) /\ Len(s) = 4 /\ s[1] = a /\ s[2] = b /\ s[3] = c /\ s[4] = d
            OBVIOUS
      <2> HIDE DEF s
      <2>3. s = <<a, b, c, d>>
            BY <2>2
      <2> QED BY <2>3 DEF s
<1> QED BY <1>1, <1>2, <1>3

\* The shorthands, kind by kind.
LEMMA SumsAsMeant ==
    ASSUME NEW m \in {"subi", "subis", "subic", "subic_dot", "la"}, NEW x, NEW g, NEW cr,
           HasMeaning(m, x, g)
    PROVE  AsMeant(m, x, g, cr)
<1> DEFINE n == x[3]
           r == g[x[2]]
           a == x[2]
           t == x[1]
<1>1. /\ x \in Seq(Int) /\ Len(x) = 3 /\ Registers(x, 2) /\ r \in Int
      /\ n \in Immediate /\ (m # "la" => -n \in Immediate)
      /\ m \notin {"subic", "subic_dot"} => a # 0
      BY OthersHave, Zenon
<1>2. t \in 0 .. 31 /\ a \in 0 .. 31
      BY <1>1 DEF Registers
<1>3. x = <<t, a, n>>
      BY <1>1
<1>4. m # "la" => s16(-n) = -n
      BY <1>1, SmallHalf, Zenon
<1>5. ASSUME NEW f \in {"addi", "addis", "addic", "addic_dot"}, NEW d \in Immediate
      PROVE  Yields(Encode(f, <<t, a, d>>), g, cr) = {Summed(f, g, a, d)}
      <2>1. AddArgs(f, t, a, d)
            BY <1>2, Zenon DEF AddArgs, Immediate
      <2>2. SumDone(f, g, cr, t, a, d)
            BY <2>1, Sums, Zenon
      <2> QED BY <2>2, Zenon DEF SumDone
<1>g. ASSUME NEW f, NEW d \in Immediate,
             <<m, f>> \in {<<"la", "addi">>, <<"subi", "addi">>, <<"subis", "addis">>,
                          <<"subic", "addic">>, <<"subic_dot", "addic_dot">>}
      PROVE  GoesAsMeant(f, <<t, a, d>>, m, x)
      <2>1. f \in {"addi", "addis", "addic", "addic_dot"}
            BY <1>g
      <2>2. AddArgs(f, t, a, d)
            BY <1>2, <2>1, Zenon DEF AddArgs, Immediate
      <2>3. <<m, f>> \in {<<"la", "addi">>, <<"li", "addi">>, <<"lis", "addis">>, <<"subi", "addi">>,
                         <<"subis", "addis">>, <<"subic", "addic">>, <<"subic_dot", "addic_dot">>}
            BY <1>g
      <2> QED BY <2>2, <2>3, SumsGo, Zenon
<1>e. /\ Expand("la", x) = <<"addi", x>>
      /\ Expand("subi", x) = <<"addi", <<t, a, s16(-n)>>>>
      /\ Expand("subis", x) = <<"addis", <<t, a, s16(-n)>>>>
      /\ Expand("subic", x) = <<"addic", <<t, a, s16(-n)>>>>
      /\ Expand("subic_dot", x) = <<"addic_dot", <<t, a, s16(-n)>>>>
      BY SumsExpand, Zenon
<1>m. LET v == MeantValue(m, x, g, cr)
      IN  /\ m \in {"subi", "subic", "subic_dot"} => v = r - n
          /\ m = "subis" => v = r - n * 2^16
          /\ m = "la" => v = r + n
      <2>1. OtherMeaning(m, x, g, cr, MeantValue(m, x, g, cr))
            BY OthersMean, Zenon
      <2> QED BY <2>1, Zenon DEF OtherMeaning
<1>n. n \in Int /\ \A d \in Immediate : d \in Int
      BY <1>1 DEF Immediate
<1>6. ASSUME NEW d \in Int
      PROVE  /\ a # 0 => Summed("addi", g, a, d) = r + d
             /\ a # 0 => Summed("addis", g, a, d) = r + d * 2^16
             /\ Summed("addic", g, a, d) = r + d
             /\ Summed("addic_dot", g, a, d) = r + d
      BY Zenon DEF Summed
<1> HIDE DEF n, r, a, t
<1>7. r + -n = r - n /\ r + (-n) * 2^16 = r - n * 2^16
      BY <1>1, <1>n, SMT
<1>8. CASE m = "la"
      <2>1. Yields(Encode("addi", <<t, a, n>>), g, cr) = {r + n}
            BY <1>1, <1>5, <1>6, <1>8, <1>n
      <2>2. GoesAsMeant("addi", <<t, a, n>>, m, x)
            BY <1>1, <1>8, <1>g
      <2> QED BY <1>3, <1>8, <1>e, <1>m, <2>1, <2>2, MeantBy, Zenon
<1>9. CASE m # "la"
      <2>1. -n \in Immediate /\ -n \in Int /\ s16(-n) = -n
            BY <1>1, <1>4, <1>9, <1>n, Zenon
      <2>2. /\ a # 0 => Yields(Encode("addi", <<t, a, -n>>), g, cr) = {r - n}
            /\ a # 0 => Yields(Encode("addis", <<t, a, -n>>), g, cr) = {r - n * 2^16}
            /\ Yields(Encode("addic", <<t, a, -n>>), g, cr) = {r - n}
            /\ Yields(Encode("addic_dot", <<t, a, -n>>), g, cr) = {r - n}
            BY <1>5, <1>6, <1>7, <2>1
      <2>3. CASE m = "subi"
            <3>1. GoesAsMeant("addi", <<t, a, -n>>, m, x)
                  BY <2>1, <2>3, <1>g
            <3> QED BY <1>1, <2>3, <1>e, <1>m, <2>1, <2>2, <3>1, MeantBy, Zenon
      <2>4. CASE m = "subis"
            <3>1. GoesAsMeant("addis", <<t, a, -n>>, m, x)
                  BY <2>1, <2>4, <1>g
            <3> QED BY <1>1, <2>4, <1>e, <1>m, <2>1, <2>2, <3>1, MeantBy, Zenon
      <2>5. CASE m = "subic"
            <3>1. GoesAsMeant("addic", <<t, a, -n>>, m, x)
                  BY <2>1, <2>5, <1>g
            <3> QED BY <1>1, <2>5, <1>e, <1>m, <2>1, <2>2, <3>1, MeantBy, Zenon
      <2>6. CASE m = "subic_dot"
            <3>1. GoesAsMeant("addic_dot", <<t, a, -n>>, m, x)
                  BY <2>1, <2>6, <1>g
            <3> QED BY <1>1, <2>6, <1>e, <1>m, <2>1, <2>2, <3>1, MeantBy, Zenon
      <2> QED BY <1>9, <2>3, <2>4, <2>5, <2>6, Zenon
<1> QED BY <1>8, <1>9, Zenon

LEMMA NumbersAsMeant ==
    ASSUME NEW m \in {"li", "lis"}, NEW x, NEW g, NEW cr, HasMeaning(m, x, g)
    PROVE  AsMeant(m, x, g, cr)
<1> DEFINE n == x[2]
           t == x[1]
<1>1. x \in Seq(Int) /\ Len(x) = 2 /\ Registers(x, 1) /\ n \in Immediate
      BY OthersHave, Zenon
<1>1a. n \in -(2^15) .. 2^15 - 1
      BY <1>1 DEF Immediate
<1>2. t \in 0 .. 31 /\ 0 \in 0 .. 31
      BY <1>1 DEF Registers
<1>3. ASSUME NEW f \in {"addi", "addis"}
      PROVE  Yields(Encode(f, <<t, 0, n>>), g, cr) = {Summed(f, g, 0, n)}
      <2>1. AddArgs(f, t, 0, n)
            BY <1>1, <1>2 DEF AddArgs, Immediate
      <2>2. SumDone(f, g, cr, t, 0, n)
            BY <2>1, Sums, Zenon
      <2> QED BY <2>2, Zenon DEF SumDone
<1>e. Expand("li", x) = <<"addi", <<t, 0, n>>>> /\ Expand("lis", x) = <<"addis", <<t, 0, n>>>>
      BY NumbersExpand, Zenon
<1>m. /\ MeantValue("li", x, g, cr) = n
      /\ MeantValue("lis", x, g, cr) = n * 2^16
      <2>1. /\ OtherMeaning("li", x, g, cr, MeantValue("li", x, g, cr))
            /\ OtherMeaning("lis", x, g, cr, MeantValue("lis", x, g, cr))
            BY OthersMean, Zenon
      <2> QED BY <2>1, Zenon DEF OtherMeaning
<1>4. /\ Summed("addi", g, 0, n) = 0 + n
      /\ Summed("addis", g, 0, n) = 0 + n * 2^16
      BY Zenon DEF Summed
<1>n. n \in Int
      BY <1>1 DEF Immediate
<1> HIDE DEF n, t
<1>5. 0 + n = n /\ 0 + n * 2^16 = n * 2^16
      BY <1>n, SMT
<1>6. /\ Yields(Encode("addi", <<t, 0, n>>), g, cr) = {n}
      /\ Yields(Encode("addis", <<t, 0, n>>), g, cr) = {n * 2^16}
      BY <1>3, <1>4, <1>5
<1>7a. \A f \in {"addi", "addis"} : AddArgs(f, t, 0, n)
      BY <1>1a, <1>2 DEF AddArgs
<1>7. CASE m = "li"
      <2>1. AddArgs("addi", t, 0, n) /\ <<m, "addi">> \in {<<"li", "addi">>, <<"lis", "addis">>}
            BY <1>7a, <1>7
      <2>2. GoesAsMeant("addi", <<t, 0, n>>, m, x)
            BY <2>1, SumsGo DEF t
      <2> QED BY <1>7, <1>e, <1>m, <1>6, <2>2, MeantBy, Zenon
<1>8. CASE m = "lis"
      <2>1. AddArgs("addis", t, 0, n) /\ <<m, "addis">> \in {<<"li", "addi">>, <<"lis", "addis">>}
            BY <1>7a, <1>8
      <2>2. GoesAsMeant("addis", <<t, 0, n>>, m, x)
            BY <2>1, SumsGo DEF t
      <2> QED BY <1>8, <1>e, <1>m, <1>6, <2>2, MeantBy, Zenon
<1> QED BY <1>7, <1>8

LEMMA DifferencesAsMeant ==
    ASSUME NEW m \in {"sub", "subo", "subc", "subco"}, NEW x, NEW g, NEW cr, HasMeaning(m, x, g)
    PROVE  AsMeant(m, x, g, cr)
<1>1. x \in Seq(Int) /\ Len(x) = 4 /\ Registers(x, 3) /\ x[4] \in {0, 1}
      BY OthersHave, Zenon
<1>2. x[1] \in 0 .. 31 /\ x[2] \in 0 .. 31 /\ x[3] \in 0 .. 31 /\ x[4] \in 0 .. 1
      BY <1>1 DEF Registers
<1>3. Reversed[m] \in {"subf", "subfo", "subfc", "subfco"}
      BY DEF Reversed
<1>4. SubtractionArgs(Reversed[m], x[1], x[3], x[2], x[4])
      BY <1>2, <1>3, Zenon DEF SubtractionArgs
<1>5. Yields(Encode(Reversed[m], <<x[1], x[3], x[2], x[4]>>), g, cr) = {g[x[2]] - g[x[3]]}
      <2>1. DifferenceDone(Reversed[m], g, cr, x[1], x[3], x[2], x[4])
            BY <1>4, Differs, Zenon
      <2> QED BY <2>1, Zenon DEF DifferenceDone
<1>6. Expand(m, x) = <<Reversed[m], <<x[1], x[3], x[2], x[4]>>>>
      BY DifferencesExpand, Zenon
<1>7. MeantValue(m, x, g, cr) = g[x[2]] - g[x[3]]
      <2>1. OtherMeaning(m, x, g, cr, MeantValue(m, x, g, cr))
            BY OthersMean, Zenon
      <2> QED BY <2>1, Zenon DEF OtherMeaning
<1>8. GoesAsMeant(Reversed[m], <<x[1], x[3], x[2], x[4]>>, m, x)
      <2>1. <<m, Reversed[m]>> \in {<<"sub", "subf">>, <<"subo", "subfo">>, <<"subc", "subfc">>,
                                        <<"subco", "subfco">>}
            BY DEF Reversed
      <2> QED BY <1>1, <1>4, <2>1, DifferencesGo, Zenon
<1> QED BY <1>5, <1>6, <1>7, <1>8, MeantBy, Zenon

LEMMA CopiesAsMeant ==
    ASSUME NEW m \in {"mr", "notr"}, NEW x, NEW g, NEW cr, HasMeaning(m, x, g)
    PROVE  AsMeant(m, x, g, cr)
<1>1. x \in Seq(Int) /\ Len(x) = 3 /\ Registers(x, 2) /\ x[3] \in {0, 1}
      BY OthersHave, Zenon
<1>2. x[1] \in 0 .. 31 /\ x[2] \in 0 .. 31 /\ x[3] \in 0 .. 1
      BY <1>1 DEF Registers
<1>3. <<x[1], x[2]>> \o Tail(x) = <<x[1], x[2], x[2], x[3]>>
      <2>1. x = <<x[1], x[2], x[3]>>
            BY <1>1
      <2>2. \A i \in 0 .. 31 : i \in Int
            OBVIOUS
      <2>3. x[1] \in Int /\ x[2] \in Int /\ x[3] \in Int
            BY <1>2, <2>2
      <2> DEFINE a == x[1]
                 b == x[2]
                 c == x[3]
      <2>4. x = <<a, b, c>>
            BY <2>1, Zenon
      <2>5. a \in Int /\ b \in Int /\ c \in Int
            BY <2>3, Zenon
      <2> HIDE DEF a, b, c
      <2>6. <<a, b>> \o Tail(x) = <<a, b, b, c>>
            BY <2>4, <2>5, Repeated, Zenon
      <2> QED BY <2>6, Zenon DEF a, b, c
<1>4. \A f \in {"orr", "norr"} : LogicalArgs(f, x[1], x[2], x[2], x[3])
      BY <1>2, Zenon DEF LogicalArgs
<1>5. \A f \in {"orr", "norr"} : Yields(Encode(f, <<x[1], x[2], x[2], x[3]>>), g, cr) =
               {<<IF f = "orr" THEN "or" ELSE "nor", {g[x[2]], g[x[2]]}>>}
      <2>1. \A f \in {"orr", "norr"} : LogicalDone(f, g, cr, x[1], x[2], x[2], x[3])
            BY <1>4, Logicals, Zenon
      <2> QED BY <2>1, Zenon DEF LogicalDone
<1>6. {g[x[2]], g[x[2]]} = {g[x[2]]}
      OBVIOUS
<1>7. /\ Yields(Encode("orr", <<x[1], x[2], x[2], x[3]>>), g, cr) = {<<"or", {g[x[2]]}>>}
      /\ Yields(Encode("norr", <<x[1], x[2], x[2], x[3]>>), g, cr) = {<<"nor", {g[x[2]]}>>}
      BY <1>5, <1>6, Zenon
<1>8. /\ Expand("mr", x) = <<"orr", <<x[1], x[2], x[2], x[3]>>>>
      /\ Expand("notr", x) = <<"norr", <<x[1], x[2], x[2], x[3]>>>>
      <2>1. /\ Expand("mr", x) = <<"orr", <<x[1], x[2]>> \o Tail(x)>>
            /\ Expand("notr", x) = <<"norr", <<x[1], x[2]>> \o Tail(x)>>
            BY CopiesExpand, Zenon
      <2> QED BY <1>3, <2>1, Zenon
<1>9. CASE m = "mr"
      <2>1. MeantValue(m, x, g, cr) = <<"or", {g[x[2]]}>>
            <3>1. OtherMeaning(m, x, g, cr, MeantValue(m, x, g, cr))
                  BY OthersMean, Zenon
            <3> QED BY <1>9, <3>1, Zenon DEF OtherMeaning
      <2>2. GoesAsMeant("orr", <<x[1], x[2], x[2], x[3]>>, m, x)
            <3>1. <<m, "orr">> \in {<<"mr", "orr">>, <<"notr", "norr">>} /\ "orr" \in {"orr", "norr"}
                  BY <1>9
            <3> QED BY <1>1, <1>4, <3>1, CopiesGo, Zenon
      <2> QED BY <1>7, <1>8, <1>9, <2>1, <2>2, MeantBy, Zenon
<1>10. CASE m = "notr"
      <2>1. MeantValue(m, x, g, cr) = <<"nor", {g[x[2]]}>>
            <3>1. OtherMeaning(m, x, g, cr, MeantValue(m, x, g, cr))
                  BY OthersMean, Zenon
            <3> QED BY <1>10, <3>1, Zenon DEF OtherMeaning
      <2>2. GoesAsMeant("norr", <<x[1], x[2], x[2], x[3]>>, m, x)
            <3>1. <<m, "norr">> \in {<<"mr", "orr">>, <<"notr", "norr">>} /\ "norr" \in {"orr", "norr"}
                  BY <1>10
            <3> QED BY <1>1, <1>4, <3>1, CopiesGo, Zenon
      <2> QED BY <1>7, <1>8, <1>10, <2>1, <2>2, MeantBy, Zenon
<1> QED BY <1>9, <1>10

LEMMA ChoicesAsMeant ==
    ASSUME NEW m \in {"isellt", "iselgt", "iseleq"}, NEW x, NEW g, NEW cr, HasMeaning(m, x, g)
    PROVE  AsMeant(m, x, g, cr)
<1> DEFINE n == Selected[m]
<1>1. x \in Seq(Int) /\ Len(x) = 3 /\ Registers(x, 3) /\ x[2] # 0
      BY OthersHave, Zenon
<1>2. x[1] \in 0 .. 31 /\ x[2] \in 0 .. 31 /\ x[3] \in 0 .. 31
      BY <1>1 DEF Registers
<1>3. n \in 0 .. 31 /\ Chooses[m] = n
      BY DEF Selected, Chooses
<1>4. Expand(m, x) = <<"isel", x \o <<n>>>>
      BY ChoicesExpand, Zenon
<1>5. MeantValue(m, x, g, cr) = IF n \in cr THEN g[x[2]] ELSE g[x[3]]
      <2>1. OtherMeaning(m, x, g, cr, MeantValue(m, x, g, cr))
            BY OthersMean, Zenon
      <2> QED BY <1>3, <2>1, Zenon DEF OtherMeaning
<1> HIDE DEF n
<1>6. x \o <<n>> = <<x[1], x[2], x[3], n>>
      <2>1. x = <<x[1], x[2], x[3]>>
            BY <1>1
      <2>2. \A i \in 0 .. 31 : i \in Int
            OBVIOUS
      <2>3. x[1] \in Int /\ x[2] \in Int /\ x[3] \in Int
            BY <1>2, <2>2
      <2> DEFINE a == x[1]
                 b == x[2]
                 c == x[3]
      <2>4. x = <<a, b, c>>
            BY <2>1, Zenon
      <2>5. a \in Int /\ b \in Int /\ c \in Int
            BY <2>3, Zenon
      <2> HIDE DEF a, b, c
      <2>6. x \o <<n>> = <<a, b, c, n>>
            <3>1. n \in Int
                  BY <1>3, <2>2, Zenon
            <3>2. <<a, b, c>> \o <<n>> = <<a, b, c, n>>
                  <4>1. \A u, v, w, k \in Int : <<u, v, w>> \o <<k>> = <<u, v, w, k>>
                        BY Repeated, Zenon
                  <4> QED BY ONLY <2>5, <3>1, <4>1, Zenon
            <3> QED BY <2>4, <3>2, Zenon
      <2> QED BY <2>6, Zenon DEF a, b, c
<1>7. SelectionArgs(x[1], x[2], x[3], n)
      BY <1>2, <1>3, Zenon DEF SelectionArgs
<1>8. Yields(Encode("isel", <<x[1], x[2], x[3], n>>), g, cr) =
          {IF n \notin cr THEN g[x[3]] ELSE IF x[2] = 0 THEN 0 ELSE g[x[2]]}
      <2>1. SelectionDone(g, cr, x[1], x[2], x[3], n)
            BY <1>7, Selects, Zenon
      <2> QED BY <2>1, Zenon DEF SelectionDone
<1>9. (IF n \notin cr THEN g[x[3]] ELSE IF x[2] = 0 THEN 0 ELSE g[x[2]]) =
          IF n \in cr THEN g[x[2]] ELSE g[x[3]]
      BY <1>1, Zenon
<1>10. GoesAsMeant("isel", <<x[1], x[2], x[3], n>>, m, x)
      BY <1>7, ChoicesGo, Zenon
<1> QED BY <1>4, <1>5, <1>6, <1>8, <1>9, <1>10, MeantBy, Zenon

LEMMA BitsAsMeant ==
    ASSUME NEW m \in {"crset", "crclr", "crmove", "crnot"}, NEW x, NEW g, NEW cr, HasMeaning(m, x, g)
    PROVE  AsMeant(m, x, g, cr)
<1>1. /\ x \in Seq(Int)
      /\ m \in {"crset", "crclr"} => Len(x) = 1 /\ Registers(x, 1)
      /\ m \in {"crmove", "crnot"} => Len(x) = 2 /\ Registers(x, 2)
      BY OthersHave, Zenon
<1>2. x[1] \in 0 .. 31 /\ (m \in {"crmove", "crnot"} => x[2] \in 0 .. 31)
      BY <1>1 DEF Registers
<1>3. m \in {"crmove", "crnot"} => <<x[1], x[2]>> \o Tail(x) = <<x[1], x[2], x[2]>>
      <2>1. m \in {"crmove", "crnot"} => x = <<x[1], x[2]>>
            BY <1>1
      <2>2. \A i \in 0 .. 31 : i \in Int
            OBVIOUS
      <2>3. m \in {"crmove", "crnot"} => x[1] \in Int /\ x[2] \in Int
            BY <1>2, <2>2, Zenon
      <2> QED BY <2>1, <2>3, Repeated, Zenon
<1>4. ASSUME NEW f \in {"crxor", "cror", "crnor", "creqv"}, NEW b \in 0 .. 31
      PROVE  Yields(Encode(f, <<x[1], b, b>>), g, cr) =
                 {Flags(cr, x[1], CASE f = "creqv" -> b \in cr <=> b \in cr
                                    [] f = "crxor" -> ~(b \in cr <=> b \in cr)
                                    [] f = "cror" -> b \in cr \/ b \in cr
                                    [] f = "crnor" -> b \notin cr /\ b \notin cr)}
      <2>1. ConditionArgs(f, x[1], b, b)
            BY <1>2, Zenon DEF ConditionArgs
      <2>2. ConditionDone(f, g, cr, x[1], b, b)
            BY <2>1, Conditions, Zenon
      <2> QED BY <2>2, Zenon DEF ConditionDone
<1>5. ASSUME NEW b \in 0 .. 31
      PROVE  /\ Yields(Encode("creqv", <<x[1], b, b>>), g, cr) = {cr \cup {x[1]}}
             /\ Yields(Encode("crxor", <<x[1], b, b>>), g, cr) = {cr \ {x[1]}}
             /\ Yields(Encode("cror", <<x[1], b, b>>), g, cr) =
                    {IF b \in cr THEN cr \cup {x[1]} ELSE cr \ {x[1]}}
             /\ Yields(Encode("crnor", <<x[1], b, b>>), g, cr) =
                    {IF b \in cr THEN cr \ {x[1]} ELSE cr \cup {x[1]}}
      <2>1. Yields(Encode("creqv", <<x[1], b, b>>), g, cr) = {cr \cup {x[1]}}
            BY <1>4, Zenon DEF Flags
      <2>2. Yields(Encode("crxor", <<x[1], b, b>>), g, cr) = {cr \ {x[1]}}
            BY <1>4, Zenon DEF Flags
      <2>3. Yields(Encode("cror", <<x[1], b, b>>), g, cr) =
                {IF b \in cr THEN cr \cup {x[1]} ELSE cr \ {x[1]}}
            BY <1>4, Zenon DEF Flags
      <2>4. Yields(Encode("crnor", <<x[1], b, b>>), g, cr) =
                {IF b \in cr THEN cr \ {x[1]} ELSE cr \cup {x[1]}}
            BY <1>4, Zenon DEF Flags
      <2> QED BY <2>1, <2>2, <2>3, <2>4
<1>m. OtherMeaning(m, x, g, cr, MeantValue(m, x, g, cr))
      BY OthersMean, Zenon
<1>g. ASSUME NEW f \in {"crxor", "cror", "crnor", "creqv"}, NEW b \in 0 .. 31
      PROVE  GoesAsMeant(f, <<x[1], b, b>>, m, x)
      <2>1. ConditionArgs(f, x[1], b, b)
            BY <1>2, Zenon DEF ConditionArgs
      <2> QED BY <2>1, BitsGo, Zenon
<1>c. /\ "crxor" \in {"crxor", "cror", "crnor", "creqv"} /\ "cror" \in {"crxor", "cror", "crnor", "creqv"}
      /\ "crnor" \in {"crxor", "cror", "crnor", "creqv"} /\ "creqv" \in {"crxor", "cror", "crnor", "creqv"}
      OBVIOUS
<1>6. CASE m = "crset"
      <2>1. Expand(m, x) = <<"creqv", <<x[1], x[1], x[1]>>>>
            BY <1>6, TripledExpand, Zenon
      <2>2. MeantValue(m, x, g, cr) = cr \cup {x[1]}
            BY <1>6, <1>m, Zenon DEF OtherMeaning
      <2> QED BY <1>2, <1>5, <1>c, <1>g, <2>1, <2>2, MeantBy, Zenon
<1>7. CASE m = "crclr"
      <2>1. Expand(m, x) = <<"crxor", <<x[1], x[1], x[1]>>>>
            BY <1>7, TripledExpand, Zenon
      <2>2. MeantValue(m, x, g, cr) = cr \ {x[1]}
            BY <1>7, <1>m, Zenon DEF OtherMeaning
      <2> QED BY <1>2, <1>5, <1>c, <1>g, <2>1, <2>2, MeantBy, Zenon
<1>8. CASE m = "crmove"
      <2>1. Expand(m, x) = <<"cror", <<x[1], x[2], x[2]>>>>
            BY <1>3, <1>8, CopiesExpand, Zenon
      <2>2. MeantValue(m, x, g, cr) = IF x[2] \in cr THEN cr \cup {x[1]} ELSE cr \ {x[1]}
            BY <1>8, <1>m, Zenon DEF OtherMeaning
      <2>3. x[2] \in 0 .. 31
            BY <1>2, <1>8, Zenon
      <2> QED BY <1>5, <1>c, <1>g, <2>1, <2>2, <2>3, MeantBy, Zenon
<1>9. CASE m = "crnot"
      <2>1. Expand(m, x) = <<"crnor", <<x[1], x[2], x[2]>>>>
            BY <1>3, <1>9, CopiesExpand, Zenon
      <2>2. MeantValue(m, x, g, cr) = IF x[2] \in cr THEN cr \ {x[1]} ELSE cr \cup {x[1]}
            BY <1>9, <1>m, Zenon DEF OtherMeaning
      <2>3. x[2] \in 0 .. 31
            BY <1>2, <1>9, Zenon
      <2> QED BY <1>5, <1>c, <1>g, <2>1, <2>2, <2>3, MeantBy, Zenon
<1> QED BY <1>6, <1>7, <1>8, <1>9

\* Of a word that does not record, nothing is set beside but what its name says.
LEMMA NotBeside ==
    ASSUME NEW w, NEW m, "rc" \notin Open(Manual[m]),
           m \in {"cmpi", "cmpli", "cmp", "cmpl", "ori", "sync", "mtcrf", "mtspr", "mfspr"}
    PROVE  Beside(w, m) = {}
<1>1. Beside(w, m) = Recorded(IF m = "addic_dot" THEN 1 ELSE 0) \cup Carried(m) \cup Overflown(m)
      BY BesideIs, Zenon
<1> QED BY <1>1 DEF Carried, Overflown, Recorded

LEMMA ComparesAsMeant ==
    ASSUME NEW m \in {"cmpwi", "cmplwi", "cmpw", "cmplw"}, NEW x, NEW g, NEW cr, HasMeaning(m, x, g)
    PROVE  AsMeant(m, x, g, cr)
<1> DEFINE f == CASE m = "cmpwi" -> "cmpi" [] m = "cmplwi" -> "cmpli" [] m = "cmpw" -> "cmp" [] m = "cmplw" -> "cmpl"
           q == CASE m = "cmpwi" -> "d" [] m = "cmplwi" -> "u" [] m \in {"cmpw", "cmplw"} -> "b"
           a == x[1]
           y == x[2]
           z == x[3]
           w == Encode(f, <<a, y, z>>)
<1>1. /\ x \in Seq(Int) /\ Len(x) = 3 /\ Registers(x, 1) /\ z \in 0 .. 7
      /\ CASE m = "cmpwi" -> y \in Immediate
           [] m = "cmplwi" -> y \in 0 .. 2^16 - 1
           [] m \in {"cmpw", "cmplw"} -> y \in 0 .. 31 /\ g[y] \in Int
      <2>1. m \in Compares
            BY DEF Compares
      <2> QED BY <2>1, OthersHave, Zenon
<1>2. a \in 0 .. 31 /\ x = <<a, y, z>>
      BY <1>1 DEF Registers
<1>3. Expand(m, x) = <<f, x>>
      BY ComparesExpand
<1>4. f \in DOMAIN Table /\ Table[f].params = <<"a", q, "crt">>
      BY CompareRows
<1>5. /\ m = "cmpwi" => f = "cmpi" /\ q = "d"
      /\ m = "cmplwi" => f = "cmpli" /\ q = "u"
      /\ m = "cmpw" => f = "cmp" /\ q = "b"
      /\ m = "cmplw" => f = "cmpl" /\ q = "b"
      OBVIOUS
<1>y. /\ m = "cmpwi" => y \in -(2^15) .. 2^15 - 1
      /\ m = "cmplwi" => y \in 0 .. 2^16 - 1
      /\ m \in {"cmpw", "cmplw"} => y \in 0 .. 31
      <2> HIDE DEF f, q, a, y, z, w
      <2>1. /\ m = "cmpwi" => y \in Immediate
            /\ m = "cmplwi" => y \in 0 .. 2^16 - 1
            /\ m \in {"cmpw", "cmplw"} => y \in 0 .. 31
            BY <1>1
      <2> QED BY <2>1, Zenon DEF Immediate
<1> HIDE DEF f, q, a, y, z
<1>6. Plainly("a", a) /\ Plainly(q, y) /\ Plainly("crt", z)
      <2>0. "a" \in {"t", "a", "b", "c", "e"} /\ "b" \in {"t", "a", "b", "c", "e"}
            OBVIOUS
      <2>1. \A k, l \in Int : \A n \in k .. l : n \in Int
            OBVIOUS
      <2>2. -(2^15) \in Int /\ 2^15 - 1 \in Int /\ 2^16 - 1 \in Int /\ 0 \in Int /\ 31 \in Int /\ 7 \in Int
            OBVIOUS
      <2>3. a \in Operand["a"] /\ z \in Operand["crt"] /\ a \in Int /\ z \in Int
            <3>1. a \in Operand["a"]
                  BY <1>2, <2>0, SmallOperands, Zenon
            <3>2. z \in Operand["crt"]
                  BY <1>1, SmallOperands, Zenon
            <3> QED BY <1>1, <1>2, <2>1, <2>2, <3>1, <3>2, Zenon
      <2>4. y \in Operand[q] /\ y \in Int /\ q # "rc"
            <3>1. CASE m = "cmpwi"
                  <4>1. y \in Operand["d"]
                        BY <1>y, <3>1, SmallOperands, Zenon
                  <4>2. y \in Int
                        BY <1>y, <2>1, <2>2, <3>1, Zenon
                  <4> QED BY <1>5, <3>1, <4>1, <4>2
            <3>2. CASE m = "cmplwi"
                  <4>1. y \in Operand["u"]
                        BY <1>y, <3>2, SmallOperands, Zenon
                  <4>2. y \in Int
                        BY <1>y, <2>1, <2>2, <3>2, Zenon
                  <4> QED BY <1>5, <3>2, <4>1, <4>2
            <3>3. CASE m \in {"cmpw", "cmplw"}
                  <4>1. y \in Operand["b"]
                        BY <1>y, <2>0, <3>3, SmallOperands, Zenon
                  <4>2. y \in Int
                        BY <1>y, <2>1, <2>2, <3>3, Zenon
                  <4> QED BY <1>5, <3>3, <4>1, <4>2
            <3> QED BY <3>1, <3>2, <3>3
      <2> QED BY <2>3, <2>4 DEF Plainly
<1>7. /\ Instructions(w) = {f} /\ "rc" \notin Open(Manual[f])
      /\ Read(w, Manual[f].form, "a") = a /\ Read(w, Manual[f].form, q) = y
      /\ Read(w, Manual[f].form, "crt") = z
      <2>1. ReadAlone(f, w) /\ IsRead(f, w, "a", a) /\ IsRead(f, w, q, y) /\ IsRead(f, w, "crt", z)
            BY <1>4, <1>6, ThreeRead, Zenon
      <2> QED BY <2>1, Zenon DEF ReadAlone, IsRead
<1> HIDE DEF w
<1>8. f \in {"cmpi", "cmpli", "cmp", "cmpl"}
      BY <1>5
<1>9. AimsAt(w, f, <<"crfs", {z}>>, {})
      <2>1. Target(w, f) = <<"crfs", {z}>>
            BY <1>7, <1>8, TargetIs, Zenon
      <2>2. Beside(w, f) = {}
            BY <1>7, <1>8, NotBeside
      <2> QED BY <1>7, <2>1, <2>2, Zenon DEF AimsAt
<1>10. MeantTarget(m, x) = <<"crfs", {z}>> /\ MeantBeside(m, x) = {}
      <2>1. m \in Compares
            BY DEF Compares
      <2>2. MeantTarget(m, x) = <<"crfs", {z}>>
            BY <2>1, MeantTargets, Zenon DEF z
      <2>3. MeantBeside(m, x) = {}
            BY NothingBeside
      <2> QED BY <2>2, <2>3
<1>11. Computes(w, f, g, cr) = MeantValue(m, x, g, cr)
      <2>1. OtherMeaning(m, x, g, cr, MeantValue(m, x, g, cr))
            BY OthersMean, Zenon
      <2>2. CASE m = "cmpwi"
            <3>1. Computes(w, "cmpi", g, cr) = Order(g[a], y)
                  BY <1>5, <1>7, <2>2, Zenon DEF Computes
            <3> QED BY <1>5, <2>1, <2>2, <3>1, Zenon DEF OtherMeaning, a, y
      <2>3. CASE m = "cmplwi"
            <3>1. Computes(w, "cmpli", g, cr) = UnsignedOrder(g[a], y)
                  BY <1>5, <1>7, <2>3, Zenon DEF Computes
            <3> QED BY <1>5, <2>1, <2>3, <3>1, Zenon DEF OtherMeaning, a, y
      <2>4. CASE m = "cmpw"
            <3>1. Computes(w, "cmp", g, cr) = Order(g[a], g[y])
                  BY <1>5, <1>7, <2>4, Zenon DEF Computes
            <3> QED BY <1>5, <2>1, <2>4, <3>1, Zenon DEF OtherMeaning, a, y
      <2>5. CASE m = "cmplw"
            <3>1. Computes(w, "cmpl", g, cr) = UnsignedOrder(g[a], g[y])
                  BY <1>5, <1>7, <2>5, Zenon DEF Computes
            <3> QED BY <1>5, <2>1, <2>5, <3>1, Zenon DEF OtherMeaning, a, y
      <2> QED BY <2>2, <2>3, <2>4, <2>5
<1>12. Yields(w, g, cr) = {Computes(w, f, g, cr)}
      BY <1>7, DoesOne, Zenon
<1>13. Expand(m, x) = <<f, <<a, y, z>>>>
      BY <1>2, <1>3, Zenon
<1>14. GoesAsMeant(f, <<a, y, z>>, m, x)
      BY <1>9, <1>10, Zenon DEF GoesAsMeant, w
<1> QED BY <1>11, <1>12, <1>13, <1>14, MeantBy, Zenon DEF w

LEMMA NothingAsMeant ==
    ASSUME NEW x, NEW g, NEW cr
    PROVE  AsMeant("nop", x, g, cr)
<1> DEFINE w == Encode("ori", <<0, 0, 0>>)
<1>1. Plainly("a", 0) /\ Plainly("t", 0) /\ Plainly("u", 0)
      BY DEF Plainly, Operand
<1>2. /\ Instructions(w) = {"ori"} /\ "rc" \notin Open(Manual["ori"])
      /\ Read(w, Manual["ori"].form, "a") = 0 /\ Read(w, Manual["ori"].form, "t") = 0
      /\ Read(w, Manual["ori"].form, "u") = 0
      <2>1. ReadAlone("ori", w) /\ IsRead("ori", w, "a", 0) /\ IsRead("ori", w, "t", 0) /\ IsRead("ori", w, "u", 0)
            BY <1>1, RestRows, ThreeRead, Zenon
      <2> QED BY <2>1, Zenon DEF ReadAlone, IsRead
<1> HIDE DEF w
<1>3. Computes(w, "ori", g, cr) = g[0]
      BY <1>2, Zenon DEF Computes
<1>4. Target(w, "ori") = <<"gpr", 0>> /\ Beside(w, "ori") = {}
      <2>1. "ori" \in IntoA
            BY DEF IntoA
      <2>2. Target(w, "ori") = <<"gpr", 0>>
            BY <1>2, <2>1, TargetIsA, Zenon
      <2>3. Beside(w, "ori") = {}
            BY <1>2, NotBeside
      <2> QED BY <2>2, <2>3, Zenon
<1>5. MeantTarget("nop", x) = <<"gpr", 0>> /\ MeantBeside("nop", x) = {}
      <2>1. MeantBeside("nop", x) = {}
            BY NothingBeside
      <2> QED BY <2>1, MeantTargets, Zenon
<1>6. MeantValue("nop", x, g, cr) = g[0]
      <2>1. OtherMeaning("nop", x, g, cr, MeantValue("nop", x, g, cr))
            BY OthersMean, Zenon
      <2> QED BY <2>1, Zenon DEF OtherMeaning
<1>7. Yields(w, g, cr) = {Computes(w, "ori", g, cr)}
      BY <1>2, DoesOne, Zenon
<1>8. GoesAsMeant("ori", <<0, 0, 0>>, "nop", x)
      BY <1>2, <1>4, <1>5, Zenon DEF GoesAsMeant, AimsAt, w
<1>9. Expand("nop", x) = <<"ori", <<0, 0, 0>>>>
      BY RestExpand, Zenon
<1> QED BY <1>3, <1>6, <1>7, <1>8, <1>9, MeantBy, Zenon DEF w

LEMMA BarriersAsMeant ==
    ASSUME NEW m \in {"lwsync", "ptesync"}, NEW x, NEW g, NEW cr
    PROVE  AsMeant(m, x, g, cr)
<1> DEFINE n == IF m = "lwsync" THEN 1 ELSE 2
           w == Encode("sync", <<n>>)
<1>1. n \in 0 .. 2 /\ Barriers[n + 1] = m
      BY DEF Barriers
<1>2. Plainly("t", n)
      BY DEF Plainly, Operand
<1>3. Expand(m, x) = <<"sync", <<n>>>>
      BY SyncsExpand
<1> HIDE DEF n
<1>4. /\ Instructions(w) = {"sync"} /\ "rc" \notin Open(Manual["sync"])
      /\ Read(w, Manual["sync"].form, "t") = n
      <2>1. ReadAlone("sync", w) /\ IsRead("sync", w, "t", n)
            BY <1>2, RestRows, OneRead, Zenon
      <2> QED BY <2>1, Zenon DEF ReadAlone, IsRead
<1> HIDE DEF w
<1>5. Computes(w, "sync", g, cr) = m
      <2>1. Computes(w, "sync", g, cr) = IF n \in 0 .. 2 THEN Barriers[n + 1] ELSE "reserved"
            BY <1>4, Zenon DEF Computes
      <2> QED BY <1>1, <2>1, Zenon
<1>6. Target(w, "sync") = <<"storage">> /\ Beside(w, "sync") = {}
      <2>1. Beside(w, "sync") = {}
            BY <1>4, NotBeside
      <2> QED BY <2>1, TargetIs, Zenon
<1>7. MeantTarget(m, x) = <<"storage">> /\ MeantBeside(m, x) = {}
      <2>1. MeantBeside(m, x) = {}
            BY NothingBeside
      <2> QED BY <2>1, MeantTargets, Zenon
<1>8. MeantValue(m, x, g, cr) = m
      <2>1. OtherMeaning(m, x, g, cr, MeantValue(m, x, g, cr))
            BY OthersMean, Zenon
      <2> QED BY <2>1, Zenon DEF OtherMeaning
<1>9. Yields(w, g, cr) = {Computes(w, "sync", g, cr)}
      BY <1>4, DoesOne, Zenon
<1>10. GoesAsMeant("sync", <<n>>, m, x)
      BY <1>4, <1>6, <1>7, Zenon DEF GoesAsMeant, AimsAt, w
<1> QED BY <1>3, <1>5, <1>8, <1>9, <1>10, MeantBy, Zenon DEF w

LEMMA AllFields == {f \in 0 .. 7 : (255 \div 2^(7 - f)) % 2 = 1} = 0 .. 7
<1> SUFFICES ASSUME NEW f \in 0 .. 7 PROVE (255 \div 2^(7 - f)) % 2 = 1
    OBVIOUS
<1>1. /\ 255 \div 2^7 = 1 /\ 255 \div 2^6 = 3 /\ 255 \div 2^5 = 7 /\ 255 \div 2^4 = 15
      /\ 255 \div 2^3 = 31 /\ 255 \div 2^2 = 63 /\ 255 \div 2^1 = 127 /\ 255 \div 2^0 = 255
      BY SMT
<1>2. /\ 1 % 2 = 1 /\ 3 % 2 = 1 /\ 7 % 2 = 1 /\ 15 % 2 = 1
      /\ 31 % 2 = 1 /\ 63 % 2 = 1 /\ 127 % 2 = 1 /\ 255 % 2 = 1
      BY SMT
<1>3. 7 - f \in {0, 1, 2, 3, 4, 5, 6, 7}
      BY SMT
<1> DEFINE k == 7 - f
<1> HIDE DEF k
<1>4. k \in {0, 1, 2, 3, 4, 5, 6, 7}
      BY <1>3 DEF k
<1>5. (255 \div 2^k) % 2 = 1
      <2>1. k = 0 \/ k = 1 \/ k = 2 \/ k = 3 \/ k = 4 \/ k = 5 \/ k = 6 \/ k = 7
            BY <1>4
      <2>2. CASE k = 0
            BY <1>1, <1>2, <2>2
      <2>3. CASE k = 1
            BY <1>1, <1>2, <2>3
      <2>4. CASE k = 2
            BY <1>1, <1>2, <2>4
      <2>5. CASE k = 3
            BY <1>1, <1>2, <2>5
      <2>6. CASE k = 4
            BY <1>1, <1>2, <2>6
      <2>7. CASE k = 5
            BY <1>1, <1>2, <2>7
      <2>8. CASE k = 6
            BY <1>1, <1>2, <2>8
      <2>9. CASE k = 7
            BY <1>1, <1>2, <2>9
      <2> QED BY <2>1, <2>2, <2>3, <2>4, <2>5, <2>6, <2>7, <2>8, <2>9, Zenon
<1> QED BY <1>5 DEF k

LEMMA FieldsAsMeant ==
    ASSUME NEW x, NEW g, NEW cr, HasMeaning("mtcr", x, g)
    PROVE  AsMeant("mtcr", x, g, cr)
<1> DEFINE t == x[1]
           w == Encode("mtcrf", <<255, t>>)
<1>1. t \in 0 .. 31
      <2>1. x \in Seq(Int) /\ Len(x) = 1 /\ Registers(x, 1)
            BY NamesAre, SMT DEF HasMeaning, Pulled, Shifted, Compares
      <2> QED BY <2>1 DEF Registers
<1>2. Plainly("crm", 255) /\ Plainly("t", t)
      BY <1>1 DEF Plainly, Operand
<1>3. Expand("mtcr", x) = <<"mtcrf", <<255, t>>>>
      BY RestExpand, Zenon
<1>8. MeantValue("mtcr", x, g, cr) = g[t]
      <2>1. OtherMeaning("mtcr", x, g, cr, MeantValue("mtcr", x, g, cr))
            BY OthersMean, Zenon
      <2> QED BY <2>1, Zenon DEF OtherMeaning
<1> HIDE DEF t
<1>4. /\ Instructions(w) = {"mtcrf"} /\ "rc" \notin Open(Manual["mtcrf"])
      /\ Read(w, Manual["mtcrf"].form, "crm") = 255 /\ Read(w, Manual["mtcrf"].form, "t") = t
      <2>1. ReadAlone("mtcrf", w) /\ IsRead("mtcrf", w, "crm", 255) /\ IsRead("mtcrf", w, "t", t)
            BY <1>2, RestRows, TwoRead, Zenon
      <2> QED BY <2>1, Zenon DEF ReadAlone, IsRead
<1> HIDE DEF w
<1>5. Computes(w, "mtcrf", g, cr) = g[t]
      BY <1>4, Zenon DEF Computes
<1>6. Target(w, "mtcrf") = <<"crfs", 0 .. 7>> /\ Beside(w, "mtcrf") = {}
      <2>1. Beside(w, "mtcrf") = {}
            BY <1>4, NotBeside
      <2>2. Target(w, "mtcrf") = <<"crfs", {f \in 0 .. 7 : (255 \div 2^(7 - f)) % 2 = 1}>>
            <3>1. Target(w, "mtcrf") =
                      <<"crfs", {f \in 0 .. 7 : (Read(w, Manual["mtcrf"].form, "crm") \div 2^(7 - f)) % 2 = 1}>>
                  BY TargetIs, Zenon
            <3> QED BY <1>4, <3>1, Zenon
      <2> QED BY <2>1, <2>2, AllFields, Zenon
<1>7. MeantTarget("mtcr", x) = <<"crfs", 0 .. 7>> /\ MeantBeside("mtcr", x) = {}
      <2>1. MeantBeside("mtcr", x) = {}
            BY NothingBeside
      <2> QED BY <2>1, MeantTargets, Zenon
<1>9. Yields(w, g, cr) = {Computes(w, "mtcrf", g, cr)}
      BY <1>4, DoesOne, Zenon
<1>10. GoesAsMeant("mtcrf", <<255, t>>, "mtcr", x)
      BY <1>4, <1>6, <1>7, Zenon DEF GoesAsMeant, AimsAt, w
<1> QED BY <1>3, <1>5, <1>8, <1>9, <1>10, MeantBy, Zenon DEF w

\* Every shorthand does as meant.
LEMMA ShorthandsMeant ==
    ASSUME NEW m, NEW x, NEW g, NEW cr, HasMeaning(m, x, g)
    PROVE  AsMeant(m, x, g, cr)
<1>1. \/ m \in Rotating
      \/ m \in {"subi", "subis", "subic", "subic_dot", "la"}
      \/ m \in {"li", "lis"}
      \/ m \in {"sub", "subo", "subc", "subco"}
      \/ m \in {"mr", "notr"}
      \/ m \in {"isellt", "iselgt", "iseleq"}
      \/ m \in {"crset", "crclr", "crmove", "crnot"}
      \/ m \in {"cmpwi", "cmplwi", "cmpw", "cmplw"}
      \/ m \in {"lwsync", "ptesync"} \/ m = "nop" \/ m = "mtcr"
      <2>1. \/ m \in Pulled \/ m = "clrlslwi" \/ m \in Shifted \/ m = "rotlw"
            \/ m \in {"subi", "subis", "subic", "subic_dot"} \cup {"la"}
            \/ m \in {"li", "lis"} \/ m \in {"sub", "subo", "subc", "subco"}
            \/ m \in {"mr", "notr"} \/ m \in {"isellt", "iselgt", "iseleq"}
            \/ m \in {"crset", "crclr"} \/ m \in {"crmove", "crnot"}
            \/ m \in Compares \/ m \in {"lwsync", "ptesync"} \cup {"nop"} \/ m = "mtcr"
            BY NamesAre, Zenon DEF HasMeaning
      <2> QED BY <2>1 DEF Rotating, Compares
<1>2. CASE m \in Rotating
      <2>1. m \in {"extlwi", "extrwi", "inslwi", "insrwi", "rotlwi", "rotrwi", "rotlw", "slwi",
                   "srwi", "clrlwi", "clrrwi", "clrlslwi"}
            BY <1>2, RotatingAre, Zenon
      <2> QED BY <2>1, ExtlwiAsMeant, ExtrwiAsMeant, InslwiAsMeant, InsrwiAsMeant, RotlwiAsMeant,
                 RotrwiAsMeant, RotlwAsMeant, SlwiAsMeant, SrwiAsMeant, ClrlwiAsMeant, ClrrwiAsMeant,
                 ClrlslwiAsMeant, Zenon
<1> QED BY <1>1, <1>2, SumsAsMeant, NumbersAsMeant, DifferencesAsMeant, CopiesAsMeant, ChoicesAsMeant,
           BitsAsMeant, ComparesAsMeant, BarriersAsMeant, NothingAsMeant, FieldsAsMeant, Zenon

----------------------------------------------------------------------------
(* The special registers *)

\* The number a register is written under, and the one it is read under.
ToNumber(r) == IF r[1] \in Banks THEN Banked(r[1], r[2]) ELSE MovedTo[r[1]]
FromNumber(r) == IF r[1] \in Banks THEN Banked(r[1], r[2]) ELSE MovedFrom[r[1]]

\* The manual has register r under the number n, for one way or the other.
Written(n) == Special(n, TRUE)
Given(n) == Special(n, FALSE)
WrittenUnder(n, r) == n \in 0 .. 1023 /\ Written(n) = r
ReadUnder(n, r) == n \in 0 .. 1023 /\ Given(n) = r

\* The numbers of the registers there is one of, and of those of a bank.
LEMMA MovedToAre == \A n \in DOMAIN MovedTo : WrittenUnder(MovedTo[n], <<n, 0>>)
<1>1. /\ MovedTo.lr = 8 /\ MovedTo.ctr = 9 /\ MovedTo.xer = 1 /\ MovedTo.dsisr = 18 /\ MovedTo.dar = 19
      /\ MovedTo.dec = 22 /\ MovedTo.srr0 = 26 /\ MovedTo.srr1 = 27 /\ MovedTo.sdr1 = 25
      /\ MovedTo.ear = 282 /\ MovedTo.tbl = 284 /\ MovedTo.tbu = 285
      BY DEF MovedTo
<1>2. DOMAIN MovedTo = {"lr", "ctr", "xer", "dsisr", "dar", "dec", "srr0", "srr1", "sdr1", "ear",
                         "tbl", "tbu"}
      BY DEF MovedTo
<1>3. /\ Written(8) = <<"lr", 0>> /\ Written(9) = <<"ctr", 0>>
      /\ Written(1) = <<"xer", 0>> /\ Written(18) = <<"dsisr", 0>>
      /\ Written(19) = <<"dar", 0>> /\ Written(22) = <<"dec", 0>>
      /\ Written(26) = <<"srr0", 0>> /\ Written(27) = <<"srr1", 0>>
      /\ Written(25) = <<"sdr1", 0>> /\ Written(282) = <<"ear", 0>>
      /\ Written(284) = <<"tbl", 0>> /\ Written(285) = <<"tbu", 0>>
      BY SMTT(30) DEF Special, Written, Given
<1>4. /\ WrittenUnder(8, <<"lr", 0>>) /\ WrittenUnder(9, <<"ctr", 0>>) /\ WrittenUnder(1, <<"xer", 0>>)
      /\ WrittenUnder(18, <<"dsisr", 0>>) /\ WrittenUnder(19, <<"dar", 0>>)
      /\ WrittenUnder(22, <<"dec", 0>>) /\ WrittenUnder(26, <<"srr0", 0>>)
      /\ WrittenUnder(27, <<"srr1", 0>>) /\ WrittenUnder(25, <<"sdr1", 0>>)
      /\ WrittenUnder(282, <<"ear", 0>>) /\ WrittenUnder(284, <<"tbl", 0>>)
      /\ WrittenUnder(285, <<"tbu", 0>>)
      BY <1>3 DEF WrittenUnder
<1> QED BY <1>1, <1>2, <1>4

LEMMA MovedFromAre == \A n \in DOMAIN MovedFrom : ReadUnder(MovedFrom[n], <<n, 0>>)
<1>1. /\ MovedFrom.lr = 8 /\ MovedFrom.ctr = 9 /\ MovedFrom.xer = 1 /\ MovedFrom.pvr = 287
      /\ MovedFrom.dsisr = 18 /\ MovedFrom.dar = 19 /\ MovedFrom.dec = 22 /\ MovedFrom.srr0 = 26
      /\ MovedFrom.srr1 = 27 /\ MovedFrom.sdr1 = 25 /\ MovedFrom.ear = 282
      /\ MovedFrom.tbl = 268 /\ MovedFrom.tbu = 269
      BY DEF MovedFrom
<1>2. DOMAIN MovedFrom = {"lr", "ctr", "xer", "pvr", "dsisr", "dar", "dec", "srr0", "srr1", "sdr1", "ear",
                          "tbl", "tbu"}
      BY DEF MovedFrom
<1>3. /\ Given(8) = <<"lr", 0>> /\ Given(9) = <<"ctr", 0>>
      /\ Given(1) = <<"xer", 0>> /\ Given(18) = <<"dsisr", 0>>
      /\ Given(19) = <<"dar", 0>> /\ Given(22) = <<"dec", 0>>
      /\ Given(26) = <<"srr0", 0>> /\ Given(27) = <<"srr1", 0>>
      /\ Given(25) = <<"sdr1", 0>> /\ Given(282) = <<"ear", 0>>
      /\ Given(268) = <<"tbl", 0>> /\ Given(269) = <<"tbu", 0>>
      /\ Given(287) = <<"pvr", 0>>
      BY SMTT(30) DEF Special, Written, Given
<1>4. /\ ReadUnder(8, <<"lr", 0>>) /\ ReadUnder(9, <<"ctr", 0>>) /\ ReadUnder(1, <<"xer", 0>>)
      /\ ReadUnder(18, <<"dsisr", 0>>) /\ ReadUnder(19, <<"dar", 0>>) /\ ReadUnder(22, <<"dec", 0>>)
      /\ ReadUnder(26, <<"srr0", 0>>) /\ ReadUnder(27, <<"srr1", 0>>) /\ ReadUnder(25, <<"sdr1", 0>>)
      /\ ReadUnder(282, <<"ear", 0>>) /\ ReadUnder(268, <<"tbl", 0>>) /\ ReadUnder(269, <<"tbu", 0>>)
      /\ ReadUnder(287, <<"pvr", 0>>)
      BY <1>3 DEF ReadUnder
<1> QED BY <1>1, <1>2, <1>4

LEMMA BanksAre ==
    ASSUME NEW b \in Banks, NEW n \in 0 .. 3
    PROVE  WrittenUnder(Banked(b, n), <<b, n>>) /\ ReadUnder(Banked(b, n), <<b, n>>)
<1>1. Low(n, 2) = n
      BY SMT DEF Low
<1>2. CASE b = "sprg"
      <2>1. Banked(b, n) = 272 + n
            BY <1>1, <1>2, SMTT(30) DEF Banked
      <2>2. Written(272 + n) = <<"sprg", (272 + n) - 272>>
            BY SMTT(30) DEF Special, Written, Given
      <2>3. Given(272 + n) = <<"sprg", (272 + n) - 272>>
            BY SMTT(30) DEF Special, Written, Given
      <2> QED BY <1>2, <2>1, <2>2, <2>3 DEF WrittenUnder, ReadUnder
<1>3. CASE b = "ibatl"
      <2>1. Banked(b, n) = 529 + n * 2
            BY <1>1, <1>3, SMTT(30) DEF Banked
      <2>2. Written(529 + n * 2) = <<"ibatl", ((529 + n * 2) - 529) \div 2>>
            BY SMTT(30) DEF Special, Written, Given
      <2>3. Given(529 + n * 2) = <<"ibatl", ((529 + n * 2) - 529) \div 2>>
            BY SMTT(30) DEF Special, Written, Given
      <2> QED BY <1>3, <2>1, <2>2, <2>3 DEF WrittenUnder, ReadUnder
<1>4. CASE b = "ibatu"
      <2>1. Banked(b, n) = 528 + n * 2
            BY <1>1, <1>4, SMTT(30) DEF Banked
      <2>2. Written(528 + n * 2) = <<"ibatu", ((528 + n * 2) - 528) \div 2>>
            BY SMTT(30) DEF Special, Written, Given
      <2>3. Given(528 + n * 2) = <<"ibatu", ((528 + n * 2) - 528) \div 2>>
            BY SMTT(30) DEF Special, Written, Given
      <2> QED BY <1>4, <2>1, <2>2, <2>3 DEF WrittenUnder, ReadUnder
<1>5. CASE b = "dbatl"
      <2>1. Banked(b, n) = 537 + n * 2
            BY <1>1, <1>5, SMTT(30) DEF Banked
      <2>2. Written(537 + n * 2) = <<"dbatl", ((537 + n * 2) - 537) \div 2>>
            BY SMTT(30) DEF Special, Written, Given
      <2>3. Given(537 + n * 2) = <<"dbatl", ((537 + n * 2) - 537) \div 2>>
            BY SMTT(30) DEF Special, Written, Given
      <2> QED BY <1>5, <2>1, <2>2, <2>3 DEF WrittenUnder, ReadUnder
<1>6. CASE b = "dbatu"
      <2>1. Banked(b, n) = 536 + n * 2
            BY <1>1, <1>6, SMTT(30) DEF Banked
      <2>2. Written(536 + n * 2) = <<"dbatu", ((536 + n * 2) - 536) \div 2>>
            BY SMTT(30) DEF Special, Written, Given
      <2>3. Given(536 + n * 2) = <<"dbatu", ((536 + n * 2) - 536) \div 2>>
            BY SMTT(30) DEF Special, Written, Given
      <2> QED BY <1>6, <2>1, <2>2, <2>3 DEF WrittenUnder, ReadUnder
<1> QED BY <1>2, <1>3, <1>4, <1>5, <1>6 DEF Banks

\* A register that has a number of its own, and no other, or one of a bank.
LEMMA NamedAre ==
    ASSUME NEW r \in Named
    PROVE  \/ r[1] \in Banks /\ r[2] \in 0 .. 3 /\ r = <<r[1], r[2]>>
           \/ r[1] \notin Banks /\ r[1] \in DOMAIN MovedTo \cup DOMAIN MovedFrom /\ r = <<r[1], 0>>
<1>1. (DOMAIN MovedTo \cup DOMAIN MovedFrom) \cap Banks = {}
      <2>1. DOMAIN MovedTo = {"lr", "ctr", "xer", "dsisr", "dar", "dec", "srr0", "srr1", "sdr1", "ear",
                              "tbl", "tbu"}
            BY DEF MovedTo
      <2>2. DOMAIN MovedFrom = {"lr", "ctr", "xer", "pvr", "dsisr", "dar", "dec", "srr0", "srr1", "sdr1",
                                "ear", "tbl", "tbu"}
            BY DEF MovedFrom
      <2> QED BY <2>1, <2>2 DEF Banks
<1>2. CASE r \in Banks \X (0 .. 3)
      BY <1>2
<1>3. CASE r \in {<<q, n>> : q \in DOMAIN MovedTo \cup DOMAIN MovedFrom, n \in {0}}
      BY <1>1, <1>3
<1>4. r \in {<<q, n>> : q \in DOMAIN MovedTo \cup DOMAIN MovedFrom, n \in {0}} \cup (Banks \X (0 .. 3))
      BY DEF Named
<1> QED BY <1>2, <1>3, <1>4

\* The number a register is written or read under is the manual's.
LEMMA NumberWritten ==
    ASSUME NEW r \in Named, r[1] \in DOMAIN MovedTo \cup Banks
    PROVE  WrittenUnder(ToNumber(r), r)
<1>1. CASE r[1] \in Banks
      <2>1. r[2] \in 0 .. 3 /\ r = <<r[1], r[2]>>
            BY <1>1, NamedAre
      <2>2. ToNumber(r) = Banked(r[1], r[2])
            BY <1>1, Zenon DEF ToNumber
      <2>3. WrittenUnder(Banked(r[1], r[2]), <<r[1], r[2]>>)
            BY <1>1, <2>1, BanksAre
      <2> QED BY <2>1, <2>2, <2>3, ZenonT(40)
<1>2. CASE r[1] \notin Banks
      <2>1. r = <<r[1], 0>> /\ r[1] \in DOMAIN MovedTo
            BY <1>2, NamedAre
      <2>2. ToNumber(r) = MovedTo[r[1]]
            BY <1>2, Zenon DEF ToNumber
      <2>3. WrittenUnder(MovedTo[r[1]], <<r[1], 0>>)
            BY <2>1, MovedToAre
      <2> QED BY <2>1, <2>2, <2>3, ZenonT(40)
<1> QED BY <1>1, <1>2

LEMMA NumberRead ==
    ASSUME NEW r \in Named, r[1] \in DOMAIN MovedFrom \cup Banks
    PROVE  ReadUnder(FromNumber(r), r)
<1>1. CASE r[1] \in Banks
      <2>1. r[2] \in 0 .. 3 /\ r = <<r[1], r[2]>>
            BY <1>1, NamedAre
      <2>2. FromNumber(r) = Banked(r[1], r[2])
            BY <1>1, Zenon DEF FromNumber
      <2>3. ReadUnder(Banked(r[1], r[2]), <<r[1], r[2]>>)
            BY <1>1, <2>1, BanksAre
      <2> QED BY <2>1, <2>2, <2>3, ZenonT(40)
<1>2. CASE r[1] \notin Banks
      <2>1. r = <<r[1], 0>> /\ r[1] \in DOMAIN MovedFrom
            BY <1>2, NamedAre
      <2>2. FromNumber(r) = MovedFrom[r[1]]
            BY <1>2, Zenon DEF FromNumber
      <2>3. ReadUnder(MovedFrom[r[1]], <<r[1], 0>>)
            BY <2>1, MovedFromAre
      <2> QED BY <2>1, <2>2, <2>3, ZenonT(40)
<1> QED BY <1>1, <1>2

\* A move to the number n writes the register of that number, and it alone; one from it
\* writes the general one.
LEMMA WritesSpecial ==
    ASSUME NEW n \in 0 .. 1023, NEW t \in 0 .. 31, NEW g, NEW cr
    PROVE  DoesOnly(Encode("mtspr", <<n, t>>), g, cr, Outcome(<<"spr", Written(n)>>, g[t], {}))
<1> DEFINE w == Encode("mtspr", <<n, t>>)
<1>1. Plainly("spr", n) /\ Plainly("t", t)
      BY DEF Plainly, Operand
<1>2. /\ Instructions(w) = {"mtspr"} /\ "rc" \notin Open(Manual["mtspr"])
      /\ Read(w, Manual["mtspr"].form, "spr") = n /\ Read(w, Manual["mtspr"].form, "t") = t
      <2>1. ReadAlone("mtspr", w) /\ IsRead("mtspr", w, "spr", n) /\ IsRead("mtspr", w, "t", t)
            BY <1>1, MoveRows, TwoRead, Zenon
      <2> QED BY <2>1, Zenon DEF ReadAlone, IsRead
<1> HIDE DEF w
<1>3. Computes(w, "mtspr", g, cr) = g[t]
      BY <1>2, Zenon DEF Computes
<1>4. Target(w, "mtspr") = <<"spr", Special(n, TRUE)>>
      <2>1. Target(w, "mtspr") = <<"spr", Special(Read(w, Manual["mtspr"].form, "spr"), TRUE)>>
            BY TargetIs, Zenon
      <2> QED BY <1>2, <2>1, Zenon
<1>5. Beside(w, "mtspr") = {}
      BY <1>2, NotBeside
<1>6. Yields(w, g, cr) = {g[t]}
      <2>1. Yields(w, g, cr) = {Computes(w, "mtspr", g, cr)}
            BY <1>2, Zenon DEF Yields
      <2> QED BY <1>3, <2>1, Zenon
<1>7. ComesTo(w, g, cr, "mtspr", <<"spr", Special(n, TRUE)>>, g[t], {})
      BY <1>2, <1>4, <1>5, <1>6, Zenon DEF ComesTo, AimsAt
<1> QED BY <1>7, DoesWhole, Zenon DEF w, Written

LEMMA ReadsSpecial ==
    ASSUME NEW n \in 0 .. 1023, NEW t \in 0 .. 31, NEW g, NEW cr
    PROVE  DoesOnly(Encode("mfspr", <<t, n>>), g, cr, Outcome(<<"gpr", t>>, <<"spr", Given(n)>>, {}))
<1> DEFINE w == Encode("mfspr", <<t, n>>)
<1>1. Plainly("spr", n) /\ Plainly("t", t)
      BY DEF Plainly, Operand
<1>2. /\ Instructions(w) = {"mfspr"} /\ "rc" \notin Open(Manual["mfspr"])
      /\ Read(w, Manual["mfspr"].form, "spr") = n /\ Read(w, Manual["mfspr"].form, "t") = t
      <2>1. ReadAlone("mfspr", w) /\ IsRead("mfspr", w, "t", t) /\ IsRead("mfspr", w, "spr", n)
            BY <1>1, MoveRows, TwoRead, Zenon
      <2> QED BY <2>1, Zenon DEF ReadAlone, IsRead
<1> HIDE DEF w
<1>3. Computes(w, "mfspr", g, cr) = <<"spr", Special(n, FALSE)>>
      <2>1. Computes(w, "mfspr", g, cr) = <<"spr", Special(Read(w, Manual["mfspr"].form, "spr"), FALSE)>>
            BY Zenon DEF Computes
      <2> QED BY <1>2, <2>1, Zenon
<1>4. Target(w, "mfspr") = <<"gpr", t>>
      <2>1. "mfspr" \in IntoT
            BY DEF IntoT
      <2> QED BY <1>2, <2>1, TargetIsT, Zenon
<1>5. Beside(w, "mfspr") = {}
      BY <1>2, NotBeside
<1>6. Yields(w, g, cr) = {<<"spr", Special(n, FALSE)>>}
      <2>1. Yields(w, g, cr) = {Computes(w, "mfspr", g, cr)}
            BY <1>2, Zenon DEF Yields
      <2> QED BY <1>3, <2>1, Zenon
<1>7. ComesTo(w, g, cr, "mfspr", <<"gpr", t>>, <<"spr", Special(n, FALSE)>>, {})
      BY <1>2, <1>4, <1>5, <1>6, Zenon DEF ComesTo, AimsAt
<1> QED BY <1>7, DoesWhole, Zenon DEF w, Given

----------------------------------------------------------------------------
(* What is typed as a number *)

\* The words of the instructions the numbers are for.
LEMMA OrrIs ==
    ASSUME NEW n \in 0 .. 31
    PROVE  Encode("orr", <<n, n, n, 0>>) = <<31, n * 2^21 + n * 2^16 + n * 2^11 + 888>>
<1> DEFINE args == <<n, n, n, 0>>
           params == <<"a", "t", "b", "rc">>
           f == FieldsOf("orr", args)
<1>1. /\ "orr" \in DOMAIN Table /\ Table["orr"].form = "X" /\ Table["orr"].params = params
      /\ Table["orr"].op = 31 /\ Table["orr"].xo = 444 /\ Table["orr"].rc = 0
      BY LogicalRows
<1>2. \A i \in 1 .. 4 : f[params[i]] = args[i]
      <2>1. \A i \in 1 .. 4 : Place(params[i]) = params[i]
            BY PlaceOfParameter
      <2>2. \A i \in 1 .. 4 : \A x : Converted(params[i], x) = x
            <3>1. \A i \in 1 .. 4 : params[i] \in DOMAIN Operand \ {"crt", "cra", "sr"}
                  BY Parameters
            <3> HIDE DEF params
            <3> QED BY <3>1, ConvertedParameter, Zenon
      <2>3. DOMAIN params = 1 .. 4
            OBVIOUS
      <2> HIDE DEF params, args
      <2>4. ASSUME NEW i \in 1 .. 4
            PROVE  FieldsOf("orr", args)[Place(params[i])] = Converted(params[i], args[i])
            <3>1. i \in DOMAIN Table["orr"].params
                  BY <1>1, <2>3, Zenon
            <3>2. FieldsOf("orr", args)[Place(Table["orr"].params[i])] =
                      Converted(Table["orr"].params[i], args[i])
                  <4>1. "orr" \in DOMAIN Table
                        BY <1>1, Zenon
                  <4> QED BY <4>1, <3>1, FieldsGiven, Zenon
            <3> QED BY <1>1, <3>2, Zenon
      <2> QED BY <2>1, <2>2, <2>4, Zenon
<1>3. f.a = n /\ f.t = n /\ f.b = n /\ f.rc = 0
      <2> HIDE DEF f
      <2> QED BY <1>2
<1> HIDE DEF f
<1>4. Formed(Table["orr"], f) = X_form(31, n, n, n, 444, 0 + 0)
      BY <1>1, <1>3, ZenonT(40) DEF Formed
<1>5. Low(n, 5) = n /\ Low(444, 10) = 444
      BY SMT DEF Low
<1>6. X_form(31, n, n, n, 444, 0 + 0) = <<31, n * 2^21 + n * 2^16 + n * 2^11 + 444 * 2 + (0 + 0)>>
      BY <1>5, ZenonT(40) DEF X_form, Registers3
<1>7. n * 2^21 + n * 2^16 + n * 2^11 + 444 * 2 + (0 + 0) = n * 2^21 + n * 2^16 + n * 2^11 + 888
      BY SMT
<1>8. Encode("orr", args) = Formed(Table["orr"], f)
      BY Zenon DEF Encode, f
<1>9. X_form(31, n, n, n, 444, 0 + 0) = <<31, n * 2^21 + n * 2^16 + n * 2^11 + 888>>
      BY <1>6, <1>7, SMT
<1> QED BY <1>4, <1>8, <1>9, SMT

LEMMA TrapIs == Encode("tw", <<31, 0, 0>>) = <<31, 31 * 2^21 + 8>>
<1> DEFINE args == <<31, 0, 0>>
           params == <<"t", "a", "b">>
           f == FieldsOf("tw", args)
<1>1. /\ "tw" \in DOMAIN Table /\ Table["tw"].form = "X" /\ Table["tw"].params = params
      /\ Table["tw"].op = 31 /\ Table["tw"].xo = 4 /\ Table["tw"].rc = 0
      BY TrapRow
<1>2. /\ \A i \in 1 .. 3 : f[params[i]] = args[i]
      /\ f.rc = 0
      <2>1. \A i \in 1 .. 3 : Place(params[i]) = params[i] /\ params[i] # "rc"
            BY PlaceOfParameter
      <2>2. \A i \in 1 .. 3 : \A x : Converted(params[i], x) = x
            <3>1. \A i \in 1 .. 3 : params[i] \in DOMAIN Operand \ {"crt", "cra", "sr"}
                  BY Parameters
            <3> HIDE DEF params
            <3> QED BY <3>1, ConvertedParameter, Zenon
      <2>3. DOMAIN params = 1 .. 3
            OBVIOUS
      <2> HIDE DEF params, args
      <2>4. ASSUME NEW i \in 1 .. 3
            PROVE  FieldsOf("tw", args)[Place(params[i])] = Converted(params[i], args[i])
            <3>1. i \in DOMAIN Table["tw"].params
                  BY <1>1, <2>3, Zenon
            <3>2. FieldsOf("tw", args)[Place(Table["tw"].params[i])] =
                      Converted(Table["tw"].params[i], args[i])
                  BY <1>1, <3>1, FieldsGiven, Zenon
            <3> QED BY <1>1, <3>2, Zenon
      <2>5. FieldsOf("tw", args)["rc"] = 0
            <3>1. "rc" \in FieldNames
                  BY DEF FieldNames
            <3>2. "rc" \notin Open(Table["tw"])
                  BY <1>1, <2>1, <2>3, ZenonT(40) DEF Open
            <3>3. "tw" \in DOMAIN Table
                  BY <1>1, Zenon
            <3>4. \A fld \in FieldNames \ Open(Table["tw"]) : FieldsOf("tw", args)[fld] = 0
                  BY <3>3, FieldsGiven, Zenon
            <3> QED BY <3>1, <3>2, <3>4, Zenon
      <2> QED BY <2>1, <2>2, <2>4, <2>5, Zenon
<1>3. f.a = 0 /\ f.t = 31 /\ f.b = 0 /\ f.rc = 0
      <2> HIDE DEF f
      <2> QED BY <1>2
<1> HIDE DEF f
<1>4. Formed(Table["tw"], f) = X_form(31, 31, 0, 0, 4, 0 + 0)
      BY <1>1, <1>3, Zenon DEF Formed
<1>5. Low(31, 5) = 31 /\ Low(0, 5) = 0 /\ Low(4, 10) = 4
      BY SMT DEF Low
<1>6. X_form(31, 31, 0, 0, 4, 0 + 0) = <<31, 31 * 2^21 + 0 * 2^16 + 0 * 2^11 + 4 * 2 + (0 + 0)>>
      BY <1>5, Zenon DEF X_form, Registers3
<1>7. 31 * 2^21 + 0 * 2^16 + 0 * 2^11 + 4 * 2 + (0 + 0) = 31 * 2^21 + 8
      BY SMT
<1>8. Encode("tw", args) = Formed(Table["tw"], f)
      BY Zenon DEF Encode, f
<1>9. X_form(31, 31, 0, 0, 4, 0 + 0) = <<31, 31 * 2^21 + 8>>
      BY <1>6, <1>7, SMT
<1> QED BY <1>4, <1>8, <1>9, SMT

\* The numbers that are typed, one by one.
LEMMA TypedWordsAre ==
    /\ DOMAIN SystemCalls = {"sc", "rfi", "trap"} /\ DOMAIN RegisterHints = {"yield", "mdoio", "mdoom"}
    /\ Word(SystemCalls.sc) = <<17, 2>> /\ Word(SystemCalls.rfi) = <<19, 100>>
    /\ Word(SystemCalls.trap) = Encode("tw", <<31, 0, 0>>)
    /\ Word(RegisterHints.yield) = Encode("orr", <<27, 27, 27, 0>>)
    /\ Word(RegisterHints.mdoio) = Encode("orr", <<29, 29, 29, 0>>)
    /\ Word(RegisterHints.mdoom) = Encode("orr", <<30, 30, 30, 0>>)
<1>1. /\ DOMAIN SystemCalls = {"sc", "rfi", "trap"} /\ DOMAIN RegisterHints = {"yield", "mdoio", "mdoom"}
      /\ SystemCalls.sc = \h44000002 /\ SystemCalls.rfi = \h4C000064 /\ SystemCalls.trap = \h7FE00008
      /\ RegisterHints.yield = \h7F7BDB78 /\ RegisterHints.mdoio = \h7FBDEB78
      /\ RegisterHints.mdoom = \h7FDEF378
      BY DEF SystemCalls, RegisterHints
<1>2. /\ Word(\h44000002) = <<17, 2>>
      /\ Word(\h4C000064) = <<19, 100>>
      /\ Word(\h7FE00008) = <<31, 31 * 2^21 + 8>>
      BY SMT DEF Word
<1>3. /\ Word(\h7F7BDB78) = <<31, 27 * 2^21 + 27 * 2^16 + 27 * 2^11 + 888>>
      /\ Word(\h7FBDEB78) = <<31, 29 * 2^21 + 29 * 2^16 + 29 * 2^11 + 888>>
      /\ Word(\h7FDEF378) = <<31, 30 * 2^21 + 30 * 2^16 + 30 * 2^11 + 888>>
      BY SMT DEF Word
<1>4. /\ Encode("orr", <<27, 27, 27, 0>>) = <<31, 27 * 2^21 + 27 * 2^16 + 27 * 2^11 + 888>>
      /\ Encode("orr", <<29, 29, 29, 0>>) = <<31, 29 * 2^21 + 29 * 2^16 + 29 * 2^11 + 888>>
      /\ Encode("orr", <<30, 30, 30, 0>>) = <<31, 30 * 2^21 + 30 * 2^16 + 30 * 2^11 + 888>>
      <2>1. 27 \in 0 .. 31 /\ 29 \in 0 .. 31 /\ 30 \in 0 .. 31
            OBVIOUS
      <2> QED BY <2>1, OrrIs
<1> QED BY <1>1, <1>2, <1>3, <1>4, TrapIs, SMT

\* How the processor reads a word: as these instructions, each with its operands.
Reading(w) == [m \in Instructions(w) |-> Operands(w, m)]
ReadsOnly(w, m, args) == Reading(w) = [k \in {m} |-> args]
LEMMA ReadingIs ==
    ASSUME NEW w, NEW m, NEW args, Instructions(w) = {m}, Operands(w, m) = args
    PROVE  ReadsOnly(w, m, args)
<1>1. \A k \in {m} : Operands(w, k) = args
      OBVIOUS
<1>2. Reading(w) = [k \in {m} |-> Operands(w, k)]
      BY Zenon DEF Reading
<1> QED BY <1>1, <1>2, Zenon DEF ReadsOnly

LEMMA SuitedIsRead ==
    ASSUME NEW m, NEW args, Suits(m, args)
    PROVE  ReadsOnly(Encode(m, args), m, args)
<1>1. Instructions(Encode(m, args)) = {m} /\ Operands(Encode(m, args), m) = args
      BY ReadsBack, Zenon
<1> QED BY <1>1, ReadingIs, Zenon

LEMMA HintIsRead ==
    ASSUME NEW n \in 0 .. 31
    PROVE  ReadsOnly(Encode("orr", <<n, n, n, 0>>), "orr", <<n, n, n, 0>>)
<1> DEFINE args == <<n, n, n, 0>>
           params == <<"a", "t", "b", "rc">>
<1>1. "orr" \in DOMAIN Table /\ Table["orr"].params = params
      BY LogicalRows
<1>2. args \in Seq(Int) /\ Len(args) = 4 /\ Len(params) = 4 /\ DOMAIN params = 1 .. 4
      OBVIOUS
<1>3. \A i \in 1 .. 4 : args[i] \in Operand[params[i]]
      <2>1. n \in Operand["a"] /\ n \in Operand["t"] /\ n \in Operand["b"] /\ 0 \in Operand["rc"]
            BY DEF Operand
      <2> QED BY <2>1
<1> HIDE DEF args, params
<1>4. Suits("orr", args)
      BY <1>1, <1>2, <1>3, Zenon DEF Suits
<1> QED BY <1>4, SuitedIsRead, Zenon DEF args

LEMMA TrapIsRead == ReadsOnly(Encode("tw", <<31, 0, 0>>), "tw", <<31, 0, 0>>)
<1> DEFINE args == <<31, 0, 0>>
           params == <<"t", "a", "b">>
<1>1. "tw" \in DOMAIN Table /\ Table["tw"].params = params
      BY TrapRow
<1>2. args \in Seq(Int) /\ Len(args) = 3 /\ Len(params) = 3 /\ DOMAIN params = 1 .. 3
      OBVIOUS
<1>3. \A i \in 1 .. 3 : args[i] \in Operand[params[i]]
      <2>1. 31 \in Operand["t"] /\ 0 \in Operand["a"] /\ 0 \in Operand["b"]
            BY DEF Operand
      <2> QED BY <2>1
<1> HIDE DEF args, params
<1>4. Suits("tw", args)
      BY <1>1, <1>2, <1>3, Zenon DEF Suits
<1> QED BY <1>4, SuitedIsRead, Zenon DEF args

\* rfi and sc have no row in the code: what the manual has of them.
Bare(m, op, xo) ==
    /\ m \in DOMAIN Manual /\ Manual[m].form = "XL" /\ Manual[m].params = <<>>
    /\ Manual[m].op = op /\ Manual[m].xo = xo /\ Manual[m].rc = 0
Alone(m, op, xo, rest) == op \in 0 .. 63 /\ xo \in 0 .. 1023 /\ rest = xo * 2 /\ Bare(m, op, xo)
BareRead(m, op, rest) == ReadsOnly(<<op, rest>>, m, <<>>)
LEMMA BareOnes == Bare("rfi", 19, 50) /\ Bare("sc", 17, 1)
<1> DEFINE returns == Book(19, "XL", <<>>, [rfi |-> 50])
           calls_ == Book(17, "XL", <<>>, [sc |-> 1])
<1>1. returns \in Books /\ calls_ \in Books
      BY DEF Books, Opcode19, Opcode17
<1>2. "rfi" \in DOMAIN returns /\ "sc" \in DOMAIN calls_
      BY DEF Book
<1>3. /\ returns["rfi"] = [form |-> "XL", params |-> <<>>, op |-> 19, xo |-> 50, rc |-> 0]
      /\ calls_["sc"] = [form |-> "XL", params |-> <<>>, op |-> 17, xo |-> 1, rc |-> 0]
      BY DEF Book
<1> HIDE DEF returns, calls_
<1>4. "rfi" \in DOMAIN Manual /\ Manual["rfi"] = returns["rfi"]
      BY <1>1, <1>2, ManualAssumption, Zenon DEF Manual
<1>5. "sc" \in DOMAIN Manual /\ Manual["sc"] = calls_["sc"]
      BY <1>1, <1>2, ManualAssumption, Zenon DEF Manual
<1> QED BY <1>3, <1>4, <1>5 DEF Bare

LEMMA BareIsRead ==
    ASSUME NEW m, NEW op, NEW xo, NEW rest, Alone(m, op, xo, rest)
    PROVE  BareRead(m, op, rest)
<1> DEFINE w == <<op, rest>>
<1>0. op \in 0 .. 63 /\ xo \in 0 .. 1023 /\ rest = xo * 2 /\ Bare(m, op, xo)
      BY Zenon DEF Alone
<1>1. w[1] = op /\ w[2] = xo * 2 /\ w[2] \in Int
      BY <1>0
<1> HIDE DEF w
<1>2. /\ Bits(w, 21, 5) = 0 /\ Bits(w, 16, 5) = 0 /\ Bits(w, 11, 5) = 0
      /\ Bits(w, 1, 10) = xo /\ Bits(w, 0, 1) = 0
      BY <1>0, <1>1, SMT DEF Bits
<1>3. /\ Field(w, "XL", "t") = 0 /\ Field(w, "XL", "a") = 0 /\ Field(w, "XL", "b") = 0
      /\ Field(w, "XL", "xo") = xo /\ Field(w, "XL", "rc") = 0
      BY <1>2, XLLayout DEF Field
<1>4. DOMAIN <<>> = {}
      OBVIOUS
<1>5. DOMAIN Manual[m].params = {}
      BY <1>0, <1>4, Zenon DEF Bare
<1>6. IsInstruction(w, m)
      <2> DEFINE row == Manual[m]
      <2>1. row.form = "XL" /\ row.xo = xo /\ row.rc = 0 /\ DOMAIN row.params = {}
            BY <1>0, <1>5, Zenon DEF Bare
      <2>2. IsInstruction(w, m) <=>
                /\ \A f \in DOMAIN Layout[row.form] \ Open(row) :
                       Field(w, row.form, f) = (CASE f = "xo" -> row.xo [] f = "rc" -> row.rc [] OTHER -> 0)
                /\ \A i \in DOMAIN row.params :
                       row.params[i] \in {"crt", "cra"} => Field(w, row.form, Place(row.params[i])) % 4 = 0
            BY Zenon DEF IsInstruction
      <2> HIDE DEF row
      <2>3. ASSUME NEW f \in DOMAIN Layout["XL"]
            PROVE  Field(w, "XL", f) = (CASE f = "xo" -> xo [] f = "rc" -> 0 [] OTHER -> 0)
            BY <1>3, XLLayout
      <2> QED BY <2>1, <2>2, <2>3
<1>7. Instructions(w) = {m}
      <2>1. \A o \in OfOpcode[op] : IsInstruction(w, o) => o = m
            <3>1. OfOpcode[op] = {o \in DOMAIN Manual : Manual[o].op = op}
                  BY <1>0, Zenon DEF OfOpcode
            <3> QED BY <1>0, <1>1, <1>6, <3>1, OneInstruction, Zenon DEF Bare
      <2>2. m \in OfOpcode[op]
            BY <1>0, Zenon DEF OfOpcode, Bare
      <2> QED BY <1>1, <1>6, <2>1, <2>2, Zenon DEF Instructions
<1>8. Operands(w, m) = <<>>
      <2>1. Operands(w, m) = [i \in {} |-> Read(w, Manual[m].form, Manual[m].params[i])]
            BY <1>5, Zenon DEF Operands
      <2>2. [i \in {} |-> Read(w, Manual[m].form, Manual[m].params[i])] = <<>>
            BY SMT
      <2> QED BY <2>1, <2>2, Zenon
<1> QED BY <1>7, <1>8, ReadingIs, Zenon DEF w, BareRead

\* What is typed as a number is read as the instruction its name is for.
TypedAt(n) == Word(IF n \in DOMAIN SystemCalls THEN SystemCalls[n] ELSE RegisterHints[n])
LEMMA TypedAre ==
    ASSUME NEW n \in DOMAIN SystemCalls \cup DOMAIN RegisterHints
    PROVE  Reading(TypedAt(n)) = TypedMeans[n]
<1>1. /\ TypedMeans["yield"] = [orr |-> <<27, 27, 27, 0>>] /\ TypedMeans["mdoio"] = [orr |-> <<29, 29, 29, 0>>]
      /\ TypedMeans["mdoom"] = [orr |-> <<30, 30, 30, 0>>] /\ TypedMeans["trap"] = [tw |-> <<31, 0, 0>>]
      /\ TypedMeans["rfi"] = [rfi |-> <<>>] /\ TypedMeans["sc"] = [sc |-> <<>>]
      BY DEF TypedMeans
<1>2. \A x : /\ [orr |-> x] = [k \in {"orr"} |-> x] /\ [tw |-> x] = [k \in {"tw"} |-> x]
             /\ [rfi |-> x] = [k \in {"rfi"} |-> x] /\ [sc |-> x] = [k \in {"sc"} |-> x]
      OBVIOUS
<1>3. BareRead("sc", 17, 2)
      <2>1. Alone("sc", 17, 1, 2)
            BY BareOnes DEF Alone
      <2> QED BY <2>1, BareIsRead, Zenon
<1>4. BareRead("rfi", 19, 100)
      <2>1. Alone("rfi", 19, 50, 100)
            BY BareOnes DEF Alone
      <2> QED BY <2>1, BareIsRead, Zenon
<1>5. /\ ReadsOnly(Encode("orr", <<27, 27, 27, 0>>), "orr", <<27, 27, 27, 0>>)
      /\ ReadsOnly(Encode("orr", <<29, 29, 29, 0>>), "orr", <<29, 29, 29, 0>>)
      /\ ReadsOnly(Encode("orr", <<30, 30, 30, 0>>), "orr", <<30, 30, 30, 0>>)
      <2>1. 27 \in 0 .. 31 /\ 29 \in 0 .. 31 /\ 30 \in 0 .. 31
            OBVIOUS
      <2> QED BY <2>1, HintIsRead, Zenon
<1>6. /\ "sc" \in DOMAIN SystemCalls /\ "rfi" \in DOMAIN SystemCalls /\ "trap" \in DOMAIN SystemCalls
      /\ "yield" \notin DOMAIN SystemCalls /\ "mdoio" \notin DOMAIN SystemCalls
      /\ "mdoom" \notin DOMAIN SystemCalls
      /\ n = "sc" \/ n = "rfi" \/ n = "trap" \/ n = "yield" \/ n = "mdoio" \/ n = "mdoom"
      BY TypedWordsAre
<1>7. CASE n = "sc"
      <2>1. TypedAt(n) = <<17, 2>>
            BY <1>6, <1>7, TypedWordsAre, Zenon DEF TypedAt
      <2> QED BY <1>1, <1>2, <1>3, <1>7, <2>1, Zenon DEF BareRead, ReadsOnly
<1>8. CASE n = "rfi"
      <2>1. TypedAt(n) = <<19, 100>>
            BY <1>6, <1>8, TypedWordsAre, Zenon DEF TypedAt
      <2> QED BY <1>1, <1>2, <1>4, <1>8, <2>1, Zenon DEF BareRead, ReadsOnly
<1>9. CASE n = "trap"
      <2>1. TypedAt(n) = Encode("tw", <<31, 0, 0>>)
            BY <1>6, <1>9, TypedWordsAre, Zenon DEF TypedAt
      <2> QED BY <1>1, <1>2, <1>9, <2>1, TrapIsRead, Zenon DEF ReadsOnly
<1>10. CASE n = "yield"
      <2>1. TypedAt(n) = Encode("orr", <<27, 27, 27, 0>>)
            BY <1>6, <1>10, TypedWordsAre, Zenon DEF TypedAt
      <2> QED BY <1>1, <1>2, <1>5, <1>10, <2>1, Zenon DEF ReadsOnly
<1>11. CASE n = "mdoio"
      <2>1. TypedAt(n) = Encode("orr", <<29, 29, 29, 0>>)
            BY <1>6, <1>11, TypedWordsAre, Zenon DEF TypedAt
      <2> QED BY <1>1, <1>2, <1>5, <1>11, <2>1, Zenon DEF ReadsOnly
<1>12. CASE n = "mdoom"
      <2>1. TypedAt(n) = Encode("orr", <<30, 30, 30, 0>>)
            BY <1>6, <1>12, TypedWordsAre, Zenon DEF TypedAt
      <2> QED BY <1>1, <1>2, <1>5, <1>12, <2>1, Zenon DEF ReadsOnly
<1> QED BY <1>6, <1>7, <1>8, <1>9, <1>10, <1>11, <1>12
----------------------------------------------------------------------------
(* Every job *)

\* A job's word is the one its function makes, and what is done is what the processor
\* makes of it.
Conditional == job.kind \in {"branch", "bc", "trap"}
WithRow == {"plain", "short", "move"}
AsmInv ==
    /\ job \in Jobs
    /\ stage # "source" /\ job.kind \in WithRow => word = Encode(Inlined(job)[1], Inlined(job)[2])
    /\ stage # "source" /\ (Conditional \/ job.kind = "typed") => word = TypedWord(job)
    /\ stage = "ran" /\ job.kind \in {"plain", "typed"} => did = Reading(word)
    /\ stage = "ran" /\ job.kind \in {"short", "move"} => did \in Does(word, job.gpr, job.cpu.cr)
    /\ stage = "ran" /\ job.kind \in {"branch", "bc"} => did = Branches(word, job.cpu)
    /\ stage = "ran" /\ job.kind = "trap" => did = Fires(word, job.gpr)

\* The steps of a job keep to that.
THEOREM JobsAreRun == AsmSpec => []AsmInv
<1>1. AsmInit => AsmInv
      BY DEF AsmInit, AsmInv
<1>2. AsmInv /\ [AsmNext]_asmVars => AsmInv'
      <2>1. SUFFICES ASSUME AsmInv, [AsmNext]_asmVars PROVE AsmInv'
            OBVIOUS
      <2>2. CASE Assemble
            <3>1. job.kind \in WithRow => word' = Encode(Inlined(job)[1], Inlined(job)[2])
                  BY <2>2 DEF Assemble, WithRow, Encode
            <3>2. Conditional \/ job.kind = "typed" => job.kind \notin WithRow
                  BY DEF Conditional, WithRow
            <3>3. Conditional \/ job.kind = "typed" => word' = TypedWord(job)
                  BY <2>2, <3>2 DEF Assemble, WithRow
            <3>4. job' = job /\ stage' = "word"
                  BY <2>2 DEF Assemble
            <3> QED BY <2>1, <3>1, <3>3, <3>4 DEF AsmInv, Conditional
      <2>3. CASE Run
            <3>1. stage = "word" /\ stage' = "ran" /\ job' = job /\ word' = word
                  BY <2>3 DEF Run
            <3>2. did' \in Done(Instructions(word))
                  BY <2>3 DEF Run
            <3>3. job.kind \in {"branch", "bc"} => did' = Branches(word, job.cpu)
                  <4>1. job.kind \in {"branch", "bc"} =>
                            Done(Instructions(word)) = {Branches(word, job.cpu)}
                        BY DEF Done
                  <4> QED BY <3>2, <4>1
            <3>4. job.kind = "trap" => did' = Fires(word, job.gpr)
                  <4>1. job.kind = "trap" => Done(Instructions(word)) = {Fires(word, job.gpr)}
                        BY DEF Done
                  <4> QED BY <3>2, <4>1
            <3>5. job.kind \in {"plain", "typed"} => did' = Reading(word)
                  <4>1. job.kind \in {"plain", "typed"} => Done(Instructions(word)) = {Reading(word)}
                        BY DEF Done, Reading
                  <4> QED BY <3>2, <4>1
            <3>6. job.kind \in {"short", "move"} => did' \in Does(word, job.gpr, job.cpu.cr)
                  <4>1. job.kind \in {"short", "move"} =>
                            Done(Instructions(word)) = Does(word, job.gpr, job.cpu.cr)
                        BY DEF Done, Does
                  <4> QED BY <3>2, <4>1
            <3> QED BY <2>1, <3>1, <3>3, <3>4, <3>5, <3>6 DEF AsmInv, Conditional
      <2>4. CASE UNCHANGED asmVars
            BY <2>1, <2>4 DEF AsmInv, Conditional, asmVars
      <2> QED BY <2>1, <2>2, <2>3, <2>4 DEF AsmNext
<1> QED BY <1>1, <1>2, PTL DEF AsmSpec

LEMMA BranchJob ==
    ASSUME Expressible(job), job.kind = "branch", did = Branches(TypedWord(job), job.cpu)
    PROVE  BranchesAsNamed(job.name, job.args[1], job.args[2])
<1> DEFINE test == job.name
           x == job.args[1]
           to == job.args[2]
           suffix == job.suffix
           cpu == job.cpu
<1>1. /\ \/ test \in DOMAIN OnBit /\ x \in 0 .. 31
         \/ test \in DOMAIN OnField /\ x \in 0 .. 7
         \/ test \in DOMAIN OnCounter \cup {"b"}
      /\ suffix \in Endings /\ Reaches(to, IF test = "b" THEN 26 ELSE 16) /\ cpu.ctr \in Int
      BY DEF Expressible, AddsUp
<1>2. did = Branches(Branch(test, suffix, x, to), cpu)
      BY DEF TypedWord
<1> HIDE DEF test, x, to, suffix, cpu
<1>3. ASSUME test \in DOMAIN OnBit /\ x \in 0 .. 31 PROVE BranchesAsNamed(test, x, to)
      <2>1. test \in Tests /\ test # "b"
            BY <1>3, TestsAre, SMT DEF Tests
      <2>2. Reaches(to, 16)
            BY <1>1, <2>1, Zenon
      <2>3. did = Branches(SuffixWord(suffix, BoOf[test], x, to), cpu)
            BY <1>1, <1>2, <1>3, <2>2, OnBitWord, Zenon
      <2>4. /\ BoOf[test] \in 0 .. 31
            /\ Met(test, x, cpu.cr, cpu.ctr) <=> Taken(BoOf[test], x, cpu)
            /\ test \in Steps <=> ~BoBit(BoOf[test], 4)
            BY <1>1, <2>1, MetIsTaken
      <2>5. x \in 0 .. 31
            BY <1>3
      <2>6. BranchLike(test, x, to, BoOf[test], x)
            BY <1>1, <2>2, <2>3, <2>4, <2>5, Zenon DEF BranchLike, suffix, cpu
      <2> QED BY <2>6, NamedBranch, Zenon
<1>4. ASSUME test \in DOMAIN OnField /\ x \in 0 .. 7 PROVE BranchesAsNamed(test, x, to)
      <2> DEFINE bo == FieldBo(test)
                 bi == 4 * x + FieldFlag(test)
      <2>1. test \in WhenSet \cup WhenNot /\ test # "b"
            BY <1>4, TestsAre, SMT DEF WhenSet, WhenNot
      <2>2. Reaches(to, 16)
            BY <1>1, <2>1, Zenon
      <2>3. did = Branches(SuffixWord(suffix, bo, bi, to), cpu)
            BY <1>1, <1>2, <1>4, <2>2, OnFieldWord, Zenon
      <2>4. /\ bo \in 0 .. 31 /\ bi \in 0 .. 31
            /\ Met(test, x, cpu.cr, cpu.ctr) <=> Taken(bo, bi, cpu)
            /\ test \in Steps <=> ~BoBit(bo, 4)
            BY <1>4, <2>1, MetOnField
      <2> HIDE DEF bo, bi
      <2>5. BranchLike(test, x, to, bo, bi)
            BY <1>1, <2>2, <2>3, <2>4, Zenon DEF BranchLike, suffix, cpu
      <2> QED BY <2>5, NamedBranch, Zenon
<1>5. ASSUME test \in DOMAIN OnCounter PROVE BranchesAsNamed(test, x, to)
      <2>1. test \in Tests /\ test # "b" /\ test \in {"bdnz", "bdz"}
            BY <1>5, TestsAre, SMT DEF Tests
      <2>2. Reaches(to, 16)
            BY <1>1, <2>1, Zenon
      <2>3. did = Branches(SuffixWord(suffix, BoOf[test], 0, to), cpu)
            BY <1>1, <1>2, <1>5, <2>2, OnCounterWord, Zenon
      <2>4. /\ BoOf[test] \in 0 .. 31
            /\ Met(test, 0, cpu.cr, cpu.ctr) <=> Taken(BoOf[test], 0, cpu)
            /\ test \in Steps <=> ~BoBit(BoOf[test], 4)
            BY <1>1, <2>1, MetIsTaken
      <2>5. Met(test, x, cpu.cr, cpu.ctr) <=> Met(test, 0, cpu.cr, cpu.ctr)
            BY <2>1 DEF Met
      <2>6. 0 \in 0 .. 31
            OBVIOUS
      <2>7. BranchLike(test, x, to, BoOf[test], 0)
            BY <1>1, <2>2, <2>3, <2>4, <2>5, <2>6, Zenon DEF BranchLike, suffix, cpu
      <2> QED BY <2>7, NamedBranch, Zenon
<1>6. ASSUME test = "b" PROVE BranchesAsNamed(test, x, to)
      <2>1. Reaches(to, 26)
            BY <1>1, <1>6, Zenon
      <2>2. did = Jump(TRUE, TargetOf(suffix, to, cpu), suffix, cpu.ctr, cpu)
            BY <1>1, <1>2, <1>6, <2>1, PlainBranch, Zenon
      <2>3. Met(test, x, cpu.cr, cpu.ctr) <=> TRUE
            BY <1>6 DEF Met
      <2>4. test \notin Steps
            BY <1>6 DEF Steps
      <2>5. cpu.ctr = IF test \in Steps THEN cpu.ctr - 1 ELSE cpu.ctr
            BY <2>4
      <2> QED BY <1>1, <2>2, <2>3, <2>5, NamedJump, Zenon DEF suffix, cpu
<1>7. BranchesAsNamed(test, x, to)
      BY <1>1, <1>3, <1>4, <1>5, <1>6, Zenon
<1> QED BY <1>7, Zenon DEF test, x, to

LEMMA GeneralJob ==
    ASSUME Expressible(job), job.kind = "bc", did = Branches(TypedWord(job), job.cpu),
           NEW test \in DOMAIN BoOf, BoOf[test] = job.args[1]
    PROVE  BranchesAsNamed(test, job.args[2], job.args[3])
<1> DEFINE bo == job.args[1]
           bi == job.args[2]
           to == job.args[3]
<1>1. bo \in 0 .. 31 /\ bi \in 0 .. 31 /\ job.suffix \in Endings /\ Reaches(to, 16) /\ job.cpu.ctr \in Int
      BY DEF Expressible, AddsUp
<1>2. did = Branches(GeneralBranch(job.suffix, bo, bi, to), job.cpu)
      BY DEF TypedWord
<1>3. test \in Tests /\ BoOf[test] = bo
      BY BoOfIs
<1> HIDE DEF bo, bi, to
<1>4. did = Branches(SuffixWord(job.suffix, bo, bi, to), job.cpu)
      BY <1>1, <1>2, GeneralWord, Zenon
<1>5. /\ Met(test, bi, job.cpu.cr, job.cpu.ctr) <=> Taken(bo, bi, job.cpu)
      /\ test \in Steps <=> ~BoBit(bo, 4)
      BY <1>1, <1>3, MetIsTaken
<1>6. BranchLike(test, bi, to, bo, bi)
      BY <1>1, <1>4, <1>5, Zenon DEF BranchLike
<1>7. BranchesAsNamed(test, bi, to)
      BY <1>6, NamedBranch, Zenon
<1> QED BY <1>7, Zenon DEF bi, to

LEMMA TrapJob ==
    ASSUME Expressible(job), job.kind = "trap", did = Fires(TypedWord(job), job.gpr)
    PROVE  did = TrapMeant(job.name, job.gpr[job.args[1]],
                           IF job.suffix = "i" THEN job.args[2] ELSE job.gpr[job.args[2]])
<1>1. /\ job.name \in DOMAIN TrapOnRegister
      /\ job.args[1] \in 0 .. 31 /\ job.gpr[job.args[1]] \in Int
      /\ IF job.suffix = "i" THEN job.args[2] \in -(2^15) .. 2^15 - 1
         ELSE job.args[2] \in 0 .. 31 /\ job.gpr[job.args[2]] \in Int
      BY DEF Expressible
<1>2. job.name \in TrapNames
      <2>1. DOMAIN TrapOnRegister = TrapNames
            BY SMT DEF TrapOnRegister, TrapNames
      <2> QED BY <1>1, <2>1
<1>3. did = Fires(Trap(job.name, job.suffix = "i", job.args), job.gpr)
      BY DEF TypedWord
<1> DEFINE x == job.gpr[job.args[1]]
           y == job.gpr[job.args[2]]
           z == job.args[2]
<1> HIDE DEF x, y, z
<1>4. CASE job.suffix = "i"
      <2>1. did = Fires(Trap(job.name, TRUE, job.args), job.gpr)
            BY <1>3, <1>4
      <2>2. did = FiresOn(TrapTo(job.name), x, z)
            BY <1>1, <1>2, <1>4, <2>1, ImmediateTrap DEF x, z
      <2>3. x \in Int /\ z \in Int
            BY <1>1, <1>4, SMT DEF x, z
      <2>4. did = TrapMeant(job.name, x, z)
            BY <1>2, <2>2, <2>3, TrapIsMeant, Zenon
      <2> QED BY <1>4, <2>4, Zenon DEF x, z
<1>5. CASE job.suffix # "i"
      <2>1. did = Fires(Trap(job.name, FALSE, job.args), job.gpr)
            BY <1>3, <1>5
      <2>2. did = FiresOn(TrapTo(job.name), x, y)
            BY <1>1, <1>2, <1>5, <2>1, RegisterTrap DEF x, y
      <2>3. x \in Int /\ y \in Int
            BY <1>1, <1>5 DEF x, y
      <2>4. did = TrapMeant(job.name, x, y)
            BY <1>2, <2>2, <2>3, TrapIsMeant, Zenon
      <2> QED BY <1>5, <2>4, Zenon DEF x, y
<1> QED BY <1>4, <1>5

\* Every branch and every trap, with every operand that fits, does what its name says.
THEOREM ConditionalsDoAsNamed == AsmSpec => []ConditionalsAsNamed
<1>1. AsmInv => ConditionalsAsNamed
      <2>1. SUFFICES ASSUME AsmInv PROVE ConditionalsAsNamed
            OBVIOUS
      <2>2. Expressible(job)
            BY <2>1, JobsAssumption DEF AsmInv
      <2>3. ASSUME stage = "ran", Conditional PROVE word = TypedWord(job)
            BY <2>1, <2>3 DEF AsmInv
      <2>4. ASSUME Ran({"branch"}) PROVE BranchesAsNamed(job.name, job.args[1], job.args[2])
            BY <2>1, <2>2, <2>3, <2>4, BranchJob DEF Ran, AsmInv, Conditional
      <2>5. ASSUME Ran({"bc"}), NEW test \in DOMAIN BoOf, BoOf[test] = job.args[1]
            PROVE  BranchesAsNamed(test, job.args[2], job.args[3])
            BY <2>1, <2>2, <2>3, <2>5, GeneralJob DEF Ran, AsmInv, Conditional
      <2>6. ASSUME Ran({"trap"})
            PROVE  did = TrapMeant(job.name, job.gpr[job.args[1]],
                                   IF job.suffix = "i" THEN job.args[2] ELSE job.gpr[job.args[2]])
            BY <2>1, <2>2, <2>3, <2>6, TrapJob DEF Ran, AsmInv, Conditional
      <2> QED BY <2>4, <2>5, <2>6 DEF ConditionalsAsNamed
<1> QED BY <1>1, JobsAreRun, PTL

\* Every word with a row, with every operand that fits, is read as its mnemonic and as
\* no other, with the operands it was given.
THEOREM DecodesAsWritten == AsmSpec => []DecodesToItself
<1>1. AsmInv => DecodesToItself
      <2>1. SUFFICES ASSUME AsmInv, Ran({"plain"}) PROVE did = [m \in {job.name} |-> job.args]
            BY DEF DecodesToItself
      <2>2. stage = "ran" /\ job.kind = "plain"
            BY <2>1 DEF Ran
      <2>3. Suits(job.name, job.args)
            <3>1. Expressible(job)
                  BY <2>1, JobsAssumption DEF AsmInv
            <3> QED BY <2>2, <3>1, Zenon DEF Expressible
      <2>4. word = Encode(job.name, job.args)
            <3>1. Inlined(job) = <<job.name, job.args>>
                  BY <2>2 DEF Inlined
            <3>2. word = Encode(Inlined(job)[1], Inlined(job)[2])
                  BY <2>1, <2>2 DEF AsmInv, WithRow
            <3> QED BY <3>1, <3>2
      <2>5. did = Reading(word)
            BY <2>1, <2>2 DEF AsmInv
      <2>6. ReadsOnly(word, job.name, job.args)
            BY <2>3, <2>4, SuitedIsRead, Zenon
      <2> QED BY <2>5, <2>6, Zenon DEF ReadsOnly
<1> QED BY <1>1, JobsAreRun, PTL

\* A move writes the register of its name, or reads it, and none other.
LEMMA MoveJob ==
    ASSUME Expressible(job), job.kind = "move",
           word = Encode(Inlined(job)[1], Inlined(job)[2])
    PROVE  Does(word, job.gpr, job.cpu.cr) =
               {MoveMeans(job.name, <<job.suffix, job.args[1]>>, job.args[2], job.gpr)}
<1> DEFINE own == <<job.suffix, job.args[1]>>
           t == job.args[2]
           g == job.gpr
           cr == job.cpu.cr
<1>1. /\ job.name \in {"mt", "mf"} /\ own \in Named /\ t \in 0 .. 31
      /\ job.suffix \in Banks \cup (IF job.name = "mt" THEN DOMAIN MovedTo ELSE DOMAIN MovedFrom)
      BY Zenon DEF Expressible
<1>2. own[1] = job.suffix /\ own[2] = job.args[1]
      OBVIOUS
<1>3. CASE job.name = "mt"
      <2> DEFINE k == ToNumber(own)
      <2>1. own[1] \in DOMAIN MovedTo \cup Banks
            BY <1>1, <1>2, <1>3
      <2>2. WrittenUnder(k, own)
            BY <1>1, <2>1, NumberWritten
      <2>3. k \in 0 .. 1023 /\ Written(k) = own
            BY <2>2, Zenon DEF WrittenUnder
      <2>4. Inlined(job) = MoveTo(job.suffix, job.args[1], t)
            BY <1>3 DEF Inlined
      <2>5. MoveTo(job.suffix, job.args[1], t) = <<"mtspr", <<k, t>>>>
            BY DEF MoveTo, ToNumber
      <2>6. word = Encode("mtspr", <<k, t>>)
            <3> HIDE DEF k, t
            <3> QED BY <2>4, <2>5
      <2>7. MoveMeans(job.name, own, t, g) = Outcome(<<"spr", own>>, g[t], {})
            BY <1>3, Zenon DEF MoveMeans, Outcome
      <2> HIDE DEF own, t, g, cr, k
      <2>8. DoesOnly(Encode("mtspr", <<k, t>>), g, cr, Outcome(<<"spr", Written(k)>>, g[t], {}))
            BY <1>1, <2>3, WritesSpecial, Zenon
      <2>9. Does(word, g, cr) = {MoveMeans(job.name, own, t, g)}
            BY <2>3, <2>6, <2>7, <2>8, Zenon DEF DoesOnly
      <2> QED BY <2>9, Zenon DEF own, t, g, cr
<1>4. CASE job.name = "mf"
      <2> DEFINE k == FromNumber(own)
      <2>1. own[1] \in DOMAIN MovedFrom \cup Banks
            BY <1>1, <1>2, <1>4
      <2>2. ReadUnder(k, own)
            BY <1>1, <2>1, NumberRead
      <2>3. k \in 0 .. 1023 /\ Given(k) = own
            BY <2>2, Zenon DEF ReadUnder
      <2>4. Inlined(job) = MoveFrom(job.suffix, job.args[1], t)
            BY <1>4 DEF Inlined
      <2>5. MoveFrom(job.suffix, job.args[1], t) = <<"mfspr", <<t, k>>>>
            BY DEF MoveFrom, FromNumber
      <2>6. word = Encode("mfspr", <<t, k>>)
            <3> HIDE DEF k, t
            <3> QED BY <2>4, <2>5
      <2>7. MoveMeans(job.name, own, t, g) = Outcome(<<"gpr", t>>, <<"spr", own>>, {})
            BY <1>4, Zenon DEF MoveMeans, Outcome
      <2> HIDE DEF own, t, g, cr, k
      <2>8. DoesOnly(Encode("mfspr", <<t, k>>), g, cr, Outcome(<<"gpr", t>>, <<"spr", Given(k)>>, {}))
            BY <1>1, <2>3, ReadsSpecial, Zenon
      <2>9. Does(word, g, cr) = {MoveMeans(job.name, own, t, g)}
            BY <2>3, <2>6, <2>7, <2>8, Zenon DEF DoesOnly
      <2> QED BY <2>9, Zenon DEF own, t, g, cr
<1> QED BY <1>1, <1>3, <1>4

\* Every mnemonic that stands for another, with every operand it has a meaning for, does
\* what its name says and writes where it should; a move is about the register the manual
\* has under that name; what is typed as a number is the instruction of its name.
THEOREM ShorthandsDoAsNamed == AsmSpec => []ShorthandsAsNamed
<1>1. AsmInv => ShorthandsAsNamed
      <2>1. SUFFICES ASSUME AsmInv PROVE ShorthandsAsNamed
            OBVIOUS
      <2>2. Expressible(job)
            BY <2>1, JobsAssumption DEF AsmInv
      <2>3. ASSUME stage = "ran", job.kind \in WithRow
            PROVE  word = Encode(Inlined(job)[1], Inlined(job)[2])
            BY <2>1, <2>3 DEF AsmInv
      <2>4. ASSUME Ran({"short"})
            PROVE  did = ShorthandMeans(job.name, job.args, job.gpr, job.cpu.cr)
            <3>1. stage = "ran" /\ job.kind = "short"
                  BY <2>4 DEF Ran
            <3>2. HasMeaning(job.name, job.args, job.gpr)
                  BY <2>2, <3>1, Zenon DEF Expressible
            <3>3. AsMeant(job.name, job.args, job.gpr, job.cpu.cr)
                  BY <3>2, ShorthandsMeant, Zenon
            <3>4. Inlined(job) = Expand(job.name, job.args)
                  BY <3>1 DEF Inlined
            <3>5. word = Encode(Expand(job.name, job.args)[1], Expand(job.name, job.args)[2])
                  BY <2>3, <3>1, <3>4 DEF WithRow
            <3>6. did \in Does(word, job.gpr, job.cpu.cr)
                  BY <2>1, <3>1 DEF AsmInv
            <3>7. Does(word, job.gpr, job.cpu.cr) =
                      {ShorthandMeans(job.name, job.args, job.gpr, job.cpu.cr)}
                  BY <3>3, <3>5, Zenon DEF AsMeant
            <3> QED BY <3>6, <3>7
      <2>5. ASSUME Ran({"move"})
            PROVE  did = MoveMeans(job.name, <<job.suffix, job.args[1]>>, job.args[2], job.gpr)
            <3>1. stage = "ran" /\ job.kind = "move"
                  BY <2>5 DEF Ran
            <3>2. Does(word, job.gpr, job.cpu.cr) =
                      {MoveMeans(job.name, <<job.suffix, job.args[1]>>, job.args[2], job.gpr)}
                  <4>1. word = Encode(Inlined(job)[1], Inlined(job)[2])
                        BY <2>3, <3>1 DEF WithRow
                  <4> QED BY <2>2, <3>1, <4>1, MoveJob
            <3>3. did \in Does(word, job.gpr, job.cpu.cr)
                  BY <2>1, <3>1 DEF AsmInv
            <3> QED BY <3>2, <3>3
      <2>6. ASSUME Ran({"typed"}) PROVE did = TypedMeans[job.name]
            <3>1. stage = "ran" /\ job.kind = "typed"
                  BY <2>6 DEF Ran
            <3>2. job.name \in DOMAIN SystemCalls \cup DOMAIN RegisterHints
                  BY <2>2, <3>1, Zenon DEF Expressible
            <3>3. TypedWord(job) = TypedAt(job.name)
                  BY <3>1 DEF TypedWord, TypedAt
            <3>4. word = TypedWord(job) /\ did = Reading(word)
                  BY <2>1, <3>1 DEF AsmInv
            <3> QED BY <3>2, <3>3, <3>4, TypedAre, Zenon
      <2> QED BY <2>4, <2>5, <2>6, Zenon DEF ShorthandsAsNamed
<1> QED BY <1>1, JobsAreRun, PTL
=============================================================================
