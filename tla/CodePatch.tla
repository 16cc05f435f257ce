------------------------------ MODULE CodePatch -----------------------------
(***************************************************************************)
(* What one hook application does to the caches of the core it runs on     *)
(* (core/src/HookApplicators.cpp): write the bytes, flush them out of the  *)
(* data cache, invalidate the instruction cache, isync.  A pointer hook    *)
(* stops after the flush.  Meanwhile the hardware evicts and refills cache *)
(* lines and prefetches instructions whenever it likes.                    *)
(*                                                                         *)
(* Several hooks may lie in one cache line, and one hook may span several. *)
(* The content of a line, wherever a copy of it is held, is the set of the *)
(* hooks whose bytes that copy has.  The write, flush and invalidate calls *)
(* work through the lines of the hook one by one, in any order.            *)
(***************************************************************************)
EXTENDS FiniteSets

CONSTANTS
    Lines,
    Hooks,
    CodeHooks,    \* the branch and patch hooks; the others are pointer hooks
    LinesOf,      \* [Hooks -> the lines the hook's bytes lie in]
    NoCopy        \* no hook

ASSUME CodePatchAssumption ==
    /\ CodeHooks \subseteq Hooks
    /\ LinesOf \in [Hooks -> SUBSET Lines]
    /\ NoCopy \notin Hooks

VARIABLES
    ram, dcache, icache,
    pipe,         \* instructions fetched and not yet executed, per line
    step,         \* "none", "write", "flush", "invalidate", "isync"
    cur,          \* the hook being applied
    todo,         \* the lines the current step has yet to treat
    applied

caches == <<ram, dcache, icache, pipe>>
vars == <<caches, step, cur, todo, applied>>

\* What a cache holds of a line: a copy with some hooks in it, or none.
Absent == {NoCopy}
Copy == (SUBSET Hooks) \cup {Absent}

Init ==
    /\ ram = [l \in Lines |-> {}]
    /\ dcache \in [Lines -> {{}, Absent}]
    /\ icache \in [Lines -> {{}, Absent}]
    /\ pipe \in [Lines -> {{}, Absent}]
    /\ step = "none" /\ cur \in Hooks /\ todo = {} /\ applied = {}

\* The line as a load of this core sees it.
DataView(l) == IF dcache[l] # Absent THEN dcache[l] ELSE ram[l]

----------------------------------------------------------------------------
(* applyBranchHook, applyPointerHook, applyPatchHook *)

Begin(h) ==
    /\ step = "none" /\ h \notin applied
    /\ step' = "write" /\ cur' = h /\ todo' = LinesOf[h]
    /\ UNCHANGED <<caches, applied>>

\* privilegedWrite: a store fills the line and changes it in the data cache.
WriteLine(l) ==
    /\ step = "write" /\ l \in todo
    /\ dcache' = [dcache EXCEPT ![l] = DataView(l) \cup {cur}]
    /\ todo' = todo \ {l}
    /\ UNCHANGED <<ram, icache, pipe, step, cur, applied>>

\* DCFlushRange writes a line back and drops it.
WriteBack(l) ==
    /\ ram' = [ram EXCEPT ![l] = DataView(l)]
    /\ dcache' = [dcache EXCEPT ![l] = Absent]

FlushLine(l) ==
    /\ step = "flush" /\ l \in todo
    /\ WriteBack(l)
    /\ todo' = todo \ {l}
    /\ UNCHANGED <<icache, pipe, step, cur, applied>>

\* ICInvalidateRange
InvalidateLine(l) ==
    /\ step = "invalidate" /\ l \in todo
    /\ icache' = [icache EXCEPT ![l] = Absent]
    /\ todo' = todo \ {l}
    /\ UNCHANGED <<ram, dcache, pipe, step, cur, applied>>

\* (A variant with a bug: the instruction cache is invalidated before the flush.)
StepAfterSwapped(s) == CASE s = "write" -> "invalidate"
                         [] s = "invalidate" -> "flush"
                         [] s = "flush" -> "isync"

\* The order of the calls.
StepAfter(s) == CASE s = "write" -> "flush"
                  [] s = "flush" -> "invalidate"
                  [] s = "invalidate" -> "isync"

\* (A variant with a bug: a pointer hook is not flushed.)
LastStepUnflushed(h) == IF h \in CodeHooks THEN "isync" ELSE "write"

LastStep(h) == IF h \in CodeHooks THEN "isync" ELSE "flush"

NextStep ==
    /\ step \in {"write", "flush", "invalidate"} \ {LastStep(cur)} /\ todo = {}
    /\ step' = StepAfter(step)
    /\ todo' = IF step' = "isync" THEN {} ELSE LinesOf[cur]
    /\ UNCHANGED <<caches, cur, applied>>

\* isync discards what has been fetched. The applicator returns.
Isync == pipe' = [l \in Lines |-> Absent]

Return ==
    /\ step = LastStep(cur) /\ todo = {}
    /\ IF step = "isync" THEN Isync ELSE UNCHANGED pipe
    /\ applied' = applied \cup {cur}
    /\ step' = "none"
    /\ UNCHANGED <<ram, dcache, icache, cur, todo>>

Apply == \/ \E h \in Hooks : Begin(h)
         \/ \E l \in Lines : WriteLine(l) \/ FlushLine(l) \/ InvalidateLine(l)
         \/ NextStep \/ Return

----------------------------------------------------------------------------
(* The hardware *)

patchVars == <<step, cur, todo, applied>>

Evict(l) == dcache[l] # Absent /\ WriteBack(l) /\ UNCHANGED <<icache, pipe, patchVars>>

Fill(l) == /\ dcache[l] = Absent
           /\ dcache' = [dcache EXCEPT ![l] = ram[l]]
           /\ UNCHANGED <<ram, icache, pipe, patchVars>>

DropCode(l) == /\ icache[l] # Absent
               /\ icache' = [icache EXCEPT ![l] = Absent]
               /\ UNCHANGED <<ram, dcache, pipe, patchVars>>

\* The instruction cache fills from memory and does not look into the data cache.
FillCode(l) == /\ icache[l] = Absent
               /\ icache' = [icache EXCEPT ![l] = ram[l]]
               /\ UNCHANGED <<ram, dcache, pipe, patchVars>>

Prefetch(l) == /\ icache[l] # Absent
               /\ pipe' = [pipe EXCEPT ![l] = icache[l]]
               /\ UNCHANGED <<ram, dcache, icache, patchVars>>

Hardware == \E l \in Lines : Evict(l) \/ Fill(l) \/ DropCode(l) \/ FillCode(l) \/ Prefetch(l)

Next == Apply \/ Hardware

Spec == Init /\ [][Next]_vars

----------------------------------------------------------------------------

\* A line holds hooks or no copy, and only lines of the hook being applied are
\* written, flushed or invalidated.
TypeOK ==
    /\ ram \in [Lines -> SUBSET Hooks]
    /\ dcache \in [Lines -> Copy] /\ icache \in [Lines -> Copy] /\ pipe \in [Lines -> Copy]
    /\ step \in {"none", "write", "flush", "invalidate", "isync"}
    /\ cur \in Hooks /\ todo \subseteq LinesOf[cur] /\ applied \subseteq Hooks

Shows(copy, h) == copy # Absent => h \in copy

\* Once its applicator has returned, no instruction the core fetches or has
\* fetched lacks the bytes of a code hook, whatever the caches did meanwhile.
FetchCoherent ==
    \A h \in applied \cap CodeHooks : \A l \in LinesOf[h] :
        Shows(icache[l], h) /\ Shows(pipe[l], h) /\ h \in ram[l]

\* Once its applicator has returned, a hook is in memory and in every copy the
\* data cache holds, also when hooks that share its line are applied after it.
DataCoherent ==
    \A h \in applied : \A l \in LinesOf[h] : h \in ram[l] /\ Shows(dcache[l], h)
=============================================================================
