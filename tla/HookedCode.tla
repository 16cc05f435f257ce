----------------------------- MODULE HookedCode -----------------------------
(***************************************************************************)
(* A mod's hooks from the list the loader has read to the game that runs   *)
(* into them: the scan of validateHooks, the applicators on one hook after *)
(* the other, and the processor on a hooked instruction afterwards         *)
(* (core/src/Main.cpp, core/src/HookApplicators.cpp).                      *)
(*                                                                         *)
(* BranchCode models the applicator of one branch hook; here it works on   *)
(* the game's memory, which the other hooks of the list are written to as  *)
(* well.  What a hook writes is named by its place in the list and the     *)
(* offset of the byte.  CodePatch has the caches, Loader several mods.     *)
(***************************************************************************)
EXTENDS BranchCode

CONSTANTS
    SmallHooks, \* hooks for lists of several
    MaxHooks,   \* bound: hooks in such a list
    NoHook
ASSUME ListAssumption ==
    /\ \A h \in SmallHooks \cup Hooks : Fits(h)
    /\ \A h \in SmallHooks : h.magic = "Branch" => h \in Hooks
    /\ MaxHooks \in Nat

VARIABLES
    hooks,          \* the list, in the order it is applied in
    sorted, valid,  \* the entries as the scan has sorted them, and its verdict
    taken,          \* how many hooks of the list were taken; one more: the game runs
    image           \* what was written to the game: address -> byte
scanVars == <<hooks, sorted, valid>>
gameVars == <<taken, image>>
allVars == <<vars, scanVars, gameVars>>

Entries(hs) == [i \in DOMAIN hs |-> Entry(hs[i], i, "m")]

HookedInit ==
    /\ \/ \E n \in 0 .. MaxHooks : hooks \in [1 .. n -> SmallHooks]
       \/ \E h \in Hooks : hooks = <<h>>
    /\ sorted = <<>> /\ valid = "unknown"
    /\ taken = 0 /\ image = <<>>
    /\ hook = NoHook /\ pc = "idle" /\ code = 0 /\ at = -1 /\ lr = -1

Scan == /\ valid = "unknown"
        /\ sorted' \in SortedOrders(Entries(hooks))
        /\ valid' = IF ValidHooks(sorted') THEN "yes" ELSE "no"
        /\ UNCHANGED <<vars, gameVars, hooks>>

\* The loop of applyHooks, on a list that was found valid.
Take == /\ valid = "yes" /\ pc \in {"idle", "applied"} /\ taken < Len(hooks)
        /\ taken' = taken + 1
        /\ hook' = hooks[taken + 1] /\ pc' = "check" /\ code' = 0
        /\ UNCHANGED <<scanVars, image, at, lr>>

Check == CheckRange /\ UNCHANGED <<scanVars, gameVars>>

Put == image' = [a \in DOMAIN image \cup Footprint(hook) |->
                     IF a \in Footprint(hook) THEN <<taken, a - hook.addr>> ELSE image[a]]

WriteBranch == /\ hook # NoHook /\ hook.magic = "Branch"
               /\ Write /\ Put
               /\ UNCHANGED <<scanVars, taken>>

\* applyPointerHook and applyPatchHook. (A Null hook is never listed.)
WriteData == /\ pc = "write" /\ hook.magic \in {"Pointer", "Patch"}
             /\ Put /\ pc' = "applied"
             /\ UNCHANGED <<scanVars, taken, hook, code, at, lr>>

\* The word at a as the game finds it: an instruction a hook put there, whole,
\* or anything else.
Fetched(a) ==
    LET whole == {i \in DOMAIN hooks : \A k \in 0 .. 3 : /\ a + k \in DOMAIN image
                                                         /\ image[a + k] = <<i, k>>}
    IN  IF \E i \in whole : hooks[i].magic = "Branch"
        THEN Instruction(hooks[CHOOSE i \in whole : TRUE]) ELSE 0

\* All hooks are written, and the game gets to one that is an instruction.
Arrive == /\ pc = "applied" /\ taken = Len(hooks)
          /\ \E i \in {j \in DOMAIN hooks : hooks[j].magic = "Branch"} :
                hook' = hooks[i] /\ code' = Fetched(hooks[i].addr)
          /\ taken' = taken + 1
          /\ UNCHANGED <<scanVars, image, pc, at, lr>>

Land == Execute /\ taken > Len(hooks) /\ UNCHANGED <<scanVars, gameVars>>

\* Refused by the scan or by an applicator, nothing to run into, or landed.
Over == /\ \/ valid = "no" \/ pc \in {"refused", "landed"}
           \/ /\ valid = "yes" /\ taken = Len(hooks) /\ pc \in {"idle", "applied"}
              /\ \A i \in DOMAIN hooks : hooks[i].magic # "Branch"
        /\ UNCHANGED allVars

HookedNext == Scan \/ Take \/ Check \/ WriteBranch \/ WriteData \/ Arrive \/ Land \/ Over
HookedSpec == HookedInit /\ [][HookedNext]_allVars

----------------------------------------------------------------------------

SharesByte(i, j) == Footprint(hooks[i]) \cap Footprint(hooks[j]) # {}

\* A list that fails the scan of validateHooks writes some byte twice, unless it
\* has an empty patch.
ScanComplete ==
    valid = "no" => \/ \E i, j \in DOMAIN hooks : i # j /\ SharesByte(i, j)
                    \/ \E i \in DOMAIN hooks : Footprint(hooks[i]) = {}

\* What a hook wrote stays: no hook of a list that passed the scan, whatever the
\* order the sort left equal starts in, is damaged by a later one, to the byte.
HooksStay ==
    \A i \in 1 .. Len(hooks) :
        (i < taken \/ (i = taken /\ pc = "applied")) =>
            \A a \in Footprint(hooks[i]) : image[a] = <<i, a - hooks[i].addr>>
=============================================================================
