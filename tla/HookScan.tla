------------------------------ MODULE HookScan ------------------------------
(***************************************************************************)
(* Hooks as the loader reads them out of an RPL, the [start, end) ranges   *)
(* it records for them, and the overlap scan of validateHooks              *)
(* (core/src/HookApplicators.cpp, core/src/Main.cpp).                      *)
(*                                                                         *)
(* A hook is a record                                                      *)
(*   magic   "Branch", "Pointer", "Patch", "Null", or any other string     *)
(*   addr    the address it is written to                                  *)
(*   count, unit   number and width in bits of a patch's data units        *)
(*   target  what FindExport yields for its symbol, or NoSymbol when the   *)
(*           lookup fails or yields 0 or 0xFFFFFFFF                        *)
(*   branch  "b", "bl", or any other string for an undefined BranchType    *)
(*   pin     the title id it is pinned to, or NoPin                        *)
(* The fields a kind of hook does not have are never looked at.            *)
(***************************************************************************)
EXTENDS Integers, Sequences, Functions

CONSTANTS
    WordMod,    \* the number of addresses: 2^32 on the console
    Reach,      \* how far back a PowerPC b or bl reaches: 2^25
    NoSymbol,
    NoPin

ASSUME WordAssumption == /\ WordMod \in Nat \ {0}
                         /\ Reach \in Nat

Word == 0 .. WordMod - 1

\* readBranchHook, readPointerHook, readPatchHook: what makes each refuse.
Resolves(h) == h.target # NoSymbol
UnitIsValid(h) == h.unit \in {8, 16, 32, 64}

\* The switch on the magic in loadRPL: whether the hook is accepted.
Readable(h) ==
    \/ h.magic = "Null"
    \/ h.magic \in {"Branch", "Pointer"} /\ Resolves(h)
    \/ h.magic = "Patch" /\ UnitIsValid(h)

\* The number of bytes the read functions reserve for a hook.
RangeSize(h) == IF h.magic = "Patch" THEN h.count * (h.unit \div 8) ELSE 4

\* The HookEntry recorded for hook h, which lies at p in the RPL of mod m;
\* its end is computed in 32-bit arithmetic.
Entry(h, p, m) ==
    [ptr |-> p, start |-> h.addr, end |-> (h.addr + RangeSize(h)) % WordMod, mod |-> m]

\* A hook that lies inside the address space, below its last byte.
Fits(h) == /\ h.addr \in Word
           /\ h.count \in Nat /\ h.unit \in Nat
           /\ h.addr + RangeSize(h) \in Word

----------------------------------------------------------------------------
(* The applicators *)

\* The number of bytes the apply functions write for a hook, and which.
WriteSize(h) == IF h.magic = "Patch" THEN h.count * (h.unit \div 8) ELSE 4
Footprint(h) == h.addr .. h.addr + WriteSize(h) - 1

\* checkPin compares all 64 bits of the pinned title id with the running title.
PinMatches(h, title) == h.pin \in {NoPin, title}

\* The s32 the range check of applyBranchHook looks at.
Signed(w) == IF 2 * w < WordMod THEN w ELSE w - WordMod
BranchOffset(h) == Signed((h.target - h.addr) % WordMod)

\* Variants with a bug: the range check of a branch one instruction off at either
\* end.
InRangeUpToReach(h) == BranchOffset(h) \in -Reach .. Reach
InRangeFromInside(h) == BranchOffset(h) \in 4 - Reach .. Reach - 4

InRange(h) == BranchOffset(h) \in -Reach .. Reach - 4

\* applyBranchHook refuses a target out of range and an undefined BranchType;
\* the other two applicators always succeed.
Encodable(h) == h.magic = "Branch" => InRange(h) /\ h.branch \in {"b", "bl"}

----------------------------------------------------------------------------
(* validateHooks *)

\* What std::sort, which is not stable, may leave: any rearrangement of the
\* list in which the starts do not decrease.
Rearrangements(hooks) == Bijection(DOMAIN hooks, DOMAIN hooks)
Permuted(hooks, p) == [i \in DOMAIN hooks |-> hooks[p[i]]]
ByStart(hooks) == \A i, j \in DOMAIN hooks : i < j => hooks[i].start <= hooks[j].start
SortedOrders(hooks) ==
    {s \in {Permuted(hooks, p) : p \in Rearrangements(hooks)} : ByStart(s)}

\* Variants with a bug: a scan that misses ranges with one common byte, and one
\* that objects to ranges that only touch.
OverlapsByTwo(first, second) == second.start + 1 < first.end
OverlapsOrTouches(first, second) == second.start <= first.end

\* The doubly nested scan of the sorted list.
Overlaps(first, second) == second.start < first.end
HasConflict(s) == \E i, j \in DOMAIN s : j < i /\ Overlaps(s[j], s[i])

\* The verdict of validateHooks on the list as it has sorted it.
ValidHooks(s) == Len(s) <= 1 \/ ~HasConflict(s)
=============================================================================
