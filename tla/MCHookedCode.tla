---------------------------- MODULE MCHookedCode ----------------------------
(***************************************************************************)
(* An address space of 256 bytes and branches that reach an eighth of it   *)
(* either way.  Every single branch hook; every list of up to three small  *)
(* hooks of all kinds side by side and over one another.                   *)
(***************************************************************************)
EXTENDS HookedCode

CONSTANTS MaxAddr, MaxCount    \* bounds on a small hook's address and data units

ABranch(a, t, b) == [magic |-> "Branch", addr |-> a, count |-> 0, unit |-> 0,
                     target |-> t, branch |-> b, pin |-> NoPin]
AData(m, a, n, u) == [magic |-> m, addr |-> a, count |-> n, unit |-> u,
                      target |-> NoSymbol, branch |-> "b", pin |-> NoPin]

Words == {w \in Word : w % 4 = 0}
MCHooks == {ABranch(a, t, b) : a \in Words \ {WordMod - 4}, t \in Words, b \in {"b", "bl", "bla"}}

MCSmallHooks ==
    {AData("Pointer", a, 0, 0) : a \in 0 .. MaxAddr} \cup
    {AData("Patch", a, n, u) : a \in 0 .. MaxAddr, n \in 0 .. MaxCount, u \in {8, 16}} \cup
    {ABranch(a, 28, b) : a \in {0, 4}, b \in {"b", "bl"}}
=============================================================================
