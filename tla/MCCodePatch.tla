---------------------------- MODULE MCCodePatch -----------------------------
(***************************************************************************)
(* Two cache lines and three hooks: a patch that spans both lines, a       *)
(* branch beside it in the first and a pointer beside it in the second.    *)
(***************************************************************************)
EXTENDS CodePatch, TLC

CONSTANTS l1, l2, branch, patch, pointer

MCLines == {l1, l2}
MCHooks == {branch, patch, pointer}
MCCodeHooks == {branch, patch}
MCLinesOf == (branch :> {l1}) @@ (patch :> {l1, l2}) @@ (pointer :> {l2})
=============================================================================
