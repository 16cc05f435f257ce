-------------------------- MODULE MCCemuBootstrap ---------------------------
(* The game may be entered on one of several stacks, from several places. *)
EXTENDS CemuBootstrap

MCStacks == {256, 512, 1024, 2048}
=============================================================================
