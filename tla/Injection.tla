----------------------------- MODULE Injection ------------------------------
(***************************************************************************)
(* What the loader promises its users, with no word about directories,     *)
(* RPLs or manifests: the game is patched as a whole or, if the loader     *)
(* finds something wrong while loading, not at all; the hooks it writes    *)
(* are fixed before the first is written and no two of them share a byte;  *)
(* mods start only on a fully patched game, each of them once.  A hook     *)
(* that turns out to be impossible to write ends the injection half done:  *)
(* nothing is undone, and no mod starts.                                   *)
(***************************************************************************)
EXTENDS Naturals, Sequences, Functions

CONSTANTS
    Addr,
    Mods,
    Covers(_),    \* the addresses a hook overwrites
    Game          \* content of memory no hook has written

VARIABLES
    stage,        \* "loading", "patching", "running", "stopped"
    plan,         \* the hooks to write, in order
    done,         \* how many have been written
    mem,
    started

vars == <<stage, plan, done, mem, started>>

Compatible(hooks) ==
    \A i, j \in DOMAIN hooks : i # j => Covers(hooks[i]) \cap Covers(hooks[j]) = {}

Init ==
    /\ stage = "loading" /\ plan = <<>> /\ done = 0
    /\ mem = [a \in Addr |-> Game]
    /\ started = <<>>

\* The end of an injection, however it went.
Stop == stage' = "stopped" /\ plan' = <<>> /\ done' = 0

Refuse == stage = "loading" /\ Stop /\ UNCHANGED <<mem, started>>

Commit ==
    /\ stage = "loading"
    /\ stage' = "patching" /\ Compatible(plan')
    /\ UNCHANGED <<done, mem, started>>

Patch ==
    /\ stage = "patching" /\ done < Len(plan)
    /\ mem' = [a \in Addr |-> IF a \in Covers(plan[done + 1]) THEN plan[done + 1] ELSE mem[a]]
    /\ done' = done + 1
    /\ UNCHANGED <<stage, plan, started>>

GiveUp == stage = "patching" /\ done < Len(plan) /\ Stop /\ UNCHANGED <<mem, started>>

Run == /\ stage = "patching" /\ done = Len(plan)
       /\ stage' = "running"
       /\ UNCHANGED <<plan, done, mem, started>>

Start(m) == /\ stage = "running" /\ m \notin Range(started)
            /\ started' = Append(started, m)
            /\ UNCHANGED <<stage, plan, done, mem>>

Finish == stage = "running" /\ Stop /\ UNCHANGED <<mem, started>>

Next == Refuse \/ Commit \/ Patch \/ GiveUp \/ Run \/ (\E m \in Mods : Start(m)) \/ Finish

Spec == Init /\ [][Next]_vars
=============================================================================
