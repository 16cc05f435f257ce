--------------------------- MODULE CemuBootstrap ----------------------------
(***************************************************************************)
(* The Cemu launcher: the routine that a graphic pack puts in the game's   *)
(* code cave and Cemu calls at the entry of the game                       *)
(* (launcher/cemu/main.asm).                                               *)
(*                                                                         *)
(* Modelled: the stack pointer r1, the link register, the two stack words  *)
(* the routine touches, and the three words of data behind it.             *)
(***************************************************************************)
EXTENDS Integers

CONSTANTS
    Stacks,         \* r1 when the routine is called
    Sites,          \* the addresses it may be called from
    MaxCalls        \* bound: how often it is called
ASSUME BootAssumption == Stacks \subseteq Int /\ MaxCalls \in Nat

Frame == 16
Inside == "inside"      \* a return address inside the routine
Null == "null"          \* no handle, no function

VARIABLES
    pc,
    r1, lr,
    saved,              \* [address -> word]: the link register save words
    Initialized,
    TelkinRPLHandle, TelkinInitFuncHandle,
    inits,              \* calls of Telkin's init
    calls,
    caller              \* r1 and the return address the caller relies on
vars == <<pc, r1, lr, saved, Initialized, TelkinRPLHandle, TelkinInitFuncHandle, inits,
          calls, caller>>
dataVars == <<TelkinRPLHandle, TelkinInitFuncHandle, inits>>

SaveWords == {s + k * Frame + 4 : s \in Stacks, k \in -MaxCalls .. 0}

Init ==
    /\ pc = "outside"
    /\ r1 \in Stacks /\ lr = Null
    /\ saved = [w \in SaveWords |-> Null]
    /\ Initialized = FALSE
    /\ TelkinRPLHandle = Null /\ TelkinInitFuncHandle = Null
    /\ inits = 0 /\ calls = 0
    /\ caller = [r1 |-> r1, site |-> Null]

Call(site) ==
    /\ pc = "outside" /\ calls < MaxCalls
    /\ calls' = calls + 1
    /\ lr' = site
    /\ caller' = [r1 |-> r1, site |-> site]
    /\ pc' = "prologue"
    /\ UNCHANGED <<r1, saved, Initialized, dataVars>>

\* stwu r1, -0x10(r1); mflr r0; stw r0, 0x14(r1)
Prologue ==
    /\ pc = "prologue"
    /\ r1' = r1 - Frame
    /\ saved' = [saved EXCEPT ![r1' + Frame + 4] = lr]
    /\ pc' = "guard"
    /\ UNCHANGED <<lr, Initialized, dataVars, calls, caller>>

\* beqlr: back to the caller when the flag is set.
ReturnEarly ==
    /\ pc = "guard" /\ Initialized
    /\ pc' = "returned"
    /\ UNCHANGED <<r1, lr, saved, Initialized, dataVars, calls, caller>>

\* (A variant with a bug: the flag is not stored.)
SetNoFlag ==
    /\ pc = "guard" /\ ~Initialized
    /\ pc' = "acquire"
    /\ UNCHANGED <<r1, lr, saved, Initialized, dataVars, calls, caller>>

SetFlag ==
    /\ pc = "guard" /\ ~Initialized
    /\ Initialized' = TRUE
    /\ pc' = "acquire"
    /\ UNCHANGED <<r1, lr, saved, dataVars, calls, caller>>

\* OSDynLoad_Acquire and OSDynLoad_FindExport store what they find; their
\* results are not looked at. A call leaves an address of its own in LR.
Acquire ==
    /\ pc = "acquire"
    /\ TelkinRPLHandle' \in {Null, "Telkin"}
    /\ lr' = Inside
    /\ pc' = "find"
    /\ UNCHANGED <<r1, saved, Initialized, TelkinInitFuncHandle, inits, calls, caller>>

\* (A variant with a bug: the export is stored over the handle.)
FindExportOver ==
    /\ pc = "find"
    /\ TelkinRPLHandle' \in {Null} \cup (IF TelkinRPLHandle = Null THEN {} ELSE {"init"})
    /\ lr' = Inside
    /\ pc' = "call"
    /\ UNCHANGED <<r1, saved, Initialized, TelkinInitFuncHandle, inits, calls, caller>>

FindExport ==
    /\ pc = "find"
    /\ TelkinInitFuncHandle' \in {Null} \cup (IF TelkinRPLHandle = Null THEN {} ELSE {"init"})
    /\ lr' = Inside
    /\ pc' = "call"
    /\ UNCHANGED <<r1, saved, Initialized, TelkinRPLHandle, inits, calls, caller>>

\* bctrl, also to address 0.
CallInit ==
    /\ pc = "call"
    /\ IF TelkinInitFuncHandle = Null
       THEN pc' = "crashed" /\ UNCHANGED inits
       ELSE pc' = "epilogue" /\ inits' = inits + 1
    /\ lr' = Inside
    /\ UNCHANGED <<r1, saved, Initialized, TelkinRPLHandle, TelkinInitFuncHandle, calls, caller>>

\* (A variant with a bug: LR is not restored.)
EpilogueWithoutLR ==
    /\ pc = "epilogue"
    /\ r1' = r1 + Frame
    /\ pc' = "returned"
    /\ UNCHANGED <<lr, saved, Initialized, dataVars, calls, caller>>

\* lwz r0, 0x14(r1); mtlr r0; addi r1, r1, 0x10; blr
Epilogue ==
    /\ pc = "epilogue"
    /\ lr' = saved[r1 + Frame + 4]
    /\ r1' = r1 + Frame
    /\ pc' = "returned"
    /\ UNCHANGED <<saved, Initialized, dataVars, calls, caller>>

\* The caller goes on where LR points to.
Land ==
    /\ pc = "returned"
    /\ pc' = "outside"
    /\ UNCHANGED <<r1, lr, saved, Initialized, dataVars, calls, caller>>

Stopped == pc = "crashed" \/ (pc = "outside" /\ calls = MaxCalls)

Next == \/ \E site \in Sites : Call(site)
        \/ Prologue \/ ReturnEarly \/ SetFlag \/ Acquire \/ FindExport \/ CallInit \/ Epilogue
        \/ Land
        \/ Stopped /\ UNCHANGED vars

Spec == Init /\ [][Next]_vars

----------------------------------------------------------------------------

\* The routine saves LR in a word of its own frame or of one below, handles and
\* functions are kept in the words meant for them.
TypeOK ==
    /\ pc \in {"outside", "prologue", "guard", "acquire", "find", "call", "epilogue",
               "returned", "crashed"}
    /\ r1 \in Int /\ lr \in Sites \cup {Null, Inside}
    /\ saved \in [SaveWords -> Sites \cup {Null, Inside}]
    /\ Initialized \in BOOLEAN
    /\ TelkinRPLHandle \in {Null, "Telkin"} /\ TelkinInitFuncHandle \in {Null, "init"}
    /\ inits \in 0 .. MaxCalls /\ calls \in 0 .. MaxCalls

\* init runs at most once, and if the routine came back from the calls it makes,
\* exactly once.
InitOnce == /\ inits <= 1
            /\ pc = "returned" => inits = 1

\* "Restore LR", "Deallocate stack frame", "Return": the call that runs init goes
\* back to its caller, although its own calls overwrite LR, with the stack the
\* caller had.
ReturnsBalanced == pc = "returned" /\ calls = 1 => r1 = caller.r1 /\ lr = caller.site

\* "if (Initialized) return": a further call comes back as if nothing had been
\* called.
LaterCallsReturn == pc = "returned" /\ calls > 1 => r1 = caller.r1 /\ lr = caller.site
=============================================================================
