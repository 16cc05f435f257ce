---------------------------- MODULE AromaPlugin -----------------------------
(***************************************************************************)
(* The Aroma launcher over the life of several applications: a plugin that *)
(* stays loaded while applications come and go, puts the mod's files over  *)
(* the application's, loads Telkin.rpl and calls its init, and takes all   *)
(* of it back when the application ends (launcher/aroma/src/Main.cpp).     *)
(*                                                                         *)
(* The plugin system calls the handlers one after the other in one thread. *)
(* External: the content redirection library, which keeps the active       *)
(* layers and stores a handle only when it adds one, and the loader, which *)
(* counts the references to Telkin.rpl.                                    *)
(***************************************************************************)
EXTENDS Naturals

CONSTANTS
    MaxApps,        \* bound: applications started
    FatalHalts      \* does OSFatal end the plugin?
ASSUME AppsAssumption == MaxApps \in Nat /\ FatalHalts \in BOOLEAN

VARIABLES
    pc,                 \* where the handlers are
    app,                \* the number of the application that runs or ran last
    sdCard,             \* what it finds: "empty", "noInit" or "complete"
    libraryUp,          \* the redirection library works
    layers,             \* its active layers
    references,         \* references to Telkin.rpl
    inits,              \* calls of Telkin's init in this application
    sInitDone, TelkinInitialized,
    TelkinRPLHandle,    \* whether it is set
    contentLayerHandle, aocLayerHandle      \* 0 or a layer
vars == <<pc, app, sdCard, libraryUp, layers, references, inits, sInitDone,
          TelkinInitialized, TelkinRPLHandle, contentLayerHandle, aocLayerHandle>>

layerVars == <<layers, contentLayerHandle, aocLayerHandle>>
rplVars == <<references, TelkinRPLHandle, inits, TelkinInitialized>>
hostVars == <<app, sdCard, libraryUp, sInitDone>>

None == <<>>        \* handle 0
Layer(kind) == <<app, kind>>

Init ==
    /\ pc = "loaded"
    /\ app = 0 /\ sdCard = "empty" /\ libraryUp = FALSE
    /\ layers = {} /\ references = 0 /\ inits = 0
    /\ sInitDone = FALSE /\ TelkinInitialized = FALSE /\ TelkinRPLHandle = FALSE
    /\ contentLayerHandle = None /\ aocLayerHandle = None

\* INITIALIZE_PLUGIN
InitializePlugin ==
    /\ pc = "loaded"
    /\ \/ libraryUp' = TRUE /\ pc' = "idle" /\ sInitDone' = TRUE
       \/ /\ libraryUp' = FALSE
          /\ IF FatalHalts THEN pc' = "halted" /\ UNCHANGED sInitDone
                           ELSE pc' = "idle" /\ sInitDone' = TRUE
    /\ UNCHANGED <<app, sdCard, layerVars, rplVars>>

\* ON_APPLICATION_START, then its steps.
StartApplication ==
    /\ pc = "idle" /\ app < MaxApps
    /\ app' = app + 1
    /\ sdCard' \in {"empty", "noInit", "complete"}
    /\ inits' = 0
    /\ pc' = "content"
    /\ UNCHANGED <<libraryUp, sInitDone, layerVars, references, TelkinInitialized,
                   TelkinRPLHandle>>

\* RedirectContentDir: a layer that cannot be added is logged and done without.
RedirectContent ==
    /\ pc = "content"
    /\ \/ /\ libraryUp
          /\ layers' = layers \cup {Layer("content")}
          /\ contentLayerHandle' = Layer("content")
       \/ UNCHANGED <<layers, contentLayerHandle>>
    /\ pc' = "aoc"
    /\ UNCHANGED <<hostVars, rplVars, aocLayerHandle>>

\* (A variant with a bug: the handle of the other layer is overwritten.)
RedirectAocOver ==
    /\ pc = "aoc"
    /\ \/ /\ libraryUp
          /\ layers' = layers \cup {Layer("aoc")}
          /\ contentLayerHandle' = Layer("aoc")
       \/ UNCHANGED <<layers, contentLayerHandle>>
    /\ pc' = "bootstrap"
    /\ UNCHANGED <<hostVars, rplVars, aocLayerHandle>>

RedirectAoc ==
    /\ pc = "aoc"
    /\ \/ /\ libraryUp
          /\ layers' = layers \cup {Layer("aoc")}
          /\ aocLayerHandle' = Layer("aoc")
       \/ UNCHANGED <<layers, aocLayerHandle>>
    /\ pc' = "bootstrap"
    /\ UNCHANGED <<hostVars, rplVars, contentLayerHandle>>

\* TelkinBootstrap does nothing for an application that has Telkin already.
TelkinBootstrap ==
    /\ pc = "bootstrap"
    /\ IF TelkinInitialized \/ sdCard = "empty"
       THEN pc' = "running" /\ UNCHANGED <<references, TelkinRPLHandle>>
       ELSE pc' = "find" /\ references' = references + 1 /\ TelkinRPLHandle' = TRUE
    /\ UNCHANGED <<hostVars, layerVars, inits, TelkinInitialized>>

FindInit ==
    /\ pc = "find"
    /\ pc' = IF sdCard = "complete" THEN "init" ELSE "running"
    /\ UNCHANGED <<hostVars, layerVars, rplVars>>

CallInit ==
    /\ pc = "init"
    /\ inits' = inits + 1
    /\ TelkinInitialized' = TRUE
    /\ pc' = "running"
    /\ UNCHANGED <<hostVars, layerVars, references, TelkinRPLHandle>>

\* (A variant with a bug: the aoc layer stays.)
RemovedContent == {contentLayerHandle} \ {None}

\* ON_APPLICATION_ENDS: releasing a null handle releases nothing.
Removed == {contentLayerHandle, aocLayerHandle} \ {None}

\* (A variant with a bug: Telkin counts as initialized for ever.)
EndApplicationForGood ==
    /\ pc = "running"
    /\ layers' = layers \ Removed
    /\ contentLayerHandle' = None /\ aocLayerHandle' = None
    /\ references' = IF TelkinRPLHandle THEN references - 1 ELSE references
    /\ TelkinRPLHandle' = FALSE
    /\ pc' = "idle"
    /\ UNCHANGED <<hostVars, inits, TelkinInitialized>>

EndApplication ==
    /\ pc = "running"
    /\ layers' = layers \ Removed
    /\ contentLayerHandle' = None /\ aocLayerHandle' = None
    /\ TelkinInitialized' = FALSE
    /\ references' = IF TelkinRPLHandle THEN references - 1 ELSE references
    /\ TelkinRPLHandle' = FALSE
    /\ pc' = "idle"
    /\ UNCHANGED <<hostVars, inits>>

Stopped == /\ pc = "halted" \/ (pc = "idle" /\ app = MaxApps)
           /\ UNCHANGED vars

Next == \/ InitializePlugin \/ StartApplication \/ RedirectContent \/ RedirectAoc
        \/ TelkinBootstrap \/ FindInit \/ CallInit \/ EndApplication
        \/ Stopped

Spec == Init /\ [][Next]_vars

----------------------------------------------------------------------------

\* Every active layer is in the handle it can be removed by.
LayersOwned == layers = Removed

\* An application that has ended leaves nothing behind for the next one: no file
\* of one title is laid over another's, and Telkin.rpl is loaded afresh.
NothingOutlivesApplication ==
    pc = "idle" => layers = {} /\ references = 0 /\ ~TelkinInitialized /\ ~TelkinRPLHandle

\* Every application, not only the first, that comes with a complete Telkin gets
\* init called, once, and keeps the RPL loaded.
InitEachApplication ==
    /\ inits <= 1
    /\ pc = "running" => /\ inits = 1 <=> sdCard = "complete"
                         /\ references = (IF sdCard = "empty" THEN 0 ELSE 1)
=============================================================================
