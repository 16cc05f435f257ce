------------------------------ MODULE RplNames ------------------------------
(***************************************************************************)
(* Which file the name of an RPL leads to: the two functions of the system *)
(* that the Aroma launcher replaces (launcher/aroma/src/Main.cpp), and the *)
(* path under which the core loads a mod (core/src/Main.cpp).              *)
(*                                                                         *)
(* A name is a sequence of characters; the directory of the title's mods   *)
(* ("~|telkin|...|code|") is one character before it, and a buffer holds   *)
(* Limit of them.  External: __OSDynLoad_InternalAcquire gets a module     *)
(* from its file or, if it is loaded, as it is; LiFindRPLByName knows the  *)
(* loaded ones; an application's modules go with it.                       *)
(***************************************************************************)
EXTENDS AromaPlugin, Sequences

CONSTANTS
    Names,          \* file names
    Limit           \* characters a redirected name may have
ASSUME NamesAssumption ==
    /\ Limit \in Nat \ {0}
    /\ \A n \in Names : n \in Seq(STRING) /\ n # <<>> /\ n[1] # "~"

VARIABLES
    plain,          \* the application's and the system's own files
    card,           \* the files in the title's directory on the SD card
    loaded,         \* names of the modules that are loaded
    lookup          \* the last question and its answer
nameVars == <<plain, card, loaded, lookup>>

NoLookup == [asked |-> <<>>, by |-> "nobody", got |-> <<>>]
NoModule == <<>>

NamesInit == /\ Init
             /\ plain \in SUBSET Names /\ card = {}
             /\ loaded = {} /\ lookup = NoLookup

InDirectory(n) == <<"~">> \o n
\* (A variant with a bug: the buffer is one character short.)
RedirectedShort(n) == SubSeq(InDirectory(n), 1, Limit - 1)
Redirected(n) == LET path == InDirectory(n) IN SubSeq(path, 1, IF Len(path) > Limit THEN Limit ELSE Len(path))
IsRedirected(n) == n[1] = "~"

Exists(n) == n \in plain \/ \E f \in card : n = InDirectory(f)

\* The replaced __OSDynLoad_InternalAcquire. When nothing else helps it asks for
\* the plain name again.
Acquired(n) ==
    CASE Exists(n) -> n
      [] ~Exists(n) /\ sInitDone /\ ~IsRedirected(n) /\ Exists(Redirected(n)) -> Redirected(n)
      [] OTHER -> NoModule

\* The replaced LiFindRPLByName.
FoundByName(n) ==
    CASE sInitDone /\ Redirected(n) \in loaded -> Redirected(n)
      [] ~(sInitDone /\ Redirected(n) \in loaded) /\ n \in loaded -> n
      [] OTHER -> NoModule

Answer(asked, by, got) ==
    /\ lookup' = [asked |-> asked, by |-> by, got |-> got]
    /\ loaded' = loaded \cup ({got} \ {NoModule})
    /\ UNCHANGED <<vars, plain, card>>

Acquire == \E n \in Names : Answer(n, "acquire", Acquired(n))
\* loadRPL on a console
LoadMod == pc = "running" /\ \E n \in card : Answer(n, "core", Acquired(Redirected(n)))
Find == \E n \in Names \cup {InDirectory(f) : f \in card} : Answer(n, "find", FoundByName(n))

\* The rest of the plugin's life; another application has another directory
\* and none of the modules of the one before.
Host == /\ Next
        /\ card' \in (IF app' # app THEN SUBSET Names ELSE {card})
        /\ loaded' = IF app' # app THEN {} ELSE loaded
        /\ lookup' = NoLookup /\ UNCHANGED plain

NamesNext == Acquire \/ LoadMod \/ Find \/ Host
NamesSpec == NamesInit /\ [][NamesNext]_<<vars, nameVars>>

----------------------------------------------------------------------------

\* A name that fits into the buffers leads to the file of that name or to none,
\* whichever of the functions is asked, in whatever order and with whatever
\* other files about: the core gets the mod it has listed, an import the file
\* that is in only one of the places, and a name with a file of the application its own.
FindsItsFile ==
    LET n == lookup.asked
        places == {m \in {n, InDirectory(n)} : Exists(m)}
    IN  lookup.by # "nobody" /\ Len(InDirectory(n)) <= Limit =>
            /\ lookup.got \in places \cup {NoModule}
            /\ lookup.by = "core" => lookup.got = InDirectory(n)
            /\ lookup.by = "acquire" /\ sInitDone => (lookup.got = NoModule <=> places = {})
            /\ lookup.by = "acquire" /\ n \in plain => lookup.got = n
            /\ lookup.by = "find" /\ lookup.got = NoModule => loaded \cap {n} = {}
=============================================================================
