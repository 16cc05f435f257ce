------------------------------ MODULE MCLoader ------------------------------
(***************************************************************************)
(* A small disk for Loader.  The address space has 32 bytes and a branch   *)
(* reaches 8 bytes back and 4 forward.  The files are chosen so that every *)
(* way two mods can fit or clash occurs: a CoreAPI and mods built on it, a *)
(* second CoreAPI, a CoreMod, names that differ in case, ranges that       *)
(* touch, overlap or nest, versions that satisfy and that do not, and one  *)
(* file for each thing loadRPL or an applicator refuses.                   *)
(***************************************************************************)
EXTENDS Loader, TLC

Title(h, l) == [hi |-> h, lo |-> l]
ThisTitle == Title(1, 7)
OtherRegion == Title(2, 7)     \* shares the low 32 bits
OtherGame == Title(1, 8)

Branch(a, t) == [magic |-> "Branch", addr |-> a, count |-> 0, unit |-> 0, target |-> t,
                 branch |-> "bl", pin |-> NoPin]
Pointer(a, t) == [Branch(a, t) EXCEPT !.magic = "Pointer"]
Patch(a, n, u) == [Branch(a, 0) EXCEPT !.magic = "Patch", !.count = n, !.unit = u]
NullHook == [Branch(0, 0) EXCEPT !.magic = "Null"]
BadMagic == [Branch(0, 0) EXCEPT !.magic = "Bad"]

RPLFile(id, type, needs, hooks) ==
    [id |-> id, version |-> "1.0.0", type |-> type, title |-> ThisTitle, absent |-> {},
     deps |-> needs, hooks |-> hooks]
On(m) == [mod |-> m, range |-> "^1.0.0"]
On2(m) == [mod |-> m, range |-> "^2.0.0"]
Garbled(m) == [mod |-> m, range |-> "one"]
Without(export) == [RPLFile("Broken", "Standard", <<On("Api")>>, <<Pointer(24, 0)>>)
                        EXCEPT !.absent = {export}]

Exports == {"rpl", "getTitleID", "getModID", "getVersion", "getModuleType",
            "getDependencyManifest", "__rpl_start", "__loaderdata_start", "__loaderdata_end"}

MCImage ==
    ("api" :> RPLFile("Api", "CoreAPI", <<On("Telkin")>>, <<Branch(0, 4), Patch(8, 2, 16)>>))
 @@ ("api2" :> RPLFile("Api2", "CoreAPI", <<>>, <<Pointer(20, 3)>>))
 @@ ("apiNoStart" :> [RPLFile("Api", "CoreAPI", <<>>, <<NullHook>>)
                                  EXCEPT !.absent = {"__rpl_start"}])
 @@ ("core" :> RPLFile("Core", "CoreMod", <<>>, <<Branch(12, 4), NullHook>>))
 @@ ("coreNoStart" :> [RPLFile("Core", "CoreMod", <<>>, <<Branch(16, 12)>>)
                                  EXCEPT !.absent = {"__rpl_start"}])
 @@ ("mod" :> RPLFile("Mod", "Standard", <<On("api")>>, <<NullHook, Pointer(4, 0)>>))
 @@ ("MOD" :> RPLFile("MOD", "Standard", <<On("Api")>>, <<Patch(16, 1, 64)>>))
 @@ ("addon" :> RPLFile("Addon", "Standard", <<On("Api"), On("mod")>>, <<Branch(16, 8)>>))
 @@ ("clash" :> RPLFile("Clash", "Standard", <<On("Api")>>, <<Patch(7, 2, 8)>>))
 @@ ("nested" :> RPLFile("Nested", "Standard", <<>>, <<Patch(20, 4, 16), Patch(22, 1, 8)>>))
 @@ ("lone" :> RPLFile("Lone", "Standard", <<>>, <<NullHook>>))
 @@ ("newer" :> RPLFile("Newer", "Standard", <<On2("Api")>>, <<NullHook>>))
 @@ ("garbled" :> RPLFile("Gar", "Standard", <<Garbled("Api")>>, <<NullHook>>))
 @@ ("data" :> [RPLFile("Data", "Null", <<>>, <<>>) EXCEPT !.absent = {"__loaderdata_start"}])
 @@ ("empty" :> RPLFile("Empty", "Null", <<>>, <<>>))
 @@ ("special" :> RPLFile("Spec", "Special", <<>>, <<Pointer(27, 0)>>))
 @@ ("region" :> [RPLFile("Region", "Null", <<>>, <<[Pointer(27, 1) EXCEPT !.pin = OtherRegion]>>)
                              EXCEPT !.title = OtherRegion])
 @@ ("othergame" :> [RPLFile("Og", "Null", <<>>, <<NullHook>>) EXCEPT !.title = OtherGame])
 @@ ("magic" :> RPLFile("Magic", "Null", <<>>, <<Patch(24, 1, 8), BadMagic>>))
 @@ ("unit" :> RPLFile("Unit", "Null", <<>>, <<Patch(24, 1, 12)>>))
 @@ ("symbol" :> RPLFile("Sym", "Null", <<>>, <<Branch(24, NoSymbol)>>))
 @@ ("far" :> RPLFile("Far", "Null", <<>>, <<Pointer(12, 0), Branch(24, 29)>>))
 @@ ("type" :> RPLFile("Type", "Null", <<>>, <<[Branch(24, 24) EXCEPT !.branch = "ba"]>>))
 @@ [f \in Exports |-> Without(f)]

MCFiles == DOMAIN MCImage
CoreFiles == {"api", "api2", "apiNoStart", "core", "coreNoStart"}
UpToTwo(S) == {{}} \cup {{f, g} : f, g \in S}

\* Every set of at most two core files beside every set of at most two mods (an
\* RPL without one of its exports only alone and beside "mod"), three sets of
\* three, files in the directory of the other kind, and missing directories.
MCCoreDirs == {NoDir} \cup UpToTwo(CoreFiles) \cup {{"mod"}, {"symbol", "api"}}
MCModsDirs ==
    {NoDir} \cup UpToTwo(MCFiles \ (CoreFiles \cup Exports))
            \cup {{e} : e \in Exports} \cup {{"mod", e} : e \in Exports}
            \cup {{"api"}, {"mod", "core"}, {"mod", "addon", "data"}, {"mod", "addon", "nested"}}

MCTelkin == [id |-> "telkin", version |-> "1.0.0"]
Ids == {MCImage[f].id : f \in MCFiles} \cup {"telkin", "Telkin", "api", "mod"}
MCLower == [i \in Ids |-> CASE i = "Telkin" -> "telkin"
                            [] i = "Api" -> "api"
                            [] i \in {"Mod", "MOD"} -> "mod"
                            [] OTHER -> i]
MCVerdict == [q \in {"^1.0.0", "^2.0.0", "one"} \X {"1.0.0"} |->
                 CASE q[1] = "^1.0.0" -> 1 [] q[1] = "^2.0.0" -> 0 [] OTHER -> -1]
=============================================================================
