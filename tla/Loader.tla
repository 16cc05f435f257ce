------------------------------- MODULE Loader -------------------------------
(***************************************************************************)
(* The Telkin core module: init reads two directories, loads every RPL in  *)
(* them with loadRPL, validates dependencies and hooks, and only then      *)
(* writes the hooks into the game and runs the start functions             *)
(* (core/src/Main.cpp, with the hook code of HookScan).                    *)
(*                                                                         *)
(* One thread runs all of it.  What is not fixed is what the disk holds,   *)
(* the order in which FSReadDir lists a directory, what memory allocation  *)
(* answers, how std::sort orders equal starts and how often a launcher     *)
(* calls init.                                                             *)
(*                                                                         *)
(* fatal() reports through OSFatal.  FatalHalts says whether OSFatal ends  *)
(* the application, as the documentation has it; if it does not, the code  *)
(* after the call runs.                                                    *)
(***************************************************************************)
EXTENDS HookScan, FiniteSets

CONSTANTS
    Files,        \* the names of RPL files
    Image,        \* [Files -> what the file's exports yield]
    CoreDirs,     \* what core/ may hold: sets of files, or NoDir
    ModsDirs,     \* what mods/ may hold: sets of files, or NoDir
    NoDir,
    NoFile,
    GameTitle,    \* the running title, [hi, lo]
    Telkin,       \* the loader's own ModInfo, [id, version]
    Lower,        \* folds the case of an identifier
    Verdict,      \* what check_manifest_dependency answers to <<range, version>>
    FatalHalts,
    MaxCalls,     \* bound: how often launchers call init
    Game          \* content of memory no hook has written

\* Hooks lie inside the address space, below its last byte: every address a
\* hook can patch is one of the game's code and data, far from 0xFFFFFFFF.
ASSUME ImageAssumption ==
    \A f \in Files : /\ Image[f].hooks \in Seq(Range(Image[f].hooks))
                     /\ Image[f].deps \in Seq(Range(Image[f].deps))
                     /\ \A h \in Range(Image[f].hooks) : Fits(h)
ASSUME DirAssumption == /\ \A d \in CoreDirs \cup ModsDirs : d = NoDir \/ d \subseteq Files
                        /\ NoFile \notin Files
                        /\ Game \notin Files \X Nat
\* check_manifest_dependency has four answers: satisfied, not satisfied, and for
\* what cannot be read as a range or as a version.
ASSUME VerdictAssumption ==
    \A f \in Files : \A d \in Range(Image[f].deps) :
        \A v \in {Telkin.version} \cup {Image[g].version : g \in Files} :
            Verdict[<<d.range, v>>] \in {1, 0, -1, -2}
ASSUME CallsAssumption == MaxCalls \in Nat /\ FatalHalts \in BOOLEAN

VARIABLES
    \* the console
    coreDir, modsDir,   \* what the two directories hold
    calls,              \* calls of init so far
    mem,                \* per address: the hook that wrote it last, or Game
    started,            \* files whose start function has run, in order
    \* statics of the core
    initialized,
    mods,               \* sAllMods
    \* locals of init
    pc,
    pass, unread,       \* which directory is being read, what is left in it
    success,
    seen,               \* module types encountered
    deps,               \* allDeps
    apiHooks, stdHooks, allHooks,
    apiStart, stdStarts,
    applied, ran,       \* hooks applied, start functions run so far
    \* locals of loadRPL
    cur,                \* the file being loaded
    next                \* index of the next hook in its hook table

diskVars == <<coreDir, modsDir>>
gameVars == <<mem, started>>
dirVars  == <<pass, unread>>
hookVars == <<apiHooks, stdHooks, allHooks>>
startVars == <<apiStart, stdStarts>>
doneVars == <<applied, ran>>
fileVars == <<cur, next>>
vars == <<diskVars, calls, gameVars, initialized, mods, pc, dirVars, success, seen,
          deps, hookVars, startVars, doneVars, fileVars>>

RPL == Image[cur]
Has(export) == export \notin RPL.absent
HookAt(p) == Image[p[1]].hooks[p[2]]

\* fatal(): the application ends there, or the code goes on at next.
Fatal(halted, nextPc) == pc' = IF FatalHalts THEN halted ELSE nextPc

FilesIn(dir) == IF dir = NoDir THEN {} ELSE dir

----------------------------------------------------------------------------
(* init, up to the directories *)

Init ==
    /\ coreDir \in CoreDirs /\ modsDir \in ModsDirs
    /\ calls = 0
    /\ mem = [a \in Word |-> Game]
    /\ started = <<>>
    /\ initialized = FALSE
    /\ mods = <<>>
    /\ pc = "idle"
    /\ pass = 1 /\ unread = {} /\ success = TRUE /\ seen = {}
    /\ deps = <<>> /\ apiHooks = <<>> /\ stdHooks = <<>> /\ allHooks = <<>>
    /\ apiStart = NoFile /\ stdStarts = <<>> /\ applied = 0 /\ ran = 0
    /\ cur = NoFile /\ next = 1

\* The guard of init, and a variant without it.
MayAlwaysEnter == TRUE

MayEnter == ~initialized

\* The first call of init; its locals are constructed.
EnterInit ==
    /\ pc = "idle" /\ calls < MaxCalls /\ MayEnter
    /\ calls' = calls + 1
    /\ initialized' = TRUE
    /\ mods' = Append(mods, Telkin)
    /\ pc' = "alloc"
    /\ pass' = 1 /\ unread' = {} /\ success' = TRUE /\ seen' = {}
    /\ deps' = <<>> /\ apiHooks' = <<>> /\ stdHooks' = <<>> /\ allHooks' = <<>>
    /\ apiStart' = NoFile /\ stdStarts' = <<>> /\ applied' = 0 /\ ran' = 0
    /\ UNCHANGED <<diskVars, gameVars, fileVars>>

\* A later call returns at once.
ReenterInit ==
    /\ pc = "idle" /\ calls < MaxCalls /\ ~MayEnter
    /\ calls' = calls + 1
    /\ UNCHANGED <<diskVars, gameVars, initialized, mods, pc, dirVars, success, seen,
                   deps, hookVars, startVars, doneVars, fileVars>>

\* The FSClient and the FSCmdBlock come from the default heap, which may be
\* exhausted: then init returns.
Allocate ==
    /\ pc = "alloc"
    /\ pc' \in {"open", "idle"}
    /\ UNCHANGED <<diskVars, calls, gameVars, initialized, mods, dirVars, success, seen,
                   deps, hookVars, startVars, doneVars, fileVars>>

\* Without a core directory init returns; without a mods directory there are
\* no standard mods.
OpenDirs ==
    /\ pc = "open"
    /\ pc' = IF coreDir = NoDir THEN "idle" ELSE "pass"
    /\ unread' = FilesIn(coreDir)
    /\ UNCHANGED <<diskVars, calls, gameVars, initialized, mods, pass, success, seen,
                   deps, hookVars, startVars, doneVars, fileVars>>

\* (A variant with a bug: the file of the call before is loaded again.)
ReadDirStale(f) ==
    /\ pc = "pass" /\ f \in unread
    /\ unread' = unread \ {f}
    /\ next' = 1
    /\ pc' = "identify"
    /\ UNCHANGED <<diskVars, calls, gameVars, initialized, mods, pass, success, seen,
                   deps, hookVars, startVars, doneVars, cur>>

\* FSReadDir lists the files in an order of its own.
ReadDir(f) ==
    /\ pc = "pass" /\ f \in unread
    /\ unread' = unread \ {f}
    /\ cur' = f /\ next' = 1
    /\ pc' = "identify"
    /\ UNCHANGED <<diskVars, calls, gameVars, initialized, mods, pass, success, seen,
                   deps, hookVars, startVars, doneVars>>

\* (A variant with a bug: the second pass is not told from the first.)
EndPassAgain ==
    /\ pc = "pass" /\ unread = {}
    /\ IF pass = 1 THEN /\ unread' = FilesIn(modsDir)
                        /\ UNCHANGED <<pass, pc>>
                   ELSE /\ pc' = "check"
                        /\ UNCHANGED dirVars
    /\ UNCHANGED <<diskVars, calls, gameVars, initialized, mods, success, seen,
                   deps, hookVars, startVars, doneVars, fileVars>>

\* Pass 2 follows pass 1, even one that was broken off.
EndPass ==
    /\ pc = "pass" /\ unread = {}
    /\ IF pass = 1 THEN /\ pass' = 2
                        /\ unread' = FilesIn(modsDir)
                        /\ pc' = "pass"
                   ELSE /\ pc' = "check"
                        /\ UNCHANGED dirVars
    /\ UNCHANGED <<diskVars, calls, gameVars, initialized, mods, success, seen,
                   deps, hookVars, startVars, doneVars, fileVars>>

----------------------------------------------------------------------------
(* loadRPL *)

\* false from loadRPL makes init break off the pass it is in.
BreakPass ==
    /\ Fatal("haltedLoading", "pass")
    /\ success' = FALSE
    /\ unread' = {}

SameId(id1, id2) == Lower[id1] = Lower[id2]
\* (A variant with a bug: duplicates are looked for as isModLoaded looks for
\* mods, which minds the case.)
InstalledExactly(id) == \E i \in DOMAIN mods : mods[i].id = id

Installed(id) == \E i \in DOMAIN mods : SameId(mods[i].id, id)

\* Only the low 32 bits of the title ids are compared.
Identifiable ==
    /\ {"rpl", "getTitleID", "getModID", "getVersion"} \cap RPL.absent = {}
    /\ RPL.title.lo = GameTitle.lo
    /\ ~Installed(RPL.id)

Identify ==
    /\ pc = "identify" /\ Identifiable
    /\ mods' = Append(mods, [id |-> RPL.id, version |-> RPL.version])
    /\ pc' = "manifest"
    /\ UNCHANGED <<diskVars, calls, gameVars, initialized, dirVars, success, seen,
                   deps, hookVars, startVars, doneVars, fileVars>>

HasManifest == {"getModuleType", "getDependencyManifest"} \cap RPL.absent = {}

ReadManifest ==
    /\ pc = "manifest" /\ HasManifest
    /\ deps' = deps \o RPL.deps
    /\ pc' = "classify"
    /\ UNCHANGED <<diskVars, calls, gameVars, initialized, mods, dirVars, success, seen,
                   hookVars, startVars, doneVars, fileVars>>

\* The module types whose start function runs, and the ones refused at once.
SecondCoreAPI == RPL.type = "CoreAPI" /\ "CoreAPI" \in seen
CoreModUnderAPI == RPL.type = "CoreMod" /\ "CoreAPI" \in seen
StandardWithoutStart == RPL.type = "Standard" /\ ~Has("__rpl_start")
Classifiable == ~(SecondCoreAPI \/ CoreModUnderAPI \/ StandardWithoutStart)

\* A CoreAPI and a CoreMod count as encountered before their start function
\* is looked up, so also when it is missing.
AsCoreAPI ==
    /\ pc = "classify" /\ RPL.type = "CoreAPI" /\ Classifiable
    /\ seen' = seen \cup {"CoreAPI"}
    /\ \/ /\ Has("__rpl_start")
          /\ apiStart' = cur
          /\ pc' = "hooks"
          /\ UNCHANGED <<success, unread>>
       \/ ~Has("__rpl_start") /\ BreakPass /\ UNCHANGED apiStart
    /\ UNCHANGED <<diskVars, calls, gameVars, initialized, mods, pass, deps, hookVars,
                   stdStarts, doneVars, fileVars>>

AsCoreMod ==
    /\ pc = "classify" /\ RPL.type = "CoreMod" /\ Classifiable
    /\ seen' = seen \cup {"CoreMod"}
    /\ \/ /\ Has("__rpl_start")
          /\ stdStarts' = Append(stdStarts, cur)
          /\ pc' = "hooks"
          /\ UNCHANGED <<success, unread>>
       \/ ~Has("__rpl_start") /\ BreakPass /\ UNCHANGED stdStarts
    /\ UNCHANGED <<diskVars, calls, gameVars, initialized, mods, pass, deps, hookVars,
                   apiStart, doneVars, fileVars>>

AsStandard ==
    /\ pc = "classify" /\ RPL.type = "Standard" /\ Classifiable
    /\ stdStarts' = Append(stdStarts, cur)
    /\ seen' = seen \cup {"Standard"}
    /\ pc' = "hooks"
    /\ UNCHANGED <<diskVars, calls, gameVars, initialized, mods, dirVars, success, deps,
                   hookVars, apiStart, doneVars, fileVars>>

\* Special is fatal, but falls out of the switch like a type without a case.
AsOther ==
    /\ pc = "classify" /\ RPL.type \notin {"CoreAPI", "CoreMod", "Standard"}
    /\ IF RPL.type = "Special" THEN Fatal("haltedLoading", "hooks") ELSE pc' = "hooks"
    /\ UNCHANGED <<diskVars, calls, gameVars, initialized, mods, dirVars, success, seen,
                   deps, hookVars, startVars, doneVars, fileVars>>

\* A table whose start is exported must have an end beyond its start.
HasTable == Has("__loaderdata_start")
TableIsGood == HasTable => Has("__loaderdata_end") /\ RPL.hooks # <<>>

FindHooks ==
    /\ pc = "hooks" /\ HasTable /\ TableIsGood
    /\ pc' = "read"
    /\ UNCHANGED <<diskVars, calls, gameVars, initialized, mods, dirVars, success, seen,
                   deps, hookVars, startVars, doneVars, fileVars>>

\* A hook goes to the list it will be applied from and to the list that is
\* validated; a NullHook to neither.
AppendIf(cond, list, e) == IF cond THEN Append(list, e) ELSE list
Listed(h) == h.magic # "Null"

\* (A variant with a bug: the range of a pointer hook is not recorded.)
ScannedIfCode(h) == h.magic \in {"Branch", "Patch"}

Scanned(h) == h.magic # "Null"

ReadHook ==
    /\ pc = "read" /\ next <= Len(RPL.hooks) /\ Readable(RPL.hooks[next])
    /\ LET h     == RPL.hooks[next]
           e     == Entry(h, <<cur, next>>, RPL.id)
           ofAPI == RPL.type = "CoreAPI"
       IN  /\ apiHooks' = AppendIf(Listed(h) /\ ofAPI, apiHooks, e)
           /\ stdHooks' = AppendIf(Listed(h) /\ ~ofAPI, stdHooks, e)
           /\ allHooks' = AppendIf(Scanned(h), allHooks, e)
    /\ next' = next + 1
    /\ UNCHANGED <<diskVars, calls, gameVars, initialized, mods, pc, dirVars, success,
                   seen, deps, startVars, doneVars, cur>>

\* true from loadRPL: whatever an earlier call returned is forgotten.
LoadDone ==
    /\ \/ pc = "hooks" /\ ~HasTable
       \/ pc = "read" /\ next > Len(RPL.hooks)
    /\ success' = TRUE
    /\ pc' = "pass"
    /\ UNCHANGED <<diskVars, calls, gameVars, initialized, mods, dirVars, seen, deps,
                   hookVars, startVars, doneVars, fileVars>>

\* The other ways in which loadRPL returns false; mods, dependencies and hooks
\* it has recorded stay recorded.
LoadFails ==
    /\ \/ pc = "identify" /\ ~Identifiable
       \/ pc = "manifest" /\ ~HasManifest
       \/ pc = "classify" /\ ~Classifiable
       \/ pc = "hooks" /\ ~TableIsGood
       \/ pc = "read" /\ next <= Len(RPL.hooks) /\ ~Readable(RPL.hooks[next])
    /\ BreakPass
    /\ UNCHANGED <<diskVars, calls, gameVars, initialized, mods, pass, seen, deps,
                   hookVars, startVars, doneVars, fileVars>>

----------------------------------------------------------------------------
(* init, after the directories: validate, apply, start *)

\* (A variant with a bug: standard mods are let in without a CoreAPI.)
TypesAgreeWithoutAPI == ~({"CoreAPI", "CoreMod"} \subseteq seen)

\* What init has concluded about the module types it met.
TypesAgree == /\ "Standard" \in seen => "CoreAPI" \in seen
              /\ ~({"CoreAPI", "CoreMod"} \subseteq seen)

\* validateDependencies takes the first mod with the wanted name.
Satisfied(d) ==
    \E i \in DOMAIN mods :
        /\ SameId(mods[i].id, d.mod)
        /\ \A j \in 1 .. i - 1 : ~SameId(mods[j].id, d.mod)
        /\ Verdict[<<d.range, mods[i].version>>] \notin {-2, -1, 0}
DependenciesHold == \A d \in Range(deps) : Satisfied(d)

CheckPassed == success /\ TypesAgree /\ DependenciesHold

CheckMods ==
    /\ pc = "check" /\ CheckPassed
    /\ pc' = "scan"
    /\ UNCHANGED <<diskVars, calls, gameVars, initialized, mods, dirVars, success, seen,
                   deps, hookVars, startVars, doneVars, fileVars>>

RefuseMods ==
    /\ pc = "check" /\ ~CheckPassed
    /\ Fatal("haltedLoading", "idle")
    /\ UNCHANGED <<diskVars, calls, gameVars, initialized, mods, dirVars, success, seen,
                   deps, hookVars, startVars, doneVars, fileVars>>

\* validateHooks sorts allHooks in place and scans it.
ScanHooks ==
    /\ pc = "scan"
    /\ allHooks' \in SortedOrders(allHooks)
    /\ IF ValidHooks(allHooks') THEN pc' = "apply" ELSE Fatal("haltedLoading", "idle")
    /\ UNCHANGED <<diskVars, calls, gameVars, initialized, mods, dirVars, success, seen,
                   deps, apiHooks, stdHooks, startVars, doneVars, fileVars>>

ApplyOrder == apiHooks \o stdHooks
NextEntry == ApplyOrder[applied + 1]
NextHook == HookAt(NextEntry.ptr)

\* A pin to another title is fatal; the applicator goes on if fatal() returns.
PinAccepted == PinMatches(NextHook, GameTitle) \/ ~FatalHalts

Written(p) == [a \in Word |-> IF a \in Footprint(HookAt(p)) THEN p ELSE mem[a]]

ApplyHook ==
    /\ pc = "apply" /\ applied < Len(ApplyOrder)
    /\ PinAccepted /\ Encodable(NextHook)
    /\ mem' = Written(NextEntry.ptr)
    /\ applied' = applied + 1
    /\ UNCHANGED <<diskVars, calls, started, initialized, mods, pc, dirVars, success,
                   seen, deps, hookVars, startVars, ran, fileVars>>

\* A hook that cannot be applied ends the patching, and nothing is undone. If
\* fatal() returns, init runs the start functions all the same.
ApplyFails ==
    /\ pc = "apply" /\ applied < Len(ApplyOrder)
    /\ ~(PinAccepted /\ Encodable(NextHook))
    /\ Fatal("haltedApplying", "run")
    /\ UNCHANGED <<diskVars, calls, gameVars, initialized, mods, dirVars, success, seen,
                   deps, hookVars, startVars, doneVars, fileVars>>

\* (A variant with a bug: the hooks of standard mods are left out.)
ApplyDoneEarly ==
    /\ pc = "apply" /\ applied = Len(apiHooks)
    /\ pc' = "run"
    /\ UNCHANGED <<diskVars, calls, gameVars, initialized, mods, dirVars, success, seen,
                   deps, hookVars, startVars, doneVars, fileVars>>

ApplyDone ==
    /\ pc = "apply" /\ applied = Len(ApplyOrder)
    /\ pc' = "run"
    /\ UNCHANGED <<diskVars, calls, gameVars, initialized, mods, dirVars, success, seen,
                   deps, hookVars, startVars, doneVars, fileVars>>

\* (A variant with a bug: the CoreAPI starts first, then the others from the last one.)
StartOrderReversed == (IF apiStart = NoFile THEN <<>> ELSE <<apiStart>>) \o
                      [i \in DOMAIN stdStarts |-> stdStarts[Len(stdStarts) + 1 - i]]

\* The CoreAPI starts first, then the others as they were loaded.
StartOrder == (IF apiStart = NoFile THEN <<>> ELSE <<apiStart>>) \o stdStarts

RunStart ==
    /\ pc = "run" /\ ran < Len(StartOrder)
    /\ started' = Append(started, StartOrder[ran + 1])
    /\ ran' = ran + 1
    /\ UNCHANGED <<diskVars, calls, mem, initialized, mods, pc, dirVars, success, seen,
                   deps, hookVars, startVars, applied, fileVars>>

Finish ==
    /\ pc = "run" /\ ran = Len(StartOrder)
    /\ pc' = "idle"
    /\ UNCHANGED <<diskVars, calls, gameVars, initialized, mods, dirVars, success, seen,
                   deps, hookVars, startVars, doneVars, fileVars>>

\* OSFatal has ended the application, or nobody calls init any more.
Halted == pc \in {"haltedLoading", "haltedApplying"}
Stopped == /\ Halted \/ (pc = "idle" /\ calls = MaxCalls)
           /\ UNCHANGED vars

LoadStep == \/ Identify \/ ReadManifest
            \/ AsCoreAPI \/ AsCoreMod \/ AsStandard \/ AsOther
            \/ FindHooks \/ ReadHook \/ LoadDone \/ LoadFails

InitStep == \/ Allocate \/ OpenDirs \/ (\E f \in Files : ReadDir(f)) \/ EndPass
            \/ LoadStep
            \/ CheckMods \/ RefuseMods \/ ScanHooks
            \/ ApplyHook \/ ApplyFails \/ ApplyDone
            \/ RunStart \/ Finish

Next == EnterInit \/ ReenterInit \/ InitStep \/ Stopped

Spec == Init /\ [][Next]_vars

\* A thread inside init keeps running; nobody has to call init.
FairSpec == Spec /\ WF_vars(InitStep)

----------------------------------------------------------------------------
(* What the loader promises *)

PtrSet == Files \X Nat
ModIds == {Image[f].id : f \in Files}
EntrySet == [ptr : PtrSet, start : Word, end : Word, mod : ModIds]
DepSet == UNION {Range(Image[f].deps) : f \in Files}
ModSet == {Telkin} \cup {[id |-> Image[f].id, version |-> Image[f].version] : f \in Files}
PCs == {"idle", "alloc", "open", "pass", "identify", "manifest", "classify", "hooks",
        "read", "check", "scan", "apply", "run", "haltedLoading", "haltedApplying"}
LoadPCs == {"identify", "manifest", "classify", "hooks", "read"}

\* The type of every variable; during loadRPL a file is being loaded.
ConsoleTypeOK ==
    /\ coreDir \in CoreDirs /\ modsDir \in ModsDirs
    /\ calls \in 0 .. MaxCalls
    /\ mem \in [Word -> PtrSet \cup {Game}]
    /\ started \in Seq(Files)
FlagsTypeOK ==
    /\ initialized \in BOOLEAN /\ success \in BOOLEAN
    /\ seen \subseteq {"CoreAPI", "CoreMod", "Standard"}
ControlTypeOK ==
    /\ pc \in PCs
    /\ pass \in {1, 2} /\ unread \subseteq Files
    /\ cur \in Files \cup {NoFile} /\ next \in Nat \ {0}
    /\ pc \in LoadPCs => cur \in Files
ListsTypeOK ==
    /\ mods \in Seq(ModSet) /\ deps \in Seq(DepSet)
    /\ apiHooks \in Seq(EntrySet) /\ stdHooks \in Seq(EntrySet) /\ allHooks \in Seq(EntrySet)
    /\ apiStart \in Files \cup {NoFile} /\ stdStarts \in Seq(Files)
    /\ applied \in 0 .. Len(ApplyOrder) /\ ran \in 0 .. Len(StartOrder)
TypeOK == ConsoleTypeOK /\ FlagsTypeOK /\ ControlTypeOK /\ ListsTypeOK

\* No two installed mods have names that differ in case only, the loader's own
\* included: a dependency names at most one mod.
ModsDistinct == \A i, j \in DOMAIN mods : SameId(mods[i].id, mods[j].id) => i = j

\* The list that is validated holds exactly the hooks of the two lists that
\* are applied, also after the sort and after failed loads.
HookListsAgree == Range(allHooks) = Range(apiHooks) \cup Range(stdHooks)

\* A byte a hook has written is not written again by another hook, or twice.
WriteOnce == [][\A a \in Word : mem[a] # Game => mem'[a] = mem[a]]_vars

\* What makes the content of the two directories fit to be injected, said of
\* the files and not of the order in which they are read.
Typed(F, t) == {f \in F : Image[f].type = t}
HooksOf(f) == IF "__loaderdata_start" \in Image[f].absent THEN {}
              ELSE {i \in DOMAIN Image[f].hooks : Image[f].hooks[i].magic # "Null"}
NeedsStart(f) == Image[f].type \in {"CoreAPI", "CoreMod", "Standard"}
NeededExports(f) ==
    {"rpl", "getTitleID", "getModID", "getVersion", "getModuleType", "getDependencyManifest"}
    \cup (IF NeedsStart(f) THEN {"__rpl_start"} ELSE {})
    \cup (IF "__loaderdata_start" \in Image[f].absent THEN {} ELSE {"__loaderdata_end"})
Loadable(f) ==
    /\ NeededExports(f) \cap Image[f].absent = {}
    /\ Image[f].title.lo = GameTitle.lo
    /\ Image[f].type # "Special"
    /\ "__loaderdata_start" \notin Image[f].absent =>
           /\ Image[f].hooks # <<>>
           /\ \A h \in Range(Image[f].hooks) : Readable(h)
NamesClash(F) ==
    \/ \E f \in F : SameId(Image[f].id, Telkin.id)
    \/ \E f, g \in F : f # g /\ SameId(Image[f].id, Image[g].id)
TypesClash(F) ==
    \/ \E f, g \in Typed(F, "CoreAPI") : f # g
    \/ Typed(F, "CoreAPI") # {} /\ Typed(F, "CoreMod") # {}
    \/ Typed(F, "CoreAPI") = {} /\ Typed(F, "Standard") # {}
Provided(d, F) ==
    \E m \in {Telkin} \cup {[id |-> Image[f].id, version |-> Image[f].version] : f \in F} :
        SameId(m.id, d.mod) /\ Verdict[<<d.range, m.version>>] = 1
HooksClash(F) ==
    \E f, g \in F : \E i \in HooksOf(f), j \in HooksOf(g) :
        /\ <<f, i>> # <<g, j>>
        /\ Footprint(Image[f].hooks[i]) \cap Footprint(Image[g].hooks[j]) # {}
Acceptable ==
    LET F == FilesIn(coreDir) \cup FilesIn(modsDir)
    IN  /\ FilesIn(coreDir) \cap FilesIn(modsDir) = {}
        /\ \A f \in F : Loadable(f) /\ \A d \in Range(Image[f].deps) : Provided(d, F)
        /\ ~NamesClash(F) /\ ~TypesClash(F) /\ ~HooksClash(F)

\* "RPL failed to load, aborting inject!" and "no changes to game": the game is
\* touched, by a hook or a start function, only for mods that all fit together,
\* whatever order the directories are read in.
Untouched == started = <<>> /\ \A a \in Word : mem[a] = Game
OnlyAcceptable == ~Untouched => Acceptable

\* Conversely, mods that fit together are not refused in any order.
NothingRefusedWrongly == pc = "haltedLoading" => ~Acceptable

\* No start function runs before every byte of every hook is in place.
PatchedBeforeStart ==
    started # <<>> =>
        \A e \in Range(ApplyOrder) : \A a \in Footprint(HookAt(e.ptr)) : mem[a] = e.ptr

\* The CoreAPI, where there is one, starts before all others, in whichever
\* order the files were listed; the others start in the order they were installed
\* in; no file starts twice, however often init runs.
InstalledBefore(f, g) ==
    \E a, b \in DOMAIN mods : a < b /\ mods[a].id = Image[f].id /\ mods[b].id = Image[g].id
StartsInOrder ==
    /\ \A i, j \in DOMAIN started : started[i] = started[j] => i = j
    /\ \A i \in DOMAIN started : Image[started[i]].type = "CoreAPI" => i = 1
    /\ \A i, j \in DOMAIN started :
           i < j /\ Image[started[i]].type # "CoreAPI" => InstalledBefore(started[i], started[j])

\* A call of init ends: it returns or OSFatal ends the application.
Terminates == (pc # "idle") ~> (pc = "idle" \/ Halted)

----------------------------------------------------------------------------
(* The loader implements Injection, when OSFatal halts *)

StageOf == CASE pc = "apply" -> "patching"
             [] pc = "run" -> "running"
             [] Halted \/ (pc = "idle" /\ initialized) -> "stopped"
             [] OTHER -> "loading"
Committed == pc \in {"apply", "run"}
Plan == IF Committed THEN [i \in DOMAIN ApplyOrder |-> ApplyOrder[i].ptr] ELSE <<>>
CoversOf(p) == Footprint(HookAt(p))

Abstract == INSTANCE Injection WITH
    Addr <- Word, Mods <- Files, Covers <- CoversOf,
    stage <- StageOf, plan <- Plan, done <- IF Committed THEN applied ELSE 0

\* Every step of the loader is one that Injection allows: nothing is written
\* before the whole plan has been validated, and nothing starts before the whole
\* plan has been written.
Injects == Abstract!Spec
=============================================================================
