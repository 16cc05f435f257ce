----------------------------- MODULE LoaderProofs ---------------------------
(***************************************************************************)
(* Theorems about Loader, for any files, directories and listing orders:   *)
(* what init installs and applies, in which order mods start, that every   *)
(* step is one Injection allows, and which content it accepts.             *)
(***************************************************************************)
EXTENDS Loader, HookScanProofs, SequenceTheorems, TLAPS

\* Addresses are numbers.
LEMMA WordIsNat == ASSUME NEW a \in Word PROVE a \in Nat
BY WordAssumption DEF Word

\* The entry recorded for a hook of a file.
LEMMA EntryIsTyped ==
    ASSUME NEW f \in Files, NEW i \in DOMAIN Image[f].hooks
    PROVE  /\ Fits(Image[f].hooks[i])
           /\ Entry(Image[f].hooks[i], <<f, i>>, Image[f].id) \in EntrySet
<1> DEFINE h == Image[f].hooks[i]
<1>1. h \in Range(Image[f].hooks)
      BY DEF Range
<1>2. Fits(h)
      BY <1>1, ImageAssumption
<1>3. i \in Nat
      BY ImageAssumption
<1>4. (h.addr + RangeSize(h)) % WordMod \in Word /\ h.addr \in Word
      BY <1>2, ModOfSmall DEF Fits
<1>5. <<f, i>> \in PtrSet /\ Image[f].id \in ModIds
      BY <1>3 DEF PtrSet, ModIds
<1>6. Entry(h, <<f, i>>, Image[f].id) \in EntrySet
      BY <1>4, <1>5 DEF Entry, EntrySet
<1> QED BY <1>2, <1>6

\* The types hold before the first call of init.
LEMMA InitType == Init => TypeOK
<1> SUFFICES ASSUME Init PROVE TypeOK
    OBVIOUS
<1>1. ConsoleTypeOK
      BY CallsAssumption DEF Init, ConsoleTypeOK
<1>2. FlagsTypeOK
      BY DEF Init, FlagsTypeOK
<1>3. ControlTypeOK
      <2>1. pc = "idle" /\ pass = 1 /\ unread = {} /\ cur = NoFile /\ next = 1
            BY DEF Init
      <2> QED BY <2>1 DEF ControlTypeOK, PCs, LoadPCs
<1>4. ListsTypeOK
      BY DEF Init, ListsTypeOK, ApplyOrder, StartOrder
<1> QED BY <1>1, <1>2, <1>3, <1>4 DEF TypeOK

\* The orders in which hooks are applied and start functions run.
LEMMA OrdersAreTyped ==
    ASSUME ListsTypeOK
    PROVE  /\ ApplyOrder \in Seq(EntrySet)
           /\ StartOrder \in Seq(Files)
           /\ Range(ApplyOrder) = Range(apiHooks) \cup Range(stdHooks)
<1>1. ApplyOrder \in Seq(EntrySet)
      BY DEF ListsTypeOK, ApplyOrder
<1>2. StartOrder \in Seq(Files)
      <2>1. CASE apiStart = NoFile
            BY <2>1 DEF ListsTypeOK, StartOrder
      <2>2. CASE apiStart # NoFile
            BY <2>2 DEF ListsTypeOK, StartOrder
      <2> QED BY <2>1, <2>2
<1>3. Range(ApplyOrder) = Range(apiHooks) \cup Range(stdHooks)
      BY RangeConcatenation DEF ListsTypeOK, ApplyOrder
<1> QED BY <1>1, <1>2, <1>3

\* The hook that is applied next.
LEMMA NextEntryIsTyped ==
    ASSUME ListsTypeOK, applied < Len(ApplyOrder)
    PROVE  NextEntry \in Range(ApplyOrder) /\ NextEntry \in EntrySet
<1>1. applied \in Nat
      BY DEF ListsTypeOK
<1>2. applied + 1 \in DOMAIN ApplyOrder
      BY <1>1, OrdersAreTyped
<1> QED BY <1>2, OrdersAreTyped DEF NextEntry, Range

\* Memory and the list of started mods keep their types, whatever the step.
LEMMA ConsoleStep == TypeOK /\ [Next]_vars => ConsoleTypeOK'
<1> SUFFICES ASSUME TypeOK, [Next]_vars PROVE ConsoleTypeOK'
    OBVIOUS
<1> USE CallsAssumption DEF TypeOK, ConsoleTypeOK, diskVars, gameVars
<1>1. CASE EnterInit \/ ReenterInit
      BY <1>1 DEF EnterInit, ReenterInit
<1>2. CASE Allocate \/ OpenDirs \/ EndPass
      BY <1>2 DEF Allocate, OpenDirs, EndPass
<1>3. ASSUME NEW f \in Files, ReadDir(f) PROVE ConsoleTypeOK'
      BY <1>3 DEF ReadDir
<1>4. CASE LoadStep
      BY <1>4 DEF LoadStep, Identify, ReadManifest, AsCoreAPI, AsCoreMod, AsStandard, AsOther,
                  FindHooks, ReadHook, LoadDone, LoadFails
<1>5. CASE CheckMods \/ RefuseMods \/ ScanHooks \/ ApplyFails \/ ApplyDone \/ Finish
      BY <1>5 DEF CheckMods, RefuseMods, ScanHooks, ApplyFails, ApplyDone, Finish
<1>6. CASE ApplyHook
      <2>1. NextEntry.ptr \in PtrSet
            BY <1>6, NextEntryIsTyped DEF ApplyHook, EntrySet
      <2>2. mem' \in [Word -> PtrSet \cup {Game}]
            BY <1>6, <2>1 DEF ApplyHook, Written
      <2> QED BY <1>6, <2>2 DEF ApplyHook
<1>7. CASE RunStart
      <2>1. ran \in Nat /\ StartOrder \in Seq(Files)
            BY OrdersAreTyped DEF ListsTypeOK
      <2>2. StartOrder[ran + 1] \in Files
            BY <1>7, <2>1 DEF RunStart
      <2>3. started' \in Seq(Files)
            BY <1>7, <2>2 DEF RunStart
      <2> QED BY <1>7, <2>3 DEF RunStart
<1>8. CASE UNCHANGED vars
      BY <1>8 DEF vars
<1> QED BY <1>1, <1>2, <1>3, <1>4, <1>5, <1>6, <1>7, <1>8 DEF Next, InitStep, Stopped

\* The flags of init and the module types it has encountered keep their types.
LEMMA FlagsStep == TypeOK /\ [Next]_vars => FlagsTypeOK'
<1> SUFFICES ASSUME TypeOK, [Next]_vars PROVE FlagsTypeOK'
    OBVIOUS
<1> USE DEF TypeOK, FlagsTypeOK
<1>1. CASE EnterInit \/ ReenterInit
      BY <1>1 DEF EnterInit, ReenterInit
<1>2. CASE Allocate \/ OpenDirs \/ EndPass
      BY <1>2 DEF Allocate, OpenDirs, EndPass
<1>3. ASSUME NEW f \in Files, ReadDir(f) PROVE FlagsTypeOK'
      BY <1>3 DEF ReadDir
<1>4. CASE Identify \/ ReadManifest \/ AsOther \/ FindHooks \/ ReadHook \/ LoadDone \/ LoadFails
      BY <1>4 DEF Identify, ReadManifest, AsOther, FindHooks, ReadHook, LoadDone, LoadFails,
                  BreakPass
<1>5. CASE AsCoreAPI \/ AsCoreMod \/ AsStandard
      BY <1>5 DEF AsCoreAPI, AsCoreMod, AsStandard, BreakPass
<1>6. CASE CheckMods \/ RefuseMods \/ ScanHooks \/ ApplyHook \/ ApplyFails \/ ApplyDone
           \/ RunStart \/ Finish
      BY <1>6 DEF CheckMods, RefuseMods, ScanHooks, ApplyHook, ApplyFails, ApplyDone, RunStart,
                  Finish
<1>7. CASE UNCHANGED vars
      BY <1>7 DEF vars
<1> QED BY <1>1, <1>2, <1>3, <1>4, <1>5, <1>6, <1>7 DEF Next, InitStep, LoadStep, Stopped

\* The control state keeps its type; loadRPL always has a file to load.
LEMMA ControlStep == TypeOK /\ [Next]_vars => ControlTypeOK'
<1> SUFFICES ASSUME TypeOK, [Next]_vars PROVE ControlTypeOK'
    OBVIOUS
<1> USE DEF TypeOK, ControlTypeOK, PCs, LoadPCs
<1>1. CASE EnterInit \/ ReenterInit
      BY <1>1 DEF EnterInit, ReenterInit, dirVars, fileVars
<1>2. CASE Allocate
      BY <1>2 DEF Allocate, dirVars, fileVars
<1>3. CASE OpenDirs
      <2>1. FilesIn(coreDir) \subseteq Files
            BY DirAssumption DEF ConsoleTypeOK, FilesIn
      <2> QED BY <1>3, <2>1 DEF OpenDirs, fileVars
<1>4. CASE EndPass
      <2>1. FilesIn(modsDir) \subseteq Files
            BY DirAssumption DEF ConsoleTypeOK, FilesIn
      <2> QED BY <1>4, <2>1 DEF EndPass, dirVars, fileVars
<1>5. ASSUME NEW f \in Files, ReadDir(f) PROVE ControlTypeOK'
      BY <1>5 DEF ReadDir
<1>6. CASE Identify \/ ReadManifest \/ FindHooks \/ LoadDone
      BY <1>6 DEF Identify, ReadManifest, FindHooks, LoadDone, dirVars, fileVars
<1>7. CASE ReadHook
      BY <1>7 DEF ReadHook, dirVars
<1>8. CASE LoadFails
      BY <1>8 DEF LoadFails, BreakPass, Fatal, fileVars
<1>9. CASE AsOther \/ AsStandard
      BY <1>9 DEF AsOther, AsStandard, Fatal, dirVars, fileVars
<1>10. CASE AsCoreAPI
      BY <1>10 DEF AsCoreAPI, BreakPass, Fatal, dirVars, fileVars
<1>11. CASE AsCoreMod
      BY <1>11 DEF AsCoreMod, BreakPass, Fatal, dirVars, fileVars
<1>12. CASE CheckMods \/ RefuseMods \/ ScanHooks
      BY <1>12 DEF CheckMods, RefuseMods, ScanHooks, Fatal, dirVars, fileVars
<1>13. CASE ApplyHook \/ ApplyFails \/ ApplyDone \/ RunStart \/ Finish
      BY <1>13 DEF ApplyHook, ApplyFails, ApplyDone, RunStart, Finish, Fatal, dirVars, fileVars
<1>14. CASE UNCHANGED vars
      BY <1>14 DEF vars, dirVars, fileVars
<1> QED BY <1>1, <1>2, <1>3, <1>4, <1>5, <1>6, <1>7, <1>8, <1>9, <1>10, <1>11, <1>12, <1>13,
           <1>14 DEF Next, InitStep, LoadStep, Stopped

\* A step that leaves the two orders and the progress in them alone.
LEMMA OrdersUnchanged ==
    ASSUME UNCHANGED <<hookVars, startVars, doneVars>>
    PROVE  /\ ApplyOrder' = ApplyOrder /\ StartOrder' = StartOrder
           /\ UNCHANGED <<apiHooks, stdHooks, allHooks, apiStart, stdStarts, applied, ran>>
BY DEF hookVars, startVars, doneVars, ApplyOrder, StartOrder

\* Longer orders leave room for the progress made.
LEMMA StartOrderGrows ==
    ASSUME ListsTypeOK, ran' = ran, NEW f \in Files,
           \/ apiStart' = f /\ stdStarts' = stdStarts
           \/ apiStart' = apiStart /\ stdStarts' = Append(stdStarts, f)
    PROVE  ran' \in 0 .. Len(StartOrder')
<1>1. Len(StartOrder) \in Nat /\ Len(StartOrder') \in Nat /\ Len(StartOrder) <= Len(StartOrder')
      BY DirAssumption DEF ListsTypeOK, StartOrder
<1> QED BY <1>1 DEF ListsTypeOK

\* A list with one more entry of a type is a list of that type.
LEMMA AppendIsTyped ==
    ASSUME NEW S, NEW s \in Seq(S), NEW e \in S, NEW t, t = s \/ t = Append(s, e)
    PROVE  t \in Seq(S) /\ Len(t) \in Nat /\ Len(t) >= Len(s)
<1>1. Append(s, e) \in Seq(S) /\ Len(Append(s, e)) = Len(s) + 1
      OBVIOUS
<1>2. Len(s) \in Nat
      OBVIOUS
<1>3. CASE t = s
      BY <1>2, <1>3
<1>4. CASE t = Append(s, e)
      BY <1>1, <1>2, <1>4
<1> QED BY <1>3, <1>4

\* The lists of mods, dependencies, hooks and start functions keep their types.
LEMMA ListsStep == TypeOK /\ [Next]_vars => ListsTypeOK'
<1> SUFFICES ASSUME TypeOK, [Next]_vars PROVE ListsTypeOK'
    OBVIOUS
<1> USE DEF TypeOK, ListsTypeOK
<1>1. CASE EnterInit
      <2>1. mods' \in Seq(ModSet)
            BY <1>1 DEF EnterInit, ModSet
      <2>2. ApplyOrder' = <<>> /\ StartOrder' = <<>>
            BY <1>1 DEF EnterInit, ApplyOrder, StartOrder
      <2> QED BY <1>1, <2>1, <2>2 DEF EnterInit
<1>2. CASE ReenterInit \/ Allocate \/ OpenDirs \/ EndPass
      BY <1>2, OrdersUnchanged DEF ReenterInit, Allocate, OpenDirs, EndPass
<1>3. ASSUME NEW f \in Files, ReadDir(f) PROVE ListsTypeOK'
      BY <1>3, OrdersUnchanged DEF ReadDir
<1>4. CASE Identify
      <2>1. cur \in Files
            BY <1>4 DEF Identify, ControlTypeOK, LoadPCs
      <2>2. mods' \in Seq(ModSet)
            BY <1>4, <2>1 DEF Identify, ModSet, RPL
      <2> QED BY <1>4, <2>2, OrdersUnchanged DEF Identify
<1>5. CASE ReadManifest
      <2>1. cur \in Files
            BY <1>5 DEF ReadManifest, ControlTypeOK, LoadPCs
      <2>2. RPL.deps \in Seq(DepSet)
            <3>1. Range(RPL.deps) \subseteq DepSet
                  BY <2>1 DEF DepSet, RPL
            <3>2. RPL.deps \in Seq(Range(RPL.deps))
                  BY <2>1, ImageAssumption DEF RPL
            <3> QED BY <3>1, <3>2
      <2>3. deps' \in Seq(DepSet)
            BY <1>5, <2>2 DEF ReadManifest
      <2> QED BY <1>5, <2>3, OrdersUnchanged DEF ReadManifest
<1>6. CASE AsCoreAPI \/ AsCoreMod \/ AsStandard
      <2>1. cur \in Files
            BY <1>6 DEF AsCoreAPI, AsCoreMod, AsStandard, ControlTypeOK, LoadPCs
      <2>2. /\ UNCHANGED <<mods, deps, apiHooks, stdHooks, allHooks, applied, ran>>
            /\ ApplyOrder' = ApplyOrder
            BY <1>6 DEF AsCoreAPI, AsCoreMod, AsStandard, hookVars, doneVars, ApplyOrder
      <2>3. \/ apiStart' = cur /\ stdStarts' = stdStarts
            \/ apiStart' = apiStart /\ stdStarts' = Append(stdStarts, cur)
            \/ apiStart' = apiStart /\ stdStarts' = stdStarts
            BY <1>6 DEF AsCoreAPI, AsCoreMod, AsStandard
      <2>4. ran' \in 0 .. Len(StartOrder')
            <3>1. CASE apiStart' = apiStart /\ stdStarts' = stdStarts
                  BY <2>2, <3>1 DEF StartOrder
            <3> QED BY <2>1, <2>2, <2>3, <3>1, StartOrderGrows
      <2>5. apiStart' \in Files \cup {NoFile} /\ stdStarts' \in Seq(Files)
            <3>1. apiStart' = cur \/ apiStart' = apiStart
                  BY <2>3
            <3>2. stdStarts' = stdStarts \/ stdStarts' = Append(stdStarts, cur)
                  BY <2>3
            <3>3. stdStarts \in Seq(Files) /\ apiStart \in Files \cup {NoFile}
                  OBVIOUS
            <3>4. stdStarts' \in Seq(Files)
                  BY <2>1, <3>2, <3>3, AppendIsTyped
            <3> QED BY <2>1, <3>1, <3>3, <3>4
      <2> QED BY <2>2, <2>4, <2>5
<1>7. CASE AsOther \/ FindHooks \/ LoadDone \/ LoadFails
      BY <1>7, OrdersUnchanged DEF AsOther, FindHooks, LoadDone, LoadFails
<1>8. CASE ReadHook
      <2> DEFINE e == Entry(RPL.hooks[next], <<cur, next>>, RPL.id)
      <2>1. cur \in Files
            BY <1>8 DEF ReadHook, ControlTypeOK, LoadPCs
      <2>2. next \in DOMAIN Image[cur].hooks
            <3>1. DOMAIN Image[cur].hooks = 1 .. Len(Image[cur].hooks)
                  BY <2>1, ImageAssumption
            <3>2. next \in Nat \ {0} /\ next <= Len(Image[cur].hooks)
                  BY <1>8 DEF ReadHook, ControlTypeOK, RPL
            <3>3. Len(Image[cur].hooks) \in Nat
                  BY <2>1, ImageAssumption
            <3> QED BY <3>1, <3>2, <3>3
      <2>3. e \in EntrySet
            BY <2>1, <2>2, EntryIsTyped DEF RPL
      <2>4. /\ apiHooks' = apiHooks \/ apiHooks' = Append(apiHooks, e)
            /\ stdHooks' = stdHooks \/ stdHooks' = Append(stdHooks, e)
            /\ allHooks' = allHooks \/ allHooks' = Append(allHooks, e)
            BY <1>8 DEF ReadHook, AppendIf
      <2>5. /\ apiHooks' \in Seq(EntrySet) /\ Len(apiHooks') >= Len(apiHooks)
            /\ stdHooks' \in Seq(EntrySet) /\ Len(stdHooks') >= Len(stdHooks)
            /\ allHooks' \in Seq(EntrySet)
            BY <2>3, <2>4, AppendIsTyped
      <2>6. Len(ApplyOrder') >= Len(ApplyOrder) /\ Len(ApplyOrder') \in Nat
            BY <2>5 DEF ApplyOrder
      <2>7. /\ UNCHANGED <<mods, deps, apiStart, stdStarts, applied, ran>>
            /\ StartOrder' = StartOrder
            BY <1>8 DEF ReadHook, startVars, doneVars, StartOrder
      <2> QED BY <2>5, <2>6, <2>7
<1>9. CASE ScanHooks
      <2>1. allHooks' \in Seq(EntrySet)
            BY <1>9, SortIsSeq DEF ScanHooks
      <2> QED BY <1>9, <2>1 DEF ScanHooks, startVars, doneVars, ApplyOrder, StartOrder
<1>10. CASE CheckMods \/ RefuseMods \/ ApplyFails \/ ApplyDone \/ Finish
      BY <1>10, OrdersUnchanged DEF CheckMods, RefuseMods, ApplyFails, ApplyDone, Finish
<1>11. CASE ApplyHook
      <2>1. applied + 1 \in 0 .. Len(ApplyOrder)
            BY <1>11, OrdersAreTyped DEF ApplyHook
      <2> QED BY <1>11, <2>1 DEF ApplyHook, hookVars, startVars, ApplyOrder, StartOrder
<1>12. CASE RunStart
      <2>1. ran + 1 \in 0 .. Len(StartOrder)
            BY <1>12, OrdersAreTyped DEF RunStart
      <2> QED BY <1>12, <2>1 DEF RunStart, hookVars, startVars, ApplyOrder, StartOrder
<1>13. CASE UNCHANGED vars
      BY <1>13, OrdersUnchanged DEF vars
<1> QED BY <1>1, <1>2, <1>3, <1>4, <1>5, <1>6, <1>7, <1>8, <1>9, <1>10, <1>11, <1>12, <1>13
        DEF Next, InitStep, LoadStep, Stopped

\* Every step keeps all types.
LEMMA TypeStep == TypeOK /\ [Next]_vars => TypeOK'
BY ConsoleStep, FlagsStep, ControlStep, ListsStep DEF TypeOK

\* Every variable keeps its type.
THEOREM TypeCorrect == Spec => []TypeOK
BY InitType, TypeStep, PTL DEF Spec

----------------------------------------------------------------------------
(* Names *)

\* Before the first call there is nothing to inspect.
FirstCall == ~initialized => pc = "idle" /\ mods = <<>>

NamesInv == TypeOK /\ FirstCall /\ ModsDistinct

\* Only two actions touch the list of mods.
LEMMA ModsStep ==
    ASSUME TypeOK, FirstCall, [Next]_vars
    PROVE  \/ EnterInit
           \/ Identify /\ initialized
           \/ mods' = mods /\ initialized' = initialized /\ (pc' = pc \/ initialized)
<1>1. CASE ReenterInit \/ Allocate \/ OpenDirs \/ EndPass
      BY <1>1 DEF ReenterInit, Allocate, OpenDirs, EndPass, FirstCall
<1>2. ASSUME NEW f \in Files, ReadDir(f)
      PROVE  mods' = mods /\ initialized' = initialized /\ (pc' = pc \/ initialized)
      BY <1>2 DEF ReadDir, FirstCall
<1>3. CASE Identify
      BY <1>3 DEF Identify, FirstCall
<1>4. CASE ReadManifest \/ AsCoreAPI \/ AsCoreMod \/ AsStandard \/ AsOther
      BY <1>4 DEF ReadManifest, AsCoreAPI, AsCoreMod, AsStandard, AsOther, FirstCall
<1>5. CASE FindHooks \/ ReadHook \/ LoadDone \/ LoadFails
      BY <1>5 DEF FindHooks, ReadHook, LoadDone, LoadFails, FirstCall
<1>6. CASE CheckMods \/ RefuseMods \/ ScanHooks \/ ApplyHook \/ ApplyFails \/ ApplyDone
           \/ RunStart \/ Finish
      BY <1>6 DEF CheckMods, RefuseMods, ScanHooks, ApplyHook, ApplyFails, ApplyDone, RunStart,
                  Finish, FirstCall
<1>7. CASE UNCHANGED vars
      BY <1>7 DEF vars
<1> QED BY <1>1, <1>2, <1>3, <1>4, <1>5, <1>6, <1>7 DEF Next, InitStep, LoadStep, Stopped

\* Before the first call of init nothing is installed or patched.
LEMMA FirstCallStep == TypeOK /\ FirstCall /\ [Next]_vars => FirstCall'
<1> SUFFICES ASSUME TypeOK, FirstCall, [Next]_vars PROVE FirstCall'
    OBVIOUS
<1>1. CASE EnterInit
      BY <1>1 DEF EnterInit, FirstCall
<1>2. CASE Identify /\ initialized
      BY <1>2 DEF Identify, FirstCall
<1>3. CASE mods' = mods /\ initialized' = initialized /\ (pc' = pc \/ initialized)
      BY <1>3 DEF FirstCall
<1> QED BY <1>1, <1>2, <1>3, ModsStep

\* loadRPL refuses a name that is taken, so names stay distinct.
LEMMA NamesStep == NamesInv /\ [Next]_vars => NamesInv'
<1> SUFFICES ASSUME NamesInv, [Next]_vars PROVE ModsDistinct'
    BY TypeStep, FirstCallStep DEF NamesInv
<1>1. mods \in Seq(ModSet)
      BY DEF NamesInv, TypeOK, ListsTypeOK
<1>2. CASE EnterInit
      <2>1. mods' = <<Telkin>>
            BY <1>2 DEF EnterInit, MayEnter, NamesInv, FirstCall
      <2> QED BY <2>1 DEF ModsDistinct
<1>3. CASE Identify /\ initialized
      <2> DEFINE m == [id |-> RPL.id, version |-> RPL.version]
      <2>1. mods' = Append(mods, m) /\ initialized' = initialized
            BY <1>3 DEF Identify
      <2>2. \A i \in DOMAIN mods : ~SameId(mods[i].id, m.id)
            BY <1>3 DEF Identify, Identifiable, Installed
      <2>3. ASSUME NEW i \in DOMAIN mods', NEW j \in DOMAIN mods',
                   SameId(mods'[i].id, mods'[j].id), i # j
            PROVE  FALSE
            <3>1. DOMAIN mods' = 1 .. Len(mods) + 1 /\ DOMAIN mods = 1 .. Len(mods)
                  BY <1>1, <2>1
            <3>2. /\ \A k \in DOMAIN mods : mods'[k] = mods[k]
                  /\ mods'[Len(mods) + 1] = m
                  BY <1>1, <2>1
            <3>3. CASE i \in DOMAIN mods /\ j \in DOMAIN mods
                  BY <2>3, <3>2, <3>3 DEF NamesInv, ModsDistinct
            <3>4. CASE i = Len(mods) + 1 /\ j \in DOMAIN mods
                  BY <2>2, <2>3, <3>2, <3>4 DEF SameId
            <3>5. CASE i \in DOMAIN mods /\ j = Len(mods) + 1
                  BY <2>2, <2>3, <3>2, <3>5
            <3> QED BY <1>1, <2>3, <3>1, <3>3, <3>4, <3>5
      <2> QED BY <2>3 DEF ModsDistinct
<1>4. CASE mods' = mods /\ initialized' = initialized /\ (pc' = pc \/ initialized)
      BY <1>4 DEF NamesInv, ModsDistinct
<1> QED BY <1>2, <1>3, <1>4, ModsStep DEF NamesInv

\* No two installed mods have names that differ in case only.
THEOREM NamesAreDistinct == Spec => []ModsDistinct
<1>1. Init => NamesInv
      BY InitType DEF Init, NamesInv, FirstCall, ModsDistinct
<1>2. NamesInv => ModsDistinct
      BY DEF NamesInv
<1> QED BY <1>1, <1>2, NamesStep, PTL DEF Spec

----------------------------------------------------------------------------
(* Writes *)

\* An entry of the validated list stands for the bytes its hook overwrites.
EntriesFaithful == \A e \in Range(allHooks) : Bytes(e) = Footprint(HookAt(e.ptr))

\* Once the hooks are validated, no two of them have a byte in common.
PlanIsCompatible ==
    pc \in {"apply", "run"} =>
        \A e1, e2 \in Range(allHooks) : e1 # e2 => Disjoint(e1, e2)

\* What memory holds besides the game are validated hooks, and before the
\* validation there is nothing else in it.
MayBeWritten == initialized /\ pc \in {"apply", "run", "idle", "haltedApplying"}
MemoryIsPlanned ==
    \A a \in Word : mem[a] # Game =>
        /\ MayBeWritten
        /\ \E e \in Range(allHooks) : e.ptr = mem[a] /\ a \in Bytes(e)

WritesInv == /\ TypeOK /\ FirstCall /\ HookListsAgree
             /\ EntriesFaithful /\ PlanIsCompatible /\ MemoryIsPlanned

\* Four actions touch the lists of hooks or memory. The others neither start
\* the patching nor go back to before it.
LEMMA QuietStep ==
    ASSUME TypeOK, FirstCall, [Next]_vars
    PROVE  \/ EnterInit \/ ReadHook \/ ScanHooks \/ ApplyHook
           \/ /\ UNCHANGED <<mem, hookVars>>
              /\ pc' \in {"apply", "run"} => pc \in {"apply", "run"}
              /\ MayBeWritten => MayBeWritten'
<1> DEFINE Quiet == /\ UNCHANGED <<mem, hookVars>>
                    /\ pc' \in {"apply", "run"} => pc \in {"apply", "run"}
                    /\ MayBeWritten => MayBeWritten'
<1> USE DEF MayBeWritten, gameVars
<1>1. CASE ReenterInit \/ Allocate \/ OpenDirs \/ EndPass
      BY <1>1 DEF ReenterInit, Allocate, OpenDirs, EndPass
<1>2. ASSUME NEW f \in Files, ReadDir(f) PROVE Quiet
      BY <1>2 DEF ReadDir
<1>3. CASE Identify \/ ReadManifest \/ FindHooks \/ LoadDone
      BY <1>3 DEF Identify, ReadManifest, FindHooks, LoadDone
<1>4. CASE AsCoreAPI \/ AsCoreMod \/ AsStandard \/ AsOther
      BY <1>4 DEF AsCoreAPI, AsCoreMod, AsStandard, AsOther, BreakPass, Fatal
<1>5. CASE LoadFails
      BY <1>5 DEF LoadFails, BreakPass, Fatal
<1>6. CASE CheckMods \/ RefuseMods
      BY <1>6 DEF CheckMods, RefuseMods, Fatal
<1>7. CASE ApplyFails \/ ApplyDone \/ RunStart \/ Finish
      BY <1>7 DEF ApplyFails, ApplyDone, RunStart, Finish, Fatal
<1>8. CASE UNCHANGED vars
      BY <1>8 DEF vars
<1> QED BY <1>1, <1>2, <1>3, <1>4, <1>5, <1>6, <1>7, <1>8
        DEF Next, InitStep, LoadStep, Stopped

\* The entries of the lists have ranges the scan lemmas apply to.
LEMMA EntriesAreRanged == \A e \in EntrySet : Ranged(e)
<1> SUFFICES ASSUME NEW e \in EntrySet PROVE Ranged(e)
    OBVIOUS
<1>1. e.start \in Word /\ e.end \in Word
      BY DEF EntrySet
<1> QED BY <1>1, WordIsNat DEF Ranged

\* What a newly read hook adds to the lists.
LEMMA ReadHookStep ==
    ASSUME TypeOK, ReadHook, HookListsAgree, EntriesFaithful
    PROVE  HookListsAgree' /\ EntriesFaithful'
<1> DEFINE e == Entry(RPL.hooks[next], <<cur, next>>, RPL.id)
<1>1. cur \in Files /\ next \in DOMAIN Image[cur].hooks
      BY ImageAssumption DEF ReadHook, TypeOK, ControlTypeOK, LoadPCs, RPL
<1>2. e \in EntrySet /\ Fits(RPL.hooks[next])
      BY <1>1, EntryIsTyped DEF RPL
<1>3. Bytes(e) = Footprint(HookAt(e.ptr))
      <2>1. HookAt(e.ptr) = RPL.hooks[next]
            BY DEF Entry, HookAt, RPL
      <2> QED BY <1>2, <2>1, FootprintIsRange
<1>4. \A s \in Seq(EntrySet) : Range(Append(s, e)) = Range(s) \cup {e}
      <2> SUFFICES ASSUME NEW s \in Seq(EntrySet)
                   PROVE  Range(Append(s, e)) = Range(s) \cup {e}
          OBVIOUS
      <2> QED BY <1>2, AppendProperties DEF Range
<1>5. apiHooks \in Seq(EntrySet) /\ stdHooks \in Seq(EntrySet) /\ allHooks \in Seq(EntrySet)
      BY DEF TypeOK, ListsTypeOK
<1>6. \/ UNCHANGED <<apiHooks, stdHooks, allHooks>>
      \/ apiHooks' = Append(apiHooks, e) /\ stdHooks' = stdHooks /\ allHooks' = Append(allHooks, e)
      \/ apiHooks' = apiHooks /\ stdHooks' = Append(stdHooks, e) /\ allHooks' = Append(allHooks, e)
      BY DEF ReadHook, AppendIf, Listed, Scanned
<1>7. Range(allHooks') = Range(allHooks) \/ Range(allHooks') = Range(allHooks) \cup {e}
      BY <1>4, <1>5, <1>6
<1>8. HookListsAgree'
      <2>1. CASE UNCHANGED <<apiHooks, stdHooks, allHooks>>
            BY <2>1 DEF HookListsAgree
      <2>2. CASE /\ apiHooks' = Append(apiHooks, e) /\ stdHooks' = stdHooks
                 /\ allHooks' = Append(allHooks, e)
            BY <1>4, <1>5, <2>2 DEF HookListsAgree
      <2>3. CASE /\ apiHooks' = apiHooks /\ stdHooks' = Append(stdHooks, e)
                 /\ allHooks' = Append(allHooks, e)
            BY <1>4, <1>5, <2>3 DEF HookListsAgree
      <2> QED BY <1>6, <2>1, <2>2, <2>3
<1>9. EntriesFaithful'
      <2>1. ASSUME NEW g PROVE HookAt(g)' = HookAt(g)
            BY DEF HookAt
      <2> QED BY <1>3, <1>7, <2>1 DEF EntriesFaithful
<1> QED BY <1>8, <1>9

\* The verdict of the scan makes the plan compatible.
LEMMA ScanHooksStep ==
    ASSUME TypeOK, ScanHooks
    PROVE  Range(allHooks') = Range(allHooks) /\ PlanIsCompatible'
<1>1. allHooks' \in SortedOrders(allHooks) /\ allHooks \in Seq(EntrySet)
      BY DEF ScanHooks, TypeOK, ListsTypeOK
<1>2. Range(allHooks') = Range(allHooks)
      BY <1>1, SortKeepsRange
<1>3. CASE ValidHooks(allHooks')
      <2>1. PairwiseDisjoint(allHooks)
            BY <1>1, <1>3, EntriesAreRanged, ScanIsSound
      <2>2. \A e1, e2 \in Range(allHooks) : e1 # e2 => Disjoint(e1, e2)
            BY <2>1 DEF PairwiseDisjoint, Range
      <2> QED BY <1>2, <2>2 DEF PlanIsCompatible
<1>4. CASE ~ValidHooks(allHooks')
      BY <1>2, <1>4 DEF ScanHooks, Fatal, PlanIsCompatible
<1> QED BY <1>2, <1>3, <1>4

\* The hook that is applied is one of those that were validated.
LEMMA AppliedIsValidated ==
    ASSUME TypeOK, HookListsAgree, EntriesFaithful, ApplyHook
    PROVE  /\ NextEntry \in Range(allHooks) /\ NextEntry.ptr \in PtrSet
           /\ Footprint(HookAt(NextEntry.ptr)) = Bytes(NextEntry)
           /\ \A a \in Word : mem'[a] = IF a \in Bytes(NextEntry) THEN NextEntry.ptr ELSE mem[a]
<1>1. ListsTypeOK /\ applied < Len(ApplyOrder)
      BY DEF TypeOK, ApplyHook
<1>2. NextEntry \in Range(ApplyOrder) /\ NextEntry \in EntrySet
      BY <1>1, NextEntryIsTyped
<1>3. NextEntry \in Range(allHooks)
      BY <1>1, <1>2, OrdersAreTyped DEF HookListsAgree
<1>4. Footprint(HookAt(NextEntry.ptr)) = Bytes(NextEntry)
      BY <1>3 DEF EntriesFaithful
<1>5. \A a \in Word : mem'[a] = IF a \in Bytes(NextEntry) THEN NextEntry.ptr ELSE mem[a]
      BY <1>4 DEF ApplyHook, Written
<1> QED BY <1>2, <1>3, <1>4, <1>5 DEF EntrySet

\* Every step keeps the invariant that ties the lists, the plan and memory together.
LEMMA WritesStep == WritesInv /\ [Next]_vars => WritesInv'
<1> SUFFICES ASSUME WritesInv, [Next]_vars
             PROVE  (HookListsAgree /\ EntriesFaithful /\ PlanIsCompatible /\ MemoryIsPlanned)'
    BY TypeStep, FirstCallStep DEF WritesInv
<1> USE DEF WritesInv
<1>1. ~MayBeWritten => \A a \in Word : mem[a] = Game
      BY DEF MemoryIsPlanned
<1>2. CASE EnterInit
      <2>1. /\ apiHooks' = <<>> /\ stdHooks' = <<>> /\ allHooks' = <<>> /\ mem' = mem
            /\ pc' = "alloc" /\ ~initialized
            BY <1>2 DEF EnterInit, MayEnter, gameVars
      <2>2. Range(allHooks') = {} /\ Range(apiHooks') = {} /\ Range(stdHooks') = {}
            BY <2>1 DEF Range
      <2> QED BY <1>1, <2>1, <2>2
              DEF HookListsAgree, EntriesFaithful, PlanIsCompatible, MemoryIsPlanned, MayBeWritten
<1>3. CASE ReadHook
      <2>1. HookListsAgree' /\ EntriesFaithful'
            BY <1>3, ReadHookStep
      <2>2. pc = "read" /\ pc' = pc /\ mem' = mem
            BY <1>3 DEF ReadHook, gameVars
      <2> QED BY <1>1, <2>1, <2>2 DEF PlanIsCompatible, MemoryIsPlanned, MayBeWritten
<1>4. CASE ScanHooks
      <2>1. Range(allHooks') = Range(allHooks) /\ PlanIsCompatible'
            BY <1>4, ScanHooksStep
      <2>2. pc = "scan" /\ UNCHANGED <<mem, apiHooks, stdHooks>>
            BY <1>4 DEF ScanHooks, gameVars
      <2>3. HookListsAgree'
            BY <2>1, <2>2 DEF HookListsAgree
      <2>4. EntriesFaithful'
            BY <2>1 DEF EntriesFaithful, HookAt
      <2>5. MemoryIsPlanned'
            BY <1>1, <2>2 DEF MemoryIsPlanned, MayBeWritten
      <2> QED BY <2>1, <2>3, <2>4, <2>5
<1>5. CASE ApplyHook
      <2>1. /\ NextEntry \in Range(allHooks)
            /\ \A a \in Word : mem'[a] = IF a \in Bytes(NextEntry) THEN NextEntry.ptr ELSE mem[a]
            BY <1>5, AppliedIsValidated
      <2>2. UNCHANGED <<apiHooks, stdHooks, allHooks, initialized, pc>> /\ pc = "apply"
            BY <1>5 DEF ApplyHook, hookVars
      <2>3. initialized
            BY <2>2 DEF FirstCall
      <2>4. HookListsAgree' /\ PlanIsCompatible'
            BY <2>2 DEF HookListsAgree, PlanIsCompatible
      <2>5. EntriesFaithful'
            BY <2>2 DEF EntriesFaithful, HookAt
      <2>6. MemoryIsPlanned'
            BY <2>1, <2>2, <2>3 DEF MemoryIsPlanned, MayBeWritten
      <2> QED BY <2>4, <2>5, <2>6
<1>6. CASE /\ UNCHANGED <<mem, hookVars>>
           /\ pc' \in {"apply", "run"} => pc \in {"apply", "run"}
           /\ MayBeWritten => MayBeWritten'
      <2>1. UNCHANGED <<apiHooks, stdHooks, allHooks>>
            BY <1>6 DEF hookVars
      <2>2. HookListsAgree'
            BY <2>1 DEF HookListsAgree
      <2>3. EntriesFaithful'
            BY <2>1 DEF EntriesFaithful, HookAt
      <2>4. PlanIsCompatible'
            BY <1>6, <2>1 DEF PlanIsCompatible
      <2>5. MemoryIsPlanned'
            BY <1>6, <2>1 DEF MemoryIsPlanned
      <2> QED BY <2>2, <2>3, <2>4, <2>5
<1> QED BY <1>2, <1>3, <1>4, <1>5, <1>6, QuietStep

\* It holds before the first call of init.
LEMMA InitWrites == Init => WritesInv
<1> SUFFICES ASSUME Init PROVE WritesInv
    OBVIOUS
<1>1. TypeOK
      BY InitType
<1>2. /\ apiHooks = <<>> /\ stdHooks = <<>> /\ allHooks = <<>> /\ pc = "idle" /\ mods = <<>>
      /\ \A a \in Word : mem[a] = Game
      BY DEF Init
<1>3. Range(<<>>) = {}
      BY DEF Range
<1> QED BY <1>1, <1>2, <1>3 DEF WritesInv, FirstCall, HookListsAgree, EntriesFaithful,
                                PlanIsCompatible, MemoryIsPlanned

\* The hooks that are validated are the hooks that are applied.
THEOREM ListsAgree == Spec => []HookListsAgree
<1>1. WritesInv => HookListsAgree
      BY DEF WritesInv
<1> QED BY <1>1, InitWrites, WritesStep, PTL DEF Spec

\* No byte of the game is written by two hooks.
THEOREM WritesAreFinal == Spec => WriteOnce
<1> DEFINE Keeps == \A a \in Word : mem[a] # Game => mem'[a] = mem[a]
<1>1. WritesInv /\ [Next]_vars => [Keeps]_vars
      <2> SUFFICES ASSUME WritesInv, [Next]_vars, NEW a \in Word, mem[a] # Game
                   PROVE  mem'[a] = mem[a]
          OBVIOUS
      <2>1. CASE EnterInit \/ ReadHook \/ ScanHooks
            BY <2>1 DEF EnterInit, ReadHook, ScanHooks, gameVars
      <2>2. CASE ApplyHook
            <3>1. /\ NextEntry \in Range(allHooks)
                  /\ mem'[a] = IF a \in Bytes(NextEntry) THEN NextEntry.ptr ELSE mem[a]
                  BY <2>2, AppliedIsValidated DEF WritesInv
            <3>2. PICK e \in Range(allHooks) : e.ptr = mem[a] /\ a \in Bytes(e)
                  BY DEF WritesInv, MemoryIsPlanned
            <3>3. e # NextEntry => a \notin Bytes(NextEntry)
                  BY <2>2, <3>1, <3>2 DEF WritesInv, PlanIsCompatible, ApplyHook, Disjoint
            <3> QED BY <3>1, <3>2, <3>3
      <2>3. CASE UNCHANGED <<mem, hookVars>>
            BY <2>3
      <2> QED BY <2>1, <2>2, <2>3, QuietStep DEF WritesInv
<1> QED BY <1>1, InitWrites, WritesStep, PTL DEF Spec, WriteOnce

----------------------------------------------------------------------------
(* Patches before starts *)

\* The hooks applied so far are in place, every byte of them.
InPlace == \A i \in 1 .. applied : \A a \in Bytes(ApplyOrder[i]) : mem[a] = ApplyOrder[i].ptr

Preparing == pc \in {"alloc", "open", "pass", "check", "scan"} \cup LoadPCs

\* Where the applying and the starting stand.
Stages == /\ Preparing => applied = 0
          /\ pc = "run" \/ started # <<>> => applied = Len(ApplyOrder)
          /\ started # <<>> => pc \in {"run", "idle"} /\ initialized
          /\ pc \in {"apply", "run"} \/ started # <<>> => InPlace

PatchInv == WritesInv /\ Stages

\* The steps that bring the applying and the starting forward, when OSFatal ends
\* the application at a hook that cannot be applied.
LEMMA StageStep ==
    ASSUME FatalHalts, TypeOK, [Next]_vars
    PROVE  \/ EnterInit \/ ReadHook \/ ScanHooks \/ ApplyHook \/ ApplyDone \/ RunStart
           \/ /\ UNCHANGED <<mem, apiHooks, stdHooks, applied, started, initialized>>
              /\ pc' \in {"apply", "run"} => pc' = pc
              /\ pc \in {"run", "idle"} => pc' \in {"run", "idle"}
              /\ Preparing' => Preparing
<1> DEFINE Quiet == /\ UNCHANGED <<mem, apiHooks, stdHooks, applied, started, initialized>>
                    /\ pc' \in {"apply", "run"} => pc' = pc
                    /\ pc \in {"run", "idle"} => pc' \in {"run", "idle"}
                    /\ Preparing' => Preparing
<1> USE DEF Preparing, LoadPCs, gameVars, hookVars, doneVars
<1>1. CASE ReenterInit \/ Allocate \/ OpenDirs \/ EndPass
      BY <1>1 DEF ReenterInit, Allocate, OpenDirs, EndPass
<1>2. ASSUME NEW f \in Files, ReadDir(f) PROVE Quiet
      BY <1>2 DEF ReadDir
<1>3. CASE Identify \/ ReadManifest \/ FindHooks \/ LoadDone
      BY <1>3 DEF Identify, ReadManifest, FindHooks, LoadDone
<1>4. CASE AsCoreAPI \/ AsCoreMod
      BY <1>4 DEF AsCoreAPI, AsCoreMod, BreakPass, Fatal
<1>5. CASE AsStandard \/ AsOther
      BY <1>5 DEF AsStandard, AsOther, Fatal
<1>6. CASE LoadFails
      BY <1>6 DEF LoadFails, BreakPass, Fatal
<1>7. CASE CheckMods \/ RefuseMods
      BY <1>7 DEF CheckMods, RefuseMods, Fatal
<1>8. CASE ApplyFails \/ Finish
      BY <1>8 DEF ApplyFails, Finish, Fatal
<1>9. CASE UNCHANGED vars
      BY <1>9 DEF vars
<1> QED BY <1>1, <1>2, <1>3, <1>4, <1>5, <1>6, <1>7, <1>8, <1>9
        DEF Next, InitStep, LoadStep, Stopped

\* Applying a hook leaves the ones before it in place.
LEMMA ApplyKeepsInPlace ==
    ASSUME WritesInv, InPlace, ApplyHook
    PROVE  InPlace'
<1>1. /\ NextEntry \in Range(allHooks)
      /\ \A a \in Word : mem'[a] = IF a \in Bytes(NextEntry) THEN NextEntry.ptr ELSE mem[a]
      BY AppliedIsValidated DEF WritesInv
<1>2. /\ pc = "apply" /\ applied' = applied + 1 /\ ApplyOrder' = ApplyOrder
      /\ applied \in Nat /\ applied < Len(ApplyOrder)
      BY DEF ApplyHook, hookVars, ApplyOrder, WritesInv, TypeOK, ListsTypeOK
<1>3. ListsTypeOK
      BY DEF WritesInv, TypeOK
<1>4. ASSUME NEW i \in 1 .. applied + 1
      PROVE  ApplyOrder[i] \in EntrySet /\ ApplyOrder[i] \in Range(allHooks)
      <2>1. i \in DOMAIN ApplyOrder
            BY <1>2, <1>3, OrdersAreTyped
      <2>2. ApplyOrder[i] \in Range(ApplyOrder)
            BY <2>1 DEF Range
      <2> QED BY <1>3, <2>1, <2>2, OrdersAreTyped DEF WritesInv, HookListsAgree
<1>5. \A e \in EntrySet : Bytes(e) \subseteq Word
      <2> SUFFICES ASSUME NEW e \in EntrySet PROVE Bytes(e) \subseteq Word
          OBVIOUS
      <2>1. e.start \in Word /\ e.end \in Word
            BY DEF EntrySet
      <2> QED BY <2>1, WordAssumption DEF Word, Bytes
<1> SUFFICES ASSUME NEW i \in 1 .. applied + 1, NEW a \in Bytes(ApplyOrder[i])
             PROVE  mem'[a] = ApplyOrder[i].ptr
    BY <1>2 DEF InPlace
<1>6. a \in Word
      BY <1>4, <1>5
<1>7. CASE i = applied + 1
      BY <1>1, <1>6, <1>7 DEF NextEntry
<1>8. CASE i # applied + 1
      <2>1. mem[a] = ApplyOrder[i].ptr
            BY <1>2, <1>8 DEF InPlace
      <2>2. ApplyOrder[i] # NextEntry => a \notin Bytes(NextEntry)
            <3>1. ApplyOrder[i] \in Range(allHooks)
                  BY <1>4
            <3> QED BY <1>1, <1>2, <3>1 DEF WritesInv, PlanIsCompatible, Disjoint
      <2> QED BY <1>1, <1>6, <2>1, <2>2
<1> QED BY <1>7, <1>8

\* Where OSFatal halts, every step keeps the order of patching and starting.
LEMMA PatchStep == FatalHalts /\ PatchInv /\ [Next]_vars => PatchInv'
<1> SUFFICES ASSUME FatalHalts, PatchInv, [Next]_vars PROVE Stages'
    BY WritesStep DEF PatchInv
<1> USE DEF PatchInv, Stages
<1>1. TypeOK /\ WritesInv
      BY DEF WritesInv
<1>2. CASE EnterInit
      <2>1. started = <<>>
            BY <1>2 DEF EnterInit, MayEnter
      <2>2. pc' = "alloc" /\ applied' = 0 /\ started' = started
            BY <1>2 DEF EnterInit, gameVars
      <2> QED BY <2>1, <2>2
<1>3. CASE ReadHook
      <2>1. pc = "read" /\ pc' = pc /\ applied' = applied /\ started' = started
            BY <1>3 DEF ReadHook, gameVars, doneVars
      <2> QED BY <2>1 DEF Preparing, LoadPCs
<1>4. CASE ScanHooks
      <2>1. /\ pc = "scan" /\ applied' = applied /\ started' = started
            /\ pc' \in {"apply", "haltedLoading"}
            BY <1>4 DEF ScanHooks, Fatal, gameVars, doneVars
      <2>2. applied' = 0 /\ started' = <<>>
            BY <2>1 DEF Preparing
      <2>3. InPlace'
            BY <2>2 DEF InPlace
      <2> QED BY <2>1, <2>2, <2>3 DEF Preparing, LoadPCs
<1>5. CASE ApplyHook
      <2>1. pc = "apply" /\ pc' = pc /\ started' = started
            BY <1>5 DEF ApplyHook
      <2>2. InPlace'
            BY <1>1, <1>5, <2>1, ApplyKeepsInPlace
      <2> QED BY <2>1, <2>2 DEF Preparing, LoadPCs
<1>6. CASE ApplyDone
      <2>1. /\ pc = "apply" /\ pc' = "run" /\ applied = Len(ApplyOrder)
            /\ UNCHANGED <<mem, apiHooks, stdHooks, applied, started, initialized>>
            BY <1>6 DEF ApplyDone, gameVars, hookVars, doneVars
      <2>2. ApplyOrder' = ApplyOrder
            BY <2>1 DEF ApplyOrder
      <2>3. InPlace'
            BY <2>1, <2>2 DEF InPlace
      <2> QED BY <2>1, <2>2, <2>3 DEF Preparing, LoadPCs
<1>7. CASE RunStart
      <2>1. /\ pc = "run" /\ pc' = pc
            /\ UNCHANGED <<mem, apiHooks, stdHooks, applied, initialized>>
            BY <1>7 DEF RunStart, hookVars
      <2>2. ApplyOrder' = ApplyOrder
            BY <2>1 DEF ApplyOrder
      <2>3. InPlace'
            BY <2>1, <2>2 DEF InPlace
      <2>4. initialized
            BY <2>1 DEF WritesInv, FirstCall
      <2> QED BY <2>1, <2>2, <2>3, <2>4 DEF Preparing, LoadPCs
<1>8. CASE /\ UNCHANGED <<mem, apiHooks, stdHooks, applied, started, initialized>>
           /\ pc' \in {"apply", "run"} => pc' = pc
           /\ pc \in {"run", "idle"} => pc' \in {"run", "idle"}
           /\ Preparing' => Preparing
      <2>1. ApplyOrder' = ApplyOrder
            BY <1>8 DEF ApplyOrder
      <2>2. InPlace => InPlace'
            BY <1>8, <2>1 DEF InPlace
      <2>3. Preparing' => applied' = 0
            BY <1>8
      <2>4. pc' = "run" \/ started' # <<>> => applied' = Len(ApplyOrder')
            BY <1>8, <2>1
      <2>5. started' # <<>> => pc' \in {"run", "idle"} /\ initialized'
            BY <1>8
      <2>6. pc' \in {"apply", "run"} \/ started' # <<>> => InPlace'
            BY <1>8, <2>2
      <2> QED BY <2>3, <2>4, <2>5, <2>6
<1> QED BY <1>1, <1>2, <1>3, <1>4, <1>5, <1>6, <1>7, <1>8, StageStep

\* In that order, what has been started finds all hooks in place.
LEMMA PatchImplies == PatchInv => PatchedBeforeStart
<1> SUFFICES ASSUME PatchInv, started # <<>>, NEW e \in Range(ApplyOrder),
                    NEW a \in Footprint(HookAt(e.ptr))
             PROVE  mem[a] = e.ptr
    BY DEF PatchedBeforeStart
<1>1. applied = Len(ApplyOrder) /\ InPlace
      BY DEF PatchInv, Stages
<1>2. ListsTypeOK
      BY DEF PatchInv, WritesInv, TypeOK
<1>3. PICK i \in 1 .. applied : e = ApplyOrder[i]
      BY <1>1, <1>2, OrdersAreTyped DEF Range
<1>4. e \in Range(allHooks)
      BY <1>2, OrdersAreTyped DEF PatchInv, WritesInv, HookListsAgree
<1>5. a \in Bytes(e)
      BY <1>4 DEF PatchInv, WritesInv, EntriesFaithful
<1> QED BY <1>1, <1>3, <1>5 DEF InPlace

\* That order holds before the first call of init.
LEMMA InitPatch == Init => PatchInv
<1> SUFFICES ASSUME Init PROVE Stages
    BY InitWrites DEF PatchInv
<1>1. pc = "idle" /\ started = <<>>
      BY DEF Init
<1> QED BY <1>1 DEF Stages, Preparing, LoadPCs

\* If OSFatal ends the application, no mod starts before every byte of every hook
\* is in place.
THEOREM PatchesPrecedeStarts ==
    ASSUME FatalHalts
    PROVE  Spec => []PatchedBeforeStart
<1>1. Init => PatchInv
      BY InitPatch
<1>2. PatchInv /\ [Next]_vars => PatchInv'
      BY PatchStep
<1> QED BY <1>1, <1>2, PatchImplies, PTL DEF Spec

----------------------------------------------------------------------------
(* The order of starts, and the refinement of Injection *)

\* What appending does to a list, element by element.
LEMMA AppendElements ==
    ASSUME NEW S, NEW s \in Seq(S), NEW e \in S
    PROVE  /\ Append(s, e) \in Seq(S)
           /\ DOMAIN Append(s, e) = DOMAIN s \cup {Len(s) + 1}
           /\ DOMAIN s = 1 .. Len(s) /\ Len(s) \in Nat
           /\ \A i \in DOMAIN s : Append(s, e)[i] = s[i]
           /\ Append(s, e)[Len(s) + 1] = e
           /\ Range(Append(s, e)) = Range(s) \cup {e}
<1>1. DOMAIN s = 1 .. Len(s) /\ Len(s) \in Nat
      OBVIOUS
<1>2. /\ Append(s, e) \in Seq(S) /\ Len(Append(s, e)) = Len(s) + 1
      /\ \A i \in 1 .. Len(s) : Append(s, e)[i] = s[i]
      /\ Append(s, e)[Len(s) + 1] = e
      OBVIOUS
<1>3. DOMAIN Append(s, e) = 1 .. Len(s) + 1
      BY <1>2
<1>4. 1 .. Len(s) + 1 = (1 .. Len(s)) \cup {Len(s) + 1}
      BY <1>1
<1>5. Range(Append(s, e)) = Range(s) \cup {e}
      BY <1>1, <1>2, <1>3, <1>4 DEF Range
<1> QED BY <1>1, <1>2, <1>3, <1>4, <1>5

\* A list stays without repetition when what is appended is new.
LEMMA AppendKeepsDistinct ==
    ASSUME NEW S, NEW s \in Seq(S), NEW e \in S, IsInjective(s), e \notin Range(s)
    PROVE  IsInjective(Append(s, e))
<1>1. \A i \in DOMAIN s : s[i] # e
      BY DEF Range
<1> DEFINE t == Append(s, e)
<1>2. /\ DOMAIN t = DOMAIN s \cup {Len(s) + 1}
      /\ \A i \in DOMAIN s : t[i] = s[i]
      /\ t[Len(s) + 1] = e
      BY AppendElements
<1> HIDE DEF t
<1>3. IsInjective(t)
      BY <1>1, <1>2 DEF IsInjective
<1> QED BY <1>3 DEF t

----------------------------------------------------------------------------
(* Starts *)

\* The files whose start function will run or has run.
Starters == (IF apiStart = NoFile THEN {} ELSE {apiStart}) \cup Range(stdStarts)

\* They are installed mods; the file being loaded is not among them before its
\* start function is looked up, because its name was not installed.
WaitingToStart == pc \in {"manifest", "classify"}
StartsInstalled ==
    /\ \A f \in Starters : Installed(Image[f].id)
    /\ WaitingToStart => Installed(RPL.id) /\ cur \notin Starters

\* The CoreAPI is kept apart from the others, and no file is listed twice.
StartsSorted ==
    /\ apiStart # NoFile => Image[apiStart].type = "CoreAPI"
    /\ \A f \in Range(stdStarts) : Image[f].type # "CoreAPI"
    /\ IsInjective(stdStarts)

\* The others are installed, each after those before it on the list, and the file
\* being loaded is the last installed.
StartsPlaced ==
    /\ \A f \in Range(stdStarts) : \E a \in DOMAIN mods : mods[a].id = Image[f].id
    /\ \A i, j \in DOMAIN stdStarts : i < j => InstalledBefore(stdStarts[i], stdStarts[j])
    /\ WaitingToStart => \A f \in Range(stdStarts) : InstalledBefore(f, cur)
    /\ WaitingToStart => \E a \in DOMAIN mods : mods[a].id = RPL.id

\* What has started are the first so many in that order.
StartedPrefix ==
    /\ ~initialized => started = <<>>
    /\ Preparing => ran = 0
    /\ Len(started) = ran
    /\ \A i \in 1 .. ran : started[i] = StartOrder[i]

StartsInv == TypeOK /\ FirstCall /\ StartsInstalled /\ StartsSorted /\ StartsPlaced /\ StartedPrefix

\* Identify adds the file being loaded to the mods.
LEMMA IdentifyAppends ==
    ASSUME TypeOK, Identify
    PROVE  /\ DOMAIN mods' = DOMAIN mods \cup {Len(mods) + 1}
           /\ DOMAIN mods = 1 .. Len(mods) /\ Len(mods) \in Nat
           /\ \A i \in DOMAIN mods : mods'[i] = mods[i]
           /\ mods'[Len(mods) + 1] = [id |-> RPL.id, version |-> RPL.version]
           /\ Range(mods') = Range(mods) \cup {[id |-> RPL.id, version |-> RPL.version]}
<1> DEFINE m == [id |-> RPL.id, version |-> RPL.version]
<1>1. cur \in Files /\ mods \in Seq(ModSet)
      BY DEF Identify, TypeOK, ControlTypeOK, ListsTypeOK, LoadPCs
<1>2. m \in ModSet /\ mods' = Append(mods, m)
      BY <1>1 DEF ModSet, Identify, RPL
<1> HIDE DEF m
<1>3. /\ DOMAIN mods' = DOMAIN mods \cup {Len(mods) + 1}
      /\ DOMAIN mods = 1 .. Len(mods) /\ Len(mods) \in Nat
      /\ \A i \in DOMAIN mods : mods'[i] = mods[i]
      /\ mods'[Len(mods) + 1] = m
      /\ Range(mods') = Range(mods) \cup {m}
      BY <1>1, <1>2, AppendElements
<1> QED BY <1>3 DEF m

\* A mod that is installed stays installed, and so is the one that is identified.
LEMMA InstalledStays ==
    ASSUME TypeOK, Identify
    PROVE  /\ \A id : Installed(id) => Installed(id)'
           /\ Installed(RPL.id)'
<1>1. RPL' = RPL
      BY DEF Identify, RPL, fileVars
<1>2. [id |-> RPL.id, version |-> RPL.version].id = RPL.id
      OBVIOUS
<1> QED BY <1>1, <1>2, IdentifyAppends DEF Installed, SameId

\* Six actions touch the start functions, what has started or the mods. The others
\* neither go back to before the looking up nor to before the validation.
LEMMA StartQuiet ==
    ASSUME TypeOK, [Next]_vars
    PROVE  \/ EnterInit \/ Identify \/ AsCoreAPI \/ AsCoreMod \/ AsStandard \/ RunStart
           \/ /\ UNCHANGED <<mods, started, startVars, ran, initialized>>
              /\ WaitingToStart' => WaitingToStart /\ cur' = cur
              /\ Preparing' => Preparing
<1> DEFINE Quiet == /\ UNCHANGED <<mods, started, startVars, ran, initialized>>
                    /\ WaitingToStart' => WaitingToStart /\ cur' = cur
                    /\ Preparing' => Preparing
<1> USE DEF Preparing, LoadPCs, WaitingToStart, gameVars, doneVars, fileVars
<1>1. CASE ReenterInit \/ Allocate \/ OpenDirs \/ EndPass
      BY <1>1 DEF ReenterInit, Allocate, OpenDirs, EndPass
<1>2. ASSUME NEW f \in Files, ReadDir(f) PROVE Quiet
      BY <1>2 DEF ReadDir
<1>3. CASE ReadManifest \/ FindHooks \/ ReadHook \/ LoadDone
      BY <1>3 DEF ReadManifest, FindHooks, ReadHook, LoadDone
<1>4. CASE AsOther
      BY <1>4 DEF AsOther, Fatal
<1>5. CASE LoadFails
      BY <1>5 DEF LoadFails, BreakPass, Fatal
<1>6. CASE CheckMods \/ RefuseMods \/ ScanHooks
      BY <1>6 DEF CheckMods, RefuseMods, ScanHooks, Fatal
<1>7. CASE ApplyHook \/ ApplyFails \/ ApplyDone \/ Finish
      BY <1>7 DEF ApplyHook, ApplyFails, ApplyDone, Finish, Fatal
<1>8. CASE UNCHANGED vars
      BY <1>8 DEF vars
<1> QED BY <1>1, <1>2, <1>3, <1>4, <1>5, <1>6, <1>7, <1>8
        DEF Next, InitStep, LoadStep, Stopped

\* A file whose start function has been looked up and found.
LEMMA StarterIsRecorded ==
    ASSUME StartsInv, pc = "classify", pc' \notin {"manifest", "classify"},
           UNCHANGED <<mods, started, ran, initialized>>,
           \/ /\ RPL.type = "CoreAPI" /\ apiStart' = cur /\ stdStarts' = stdStarts
           \/ /\ RPL.type # "CoreAPI" /\ apiStart' = apiStart
              /\ stdStarts' = Append(stdStarts, cur)
           \/ apiStart' = apiStart /\ stdStarts' = stdStarts
    PROVE  (StartsInstalled /\ StartsSorted /\ StartsPlaced /\ StartedPrefix)'
<1> USE DEF StartsInv
<1>1. cur \in Files /\ stdStarts \in Seq(Files)
      BY DEF TypeOK, ControlTypeOK, ListsTypeOK, LoadPCs
<1>2. Installed(RPL.id) /\ cur \notin Starters
      BY DEF StartsInstalled, WaitingToStart
<1>3. /\ Range(Append(stdStarts, cur)) = Range(stdStarts) \cup {cur}
      /\ IsInjective(Append(stdStarts, cur))
      <2>1. IsInjective(stdStarts) /\ cur \notin Range(stdStarts)
            BY <1>2 DEF StartsSorted, Starters
      <2>2. Range(Append(stdStarts, cur)) = Range(stdStarts) \cup {cur}
            BY <1>1, AppendElements
      <2> QED BY <1>1, <2>1, <2>2, AppendKeepsDistinct, Zenon
<1>4. \A f \in Starters' : f \in Starters \/ f = cur
      BY <1>3 DEF Starters
<1>5. \A id : Installed(id)' <=> Installed(id)
      BY DEF Installed, SameId
<1>6. StartsInstalled'
      BY <1>2, <1>4, <1>5 DEF StartsInstalled, WaitingToStart, RPL
<1>7. StartsSorted'
      BY <1>3 DEF StartsSorted, RPL
<1>8. StartedPrefix'
      <2>1. ran = 0
            BY DEF StartedPrefix, Preparing, LoadPCs
      <2> QED BY <2>1 DEF StartedPrefix
<1>9. StartsPlaced'
      <2>1. ~WaitingToStart'
            BY DEF WaitingToStart
      <2>2. /\ \A f \in Range(stdStarts) \cup {cur} : \E a \in DOMAIN mods : mods[a].id = Image[f].id
            /\ \A f \in Range(stdStarts) : InstalledBefore(f, cur)
            BY DEF StartsPlaced, WaitingToStart, RPL
      <2>3. \A f, g : InstalledBefore(f, g)' <=> InstalledBefore(f, g)
            BY DEF InstalledBefore
      <2>4. CASE stdStarts' = stdStarts
            BY <2>1, <2>2, <2>3, <2>4 DEF StartsPlaced
      <2>5. CASE stdStarts' = Append(stdStarts, cur)
            <3>1. /\ DOMAIN stdStarts' = DOMAIN stdStarts \cup {Len(stdStarts) + 1}
                  /\ DOMAIN stdStarts = 1 .. Len(stdStarts) /\ Len(stdStarts) \in Nat
                  /\ \A i \in DOMAIN stdStarts : stdStarts'[i] = stdStarts[i]
                  /\ stdStarts'[Len(stdStarts) + 1] = cur
                  BY <1>1, <2>5, AppendElements
            <3>2. \A i, j \in DOMAIN stdStarts' : i < j =>
                      /\ i \in DOMAIN stdStarts
                      /\ j \in DOMAIN stdStarts \/ j = Len(stdStarts) + 1
                  BY <3>1
            <3>3. \A i \in DOMAIN stdStarts : stdStarts[i] \in Range(stdStarts)
                  BY DEF Range
            <3>4. \A i, j \in DOMAIN stdStarts' : i < j =>
                      InstalledBefore(stdStarts'[i], stdStarts'[j])
                  BY <2>2, <3>1, <3>2, <3>3 DEF StartsPlaced
            <3> QED BY <1>3, <2>1, <2>2, <2>3, <2>5, <3>4 DEF StartsPlaced
      <2> QED BY <2>4, <2>5
<1> QED BY <1>6, <1>7, <1>8, <1>9

\* Every step keeps the starts in order.
LEMMA StartsStep == StartsInv /\ [Next]_vars => StartsInv'
<1> SUFFICES ASSUME StartsInv, [Next]_vars
             PROVE  (StartsInstalled /\ StartsSorted /\ StartsPlaced /\ StartedPrefix)'
    BY TypeStep, FirstCallStep DEF StartsInv
<1> USE DEF StartsInv
<1>1. CASE EnterInit
      <2>1. /\ apiStart' = NoFile /\ stdStarts' = <<>> /\ started' = <<>> /\ ran' = 0
            /\ pc' = "alloc"
            BY <1>1 DEF EnterInit, MayEnter, StartedPrefix, gameVars
      <2>2. Starters' = {} /\ Range(stdStarts') = {}
            BY <2>1 DEF Starters, Range
      <2> QED BY <2>1, <2>2
              DEF StartsInstalled, StartsSorted, StartsPlaced, StartedPrefix, WaitingToStart,
                  IsInjective
<1>2. CASE Identify
      <2>1. /\ UNCHANGED <<apiStart, stdStarts, started, ran, initialized, cur>>
            /\ pc = "identify" /\ pc' = "manifest"
            BY <1>2 DEF Identify, startVars, gameVars, doneVars, fileVars
      <2>2. (\A id : Installed(id) => Installed(id)') /\ Installed(RPL.id)'
            BY <1>2, InstalledStays
      <2>5. Starters' = Starters /\ cur \notin Starters
            BY <1>2, <2>1 DEF Starters, Identify, Identifiable, StartsInstalled, RPL
      <2>6. StartsInstalled'
            BY <2>1, <2>2, <2>5 DEF StartsInstalled, RPL
      <2>7. StartedPrefix'
            BY <2>1 DEF StartedPrefix, Preparing, LoadPCs, StartOrder
      <2>8. StartsPlaced'
            <3>1. /\ DOMAIN mods' = DOMAIN mods \cup {Len(mods) + 1}
                  /\ DOMAIN mods = 1 .. Len(mods) /\ Len(mods) \in Nat
                  /\ \A i \in DOMAIN mods : mods'[i] = mods[i]
                  /\ mods'[Len(mods) + 1].id = Image[cur].id
                  BY <1>2, IdentifyAppends DEF RPL
            <3>2. \A f, g : InstalledBefore(f, g) => InstalledBefore(f, g)'
                  BY <3>1 DEF InstalledBefore
            <3>3. \A f : (\E a \in DOMAIN mods : mods[a].id = Image[f].id) =>
                             InstalledBefore(f, cur)'
                  BY <2>1, <3>1 DEF InstalledBefore
            <3> QED BY <2>1, <3>1, <3>2, <3>3 DEF StartsPlaced, RPL
      <2> QED BY <2>1, <2>6, <2>7, <2>8 DEF StartsSorted
<1>3. CASE AsCoreAPI
      BY <1>3, StarterIsRecorded DEF AsCoreAPI, BreakPass, Fatal, gameVars, doneVars
<1>4. CASE AsCoreMod
      BY <1>4, StarterIsRecorded DEF AsCoreMod, BreakPass, Fatal, gameVars, doneVars
<1>5. CASE AsStandard
      BY <1>5, StarterIsRecorded DEF AsStandard, gameVars, doneVars
<1>6. CASE RunStart
      <2>1. /\ UNCHANGED <<mods, apiStart, stdStarts, initialized>>
            /\ pc = "run" /\ pc' = "run" /\ ran < Len(StartOrder) /\ ran' = ran + 1
            /\ started' = Append(started, StartOrder[ran + 1])
            BY <1>6 DEF RunStart, startVars
      <2>2. ran \in Nat /\ StartOrder \in Seq(Files) /\ started \in Seq(Files)
            BY OrdersAreTyped DEF TypeOK, ListsTypeOK, ConsoleTypeOK
      <2>3. StartOrder[ran + 1] \in Files /\ StartOrder' = StartOrder
            BY <2>1, <2>2 DEF StartOrder
      <2>4. initialized
            BY <2>1 DEF FirstCall
      <2>5. Len(started') = ran' /\ \A i \in 1 .. ran' : started'[i] = StartOrder[i]
            BY <2>1, <2>2, <2>3, AppendElements DEF StartedPrefix
      <2>6. StartedPrefix'
            BY <2>1, <2>3, <2>4, <2>5 DEF StartedPrefix, Preparing, LoadPCs
      <2> QED BY <2>1, <2>6
              DEF StartsInstalled, StartsSorted, StartsPlaced, InstalledBefore, Starters,
                  WaitingToStart, Installed, SameId
<1>7. CASE /\ UNCHANGED <<mods, started, startVars, ran, initialized>>
           /\ WaitingToStart' => WaitingToStart /\ cur' = cur
           /\ Preparing' => Preparing
      <2>1. UNCHANGED <<apiStart, stdStarts>>
            BY <1>7 DEF startVars
      <2>2. Starters' = Starters /\ StartOrder' = StartOrder
            BY <2>1 DEF Starters, StartOrder
      <2>3. StartsInstalled'
            BY <1>7, <2>2 DEF StartsInstalled, Installed, SameId, RPL
      <2>4. StartedPrefix'
            BY <1>7, <2>2 DEF StartedPrefix
      <2>5. StartsPlaced'
            BY <1>7, <2>1 DEF StartsPlaced, InstalledBefore, RPL
      <2> QED BY <2>1, <2>3, <2>4, <2>5 DEF StartsSorted
<1> QED BY <1>1, <1>2, <1>3, <1>4, <1>5, <1>6, <1>7, StartQuiet

\* No file is twice in the order of the starts, a CoreAPI is its head, and behind it
\* they are as they were installed.
LEMMA StartOrderIsSorted ==
    ASSUME StartsInv
    PROVE  /\ IsInjective(StartOrder)
           /\ \A i \in DOMAIN StartOrder : Image[StartOrder[i]].type = "CoreAPI" => i = 1
           /\ \A i, j \in DOMAIN StartOrder :
                  i < j /\ Image[StartOrder[i]].type # "CoreAPI" =>
                      InstalledBefore(StartOrder[i], StartOrder[j])
<1>1. /\ stdStarts \in Seq(Files) /\ DOMAIN stdStarts = 1 .. Len(stdStarts)
      /\ Len(stdStarts) \in Nat /\ IsInjective(stdStarts)
      /\ \A i \in DOMAIN stdStarts : Image[stdStarts[i]].type # "CoreAPI"
      /\ \A i, j \in DOMAIN stdStarts : i < j => InstalledBefore(stdStarts[i], stdStarts[j])
      BY DEF StartsInv, TypeOK, ListsTypeOK, StartsSorted, StartsPlaced, Range
<1>2. CASE apiStart = NoFile
      <2>1. StartOrder = stdStarts
            BY <1>1, <1>2 DEF StartOrder
      <2> QED BY <1>1, <2>1
<1>3. CASE apiStart # NoFile
      <2>1. StartOrder = <<apiStart>> \o stdStarts /\ Image[apiStart].type = "CoreAPI"
            BY <1>3 DEF StartOrder, StartsInv, StartsSorted
      <2>2. /\ DOMAIN StartOrder = 1 .. Len(stdStarts) + 1 /\ StartOrder[1] = apiStart
            /\ \A i \in 2 .. Len(stdStarts) + 1 : StartOrder[i] = stdStarts[i - 1]
            BY <1>1, <2>1
      <2>3. \A i \in DOMAIN StartOrder : \/ i = 1
                                         \/ i - 1 \in DOMAIN stdStarts /\ i \in 2 .. Len(stdStarts) + 1
            BY <1>1, <2>2
      <2>4. \A i \in DOMAIN StartOrder : Image[StartOrder[i]].type = "CoreAPI" => i = 1
            BY <1>1, <2>2, <2>3
      <2>5. \A i, j \in DOMAIN StartOrder : StartOrder[i] = StartOrder[j] => i = j
            BY <1>1, <2>1, <2>2, <2>3, <2>4 DEF IsInjective
      <2>6. ASSUME NEW i \in DOMAIN StartOrder, NEW j \in DOMAIN StartOrder, i < j,
                   Image[StartOrder[i]].type # "CoreAPI"
            PROVE  InstalledBefore(StartOrder[i], StartOrder[j])
            <3>1. i # 1 /\ j # 1
                  BY <2>1, <2>2, <2>6
            <3>2. /\ i - 1 \in DOMAIN stdStarts /\ StartOrder[i] = stdStarts[i - 1]
                  /\ j - 1 \in DOMAIN stdStarts /\ StartOrder[j] = stdStarts[j - 1]
                  BY <2>2, <2>3, <3>1
            <3>3. i - 1 < j - 1
                  BY <2>2, <2>6
            <3> QED BY <1>1, <3>2, <3>3
      <2> QED BY <2>4, <2>5, <2>6 DEF IsInjective
<1> QED BY <1>2, <1>3

\* The starts are in order before the first call of init.
LEMMA InitStarts == Init => StartsInv
<1> SUFFICES ASSUME Init PROVE StartsInv
    OBVIOUS
<1>1. /\ apiStart = NoFile /\ stdStarts = <<>> /\ started = <<>> /\ ran = 0
      /\ pc = "idle" /\ mods = <<>>
      BY DEF Init
<1>2. Starters = {} /\ Range(stdStarts) = {}
      BY <1>1 DEF Starters, Range
<1> QED BY <1>1, <1>2, InitType
        DEF StartsInv, FirstCall, StartsInstalled, StartsSorted, StartsPlaced, StartedPrefix,
            WaitingToStart, IsInjective, Preparing, LoadPCs

\* The CoreAPI starts before all others, these start in the order they were installed
\* in, and no file starts twice, whichever order the directories are listed in, however often init is called, and whether or not
\* OSFatal ends the application.
THEOREM StartsAreInOrder == Spec => []StartsInOrder
<1>2. StartsInv => StartsInOrder    \* started is a prefix of StartOrder
      <2> SUFFICES ASSUME StartsInv PROVE StartsInOrder
          OBVIOUS
      <2>1. /\ ran \in Nat /\ ran <= Len(StartOrder) /\ StartOrder \in Seq(Files)
            /\ started \in Seq(Files)
            BY OrdersAreTyped DEF StartsInv, TypeOK, ListsTypeOK, ConsoleTypeOK
      <2>2. \A i \in DOMAIN started : i \in DOMAIN StartOrder /\ started[i] = StartOrder[i]
            BY <2>1 DEF StartsInv, StartedPrefix
      <2> QED BY <2>2, StartOrderIsSorted DEF StartsInOrder, IsInjective
<1> QED BY <1>2, InitStarts, StartsStep, PTL DEF Spec

----------------------------------------------------------------------------
(* Entries *)

\* A list in which no hook has two entries.
OnePerHook(s) == \A i, j \in DOMAIN s : s[i].ptr = s[j].ptr => i = j

\* The hooks on the lists are those of installed mods, and of the file that is
\* being loaded only those before the next one.
BeforeHooks == pc \in {"manifest", "classify", "hooks"}
EntriesInstalled ==
    /\ BeforeHooks \/ pc = "read" => Installed(RPL.id)
    /\ \A e \in Range(allHooks) :
           /\ Installed(Image[e.ptr[1]].id)
           /\ BeforeHooks => e.ptr[1] # cur
           /\ pc = "read" /\ e.ptr[1] = cur => e.ptr[2] < next

\* Hooks of a CoreAPI are kept apart from the others, and no hook is listed twice.
EntriesOnce ==
    /\ OnePerHook(allHooks) /\ OnePerHook(apiHooks) /\ OnePerHook(stdHooks)
    /\ \A e \in Range(apiHooks) : Image[e.ptr[1]].type = "CoreAPI"
    /\ \A e \in Range(stdHooks) : Image[e.ptr[1]].type # "CoreAPI"

EntriesInv == TypeOK /\ FirstCall /\ HookListsAgree /\ EntriesInstalled /\ EntriesOnce

\* Four actions touch the hook lists or the mods. The others neither go back to
\* before the hooks of a file are read nor read one.
LEMMA EntryQuiet ==
    ASSUME TypeOK, [Next]_vars
    PROVE  \/ EnterInit \/ Identify \/ ReadHook \/ ScanHooks
           \/ /\ UNCHANGED <<mods, hookVars>>
              /\ BeforeHooks' => BeforeHooks /\ cur' = cur
              /\ pc' = "read" => /\ cur' = cur
                                 /\ BeforeHooks \/ (pc = "read" /\ next' = next)
<1> DEFINE Quiet == /\ UNCHANGED <<mods, hookVars>>
                    /\ BeforeHooks' => BeforeHooks /\ cur' = cur
                    /\ pc' = "read" => /\ cur' = cur
                                       /\ BeforeHooks \/ (pc = "read" /\ next' = next)
<1> USE DEF BeforeHooks, fileVars
<1>1. CASE ReenterInit \/ Allocate \/ OpenDirs \/ EndPass
      BY <1>1 DEF ReenterInit, Allocate, OpenDirs, EndPass
<1>2. ASSUME NEW f \in Files, ReadDir(f) PROVE Quiet
      BY <1>2 DEF ReadDir
<1>3. CASE ReadManifest \/ FindHooks \/ LoadDone
      BY <1>3 DEF ReadManifest, FindHooks, LoadDone
<1>4. CASE AsCoreAPI \/ AsCoreMod
      BY <1>4 DEF AsCoreAPI, AsCoreMod, BreakPass, Fatal
<1>5. CASE AsStandard \/ AsOther
      BY <1>5 DEF AsStandard, AsOther, Fatal
<1>6. CASE LoadFails
      BY <1>6 DEF LoadFails, BreakPass, Fatal
<1>7. CASE CheckMods \/ RefuseMods
      BY <1>7 DEF CheckMods, RefuseMods, Fatal
<1>8. CASE ApplyHook \/ ApplyFails \/ ApplyDone \/ RunStart \/ Finish
      BY <1>8 DEF ApplyHook, ApplyFails, ApplyDone, RunStart, Finish, Fatal
<1>9. CASE UNCHANGED vars
      BY <1>9 DEF vars
<1> QED BY <1>1, <1>2, <1>3, <1>4, <1>5, <1>6, <1>7, <1>8, <1>9
        DEF Next, InitStep, LoadStep, Stopped

\* Appending the entry of a new hook keeps one entry per hook.
LEMMA AppendKeepsOne ==
    ASSUME NEW S, NEW s \in Seq(S), NEW e \in S, OnePerHook(s),
           \A g \in Range(s) : g.ptr # e.ptr
    PROVE  OnePerHook(Append(s, e))
<1> DEFINE t == Append(s, e)
<1>1. \A i \in DOMAIN s : s[i].ptr # e.ptr
      BY DEF Range
<1>2. /\ DOMAIN t = DOMAIN s \cup {Len(s) + 1}
      /\ \A i \in DOMAIN s : t[i] = s[i]
      /\ t[Len(s) + 1] = e
      BY AppendElements
<1> HIDE DEF t
<1>3. OnePerHook(t)
      BY <1>1, <1>2 DEF OnePerHook
<1> QED BY <1>3 DEF t

\* Sorting keeps one entry per hook.
LEMMA SortKeepsOne ==
    ASSUME NEW hooks, NEW s \in SortedOrders(hooks), OnePerHook(hooks)
    PROVE  OnePerHook(s)
<1>1. PICK p : Permutes(p, hooks, s)
      BY SortPermutes
<1>2. /\ DOMAIN s = DOMAIN hooks
      /\ \A i \in DOMAIN hooks : p[i] \in DOMAIN hooks /\ s[i] = hooks[p[i]]
      /\ \A i, j \in DOMAIN hooks : i # j => p[i] # p[j]
      BY <1>1 DEF Permutes
<1> SUFFICES ASSUME NEW i \in DOMAIN hooks, NEW j \in DOMAIN hooks, s[i].ptr = s[j].ptr
             PROVE  i = j
    BY <1>2 DEF OnePerHook
<1>3. hooks[p[i]].ptr = hooks[p[j]].ptr /\ p[i] \in DOMAIN hooks /\ p[j] \in DOMAIN hooks
      BY <1>2
<1>4. p[i] = p[j]
      BY <1>3 DEF OnePerHook
<1> QED BY <1>2, <1>4

\* A hook that is read was not on any list.
LEMMA ReadHookIsNew ==
    ASSUME EntriesInv, ReadHook
    PROVE  (EntriesInstalled /\ EntriesOnce)'
<1> USE DEF EntriesInv
<1> DEFINE e == Entry(RPL.hooks[next], <<cur, next>>, RPL.id)
<1>1. /\ cur \in Files /\ next \in Nat /\ next \in DOMAIN Image[cur].hooks
      /\ pc = "read" /\ pc' = pc /\ UNCHANGED <<mods, cur>> /\ next' = next + 1
      BY ImageAssumption DEF ReadHook, TypeOK, ControlTypeOK, LoadPCs, RPL
<1>2. e \in EntrySet
      BY <1>1, EntryIsTyped DEF RPL
<1>3. e.ptr = <<cur, next>>
      BY DEF Entry
<1>4. /\ apiHooks \in Seq(EntrySet) /\ stdHooks \in Seq(EntrySet) /\ allHooks \in Seq(EntrySet)
      /\ Range(allHooks) = Range(apiHooks) \cup Range(stdHooks)
      /\ Range(allHooks) \subseteq EntrySet
      BY RangeOfSeq DEF TypeOK, ListsTypeOK, HookListsAgree
<1>5. \A g \in Range(allHooks) : g.ptr # e.ptr
      BY <1>1, <1>3 DEF EntriesInstalled
<1>6. \/ UNCHANGED <<apiHooks, stdHooks, allHooks>>
      \/ /\ RPL.type = "CoreAPI" /\ apiHooks' = Append(apiHooks, e) /\ stdHooks' = stdHooks
         /\ allHooks' = Append(allHooks, e)
      \/ /\ RPL.type # "CoreAPI" /\ apiHooks' = apiHooks /\ stdHooks' = Append(stdHooks, e)
         /\ allHooks' = Append(allHooks, e)
      BY DEF ReadHook, AppendIf, Listed, Scanned
<1> HIDE DEF e
<1>7. \A s \in Seq(EntrySet) : Range(Append(s, e)) = Range(s) \cup {e}
      BY <1>2, AppendElements
<1>8. /\ OnePerHook(Append(allHooks, e))
      /\ OnePerHook(Append(apiHooks, e))
      /\ OnePerHook(Append(stdHooks, e))
      <2>1. OnePerHook(Append(allHooks, e))
            BY <1>2, <1>4, <1>5, AppendKeepsOne DEF EntriesOnce
      <2>2. OnePerHook(Append(apiHooks, e))
            BY <1>2, <1>4, <1>5, AppendKeepsOne DEF EntriesOnce
      <2>3. OnePerHook(Append(stdHooks, e))
            BY <1>2, <1>4, <1>5, AppendKeepsOne DEF EntriesOnce
      <2> QED BY <2>1, <2>2, <2>3
<1>9. EntriesOnce'
      <2>1. CASE UNCHANGED <<apiHooks, stdHooks, allHooks>>
            BY <2>1 DEF EntriesOnce
      <2>2. CASE /\ RPL.type = "CoreAPI" /\ apiHooks' = Append(apiHooks, e)
                 /\ stdHooks' = stdHooks /\ allHooks' = Append(allHooks, e)
            <3>1. \A g \in Range(apiHooks') : g \in Range(apiHooks) \/ g = e
                  BY <1>4, <1>7, <2>2
            <3> QED BY <1>3, <1>8, <2>2, <3>1 DEF EntriesOnce, RPL
      <2>3. CASE /\ RPL.type # "CoreAPI" /\ apiHooks' = apiHooks
                 /\ stdHooks' = Append(stdHooks, e) /\ allHooks' = Append(allHooks, e)
            <3>1. \A g \in Range(stdHooks') : g \in Range(stdHooks) \/ g = e
                  BY <1>4, <1>7, <2>3
            <3> QED BY <1>3, <1>8, <2>3, <3>1 DEF EntriesOnce, RPL
      <2> QED BY <1>6, <2>1, <2>2, <2>3
<1>10. EntriesInstalled'
      <2>1. \A g \in Range(allHooks') : g \in Range(allHooks) \/ g = e
            BY <1>4, <1>6, <1>7
      <2>2. \A id : Installed(id)' <=> Installed(id)
            BY <1>1 DEF Installed, SameId
      <2>3. \A g \in Range(allHooks) : g.ptr[2] \in Nat
            BY <1>4 DEF EntrySet, PtrSet
      <2>4. RPL' = RPL /\ Installed(RPL.id)
            BY <1>1 DEF RPL, EntriesInstalled
      <2>5. \A g \in Range(allHooks') : g.ptr[1] = cur => g.ptr[2] < next + 1
            BY <1>1, <1>3, <2>1, <2>3 DEF EntriesInstalled
      <2>6. \A g \in Range(allHooks') : Installed(Image[g.ptr[1]].id)
            BY <1>3, <2>1, <2>4 DEF EntriesInstalled, RPL
      <2> QED BY <1>1, <2>2, <2>4, <2>5, <2>6 DEF EntriesInstalled, BeforeHooks
<1> QED BY <1>9, <1>10

\* Every step keeps the entries apart.
LEMMA EntriesStep == EntriesInv /\ HookListsAgree' /\ [Next]_vars => EntriesInv'
<1> SUFFICES ASSUME EntriesInv, [Next]_vars PROVE (EntriesInstalled /\ EntriesOnce)'
    BY TypeStep, FirstCallStep DEF EntriesInv
<1> USE DEF EntriesInv
<1>1. CASE EnterInit
      <2>1. /\ apiHooks' = <<>> /\ stdHooks' = <<>> /\ allHooks' = <<>> /\ pc' = "alloc"
            BY <1>1 DEF EnterInit
      <2>2. Range(<<>>) = {}
            BY DEF Range
      <2> QED BY <2>1, <2>2 DEF EntriesInstalled, EntriesOnce, OnePerHook, BeforeHooks
<1>2. CASE Identify
      <2>1. /\ UNCHANGED <<apiHooks, stdHooks, allHooks, cur>>
            /\ pc = "identify" /\ pc' = "manifest" /\ ~Installed(RPL.id)
            BY <1>2 DEF Identify, Identifiable, hookVars, fileVars
      <2>2. (\A id : Installed(id) => Installed(id)') /\ Installed(RPL.id)'
            BY <1>2, InstalledStays
      <2>3. \A e \in Range(allHooks) : e.ptr[1] # cur
            BY <2>1 DEF EntriesInstalled, RPL
      <2> QED BY <2>1, <2>2, <2>3 DEF EntriesInstalled, EntriesOnce, BeforeHooks, RPL
<1>3. CASE ReadHook
      BY <1>3, ReadHookIsNew
<1>4. CASE ScanHooks
      <2>1. /\ UNCHANGED <<apiHooks, stdHooks, mods>>
            /\ pc' \in {"apply", "idle", "haltedLoading"}
            /\ allHooks' \in SortedOrders(allHooks)
            BY <1>4 DEF ScanHooks, Fatal
      <2>2. OnePerHook(allHooks') /\ Range(allHooks') = Range(allHooks)
            BY <2>1, SortKeepsOne, SortKeepsRange DEF EntriesOnce
      <2>3. \A id : Installed(id)' <=> Installed(id)
            BY <2>1 DEF Installed, SameId
      <2> QED BY <2>1, <2>2, <2>3 DEF EntriesInstalled, EntriesOnce, BeforeHooks
<1>5. CASE /\ UNCHANGED <<mods, hookVars>>
           /\ BeforeHooks' => BeforeHooks /\ cur' = cur
           /\ pc' = "read" => /\ cur' = cur
                              /\ BeforeHooks \/ (pc = "read" /\ next' = next)
      <2>1. UNCHANGED <<apiHooks, stdHooks, allHooks>>
            BY <1>5 DEF hookVars
      <2>2. \A id : Installed(id)' <=> Installed(id)
            BY <1>5 DEF Installed, SameId
      <2>3. cur' = cur => RPL' = RPL
            BY DEF RPL
      <2>4. EntriesInstalled'
            BY <1>5, <2>1, <2>2, <2>3 DEF EntriesInstalled
      <2> QED BY <2>1, <2>4 DEF EntriesOnce
<1> QED BY <1>1, <1>2, <1>3, <1>4, <1>5, EntryQuiet

\* They are apart before the first call of init.
LEMMA InitEntries == Init => EntriesInstalled /\ EntriesOnce
<1> SUFFICES ASSUME Init PROVE EntriesInstalled /\ EntriesOnce
    OBVIOUS
<1>1. apiHooks = <<>> /\ stdHooks = <<>> /\ allHooks = <<>> /\ pc = "idle"
      BY DEF Init
<1>2. Range(<<>>) = {}
      BY DEF Range
<1> QED BY <1>1, <1>2 DEF EntriesInstalled, EntriesOnce, OnePerHook, BeforeHooks

\* No hook is applied twice.
LEMMA ApplyOrderIsOnce == EntriesInv => OnePerHook(ApplyOrder)
<1> SUFFICES ASSUME EntriesInv PROVE OnePerHook(ApplyOrder)
    OBVIOUS
<1>1. /\ apiHooks \in Seq(EntrySet) /\ stdHooks \in Seq(EntrySet)
      /\ Len(apiHooks) \in Nat /\ Len(stdHooks) \in Nat
      /\ DOMAIN apiHooks = 1 .. Len(apiHooks) /\ DOMAIN stdHooks = 1 .. Len(stdHooks)
      BY DEF EntriesInv, TypeOK, ListsTypeOK
<1>2. /\ DOMAIN ApplyOrder = 1 .. Len(apiHooks) + Len(stdHooks)
      /\ \A i \in 1 .. Len(apiHooks) + Len(stdHooks) :
             ApplyOrder[i] = IF i <= Len(apiHooks) THEN apiHooks[i]
                             ELSE stdHooks[i - Len(apiHooks)]
      BY <1>1 DEF ApplyOrder
<1>3. /\ \A i \in DOMAIN apiHooks : Image[apiHooks[i].ptr[1]].type = "CoreAPI"
      /\ \A i \in DOMAIN stdHooks : Image[stdHooks[i].ptr[1]].type # "CoreAPI"
      BY DEF EntriesInv, EntriesOnce, Range
<1> SUFFICES ASSUME NEW i \in DOMAIN ApplyOrder, NEW j \in DOMAIN ApplyOrder,
                    ApplyOrder[i].ptr = ApplyOrder[j].ptr
             PROVE  i = j
    BY DEF OnePerHook
<1>4. \A k \in DOMAIN ApplyOrder :
          \/ k \in DOMAIN apiHooks /\ ApplyOrder[k] = apiHooks[k]
          \/ /\ k > Len(apiHooks) /\ k - Len(apiHooks) \in DOMAIN stdHooks
             /\ ApplyOrder[k] = stdHooks[k - Len(apiHooks)]
      BY <1>1, <1>2
<1>5. CASE i \in DOMAIN apiHooks /\ j \in DOMAIN apiHooks
      BY <1>1, <1>4, <1>5 DEF EntriesInv, EntriesOnce, OnePerHook
<1>6. CASE i \notin DOMAIN apiHooks /\ j \notin DOMAIN apiHooks
      <2>1. i - Len(apiHooks) = j - Len(apiHooks)
            BY <1>4, <1>6 DEF EntriesInv, EntriesOnce, OnePerHook
      <2> QED BY <1>1, <1>2, <2>1
<1> QED BY <1>1, <1>3, <1>4, <1>5, <1>6

----------------------------------------------------------------------------
(* The refinement *)

RefinementInv == PatchInv /\ StartsInv /\ EntriesInv

\* The stage of the injection, by the control state of the loader.
StageMatches ==
    /\ pc = "apply" => StageOf = "patching" /\ Committed
    /\ pc = "run" => StageOf = "running" /\ Committed
    /\ Halted \/ (pc = "idle" /\ initialized) => StageOf = "stopped" /\ ~Committed
    /\ Preparing \/ (pc = "idle" /\ ~initialized) => StageOf = "loading" /\ ~Committed

\* The program counter alone tells the stage.
LEMMA StageByControl == StageMatches
<1> USE DEF StageMatches, StageOf, Committed, Halted, Preparing, LoadPCs
<1>1. CASE pc = "apply"
      BY <1>1
<1>2. CASE pc = "run"
      BY <1>2
<1>3. CASE pc \notin {"apply", "run"}
      BY <1>3
<1> QED BY <1>1, <1>2, <1>3

\* It does so before and after a step.
LEMMA StagesMatch == StageMatches /\ StageMatches'
BY StageByControl, PTL

\* The plan of the injection is what is applied, in that order.
LEMMA PlanIsOrder ==
    ASSUME TypeOK, Committed
    PROVE  /\ DOMAIN Plan = DOMAIN ApplyOrder /\ Len(Plan) = Len(ApplyOrder)
           /\ \A i \in DOMAIN ApplyOrder : Plan[i] = ApplyOrder[i].ptr
<1>1. ApplyOrder \in Seq(EntrySet) /\ DOMAIN ApplyOrder = 1 .. Len(ApplyOrder)
      BY OrdersAreTyped DEF TypeOK
<1>2. Plan = [i \in 1 .. Len(ApplyOrder) |-> ApplyOrder[i].ptr]
      BY <1>1 DEF Plan
<1> QED BY <1>1, <1>2

\* Once the hooks are validated, the plan is one that Injection may commit to.
PlanMatches ==
    WritesInv /\ EntriesInv /\ pc \in {"apply", "run"} => Abstract!Compatible(Plan)

\* Once the scan has passed, the plan is one Injection may commit to.
LEMMA PlanMayBeCommitted == PlanMatches
<1> SUFFICES ASSUME WritesInv, EntriesInv, pc \in {"apply", "run"}
             PROVE  Abstract!Compatible(Plan)
    BY DEF PlanMatches
<1>1. TypeOK /\ Committed /\ ApplyOrder \in Seq(EntrySet)
      BY OrdersAreTyped DEF WritesInv, Committed, TypeOK
<1> SUFFICES ASSUME NEW i \in DOMAIN ApplyOrder, NEW j \in DOMAIN ApplyOrder, i # j
             PROVE  CoversOf(Plan[i]) \cap CoversOf(Plan[j]) = {}
    BY <1>1, PlanIsOrder DEF Abstract!Compatible
<1>2. ApplyOrder[i].ptr # ApplyOrder[j].ptr
      BY ApplyOrderIsOnce DEF OnePerHook
<1>3. Range(ApplyOrder) = Range(allHooks)
      BY <1>1, OrdersAreTyped DEF TypeOK, WritesInv, HookListsAgree
<1>4. ApplyOrder[i] \in Range(allHooks) /\ ApplyOrder[j] \in Range(allHooks)
      BY <1>3 DEF Range
<1>5. Disjoint(ApplyOrder[i], ApplyOrder[j])
      BY <1>2, <1>4 DEF WritesInv, PlanIsCompatible
<1>6. /\ CoversOf(Plan[i]) = Bytes(ApplyOrder[i])
      /\ CoversOf(Plan[j]) = Bytes(ApplyOrder[j])
      BY <1>1, <1>4, PlanIsOrder DEF WritesInv, EntriesFaithful, CoversOf
<1> QED BY <1>5, <1>6 DEF Disjoint

\* It is one after a step, too.
LEMMA PlanStaysCommitted == PlanMatches'
BY PlanMayBeCommitted, PTL

\* A step that Injection does not see.
LEMMA Stutters ==
    ASSUME UNCHANGED <<mem, started, apiHooks, stdHooks, applied>>,
           StageOf' = StageOf, Committed' = Committed
    PROVE  UNCHANGED Abstract!vars
<1>1. ApplyOrder' = ApplyOrder
      BY DEF ApplyOrder
<1>2. Plan' = Plan
      BY <1>1 DEF Plan
<1> QED BY <1>2 DEF Abstract!vars

\* A step that ends the injection.
LEMMA Stops ==
    ASSUME UNCHANGED <<mem, started>>, StageOf' = "stopped", ~Committed'
    PROVE  Abstract!Stop /\ UNCHANGED <<mem, started>>
BY DEF Abstract!Stop, Plan

\* While the directories are read, a step leaves the injection where it is or
\* refuses it.
LEMMA LoadingRefines ==
    ASSUME RefinementInv, Preparing \/ (pc = "idle" /\ ~initialized),
           UNCHANGED <<mem, started>>,
           Preparing' \/ Halted' \/ (pc' = "idle" /\ initialized')
    PROVE  Abstract!Refuse \/ UNCHANGED Abstract!vars
<1>1. StageOf = "loading" /\ ~Committed
      BY StagesMatch DEF StageMatches
<1>2. CASE Preparing'
      <2>1. StageOf' = "loading" /\ ~Committed'
            BY <1>2, StagesMatch DEF StageMatches
      <2>2. Plan' = <<>> /\ Plan = <<>>
            BY <1>1, <2>1 DEF Plan
      <2> QED BY <1>1, <2>1, <2>2 DEF Abstract!vars
<1>3. CASE Halted' \/ (pc' = "idle" /\ initialized')
      <2>1. StageOf' = "stopped" /\ ~Committed'
            BY <1>3, StagesMatch DEF StageMatches
      <2> QED BY <1>1, <2>1, Stops DEF Abstract!Refuse
<1> QED BY <1>2, <1>3

\* Where OSFatal halts, every step of the loader is a step of Injection.
LEMMA StepRefines ==
    ASSUME FatalHalts, RefinementInv, RefinementInv', [Next]_vars
    PROVE  [Abstract!Next]_(Abstract!vars)
<1>1. TypeOK /\ WritesInv /\ Stages /\ FirstCall
      BY DEF RefinementInv, PatchInv, WritesInv
<1> USE DEF gameVars, hookVars, doneVars
<1>2. CASE EnterInit
      <2>1. /\ pc = "idle" /\ ~initialized /\ pc' = "alloc"
            /\ UNCHANGED <<mem, started>>
            BY <1>2 DEF EnterInit, MayEnter
      <2> QED BY <2>1, LoadingRefines DEF Preparing, Abstract!Next
<1>3. CASE ReenterInit \/ UNCHANGED vars
      <2>1. UNCHANGED <<mem, started, apiHooks, stdHooks, applied, pc, initialized>>
            BY <1>3 DEF ReenterInit, vars
      <2>2. StageOf' = StageOf /\ Committed' = Committed
            BY <2>1 DEF StageOf, Committed, Halted
      <2> QED BY <2>1, <2>2, Stutters
<1>4. CASE Allocate \/ OpenDirs \/ EndPass \/ CheckMods \/ RefuseMods
      <2>1. /\ Preparing /\ UNCHANGED <<mem, started, initialized>>
            /\ Preparing' \/ Halted' \/ pc' = "idle"
            BY <1>4 DEF Allocate, OpenDirs, EndPass, CheckMods, RefuseMods, Fatal, Preparing,
                        Halted
      <2>2. initialized
            BY <1>1, <2>1 DEF FirstCall, Preparing, LoadPCs
      <2> QED BY <2>1, <2>2, LoadingRefines DEF Abstract!Next
<1>5. ASSUME NEW f \in Files, ReadDir(f) PROVE Abstract!Refuse \/ UNCHANGED Abstract!vars
      <2>1. Preparing /\ Preparing' /\ UNCHANGED <<mem, started>>
            BY <1>5 DEF ReadDir, Preparing, LoadPCs
      <2> QED BY <2>1, LoadingRefines DEF Abstract!Next
<1>6. CASE LoadStep
      <2>1. Preparing /\ UNCHANGED <<mem, started>> /\ (Preparing' \/ Halted')
            <3>1. CASE Identify \/ ReadManifest \/ FindHooks \/ ReadHook \/ LoadDone
                  BY <3>1 DEF Identify, ReadManifest, FindHooks, ReadHook, LoadDone, Preparing,
                              LoadPCs
            <3>2. CASE AsCoreAPI \/ AsCoreMod \/ AsStandard
                  BY <3>2 DEF AsCoreAPI, AsCoreMod, AsStandard, BreakPass, Fatal, Preparing,
                              LoadPCs, Halted
            <3>3. CASE AsOther \/ LoadFails
                  BY <3>3 DEF AsOther, LoadFails, BreakPass, Fatal, Preparing, LoadPCs, Halted
            <3> QED BY <1>6, <3>1, <3>2, <3>3 DEF LoadStep
      <2> QED BY <2>1, LoadingRefines DEF Abstract!Next
<1>7. CASE ScanHooks
      <2>1. Preparing /\ UNCHANGED <<mem, started, applied>>
            BY <1>7 DEF ScanHooks, Preparing
      <2>2. CASE pc' = "apply"
            <3>1. StageOf = "loading" /\ ~Committed /\ StageOf' = "patching" /\ Committed'
                  BY <2>1, <2>2, StagesMatch DEF StageMatches
            <3>2. applied = 0
                  BY <1>1, <2>1 DEF Stages
            <3>3. Abstract!Compatible(Plan)'
                  BY <2>2, PlanStaysCommitted DEF PlanMatches, RefinementInv, PatchInv
            <3> QED BY <2>1, <3>1, <3>2, <3>3 DEF Abstract!Commit, Abstract!Next,
                                                  Abstract!Compatible
      <2>3. CASE pc' = "haltedLoading"
            BY <2>1, <2>3, LoadingRefines DEF Halted, Abstract!Next
      <2> QED BY <1>7, <2>2, <2>3 DEF ScanHooks, Fatal
<1>8. CASE ApplyHook
      <2>1. /\ pc = "apply" /\ pc' = "apply" /\ applied < Len(ApplyOrder)
            /\ mem' = Written(NextEntry.ptr) /\ applied' = applied + 1
            /\ UNCHANGED <<started, apiHooks, stdHooks>>
            BY <1>8 DEF ApplyHook
      <2>2. StageOf = "patching" /\ Committed /\ StageOf' = "patching" /\ Committed'
            BY <2>1, StagesMatch DEF StageMatches
      <2>3. Plan' = Plan
            BY <2>1, <2>2 DEF Plan, ApplyOrder
      <2>4. applied + 1 \in DOMAIN ApplyOrder
            BY <1>1, <2>1, OrdersAreTyped DEF TypeOK, ListsTypeOK
      <2>5. Plan[applied + 1] = NextEntry.ptr /\ Len(Plan) = Len(ApplyOrder)
            BY <1>1, <2>2, <2>4, PlanIsOrder DEF NextEntry
      <2>6. Abstract!Patch
            BY <2>1, <2>2, <2>3, <2>5 DEF Abstract!Patch, Written, CoversOf
      <2> QED BY <2>6 DEF Abstract!Next
<1>9. CASE ApplyFails
      <2>1. /\ pc = "apply" /\ pc' = "haltedApplying" /\ applied < Len(ApplyOrder)
            /\ UNCHANGED <<mem, started>>
            BY <1>9 DEF ApplyFails, Fatal
      <2>2. StageOf = "patching" /\ Committed /\ StageOf' = "stopped" /\ ~Committed'
            BY <2>1, StagesMatch DEF StageMatches, Halted
      <2>3. Len(Plan) = Len(ApplyOrder)
            BY <1>1, <2>2, PlanIsOrder
      <2> QED BY <2>1, <2>2, <2>3, Stops DEF Abstract!GiveUp, Abstract!Next
<1>10. CASE ApplyDone
      <2>1. /\ pc = "apply" /\ pc' = "run" /\ applied = Len(ApplyOrder)
            /\ UNCHANGED <<mem, started, apiHooks, stdHooks, applied>>
            BY <1>10 DEF ApplyDone
      <2>2. StageOf = "patching" /\ Committed /\ StageOf' = "running" /\ Committed'
            BY <2>1, StagesMatch DEF StageMatches
      <2>3. Len(Plan) = Len(ApplyOrder)
            BY <1>1, <2>2, PlanIsOrder
      <2>4. Plan' = Plan
            BY <2>1, <2>2 DEF Plan, ApplyOrder
      <2>5. Abstract!Run
            BY <2>1, <2>2, <2>3, <2>4 DEF Abstract!Run
      <2> QED BY <2>5 DEF Abstract!Next
<1>11. CASE RunStart
      <2> DEFINE m == StartOrder[ran + 1]
      <2>1. /\ pc = "run" /\ pc' = "run" /\ ran < Len(StartOrder)
            /\ started' = Append(started, m)
            /\ UNCHANGED <<mem, apiHooks, stdHooks, applied>>
            BY <1>11 DEF RunStart
      <2>2. StageOf = "running" /\ Committed /\ StageOf' = "running" /\ Committed'
            BY <2>1, StagesMatch DEF StageMatches
      <2>3. Plan' = Plan
            BY <2>1, <2>2 DEF Plan, ApplyOrder
      <2>4. /\ ran \in Nat /\ StartOrder \in Seq(Files) /\ started \in Seq(Files)
            /\ ran + 1 \in DOMAIN StartOrder
            BY <1>1, <2>1, OrdersAreTyped DEF TypeOK, ListsTypeOK, ConsoleTypeOK
      <2>5. m \in Files /\ m \notin Range(started)
            <3>1. Len(started) = ran /\ \A i \in 1 .. ran : started[i] = StartOrder[i]
                  BY DEF RefinementInv, StartsInv, StartedPrefix
            <3>2. \A i \in 1 .. ran : StartOrder[i] # StartOrder[ran + 1]
                  BY <2>4, StartOrderIsSorted DEF RefinementInv, IsInjective
            <3> QED BY <2>4, <3>1, <3>2 DEF Range
      <2>6. Abstract!Start(m)
            BY <2>1, <2>2, <2>3, <2>5 DEF Abstract!Start, Range, Abstract!Range
      <2> QED BY <2>5, <2>6 DEF Abstract!Next
<1>12. CASE Finish
      <2>1. pc = "run" /\ pc' = "idle" /\ UNCHANGED <<mem, started, initialized>>
            BY <1>12 DEF Finish
      <2>2. initialized
            BY <1>1, <2>1 DEF FirstCall
      <2>3. StageOf = "running" /\ StageOf' = "stopped" /\ ~Committed'
            BY <2>1, <2>2, StagesMatch DEF StageMatches
      <2> QED BY <2>1, <2>3, Stops DEF Abstract!Finish, Abstract!Next
<1> QED BY <1>2, <1>3, <1>4, <1>5, <1>6, <1>7, <1>8, <1>9, <1>10, <1>11, <1>12
        DEF Next, InitStep, Stopped, Abstract!Next

\* The parts of the invariant hold before the first call, and every step keeps them.
LEMMA RefinementHolds ==
    ASSUME FatalHalts
    PROVE  /\ Init => RefinementInv
           /\ RefinementInv /\ [Next]_vars => RefinementInv'
<1>1. Init => RefinementInv
      BY InitPatch, InitStarts, InitEntries, InitWrites
         DEF RefinementInv, PatchInv, EntriesInv, WritesInv
<1>2. RefinementInv /\ [Next]_vars => RefinementInv'
      BY PatchStep, StartsStep, EntriesStep DEF RefinementInv, PatchInv, WritesInv
<1> QED BY <1>1, <1>2

\* If OSFatal ends the application, the loader implements Injection: nothing is
\* written before the whole plan is fixed and validated, the hooks are written in
\* the plan's order, each once and no two over each other, nothing starts before
\* all are written, and nothing starts twice.
THEOREM LoaderImplementsInjection ==
    ASSUME FatalHalts
    PROVE  Spec => Injects
<1>1. Init => Abstract!Init
      <2> SUFFICES ASSUME Init PROVE Abstract!Init
          OBVIOUS
      <2>1. /\ pc = "idle" /\ ~initialized /\ started = <<>>
            /\ mem = [a \in Word |-> Game]
            BY DEF Init
      <2>2. StageOf = "loading" /\ ~Committed
            BY <2>1, StagesMatch DEF StageMatches
      <2> QED BY <2>1, <2>2 DEF Abstract!Init, Plan
<1>2. RefinementInv /\ RefinementInv' /\ [Next]_vars => [Abstract!Next]_(Abstract!vars)
      BY StepRefines
<1>3. /\ Init => RefinementInv
      /\ RefinementInv /\ [Next]_vars => RefinementInv'
      BY RefinementHolds
<1> QED BY <1>1, <1>2, <1>3, PTL DEF Spec, Injects, Abstract!Spec

----------------------------------------------------------------------------
(* Which content of the two directories is accepted: the game is touched   *)
(* only for files that fit together, and files that fit together are not   *)
(* refused.  What the checks have established of each file is kept apart   *)
(* from the order in which the files are read.                             *)

Identified == pc \in {"manifest", "classify", "hooks", "read"}

\* From the first file that is read to the end of init, unless it is broken off.
AllRead == pc \in {"check", "scan", "apply", "run"}
Underway == pc = "pass" \/ pc \in LoadPCs \/ AllRead

\* The directory that is being read, and the files of the other pass if it is over.
DirNow == FilesIn(IF pass = 1 THEN coreDir ELSE modsDir)
Before == IF pass = 1 THEN {} ELSE FilesIn(coreDir)

\* The files that have been loaded as a whole; those and the file being loaded,
\* once its name, its manifest or its type has been seen to.
CurrentIn(pcs) == IF pc \in pcs THEN {cur} ELSE {}
HereLoaded == (DirNow \ unread) \ CurrentIn(LoadPCs)
Loaded == Before \cup HereLoaded
Named == Loaded \cup CurrentIn({"manifest", "classify", "hooks", "read"})
Depended == Loaded \cup CurrentIn({"classify", "hooks", "read"})
Classified == Loaded \cup CurrentIn({"hooks", "read"})
AllFiles == FilesIn(coreDir) \cup FilesIn(modsDir)

\* Nothing is recorded before the directories are opened.
FreshInv ==
    pc \in {"alloc", "open"} =>
        /\ mods = <<Telkin>> /\ deps = <<>> /\ seen = {} /\ allHooks = <<>>
        /\ pass = 1 /\ success = TRUE

\* Which files have been read. Names keep a file of the second directory from being
\* one of the first.
FilesRead ==
    Underway =>
        /\ unread \subseteq DirNow
        /\ pc \in LoadPCs => cur \in DirNow \ unread
        /\ AllRead => pass = 2 /\ unread = {}
        /\ Identified => cur \notin Loaded
        /\ pass = 2 => FilesIn(coreDir) \cap HereLoaded = {}
        /\ success = TRUE

\* The hooks of a file are read from its first one on.
FirstHook == pc \in {"identify", "manifest", "classify", "hooks"} => next = 1

\* What is recorded of the files.
ModOf(f) == [id |-> Image[f].id, version |-> Image[f].version]
NamedInv ==
    Underway =>
        /\ Range(mods) = {Telkin} \cup {ModOf(f) : f \in Named}
        /\ ~NamesClash(Named)
DependedInv ==
    Underway =>
        /\ \A f \in Depended : Range(Image[f].deps) \subseteq Range(deps)
        /\ \A d \in Range(deps) : \E f \in Depended : d \in Range(Image[f].deps)
ClassifiedInv ==
    Underway =>
        /\ \A t \in {"CoreAPI", "CoreMod", "Standard"} :
               t \in seen <=> \E f \in Classified : Image[f].type = t
        /\ \A f, g \in Typed(Classified, "CoreAPI") : f = g
EnteredInv ==
    Underway =>
        /\ \A e \in Range(allHooks) :
               e.ptr[1] \in Classified /\ e.ptr[2] \in HooksOf(e.ptr[1])
        /\ \A f \in Loaded : \A i \in HooksOf(f) : \E e \in Range(allHooks) : e.ptr = <<f, i>>
        /\ pc = "read" =>
               \A i \in HooksOf(cur) : i < next => \E e \in Range(allHooks) : e.ptr = <<cur, i>>

\* What of a file has been found in order.
LoadableInv ==
    Underway =>
        /\ \A f \in Loaded : Loadable(f)
        /\ Identified => /\ {"rpl", "getTitleID", "getModID", "getVersion"} \cap RPL.absent = {}
                         /\ RPL.title.lo = GameTitle.lo
        /\ pc \in {"classify", "hooks", "read"} => HasManifest
        /\ pc \in {"hooks", "read"} => /\ RPL.type # "Special"
                                       /\ NeedsStart(cur) => Has("__rpl_start")
        /\ pc = "read" => /\ HasTable /\ TableIsGood
                          /\ \A i \in DOMAIN RPL.hooks : i < next => Readable(RPL.hooks[i])

ReadInv == /\ FreshInv /\ FilesRead /\ FirstHook /\ NamedInv /\ DependedInv
           /\ ClassifiedInv /\ EnteredInv /\ LoadableInv

\* The content of the directories does not change.
LEMMA DiskStep == [Next]_vars => UNCHANGED <<coreDir, modsDir>>
<1> SUFFICES ASSUME [Next]_vars PROVE UNCHANGED <<coreDir, modsDir>>
    OBVIOUS
<1> USE DEF diskVars
<1>1. CASE EnterInit \/ ReenterInit
      BY <1>1 DEF EnterInit, ReenterInit
<1>2. CASE Allocate \/ OpenDirs \/ EndPass
      BY <1>2 DEF Allocate, OpenDirs, EndPass
<1>3. ASSUME NEW f \in Files, ReadDir(f) PROVE UNCHANGED <<coreDir, modsDir>>
      BY <1>3 DEF ReadDir
<1>4. CASE LoadStep
      BY <1>4 DEF LoadStep, Identify, ReadManifest, AsCoreAPI, AsCoreMod, AsStandard, AsOther,
                  FindHooks, ReadHook, LoadDone, LoadFails
<1>5. CASE CheckMods \/ RefuseMods \/ ScanHooks \/ ApplyFails \/ ApplyDone \/ Finish
      BY <1>5 DEF CheckMods, RefuseMods, ScanHooks, ApplyFails, ApplyDone, Finish
<1>6. CASE ApplyHook \/ RunStart
      BY <1>6 DEF ApplyHook, RunStart
<1>7. CASE UNCHANGED vars
      BY <1>7 DEF vars
<1> QED BY <1>1, <1>2, <1>3, <1>4, <1>5, <1>6, <1>7 DEF Next, InitStep, Stopped

\* The type of a file has been seen to, and it has a start function if it needs one.
Classify == (AsCoreAPI \/ AsCoreMod \/ AsStandard \/ AsOther) /\ pc' = "hooks"

\* The steps that get on with the files, and the others: where OSFatal halts,
\* nothing is read on after a file that is refused.
LEMMA UnderwayStep ==
    ASSUME FatalHalts, [Next]_vars, Underway'
    PROVE  \/ OpenDirs /\ pc' = "pass"
           \/ /\ Underway
              /\ \/ Identify \/ ReadManifest \/ Classify \/ FindHooks \/ ReadHook \/ LoadDone
                 \/ EndPass \/ ScanHooks
                 \/ \E f \in Files : ReadDir(f)
                 \/ /\ UNCHANGED <<mods, deps, seen, hookVars, pass, unread, success, cur, next>>
                    /\ pc' = pc \/ (AllRead /\ AllRead')
<1> DEFINE Goal == \/ OpenDirs /\ pc' = "pass"
                   \/ /\ Underway
                      /\ \/ Identify \/ ReadManifest \/ Classify \/ FindHooks \/ ReadHook
                         \/ LoadDone \/ EndPass \/ ScanHooks
                         \/ \E f \in Files : ReadDir(f)
                         \/ /\ UNCHANGED <<mods, deps, seen, hookVars, pass, unread, success, cur,
                                           next>>
                            /\ pc' = pc \/ (AllRead /\ AllRead')
<1> SUFFICES Goal
    OBVIOUS
<1> USE DEF Underway, AllRead, LoadPCs, dirVars, fileVars
<1>1. CASE EnterInit \/ ReenterInit \/ Allocate
      BY <1>1 DEF EnterInit, ReenterInit, Allocate
<1>2. CASE OpenDirs
      BY <1>2 DEF OpenDirs
<1>3. CASE EndPass \/ ScanHooks
      BY <1>3 DEF EndPass, ScanHooks
<1>4. ASSUME NEW f \in Files, ReadDir(f) PROVE Goal
      <2>1. Underway
            BY <1>4 DEF ReadDir
      <2> QED BY <1>4, <2>1
<1>5. CASE Identify \/ ReadManifest \/ FindHooks \/ ReadHook \/ LoadDone
      BY <1>5 DEF Identify, ReadManifest, FindHooks, ReadHook, LoadDone
<1>6. CASE AsCoreAPI \/ AsCoreMod \/ AsStandard \/ AsOther
      BY <1>6 DEF AsCoreAPI, AsCoreMod, AsStandard, AsOther, BreakPass, Fatal, Classify
<1>7. CASE LoadFails \/ RefuseMods \/ ApplyFails \/ Finish
      BY <1>7 DEF LoadFails, RefuseMods, ApplyFails, Finish, BreakPass, Fatal
<1>8. CASE CheckMods \/ ApplyHook \/ ApplyDone \/ RunStart
      BY <1>8 DEF CheckMods, ApplyHook, ApplyDone, RunStart
<1>9. CASE UNCHANGED vars
      BY <1>9 DEF vars
<1> HIDE DEF Goal, Underway, AllRead, LoadPCs, dirVars, fileVars
<1> QED BY <1>1, <1>2, <1>3, <1>4, <1>5, <1>6, <1>7, <1>8, <1>9
        DEF Next, InitStep, LoadStep, Stopped

\* The sets of files are the same after the step.
SameSets == Loaded' = Loaded /\ Named' = Named /\ Depended' = Depended /\ Classified' = Classified

\* A step that reads no file and stays at the same place of loadRPL, or outside.
LEMMA SetsStay ==
    ASSUME UNCHANGED <<coreDir, modsDir, pass, unread, cur>>,
           pc' = pc \/ (pc \notin LoadPCs /\ pc' \notin LoadPCs)
    PROVE  SameSets
<1>1. \A pcs \in SUBSET LoadPCs : CurrentIn(pcs)' = CurrentIn(pcs)
      BY DEF CurrentIn
<1>2. HereLoaded' = HereLoaded /\ Before' = Before
      BY <1>1 DEF HereLoaded, DirNow, FilesIn, Before
<1> QED BY <1>1, <1>2 DEF SameSets, Loaded, Named, Depended, Classified, LoadPCs

\* What a step does to the sets of files.
LEMMA SetsStep ==
    ASSUME FatalHalts, FreshInv, FilesRead, [Next]_vars, Underway'
    PROVE  \/ /\ OpenDirs /\ pc' = "pass"
              /\ Loaded' = {} /\ Named' = {} /\ Depended' = {} /\ Classified' = {}
           \/ /\ Underway
              /\ \/ /\ Identify /\ Named' = Named \cup {cur}
                    /\ Loaded' = Loaded /\ Depended' = Depended /\ Classified' = Classified
                 \/ /\ ReadManifest /\ Depended' = Depended \cup {cur}
                    /\ Loaded' = Loaded /\ Named' = Named /\ Classified' = Classified
                 \/ /\ Classify /\ Classified' = Classified \cup {cur}
                    /\ Loaded' = Loaded /\ Named' = Named /\ Depended' = Depended
                 \/ /\ LoadDone /\ Loaded' = Loaded \cup {cur}
                    /\ Named' = Named /\ Depended' = Depended /\ Classified' = Classified
                 \/ (FindHooks \/ ReadHook \/ ScanHooks) /\ SameSets
                 \/ /\ UNCHANGED <<mods, deps, seen, hookVars>> /\ SameSets
                    /\ \/ pc' = pc /\ UNCHANGED <<cur, next>>
                       \/ pc' \in {"pass", "identify"} \/ AllRead'
<1> DEFINE Quiet == /\ UNCHANGED <<mods, deps, seen, hookVars>> /\ SameSets
                    /\ \/ pc' = pc /\ UNCHANGED <<cur, next>>
                       \/ pc' \in {"pass", "identify"} \/ AllRead'
<1>0. UNCHANGED <<coreDir, modsDir>>
      BY DiskStep
<1> USE <1>0 DEF LoadPCs, AllRead, Underway, fileVars, dirVars
<1>1. ASSUME OpenDirs, pc' = "pass"
      PROVE  Loaded' = {} /\ Named' = {} /\ Depended' = {} /\ Classified' = {}
      <2>1. pass' = 1 /\ unread' = FilesIn(coreDir)
            BY <1>1 DEF OpenDirs, FreshInv
      <2>2. DirNow' = FilesIn(coreDir) /\ Before' = {}
            BY <2>1 DEF DirNow, FilesIn, Before
      <2>3. Loaded' = {}
            BY <2>1, <2>2 DEF Loaded, HereLoaded
      <2> QED BY <1>1, <2>3 DEF Named, Depended, Classified, CurrentIn
<1>2. ASSUME Underway, Identify
      PROVE  /\ Named' = Named \cup {cur}
             /\ Loaded' = Loaded /\ Depended' = Depended /\ Classified' = Classified
      <2>1. pc = "identify" /\ pc' = "manifest" /\ UNCHANGED <<pass, unread, cur>>
            BY <1>2 DEF Identify
      <2>2. Before' = Before /\ HereLoaded' = HereLoaded
            BY <2>1 DEF Before, HereLoaded, DirNow, FilesIn, CurrentIn
      <2> QED BY <2>1, <2>2 DEF Loaded, Named, Depended, Classified, CurrentIn
<1>3. ASSUME Underway, ReadManifest
      PROVE  /\ Depended' = Depended \cup {cur}
             /\ Loaded' = Loaded /\ Named' = Named /\ Classified' = Classified
      <2>1. pc = "manifest" /\ pc' = "classify" /\ UNCHANGED <<pass, unread, cur>>
            BY <1>3 DEF ReadManifest
      <2>2. Before' = Before /\ HereLoaded' = HereLoaded
            BY <2>1 DEF Before, HereLoaded, DirNow, FilesIn, CurrentIn
      <2> QED BY <2>1, <2>2 DEF Loaded, Named, Depended, Classified, CurrentIn
<1>4. ASSUME Underway, Classify
      PROVE  /\ Classified' = Classified \cup {cur}
             /\ Loaded' = Loaded /\ Named' = Named /\ Depended' = Depended
      <2>1. pc = "classify" /\ pc' = "hooks" /\ UNCHANGED <<pass, unread, cur>>
            BY <1>4 DEF Classify, AsCoreAPI, AsCoreMod, AsStandard, AsOther, BreakPass, Fatal
      <2>2. Before' = Before /\ HereLoaded' = HereLoaded
            BY <2>1 DEF Before, HereLoaded, DirNow, FilesIn, CurrentIn
      <2> QED BY <2>1, <2>2 DEF Loaded, Named, Depended, Classified, CurrentIn
<1>5. ASSUME Underway, LoadDone
      PROVE  /\ Loaded' = Loaded \cup {cur}
             /\ Named' = Named /\ Depended' = Depended /\ Classified' = Classified
      <2>1. pc \in {"hooks", "read"} /\ pc' = "pass" /\ UNCHANGED <<pass, unread, cur>>
            BY <1>5 DEF LoadDone
      <2>2. cur \in DirNow \ unread
            BY <2>1 DEF FilesRead
      <2>3. Before' = Before /\ DirNow' = DirNow
            BY <2>1 DEF Before, DirNow, FilesIn
      <2>4. HereLoaded' = HereLoaded \cup {cur}
            BY <2>1, <2>2, <2>3 DEF HereLoaded, CurrentIn
      <2> QED BY <2>1, <2>3, <2>4 DEF Loaded, Named, Depended, Classified, CurrentIn
<1>6. ASSUME Underway, FindHooks \/ ReadHook \/ ScanHooks
      PROVE  SameSets
      <2>1. CASE ReadHook \/ ScanHooks
            BY <1>6, <2>1, SetsStay DEF ReadHook, ScanHooks, Fatal
      <2>2. CASE FindHooks
            <3>1. pc = "hooks" /\ pc' = "read" /\ UNCHANGED <<pass, unread, cur>>
                  BY <2>2 DEF FindHooks
            <3>2. Before' = Before /\ HereLoaded' = HereLoaded
                  BY <3>1 DEF Before, HereLoaded, DirNow, FilesIn, CurrentIn
            <3> QED BY <3>1, <3>2 DEF SameSets, Loaded, Named, Depended, Classified, CurrentIn
      <2> QED BY <1>6, <2>1, <2>2
<1>7. ASSUME Underway, NEW f \in Files, ReadDir(f) PROVE Quiet
      <2>1. /\ pc = "pass" /\ pc' = "identify" /\ f \in unread /\ unread' = unread \ {f}
            /\ cur' = f /\ pass' = pass /\ UNCHANGED <<mods, deps, seen, hookVars>>
            BY <1>7 DEF ReadDir
      <2>2. Before' = Before /\ DirNow' = DirNow
            BY <2>1 DEF Before, DirNow, FilesIn
      <2>3. HereLoaded' = HereLoaded
            BY <2>1, <2>2 DEF HereLoaded, CurrentIn
      <2>4. SameSets
            BY <2>1, <2>2, <2>3 DEF SameSets, Loaded, Named, Depended, Classified, CurrentIn
      <2> QED BY <2>1, <2>4
<1>8. ASSUME Underway, EndPass PROVE Quiet
      <2>1. /\ pc = "pass" /\ pc' \in {"pass", "check"} /\ unread = {} /\ cur' = cur
            /\ UNCHANGED <<mods, deps, seen, hookVars>>
            BY <1>8 DEF EndPass
      <2>2. CASE pass = 1
            <3>1. /\ DirNow = FilesIn(coreDir) /\ Before = {}
                  /\ DirNow' = FilesIn(modsDir) /\ Before' = FilesIn(coreDir)
                  /\ unread' = FilesIn(modsDir)
                  BY <1>8, <2>2 DEF EndPass, DirNow, Before, FilesIn
            <3>2. Loaded' = Loaded
                  BY <2>1, <3>1 DEF Loaded, HereLoaded, CurrentIn
            <3> QED BY <2>1, <3>2 DEF SameSets, Named, Depended, Classified, CurrentIn
      <2>3. CASE pass # 1
            BY <1>8, <2>1, <2>3, SetsStay DEF EndPass
      <2> QED BY <2>1, <2>2, <2>3
<1>9. ASSUME Underway, pc' = pc \/ (AllRead /\ AllRead'),
             UNCHANGED <<mods, deps, seen, hookVars, pass, unread, success, cur, next>>
      PROVE  Quiet
      BY <1>9, SetsStay
<1> HIDE DEF LoadPCs, AllRead, Underway, fileVars, dirVars, Quiet
<1>10. UNCHANGED <<mods, deps, seen, hookVars, pass, unread, success, cur, next>> => Quiet \/ ~Underway
       \/ ~(pc' = pc \/ (AllRead /\ AllRead'))
       BY <1>9
<1>11. CASE OpenDirs /\ pc' = "pass"
       BY <1>1, <1>11
<1>12. CASE Underway /\ Quiet
       BY <1>12 DEF Quiet
<1>13. CASE Underway /\ (Identify \/ ReadManifest \/ Classify \/ LoadDone)
       BY <1>2, <1>3, <1>4, <1>5, <1>13
<1>14. CASE Underway /\ (FindHooks \/ ReadHook \/ ScanHooks)
       BY <1>6, <1>14
<1>15. CASE ~Underway
       BY <1>11, <1>15, UnderwayStep
<1> QED BY <1>7, <1>8, <1>10, <1>11, <1>12, <1>13, <1>14, <1>15, UnderwayStep

\* Nothing is recorded until the directories are opened.
LEMMA FreshStep == FirstCall /\ FreshInv /\ [Next]_vars => FreshInv'
<1> SUFFICES ASSUME FirstCall, FreshInv, [Next]_vars PROVE FreshInv'
    OBVIOUS
<1> USE DEF FreshInv
<1>1. CASE EnterInit
      <2>1. mods' = <<Telkin>>
            BY <1>1 DEF EnterInit, MayEnter, FirstCall
      <2> QED BY <1>1, <2>1 DEF EnterInit
<1>2. CASE ReenterInit \/ Allocate \/ UNCHANGED vars
      BY <1>2 DEF ReenterInit, Allocate, vars, dirVars, hookVars
<1>3. CASE OpenDirs \/ EndPass \/ \E f \in Files : ReadDir(f)
      BY <1>3 DEF OpenDirs, EndPass, ReadDir
<1>4. CASE Identify \/ ReadManifest \/ FindHooks \/ ReadHook \/ LoadDone \/ LoadFails
      BY <1>4 DEF Identify, ReadManifest, FindHooks, ReadHook, LoadDone, LoadFails, BreakPass,
                  Fatal
<1>5. CASE AsCoreAPI \/ AsCoreMod \/ AsStandard \/ AsOther
      BY <1>5 DEF AsCoreAPI, AsCoreMod, AsStandard, AsOther, BreakPass, Fatal
<1>6. CASE CheckMods \/ RefuseMods \/ ScanHooks \/ ApplyHook \/ ApplyFails \/ ApplyDone
           \/ RunStart \/ Finish
      BY <1>6 DEF CheckMods, RefuseMods, ScanHooks, ApplyHook, ApplyFails, ApplyDone, RunStart,
                  Finish, Fatal
<1> QED BY <1>1, <1>2, <1>3, <1>4, <1>5, <1>6 DEF Next, InitStep, LoadStep, Stopped

\* A file whose name is free has not been loaded before, from either directory.
LEMMA NameFreeIsNew ==
    ASSUME NamedInv, Underway, TypeOK, Identify
    PROVE  cur \notin Loaded
<1> SUFFICES ASSUME cur \in Loaded PROVE FALSE
    OBVIOUS
<1>1. ModOf(cur) \in Range(mods)
      BY DEF NamedInv, Named
<1>2. PICK i \in DOMAIN mods : mods[i] = ModOf(cur)
      BY <1>1 DEF Range
<1>3. mods[i].id = RPL.id
      BY <1>2 DEF ModOf, RPL
<1> QED BY <1>3 DEF Identify, Identifiable, Installed, SameId

\* Every step keeps track of the files.
LEMMA FilesReadStep ==
    FatalHalts /\ TypeOK /\ FreshInv /\ FilesRead /\ NamedInv /\ [Next]_vars => FilesRead'
<1> SUFFICES ASSUME FatalHalts, TypeOK, FreshInv, FilesRead, NamedInv, [Next]_vars, Underway'
             PROVE  FilesRead'
    BY DEF FilesRead
<1>0. UNCHANGED <<coreDir, modsDir>>
      BY DiskStep
<1> USE <1>0
<1>1. CASE OpenDirs /\ pc' = "pass"
      <2>1. pass' = 1 /\ unread' = FilesIn(coreDir) /\ success' = TRUE
            BY <1>1 DEF OpenDirs, FreshInv
      <2>2. DirNow' = FilesIn(coreDir)
            BY <2>1 DEF DirNow, FilesIn
      <2> QED BY <1>1, <2>1, <2>2 DEF FilesRead, AllRead, Identified, LoadPCs
<1>2. CASE Underway /\ Identify
      <2>1. /\ pc = "identify" /\ pc' = "manifest" /\ UNCHANGED <<pass, unread, success, cur>>
            BY <1>2 DEF Identify, dirVars, fileVars
      <2>2. DirNow' = DirNow /\ HereLoaded' = HereLoaded /\ Loaded' = Loaded
            BY <2>1 DEF DirNow, FilesIn, HereLoaded, Before, CurrentIn, LoadPCs, Loaded
      <2>3. cur \notin Loaded
            BY <1>2, NameFreeIsNew
      <2>4. FilesIn(coreDir)' = FilesIn(coreDir)
            BY DEF FilesIn
      <2> QED BY <1>2, <2>1, <2>2, <2>3, <2>4 DEF FilesRead, AllRead, LoadPCs
<1>3. CASE Underway /\ (ReadManifest \/ Classify \/ FindHooks \/ ReadHook)
      <2>1. /\ pc \in LoadPCs /\ pc # "identify" /\ pc' \in LoadPCs
            /\ UNCHANGED <<pass, unread, success, cur>>
            BY <1>3 DEF ReadManifest, Classify, AsCoreAPI, AsCoreMod, AsStandard, AsOther,
                        BreakPass, Fatal, FindHooks, ReadHook, dirVars, fileVars, LoadPCs
      <2>2. DirNow' = DirNow /\ HereLoaded' = HereLoaded /\ Loaded' = Loaded
            BY <2>1 DEF DirNow, FilesIn, HereLoaded, Before, CurrentIn, Loaded
      <2>3. FilesIn(coreDir)' = FilesIn(coreDir)
            BY DEF FilesIn
      <2>4. Identified
            BY <2>1 DEF Identified, LoadPCs
      <2>5. ~AllRead'
            BY <2>1 DEF AllRead, LoadPCs
      <2> QED BY <1>3, <2>1, <2>2, <2>3, <2>4, <2>5 DEF FilesRead
<1>4. CASE Underway /\ LoadDone
      <2>1. /\ pc \in {"hooks", "read"} /\ pc' = "pass" /\ UNCHANGED <<pass, unread, cur>>
            /\ success' = TRUE
            BY <1>4 DEF LoadDone, dirVars, fileVars
      <2>2. DirNow' = DirNow /\ FilesIn(coreDir)' = FilesIn(coreDir)
            BY <2>1 DEF DirNow, FilesIn
      <2>3. unread \subseteq DirNow /\ cur \in DirNow \ unread /\ cur \notin Loaded
            BY <1>4, <2>1 DEF FilesRead, LoadPCs, Identified
      <2>4. HereLoaded' = HereLoaded \cup {cur}
            BY <2>1, <2>2, <2>3 DEF HereLoaded, CurrentIn, LoadPCs
      <2>5. pass = 2 => cur \notin FilesIn(coreDir)
            BY <2>3 DEF Loaded, Before
      <2>6. pass = 2 => FilesIn(coreDir) \cap HereLoaded = {}
            BY <1>4 DEF FilesRead
      <2> QED BY <2>1, <2>2, <2>3, <2>4, <2>5, <2>6 DEF FilesRead, AllRead, LoadPCs, Identified
<1>5. ASSUME Underway, NEW f \in Files, ReadDir(f) PROVE FilesRead'
      <2>1. /\ pc = "pass" /\ pc' = "identify" /\ f \in unread /\ unread' = unread \ {f}
            /\ cur' = f /\ UNCHANGED <<pass, success>>
            BY <1>5 DEF ReadDir
      <2>2. DirNow' = DirNow /\ FilesIn(coreDir)' = FilesIn(coreDir)
            BY <2>1 DEF DirNow, FilesIn
      <2>3. HereLoaded' = HereLoaded
            BY <2>1, <2>2 DEF HereLoaded, CurrentIn, LoadPCs
      <2>4. unread \subseteq DirNow /\ f \in DirNow \ unread'
            BY <1>5, <2>1 DEF FilesRead
      <2>5. /\ success' = TRUE
            /\ pass = 2 => FilesIn(coreDir) \cap HereLoaded = {}
            BY <1>5, <2>1 DEF FilesRead
      <2> QED BY <2>1, <2>2, <2>3, <2>4, <2>5 DEF FilesRead, AllRead, LoadPCs, Identified
<1>6. CASE Underway /\ EndPass
      <2>1. pc = "pass" /\ unread = {} /\ success' = success /\ success = TRUE
            BY <1>6 DEF EndPass, FilesRead
      <2>2. CASE pass = 1
            <3>1. pass' = 2 /\ pc' = "pass" /\ unread' = FilesIn(modsDir)
                  BY <1>6, <2>2 DEF EndPass
            <3>2. DirNow' = FilesIn(modsDir)
                  BY <3>1 DEF DirNow, FilesIn
            <3>3. HereLoaded' = {}
                  BY <3>1, <3>2 DEF HereLoaded
            <3> QED BY <2>1, <3>1, <3>2, <3>3 DEF FilesRead, AllRead, LoadPCs, Identified
      <2>3. CASE pass # 1
            <3>1. /\ pc' = "check" /\ UNCHANGED <<pass, unread>> /\ pass = 2
                  BY <1>6, <2>3 DEF EndPass, dirVars, TypeOK, ControlTypeOK
            <3>2. /\ DirNow' = DirNow /\ HereLoaded' = HereLoaded
                  /\ FilesIn(coreDir)' = FilesIn(coreDir)
                  BY <2>1, <3>1 DEF DirNow, FilesIn, HereLoaded, CurrentIn, LoadPCs
            <3> QED BY <1>6, <2>1, <3>1, <3>2 DEF FilesRead, AllRead, LoadPCs, Identified
      <2> QED BY <2>2, <2>3
<1>7. ASSUME Underway, UNCHANGED <<pass, unread, success, cur>>,
             pc' = pc \/ (AllRead /\ AllRead')
      PROVE  FilesRead'
      <2>1. SameSets
            BY <1>7, SetsStay DEF AllRead, LoadPCs
      <2>2. HereLoaded' = HereLoaded /\ DirNow' = DirNow /\ FilesIn(coreDir)' = FilesIn(coreDir)
            BY <1>7 DEF HereLoaded, DirNow, FilesIn, CurrentIn, AllRead, LoadPCs
      <2>3. CASE pc' = pc
            BY <1>7, <2>1, <2>2, <2>3 DEF FilesRead, SameSets, AllRead, LoadPCs, Identified
      <2>4. CASE AllRead /\ AllRead'
            BY <1>7, <2>2, <2>4 DEF FilesRead, AllRead, LoadPCs, Identified
      <2> QED BY <1>7, <2>3, <2>4
<1>8. CASE Underway /\ ScanHooks
      <2>1. UNCHANGED <<pass, unread, success, cur>> /\ AllRead
            BY <1>8 DEF ScanHooks, dirVars, fileVars, AllRead
      <2>2. AllRead'
            BY <1>8 DEF ScanHooks, Fatal, AllRead, Underway, LoadPCs
      <2> QED BY <1>7, <1>8, <2>1, <2>2
<1>9. CASE /\ Underway
           /\ UNCHANGED <<mods, deps, seen, hookVars, pass, unread, success, cur, next>>
           /\ pc' = pc \/ (AllRead /\ AllRead')
      BY <1>7, <1>9
<1> QED BY <1>1, <1>2, <1>3, <1>4, <1>5, <1>6, <1>8, <1>9, UnderwayStep

\* The index of the next hook stays at the first one until the hooks are read.
LEMMA FirstHookStep == FirstHook /\ [Next]_vars => FirstHook'
<1> SUFFICES ASSUME FirstHook, [Next]_vars PROVE FirstHook'
    OBVIOUS
<1> USE DEF FirstHook, fileVars
<1>1. CASE EnterInit \/ ReenterInit \/ Allocate \/ OpenDirs \/ EndPass \/ UNCHANGED vars
      BY <1>1 DEF EnterInit, ReenterInit, Allocate, OpenDirs, EndPass, vars
<1>2. CASE \E f \in Files : ReadDir(f)
      BY <1>2 DEF ReadDir
<1>3. CASE Identify \/ ReadManifest \/ FindHooks \/ ReadHook \/ LoadDone \/ LoadFails
      BY <1>3 DEF Identify, ReadManifest, FindHooks, ReadHook, LoadDone, LoadFails, BreakPass,
                  Fatal
<1>4. CASE AsCoreAPI \/ AsCoreMod \/ AsStandard \/ AsOther
      BY <1>4 DEF AsCoreAPI, AsCoreMod, AsStandard, AsOther, BreakPass, Fatal
<1>5. CASE CheckMods \/ RefuseMods \/ ScanHooks \/ ApplyHook \/ ApplyFails \/ ApplyDone
           \/ RunStart \/ Finish
      BY <1>5 DEF CheckMods, RefuseMods, ScanHooks, ApplyHook, ApplyFails, ApplyDone, RunStart,
                  Finish, Fatal
<1> QED BY <1>1, <1>2, <1>3, <1>4, <1>5 DEF Next, InitStep, LoadStep, Stopped

\* What the steps on a file leave alone.
LEMMA RecordsKept ==
    /\ ReadManifest \/ Classify \/ LoadDone \/ FindHooks \/ ReadHook \/ ScanHooks => mods' = mods
    /\ Identify \/ Classify \/ LoadDone \/ FindHooks \/ ReadHook \/ ScanHooks => deps' = deps
    /\ Identify \/ ReadManifest \/ LoadDone \/ FindHooks \/ ReadHook \/ ScanHooks => seen' = seen
    /\ Identify \/ ReadManifest \/ Classify \/ LoadDone \/ FindHooks => allHooks' = allHooks
<1> USE DEF hookVars
<1>1. ReadManifest \/ Classify \/ LoadDone \/ FindHooks \/ ReadHook \/ ScanHooks => mods' = mods
      BY DEF ReadManifest, Classify, AsCoreAPI, AsCoreMod, AsStandard, AsOther, LoadDone, FindHooks,
             ReadHook, ScanHooks
<1>2. Identify \/ Classify \/ LoadDone \/ FindHooks \/ ReadHook \/ ScanHooks => deps' = deps
      BY DEF Identify, Classify, AsCoreAPI, AsCoreMod, AsStandard, AsOther, LoadDone, FindHooks,
             ReadHook, ScanHooks
<1>3. Identify \/ ReadManifest \/ LoadDone \/ FindHooks \/ ReadHook \/ ScanHooks => seen' = seen
      BY DEF Identify, ReadManifest, LoadDone, FindHooks, ReadHook, ScanHooks
<1>4. Identify \/ ReadManifest \/ Classify \/ LoadDone \/ FindHooks => allHooks' = allHooks
      BY DEF Identify, ReadManifest, Classify, AsCoreAPI, AsCoreMod, AsStandard, AsOther, LoadDone,
             FindHooks
<1> QED BY <1>1, <1>2, <1>3, <1>4

\* The list of mods is that of the files named so far.
LEMMA NamedStep ==
    FatalHalts /\ TypeOK /\ FreshInv /\ FilesRead /\ NamedInv /\ [Next]_vars => NamedInv'
<1> SUFFICES ASSUME FatalHalts, TypeOK, FreshInv, FilesRead, NamedInv, [Next]_vars, Underway'
             PROVE  /\ Range(mods') = {Telkin} \cup {ModOf(f) : f \in Named'}
                    /\ ~NamesClash(Named')
    BY DEF NamedInv, NamesClash, SameId, ModOf
<1>1. CASE OpenDirs /\ Named' = {}
      <2>1. mods' = <<Telkin>>
            BY <1>1 DEF OpenDirs, FreshInv
      <2>2. Range(mods') = {Telkin}
            BY <2>1 DEF Range
      <2> QED BY <1>1, <2>2 DEF NamesClash
<1>2. CASE Underway /\ Identify /\ Named' = Named \cup {cur}
      <2>1. Range(mods') = Range(mods) \cup {ModOf(cur)}
            BY <1>2, IdentifyAppends DEF ModOf, RPL
      <2>2. Range(mods) = {Telkin} \cup {ModOf(f) : f \in Named} /\ ~NamesClash(Named)
            BY <1>2 DEF NamedInv
      <2>3. \A m \in Range(mods) : ~SameId(m.id, RPL.id)
            BY <1>2 DEF Identify, Identifiable, Installed, Range
      <2>4. ~SameId(Telkin.id, Image[cur].id)
            BY <2>2, <2>3 DEF RPL
      <2>5. ASSUME NEW f \in Named PROVE ~SameId(Image[f].id, Image[cur].id)
            <3>1. ModOf(f) \in Range(mods) /\ ModOf(f).id = Image[f].id
                  BY <2>2 DEF ModOf
            <3> QED BY <2>3, <3>1 DEF RPL
      <2>6. ~NamesClash(Named')
            BY <1>2, <2>2, <2>4, <2>5 DEF NamesClash, SameId
      <2> QED BY <1>2, <2>1, <2>2, <2>6
<1>3. CASE Underway /\ mods' = mods /\ Named' = Named
      BY <1>3 DEF NamedInv
<1> QED BY <1>1, <1>2, <1>3, SetsStep, RecordsKept DEF SameSets

\* The list of dependencies is that of the files whose manifest has been read.
LEMMA DependedStep ==
    FatalHalts /\ TypeOK /\ FreshInv /\ FilesRead /\ DependedInv /\ [Next]_vars => DependedInv'
<1> SUFFICES ASSUME FatalHalts, TypeOK, FreshInv, FilesRead, DependedInv, [Next]_vars, Underway'
             PROVE  /\ \A f \in Depended' : Range(Image[f].deps) \subseteq Range(deps')
                    /\ \A d \in Range(deps') : \E f \in Depended' : d \in Range(Image[f].deps)
    BY DEF DependedInv
<1>1. CASE OpenDirs /\ Depended' = {}
      <2>1. deps' = <<>>
            BY <1>1 DEF OpenDirs, FreshInv
      <2>2. Range(deps') = {}
            BY <2>1 DEF Range
      <2> QED BY <1>1, <2>2
<1>2. CASE Underway /\ ReadManifest /\ Depended' = Depended \cup {cur}
      <2>1. cur \in Files /\ deps \in Seq(DepSet) /\ deps' = deps \o Image[cur].deps
            BY <1>2 DEF ReadManifest, TypeOK, ControlTypeOK, ListsTypeOK, LoadPCs, RPL
      <2>2. Image[cur].deps \in Seq(DepSet)
            <3>1. Range(Image[cur].deps) \subseteq DepSet
                  BY <2>1 DEF DepSet
            <3> QED BY <2>1, <3>1, ImageAssumption
      <2>3. Range(deps') = Range(deps) \cup Range(Image[cur].deps)
            BY <2>1, <2>2, RangeConcatenation
      <2> QED BY <1>2, <2>3 DEF DependedInv
<1>3. CASE Underway /\ deps' = deps /\ Depended' = Depended
      BY <1>3 DEF DependedInv
<1> QED BY <1>1, <1>2, <1>3, SetsStep, RecordsKept DEF SameSets

\* The types encountered are those of the files classified so far.
LEMMA ClassifiedStep ==
    FatalHalts /\ TypeOK /\ FreshInv /\ FilesRead /\ ClassifiedInv /\ [Next]_vars
        => ClassifiedInv'
<1> DEFINE Kinds == {"CoreAPI", "CoreMod", "Standard"}
<1> SUFFICES ASSUME FatalHalts, TypeOK, FreshInv, FilesRead, ClassifiedInv, [Next]_vars,
                    Underway'
             PROVE  /\ \A t \in Kinds : t \in seen' <=> \E f \in Classified' : Image[f].type = t
                    /\ \A f, g \in Typed(Classified', "CoreAPI") : f = g
    BY DEF ClassifiedInv, Typed
<1>1. CASE OpenDirs /\ Classified' = {}
      <2>1. seen' = {}
            BY <1>1 DEF OpenDirs, FreshInv
      <2> QED BY <1>1, <2>1 DEF Typed
<1>2. CASE Underway /\ Classify /\ Classified' = Classified \cup {cur}
      <2>1. \/ seen' = seen \cup {Image[cur].type} /\ Image[cur].type \in Kinds
            \/ seen' = seen /\ Image[cur].type \notin Kinds
            BY <1>2 DEF Classify, AsCoreAPI, AsCoreMod, AsStandard, AsOther, RPL
      <2>2. Image[cur].type = "CoreAPI" => "CoreAPI" \notin seen
            BY <1>2 DEF Classify, AsCoreAPI, AsCoreMod, AsStandard, AsOther, RPL, Classifiable,
                        SecondCoreAPI
      <2>3. \A t \in Kinds : t \in seen <=> \E f \in Classified : Image[f].type = t
            BY <1>2 DEF ClassifiedInv
      <2>4. \A f, g \in Typed(Classified', "CoreAPI") : f = g
            BY <1>2, <2>2, <2>3 DEF ClassifiedInv, Typed
      <2>5. \A t \in Kinds : t \in seen' <=> \E f \in Classified' : Image[f].type = t
            BY <1>2, <2>1, <2>3
      <2> QED BY <2>4, <2>5
<1>3. CASE Underway /\ seen' = seen /\ Classified' = Classified
      BY <1>3 DEF ClassifiedInv
<1> QED BY <1>1, <1>2, <1>3, SetsStep, RecordsKept DEF SameSets

\* The hooks a file with a hook table is read for, one after the other.
LEMMA ReadHookEnters ==
    ASSUME TypeOK, EnteredInv, LoadableInv, Underway, ReadHook
    PROVE  /\ \A e \in Range(allHooks') : \/ e \in Range(allHooks)
                                          \/ e.ptr = <<cur, next>> /\ next \in HooksOf(cur)
           /\ Range(allHooks) \subseteq Range(allHooks')
           /\ next \in HooksOf(cur) => \E e \in Range(allHooks') : e.ptr = <<cur, next>>
<1> DEFINE e == Entry(RPL.hooks[next], <<cur, next>>, RPL.id)
<1>1. /\ cur \in Files /\ next \in DOMAIN Image[cur].hooks /\ allHooks \in Seq(EntrySet)
      BY ImageAssumption DEF ReadHook, TypeOK, ControlTypeOK, ListsTypeOK, LoadPCs, RPL
<1>2. e \in EntrySet /\ e.ptr = <<cur, next>>
      BY <1>1, EntryIsTyped DEF RPL, Entry
<1>3. allHooks' = IF RPL.hooks[next].magic # "Null" THEN Append(allHooks, e) ELSE allHooks
      BY DEF ReadHook, AppendIf, Scanned
<1>4. HasTable
      BY DEF ReadHook, LoadableInv
<1>5. next \in HooksOf(cur) <=> RPL.hooks[next].magic # "Null"
      BY <1>1, <1>4 DEF HooksOf, HasTable, Has, RPL
<1> HIDE DEF e
<1>6. Range(Append(allHooks, e)) = Range(allHooks) \cup {e}
      BY <1>1, <1>2, AppendElements
<1>7. CASE next \in HooksOf(cur)
      <2>1. Range(allHooks') = Range(allHooks) \cup {e}
            BY <1>3, <1>5, <1>6, <1>7
      <2> QED BY <1>2, <1>7, <2>1
<1>8. CASE next \notin HooksOf(cur)
      BY <1>3, <1>5, <1>8
<1> QED BY <1>7, <1>8

\* The list that is validated holds the hooks of the files read so far, and no others.
LEMMA EnteredStep ==
    FatalHalts /\ TypeOK /\ FreshInv /\ FilesRead /\ FirstHook /\ EnteredInv /\ LoadableInv
        /\ [Next]_vars => EnteredInv'
<1> SUFFICES ASSUME FatalHalts, TypeOK, FreshInv, FilesRead, FirstHook, EnteredInv, LoadableInv,
                    [Next]_vars, Underway'
             PROVE  /\ \A e \in Range(allHooks') :
                           e.ptr[1] \in Classified' /\ e.ptr[2] \in HooksOf(e.ptr[1])
                    /\ \A f \in Loaded' : \A i \in HooksOf(f) :
                           \E e \in Range(allHooks') : e.ptr = <<f, i>>
                    /\ pc' = "read" =>
                           \A i \in HooksOf(cur') :
                               i < next' => \E e \in Range(allHooks') : e.ptr = <<cur', i>>
    BY DEF EnteredInv
<1>1. CASE OpenDirs /\ pc' = "pass" /\ Loaded' = {}
      <2>1. allHooks' = <<>>
            BY <1>1 DEF OpenDirs, FreshInv, hookVars
      <2>2. Range(allHooks') = {}
            BY <2>1 DEF Range
      <2> QED BY <1>1, <2>2
<1>2. CASE /\ Underway /\ allHooks' = allHooks /\ Loaded' = Loaded
           /\ Classified \subseteq Classified' /\ pc' # "read"
      BY <1>2 DEF EnteredInv
<1>3. CASE /\ Underway /\ LoadDone /\ Loaded' = Loaded \cup {cur} /\ Classified' = Classified
      <2>1. allHooks' = allHooks /\ pc' # "read"
            BY <1>3 DEF LoadDone, hookVars
      <2>2. ASSUME NEW i \in HooksOf(cur) PROVE \E e \in Range(allHooks) : e.ptr = <<cur, i>>
            <3>1. HasTable
                  BY <2>2 DEF HooksOf, HasTable, Has, RPL
            <3>2. pc = "read" /\ next > Len(RPL.hooks)
                  BY <1>3, <3>1 DEF LoadDone
            <3>3. i < next
                  <4>1. cur \in Files /\ i \in DOMAIN Image[cur].hooks /\ next \in Nat
                        BY <2>2, <3>2 DEF HooksOf, TypeOK, ControlTypeOK, LoadPCs
                  <4> QED BY <3>2, <4>1, ImageAssumption DEF RPL
            <3> QED BY <1>3, <3>2, <3>3 DEF EnteredInv
      <2> QED BY <1>3, <2>1, <2>2 DEF EnteredInv
<1>4. CASE Underway /\ FindHooks /\ SameSets
      <2>1. allHooks' = allHooks /\ next' = 1
            BY <1>4 DEF FindHooks, FirstHook, hookVars, fileVars
      <2>2. cur' = cur /\ cur \in Files
            BY <1>4 DEF FindHooks, fileVars, TypeOK, ControlTypeOK, LoadPCs
      <2>3. \A i \in HooksOf(cur) : ~(i < 1)
            BY <2>2, ImageAssumption DEF HooksOf
      <2> QED BY <1>4, <2>1, <2>2, <2>3 DEF EnteredInv, SameSets
<1>5. CASE Underway /\ ReadHook /\ SameSets
      <2>1. /\ pc = "read" /\ cur' = cur /\ next' = next + 1 /\ cur \in Files /\ next \in Nat
            BY <1>5 DEF ReadHook, TypeOK, ControlTypeOK, LoadPCs
      <2>2. cur \in Classified
            BY <2>1 DEF Classified, CurrentIn
      <2>3. /\ \A e \in Range(allHooks') : \/ e \in Range(allHooks)
                                           \/ e.ptr = <<cur, next>> /\ next \in HooksOf(cur)
            /\ Range(allHooks) \subseteq Range(allHooks')
            /\ next \in HooksOf(cur) => \E e \in Range(allHooks') : e.ptr = <<cur, next>>
            BY <1>5, ReadHookEnters
      <2>4. \A i \in HooksOf(cur) : i \in Nat
            BY <2>1, ImageAssumption DEF HooksOf
      <2>5. ASSUME NEW i \in HooksOf(cur), i < next + 1
            PROVE  \E e \in Range(allHooks') : e.ptr = <<cur, i>>
            <3>1. i = next \/ i < next
                  BY <2>1, <2>4, <2>5
            <3>2. CASE i = next
                  BY <2>3, <3>2
            <3>3. CASE i < next
                  BY <1>5, <2>1, <2>3, <3>3 DEF EnteredInv
            <3> QED BY <3>1, <3>2, <3>3
      <2>6. \A f \in Loaded : \A i \in HooksOf(f) : \E e \in Range(allHooks') : e.ptr = <<f, i>>
            BY <1>5, <2>3 DEF EnteredInv
      <2>7. \A e \in Range(allHooks') : e.ptr[1] \in Classified /\ e.ptr[2] \in HooksOf(e.ptr[1])
            BY <1>5, <2>2, <2>3 DEF EnteredInv
      <2> QED BY <1>5, <2>1, <2>5, <2>6, <2>7 DEF SameSets
<1>6. CASE Underway /\ ScanHooks /\ SameSets
      <2>1. Range(allHooks') = Range(allHooks) /\ pc' # "read"
            BY <1>6, SortKeepsRange DEF ScanHooks, Fatal
      <2> QED BY <1>6, <2>1 DEF EnteredInv, SameSets
<1>7. CASE /\ Underway /\ allHooks' = allHooks /\ SameSets
           /\ pc' = pc /\ UNCHANGED <<cur, next>>
      BY <1>7 DEF EnteredInv, SameSets
<1>8. CASE Underway /\ (Identify \/ ReadManifest) /\ Loaded' = Loaded /\ Classified' = Classified
      BY <1>2, <1>8, RecordsKept DEF Identify, ReadManifest
<1>9. CASE Underway /\ Classify /\ Loaded' = Loaded /\ Classified' = Classified \cup {cur}
      BY <1>2, <1>9, RecordsKept DEF Classify
<1>10. CASE /\ Underway /\ UNCHANGED <<mods, deps, seen, hookVars>> /\ SameSets
            /\ \/ pc' = pc /\ UNCHANGED <<cur, next>>
               \/ pc' \in {"pass", "identify"} \/ AllRead'
       <2>1. allHooks' = allHooks
             BY <1>10 DEF hookVars
       <2>2. pc' \in {"pass", "identify"} \/ AllRead' => pc' # "read"
             BY DEF AllRead
       <2> QED BY <1>2, <1>7, <1>10, <2>1, <2>2 DEF SameSets
<1> QED BY <1>1, <1>3, <1>4, <1>5, <1>6, <1>8, <1>9, <1>10, SetsStep

\* A file whose hooks have all been read, or that has none, is in order.
LEMMA LoadedIsLoadable ==
    ASSUME TypeOK, FirstHook, LoadableInv, Underway, LoadDone
    PROVE  Loadable(cur)
<1>1. cur \in Files /\ next \in Nat /\ pc \in {"hooks", "read"}
      BY DEF LoadDone, TypeOK, ControlTypeOK, LoadPCs
<1>2. /\ {"rpl", "getTitleID", "getModID", "getVersion"} \cap Image[cur].absent = {}
      /\ Image[cur].title.lo = GameTitle.lo /\ Image[cur].type # "Special"
      /\ {"getModuleType", "getDependencyManifest"} \cap Image[cur].absent = {}
      /\ NeedsStart(cur) => "__rpl_start" \notin Image[cur].absent
      BY <1>1 DEF LoadableInv, Identified, HasManifest, Has, RPL
<1>3. ASSUME "__loaderdata_start" \notin Image[cur].absent
      PROVE  /\ "__loaderdata_end" \notin Image[cur].absent /\ Image[cur].hooks # <<>>
             /\ \A h \in Range(Image[cur].hooks) : Readable(h)
      <2>1. pc = "read" /\ next > Len(Image[cur].hooks)
            BY <1>3 DEF LoadDone, HasTable, Has, RPL
      <2>2. \A i \in DOMAIN Image[cur].hooks : i < next
            BY <1>1, <2>1, ImageAssumption
      <2>3. \A i \in DOMAIN Image[cur].hooks : Readable(Image[cur].hooks[i])
            BY <2>1, <2>2 DEF LoadableInv, RPL
      <2> QED BY <2>1, <2>3 DEF LoadableInv, TableIsGood, HasTable, Has, RPL, Range
<1>4. NeededExports(cur) \cap Image[cur].absent = {}
      BY <1>2, <1>3 DEF NeededExports
<1> QED BY <1>2, <1>3, <1>4 DEF Loadable

\* What of a file has been found in order stays so.
LEMMA LoadableStep ==
    FatalHalts /\ TypeOK /\ FreshInv /\ FilesRead /\ FirstHook /\ LoadableInv
        /\ [Next]_vars => LoadableInv'
<1> DEFINE Names(f)    == /\ {"rpl", "getTitleID", "getModID", "getVersion"}
                                 \cap Image[f].absent = {}
                          /\ Image[f].title.lo = GameTitle.lo
           Manifest(f) == {"getModuleType", "getDependencyManifest"} \cap Image[f].absent = {}
           Kind(f)     == /\ Image[f].type # "Special"
                          /\ NeedsStart(f) => "__rpl_start" \notin Image[f].absent
           Table(f)    == /\ "__loaderdata_start" \notin Image[f].absent
                          /\ "__loaderdata_end" \notin Image[f].absent
                          /\ Image[f].hooks # <<>>
           Read(f, n)  == \A i \in DOMAIN Image[f].hooks : i < n => Readable(Image[f].hooks[i])
<1>0. /\ LoadableInv <=>
          (Underway =>
             /\ \A f \in Loaded : Loadable(f)
             /\ pc \in {"manifest", "classify", "hooks", "read"} => Names(cur)
             /\ pc \in {"classify", "hooks", "read"} => Manifest(cur)
             /\ pc \in {"hooks", "read"} => Kind(cur)
             /\ pc = "read" => Table(cur) /\ Read(cur, next))
      BY DEF LoadableInv, Identified, HasManifest, HasTable, TableIsGood, Has, RPL
<1>00. LoadableInv' <=>
          (Underway' =>
             /\ \A f \in Loaded' : Loadable(f)
             /\ pc' \in {"manifest", "classify", "hooks", "read"} => Names(cur')
             /\ pc' \in {"classify", "hooks", "read"} => Manifest(cur')
             /\ pc' \in {"hooks", "read"} => Kind(cur')
             /\ pc' = "read" => Table(cur') /\ Read(cur', next'))
      BY DEF LoadableInv, Identified, HasManifest, HasTable, TableIsGood, Has, RPL, Loadable
<1> SUFFICES ASSUME FatalHalts, TypeOK, FreshInv, FilesRead, FirstHook, LoadableInv,
                    [Next]_vars, Underway'
             PROVE  LoadableInv'
    BY DEF LoadableInv
<1>1. CASE OpenDirs /\ pc' = "pass" /\ Loaded' = {}
      BY <1>1, <1>00
<1>2. CASE Underway /\ Identify /\ Loaded' = Loaded
      <2>1. pc' = "manifest" /\ cur' = cur /\ Names(cur)
            BY <1>2 DEF Identify, Identifiable, RPL, fileVars
      <2> HIDE DEF Names
      <2> QED BY <1>0, <1>00, <1>2, <2>1
<1>3. CASE Underway /\ ReadManifest /\ Loaded' = Loaded
      <2>1. pc = "manifest" /\ pc' = "classify" /\ cur' = cur /\ Manifest(cur)
            BY <1>3 DEF ReadManifest, HasManifest, RPL, fileVars
      <2> HIDE DEF Names, Manifest
      <2> QED BY <1>0, <1>00, <1>3, <2>1
<1>4. CASE Underway /\ Classify /\ Loaded' = Loaded
      <2>1. pc = "classify" /\ pc' = "hooks" /\ cur' = cur
            BY <1>4 DEF Classify, AsCoreAPI, AsCoreMod, AsStandard, AsOther, fileVars
      <2>2. Kind(cur)
            BY <1>4 DEF Classify, AsCoreAPI, AsCoreMod, AsStandard, AsOther, Fatal, BreakPass,
                        Classifiable, StandardWithoutStart, NeedsStart, Has, RPL
      <2> HIDE DEF Names, Manifest, Kind
      <2> QED BY <1>0, <1>00, <1>4, <2>1, <2>2
<1>5. CASE Underway /\ LoadDone /\ Loaded' = Loaded \cup {cur}
      <2>1. pc' = "pass" /\ Loadable(cur)
            BY <1>5, LoadedIsLoadable DEF LoadDone
      <2> QED BY <1>0, <1>00, <1>5, <2>1
<1>6. CASE Underway /\ FindHooks /\ SameSets
      <2>1. /\ pc = "hooks" /\ pc' = "read" /\ cur' = cur /\ next' = 1 /\ Table(cur)
            BY <1>6 DEF FindHooks, FirstHook, HasTable, TableIsGood, Has, RPL, fileVars
      <2>2. cur \in Files
            BY <2>1 DEF TypeOK, ControlTypeOK, LoadPCs
      <2>3. Read(cur, 1)
            BY <2>2, ImageAssumption
      <2> HIDE DEF Names, Manifest, Kind, Table, Read
      <2> QED BY <1>0, <1>00, <1>6, <2>1, <2>3 DEF SameSets
<1>7. CASE Underway /\ ReadHook /\ SameSets
      <2>1. /\ pc = "read" /\ pc' = "read" /\ cur' = cur /\ next' = next + 1
            /\ Readable(Image[cur].hooks[next])
            BY <1>7 DEF ReadHook, RPL
      <2>2. cur \in Files /\ next \in Nat
            BY <2>1 DEF TypeOK, ControlTypeOK, LoadPCs
      <2>3. Read(cur, next)
            BY <1>0, <1>7, <2>1
      <2>4. Read(cur, next + 1)
            <3>1. \A i \in DOMAIN Image[cur].hooks : i < next + 1 => i < next \/ i = next
                  BY <2>2, ImageAssumption
            <3> QED BY <2>1, <2>3, <3>1
      <2> HIDE DEF Names, Manifest, Kind, Table, Read
      <2> QED BY <1>0, <1>00, <1>7, <2>1, <2>4 DEF SameSets
<1>8. CASE Underway /\ ScanHooks /\ SameSets
      <2>1. pc' \notin LoadPCs
            BY <1>8 DEF ScanHooks, Fatal, LoadPCs
      <2> HIDE DEF Names, Manifest, Kind, Table, Read
      <2> QED BY <1>0, <1>00, <1>8, <2>1 DEF SameSets, LoadPCs
<1>9. CASE /\ Underway /\ SameSets
           /\ \/ pc' = pc /\ UNCHANGED <<cur, next>>
              \/ pc' \in {"pass", "identify"} \/ AllRead'
      <2> HIDE DEF Names, Manifest, Kind, Table, Read
      <2> QED BY <1>0, <1>00, <1>9 DEF SameSets, AllRead
<1> QED BY <1>1, <1>2, <1>3, <1>4, <1>5, <1>6, <1>7, <1>8, <1>9, SetsStep

\* Nothing has been read before the first call of init.
LEMMA InitRead == Init => ReadInv
<1> SUFFICES ASSUME Init PROVE ReadInv
    OBVIOUS
<1>1. pc = "idle"
      BY DEF Init
<1>2. ~Underway
      BY <1>1 DEF Underway, LoadPCs, AllRead
<1> QED BY <1>1, <1>2 DEF ReadInv, FreshInv, FilesRead, FirstHook, NamedInv, DependedInv,
                          ClassifiedInv, EnteredInv, LoadableInv

\* Where OSFatal halts, every step keeps what is known of the files.
LEMMA ReadStep ==
    FatalHalts /\ TypeOK /\ FirstCall /\ ReadInv /\ [Next]_vars => ReadInv'
BY FreshStep, FilesReadStep, FirstHookStep, NamedStep, DependedStep, ClassifiedStep, EnteredStep,
   LoadableStep DEF ReadInv

----------------------------------------------------------------------------
(* Only what is acceptable is injected *)

\* What init has established before it looks at the hooks.
FilesFit ==
    /\ FilesIn(coreDir) \cap FilesIn(modsDir) = {}
    /\ \A f \in AllFiles : Loadable(f) /\ \A d \in Range(Image[f].deps) : Provided(d, AllFiles)
    /\ ~NamesClash(AllFiles) /\ ~TypesClash(AllFiles)

\* When both directories have been read, every file has been read as a whole.
LEMMA AllFilesRead ==
    ASSUME FilesRead, AllRead
    PROVE  /\ Loaded = AllFiles /\ Named = AllFiles
           /\ Depended = AllFiles /\ Classified = AllFiles
           /\ FilesIn(coreDir) \cap FilesIn(modsDir) = {}
<1>1. pass = 2 /\ unread = {} /\ FilesIn(coreDir) \cap HereLoaded = {}
      BY DEF FilesRead, Underway
<1>2. \A pcs \in SUBSET LoadPCs : CurrentIn(pcs) = {}
      BY DEF CurrentIn, AllRead, LoadPCs
<1>3. HereLoaded = FilesIn(modsDir) /\ Before = FilesIn(coreDir)
      BY <1>1, <1>2 DEF HereLoaded, DirNow, Before, FilesIn
<1> QED BY <1>1, <1>2, <1>3 DEF Loaded, Named, Depended, Classified, AllFiles, LoadPCs

\* A dependency that validateDependencies finds satisfied is provided by a file that
\* has been loaded, or by the loader itself.
LEMMA SatisfiedIsProvided ==
    ASSUME TypeOK, NamedInv, FilesRead, AllRead, NEW f \in AllFiles, NEW d \in Range(Image[f].deps),
           Satisfied(d)
    PROVE  Provided(d, AllFiles)
<1>1. PICK i \in DOMAIN mods : /\ SameId(mods[i].id, d.mod)
                               /\ Verdict[<<d.range, mods[i].version>>] \notin {-2, -1, 0}
      BY DEF Satisfied
<1>2. mods[i] \in {Telkin} \cup {ModOf(g) : g \in AllFiles}
      BY AllFilesRead DEF NamedInv, Underway, Range
<1>3. AllFiles \subseteq Files
      BY DirAssumption DEF AllFiles, FilesIn, TypeOK, ConsoleTypeOK
<1>4. mods[i].version \in {Telkin.version} \cup {Image[g].version : g \in Files}
      BY <1>2, <1>3 DEF ModOf
<1>5. Verdict[<<d.range, mods[i].version>>] = 1
      BY <1>1, <1>3, <1>4, VerdictAssumption
<1> QED BY <1>1, <1>2, <1>5 DEF Provided, ModOf

\* What passes the checks after the directories are read is fit, up to the hooks.
LEMMA CheckedFilesFit ==
    ASSUME TypeOK, ReadInv, CheckMods
    PROVE  FilesFit
<1>1. AllRead /\ Underway /\ CheckPassed
      BY DEF CheckMods, AllRead, Underway
<1>2. /\ Loaded = AllFiles /\ Named = AllFiles
      /\ Depended = AllFiles /\ Classified = AllFiles
      /\ FilesIn(coreDir) \cap FilesIn(modsDir) = {}
      BY <1>1, AllFilesRead DEF ReadInv
<1>3. ASSUME NEW f \in AllFiles, NEW d \in Range(Image[f].deps) PROVE Provided(d, AllFiles)
      <2>1. Satisfied(d)
            BY <1>1, <1>2, <1>3 DEF ReadInv, DependedInv, CheckPassed, DependenciesHold
      <2> QED BY <1>1, <1>3, <2>1, SatisfiedIsProvided DEF ReadInv
<1>4. \A f \in AllFiles : Loadable(f)
      BY <1>1, <1>2 DEF ReadInv, LoadableInv
<1>5. ~NamesClash(AllFiles)
      BY <1>1, <1>2 DEF ReadInv, NamedInv
<1>6. ~TypesClash(AllFiles)
      BY <1>1, <1>2 DEF ReadInv, ClassifiedInv, CheckPassed, TypesAgree, TypesClash, Typed
<1> QED BY <1>2, <1>3, <1>4, <1>5, <1>6 DEF FilesFit

\* What passes validateHooks has no two hooks on one byte.
LEMMA ScannedHooksFit ==
    ASSUME TypeOK, EntriesFaithful, ReadInv, ScanHooks, pc' = "apply"
    PROVE  ~HooksClash(AllFiles)
<1>1. AllRead /\ Underway
      BY DEF ScanHooks, AllRead, Underway
<1>2. Range(allHooks') = Range(allHooks) /\ PlanIsCompatible'
      BY ScanHooksStep
<1>3. \A e1, e2 \in Range(allHooks) : e1 # e2 => Bytes(e1) \cap Bytes(e2) = {}
      BY <1>2 DEF PlanIsCompatible, Disjoint
<1>4. \A f \in AllFiles : \A i \in HooksOf(f) : \E e \in Range(allHooks) : e.ptr = <<f, i>>
      BY <1>1, AllFilesRead DEF ReadInv, EnteredInv
<1> SUFFICES ASSUME NEW f \in AllFiles, NEW g \in AllFiles, NEW i \in HooksOf(f),
                    NEW j \in HooksOf(g), <<f, i>> # <<g, j>>
             PROVE  Footprint(Image[f].hooks[i]) \cap Footprint(Image[g].hooks[j]) = {}
    BY DEF HooksClash
<1>5. PICK e1 \in Range(allHooks) : e1.ptr = <<f, i>>
      BY <1>4
<1>6. PICK e2 \in Range(allHooks) : e2.ptr = <<g, j>>
      BY <1>4
<1>7. /\ Bytes(e1) = Footprint(HookAt(<<f, i>>)) /\ Bytes(e2) = Footprint(HookAt(<<g, j>>))
      BY <1>5, <1>6 DEF EntriesFaithful
<1>8. e1 # e2
      BY <1>5, <1>6
<1> QED BY <1>3, <1>7, <1>8 DEF HookAt

\* Where the checks have got to, and that the game is touched only beyond them.
AcceptanceInv ==
    /\ RefinementInv /\ ReadInv
    /\ pc \in {"scan", "apply", "run"} => FilesFit
    /\ pc \in {"apply", "run"} => ~HooksClash(AllFiles)
    /\ OnlyAcceptable

\* What the files are like does not change.
LEMMA FitStays ==
    ASSUME UNCHANGED <<coreDir, modsDir>>
    PROVE  /\ FilesFit' <=> FilesFit
           /\ HooksClash(AllFiles)' <=> HooksClash(AllFiles)
           /\ Acceptable' <=> Acceptable
<1>1. AllFiles' = AllFiles /\ FilesIn(coreDir)' = FilesIn(coreDir)
      /\ FilesIn(modsDir)' = FilesIn(modsDir)
      BY DEF AllFiles, FilesIn
<1>2. FilesFit' <=> FilesFit
      BY <1>1 DEF FilesFit, Loadable, Provided, NamesClash, TypesClash, Typed, SameId
<1>3. HooksClash(AllFiles)' <=> HooksClash(AllFiles)
      BY <1>1 DEF HooksClash
<1>4. Acceptable <=> FilesFit /\ ~HooksClash(AllFiles)
      BY DEF Acceptable, FilesFit, AllFiles
<1>5. Acceptable' <=> FilesFit' /\ ~HooksClash(AllFiles)'
      BY DEF Acceptable, FilesFit, AllFiles
<1> QED BY <1>2, <1>3, <1>4, <1>5

\* Two actions establish that the files fit, and two touch the game; the others leave
\* both as they are.
LEMMA FitQuiet ==
    ASSUME FatalHalts, [Next]_vars
    PROVE  \/ CheckMods \/ ScanHooks \/ ApplyHook \/ RunStart
           \/ /\ UNCHANGED <<mem, started>>
              /\ pc' = "scan" => pc = "scan"
              /\ pc' \in {"apply", "run"} => pc \in {"apply", "run"}
<1> DEFINE Quiet == /\ UNCHANGED <<mem, started>>
                    /\ pc' = "scan" => pc = "scan"
                    /\ pc' \in {"apply", "run"} => pc \in {"apply", "run"}
<1> USE DEF gameVars
<1>1. CASE EnterInit \/ ReenterInit \/ Allocate \/ OpenDirs \/ EndPass
      BY <1>1 DEF EnterInit, ReenterInit, Allocate, OpenDirs, EndPass
<1>2. ASSUME NEW f \in Files, ReadDir(f) PROVE Quiet
      BY <1>2 DEF ReadDir
<1>3. CASE Identify \/ ReadManifest \/ FindHooks \/ ReadHook \/ LoadDone
      BY <1>3 DEF Identify, ReadManifest, FindHooks, ReadHook, LoadDone
<1>4. CASE AsCoreAPI \/ AsCoreMod
      BY <1>4 DEF AsCoreAPI, AsCoreMod, BreakPass, Fatal
<1>5. CASE AsStandard \/ AsOther \/ LoadFails
      BY <1>5 DEF AsStandard, AsOther, LoadFails, BreakPass, Fatal
<1>6. CASE RefuseMods \/ ApplyFails \/ ApplyDone \/ Finish
      BY <1>6 DEF RefuseMods, ApplyFails, ApplyDone, Finish, Fatal
<1>7. CASE UNCHANGED vars
      BY <1>7 DEF vars
<1> QED BY <1>1, <1>2, <1>3, <1>4, <1>5, <1>6, <1>7 DEF Next, InitStep, LoadStep, Stopped

\* Where OSFatal halts, every step keeps that.
LEMMA AcceptanceStep == FatalHalts /\ AcceptanceInv /\ [Next]_vars => AcceptanceInv'
<1> SUFFICES ASSUME FatalHalts, AcceptanceInv, [Next]_vars PROVE AcceptanceInv'
    OBVIOUS
<1>1. TypeOK /\ FirstCall /\ EntriesFaithful /\ RefinementInv /\ ReadInv
      BY DEF AcceptanceInv, RefinementInv, StartsInv, PatchInv, WritesInv
<1>2. RefinementInv' /\ ReadInv'
      BY <1>1, RefinementHolds, ReadStep
<1>3. /\ FilesFit' <=> FilesFit
      /\ HooksClash(AllFiles)' <=> HooksClash(AllFiles)
      /\ Acceptable' <=> Acceptable
      BY DiskStep, FitStays
<1>4. FilesFit /\ ~HooksClash(AllFiles) => Acceptable
      BY DEF Acceptable, FilesFit, AllFiles
<1>5. CASE CheckMods
      <2>1. FilesFit /\ pc' = "scan" /\ UNCHANGED <<mem, started>>
            BY <1>1, <1>5, CheckedFilesFit DEF CheckMods, gameVars
      <2>2. Untouched' <=> Untouched
            BY <2>1 DEF Untouched
      <2> QED BY <1>2, <1>3, <2>1, <2>2 DEF AcceptanceInv, OnlyAcceptable
<1>6. CASE ScanHooks
      <2>1. /\ pc = "scan" /\ pc' \in {"apply", "haltedLoading"} /\ UNCHANGED <<mem, started>>
            BY <1>6 DEF ScanHooks, Fatal, gameVars
      <2>2. pc' = "apply" => ~HooksClash(AllFiles)
            BY <1>1, <1>6, ScannedHooksFit
      <2>3. Untouched' <=> Untouched
            BY <2>1 DEF Untouched
      <2> QED BY <1>2, <1>3, <2>1, <2>2, <2>3 DEF AcceptanceInv, OnlyAcceptable
<1>7. CASE ApplyHook \/ RunStart
      <2>1. pc \in {"apply", "run"} /\ pc' = pc
            BY <1>7 DEF ApplyHook, RunStart
      <2>2. FilesFit /\ ~HooksClash(AllFiles)
            BY <2>1 DEF AcceptanceInv
      <2> QED BY <1>2, <1>3, <1>4, <2>1, <2>2 DEF AcceptanceInv, OnlyAcceptable
<1>8. CASE /\ UNCHANGED <<mem, started>>
           /\ pc' = "scan" => pc = "scan"
           /\ pc' \in {"apply", "run"} => pc \in {"apply", "run"}
      <2>1. Untouched' <=> Untouched
            BY <1>8 DEF Untouched
      <2> QED BY <1>2, <1>3, <1>8, <2>1 DEF AcceptanceInv, OnlyAcceptable
<1> QED BY <1>5, <1>6, <1>7, <1>8, FitQuiet

\* The game is untouched before the first call of init.
LEMMA InitAcceptance == FatalHalts /\ Init => AcceptanceInv
<1> SUFFICES ASSUME FatalHalts, Init PROVE AcceptanceInv
    OBVIOUS
<1>1. RefinementInv /\ ReadInv
      BY RefinementHolds, InitRead
<1>2. pc = "idle" /\ Untouched
      BY DEF Init, Untouched
<1> QED BY <1>1, <1>2 DEF AcceptanceInv, OnlyAcceptable

\* If OSFatal ends the application, no hook is applied and no start function runs
\* unless the files of both directories fit together: whatever they are, in whichever
\* order they are listed, and however the sort breaks ties.
THEOREM OnlyAcceptableIsInjected ==
    ASSUME FatalHalts
    PROVE  Spec => []OnlyAcceptable
<1>1. Init => AcceptanceInv
      BY InitAcceptance
<1>2. AcceptanceInv /\ [Next]_vars => AcceptanceInv'
      BY AcceptanceStep
<1>3. AcceptanceInv => OnlyAcceptable
      BY DEF AcceptanceInv
<1> QED BY <1>1, <1>2, <1>3, PTL DEF Spec

----------------------------------------------------------------------------
(* What is acceptable is not refused *)

\* The macros of Hooks.h give every patch an array of at least one unit.
NoEmptyPatches ==
    \A f \in Files : \A h \in Range(Image[f].hooks) : h.magic = "Patch" => h.count > 0

\* Files that are read belong to one of the two directories.
LEMMA ReadFilesAreFiles ==
    ASSUME TypeOK, FilesRead, Underway
    PROVE  /\ AllFiles \subseteq Files
           /\ Loaded \subseteq AllFiles
           /\ pc \in LoadPCs => cur \in AllFiles
           /\ Named \subseteq AllFiles /\ Depended \subseteq AllFiles
           /\ Classified \subseteq AllFiles
<1>1. AllFiles \subseteq Files
      BY DirAssumption DEF AllFiles, FilesIn, TypeOK, ConsoleTypeOK
<1>2. DirNow \subseteq AllFiles /\ Before \subseteq AllFiles
      BY DEF DirNow, Before, AllFiles, FilesIn
<1>3. Loaded \subseteq AllFiles
      BY <1>2 DEF Loaded, HereLoaded
<1>4. pc \in LoadPCs => cur \in AllFiles
      BY <1>2 DEF FilesRead
<1> QED BY <1>1, <1>3, <1>4 DEF Named, Depended, Classified, CurrentIn, LoadPCs

\* A name that is taken belongs to the loader or to another file, or the file is in
\* both directories.
LEMMA TakenNameIsClash ==
    ASSUME TypeOK, FilesRead, NamedInv, pc = "identify", Installed(RPL.id)
    PROVE  ~Acceptable
<1>1. Underway /\ pc \in LoadPCs
      BY DEF Underway, LoadPCs
<1>2. cur \in AllFiles /\ Loaded \subseteq AllFiles /\ Named = Loaded
      BY <1>1, ReadFilesAreFiles DEF Named, CurrentIn
<1>3. PICK m \in Range(mods) : SameId(m.id, Image[cur].id)
      BY DEF Installed, Range, RPL
<1>4. CASE m = Telkin
      BY <1>2, <1>3, <1>4 DEF Acceptable, NamesClash, SameId, AllFiles
<1>5. ASSUME NEW f \in Named, m = ModOf(f) PROVE ~Acceptable
      <2>1. SameId(Image[f].id, Image[cur].id)
            BY <1>3, <1>5 DEF ModOf
      <2>2. CASE f # cur
            BY <1>2, <2>1, <2>2 DEF Acceptable, NamesClash, AllFiles
      <2>3. CASE f = cur
            <3>1. cur \in Before
                  BY <1>1, <1>2, <1>5, <2>3 DEF Loaded, HereLoaded, CurrentIn
            <3>2. cur \in FilesIn(coreDir) /\ cur \in FilesIn(modsDir)
                  BY <1>1, <3>1 DEF Before, FilesRead, DirNow, FilesIn
            <3> QED BY <3>2 DEF Acceptable
      <2> QED BY <2>2, <2>3
<1> QED BY <1>1, <1>3, <1>4, <1>5 DEF NamedInv

\* A type that is refused after the types encountered so far clashes with one of them.
LEMMA RefusedTypeIsClash ==
    ASSUME TypeOK, FilesRead, ClassifiedInv, pc = "classify", SecondCoreAPI \/ CoreModUnderAPI
    PROVE  ~Acceptable
<1>1. Underway /\ pc \in LoadPCs /\ Identified
      BY DEF Underway, LoadPCs, Identified
<1>2. cur \in AllFiles /\ Loaded \subseteq AllFiles /\ Classified = Loaded /\ cur \notin Loaded
      BY <1>1, ReadFilesAreFiles DEF Classified, CurrentIn, FilesRead
<1>3. PICK f \in Classified : Image[f].type = "CoreAPI"
      BY <1>1 DEF ClassifiedInv, SecondCoreAPI, CoreModUnderAPI
<1>4. TypesClash(AllFiles)
      BY <1>2, <1>3 DEF TypesClash, Typed, SecondCoreAPI, CoreModUnderAPI, RPL
<1> QED BY <1>4 DEF Acceptable, AllFiles

\* A file that loadRPL refuses is not in order, or does not fit to the others.
LEMMA RefusedFileIsUnfit ==
    ASSUME TypeOK, ReadInv,
           \/ LoadFails
           \/ pc = "classify" /\ RPL.type \in {"CoreAPI", "CoreMod"} /\ ~Has("__rpl_start")
           \/ pc = "classify" /\ RPL.type = "Special"
    PROVE  ~Acceptable
<1>1. pc \in LoadPCs /\ Underway
      BY DEF LoadFails, LoadPCs, Underway
<1>2. cur \in AllFiles /\ cur \in Files
      BY <1>1, ReadFilesAreFiles DEF ReadInv
<1>3. Acceptable => Loadable(cur)
      BY <1>2 DEF Acceptable, AllFiles
<1>4. CASE pc = "identify" /\ ~Identifiable
      <2>1. CASE Installed(RPL.id)
            BY <1>4, <2>1, TakenNameIsClash DEF ReadInv
      <2>2. CASE ~Installed(RPL.id)
            BY <1>3, <1>4, <2>2 DEF Identifiable, Loadable, NeededExports, RPL
      <2> QED BY <2>1, <2>2
<1>5. CASE pc = "manifest" /\ ~HasManifest
      BY <1>3, <1>5 DEF HasManifest, Loadable, NeededExports, RPL
<1>6. CASE pc = "classify" /\ ~Classifiable
      <2>1. CASE StandardWithoutStart
            BY <1>3, <2>1 DEF StandardWithoutStart, Loadable, NeededExports, NeedsStart, Has, RPL
      <2> QED BY <1>6, <2>1, RefusedTypeIsClash DEF Classifiable, ReadInv
<1>7. CASE pc = "hooks" /\ ~TableIsGood
      BY <1>3, <1>7 DEF TableIsGood, HasTable, Has, Loadable, NeededExports, RPL
<1>8. CASE pc = "read" /\ next <= Len(RPL.hooks) /\ ~Readable(RPL.hooks[next])
      <2>1. next \in DOMAIN Image[cur].hooks
            BY <1>2, <1>8, ImageAssumption DEF TypeOK, ControlTypeOK, RPL
      <2>2. HasTable
            BY <1>1, <1>8 DEF ReadInv, LoadableInv
      <2> QED BY <1>3, <1>8, <2>1, <2>2 DEF Loadable, HasTable, Has, RPL, Range
<1>9. CASE pc = "classify" /\ RPL.type \in {"CoreAPI", "CoreMod"} /\ ~Has("__rpl_start")
      BY <1>3, <1>9 DEF Loadable, NeededExports, NeedsStart, Has, RPL
<1>10. CASE pc = "classify" /\ RPL.type = "Special"
       BY <1>3, <1>10 DEF Loadable, RPL
<1> QED BY <1>4, <1>5, <1>6, <1>7, <1>8, <1>9, <1>10 DEF LoadFails

\* A dependency that is provided is satisfied, because one mod at most has the name.
LEMMA ProvidedIsSatisfied ==
    ASSUME TypeOK, ModsDistinct, NamedInv, FilesRead, AllRead, NEW d, Provided(d, AllFiles)
    PROVE  Satisfied(d)
<1>1. Range(mods) = {Telkin} \cup {ModOf(f) : f \in AllFiles}
      BY AllFilesRead DEF NamedInv, Underway
<1>2. PICK m \in Range(mods) : SameId(m.id, d.mod) /\ Verdict[<<d.range, m.version>>] = 1
      BY <1>1 DEF Provided, ModOf
<1>3. PICK i \in DOMAIN mods : m = mods[i]
      BY <1>2 DEF Range
<1>4. DOMAIN mods = 1 .. Len(mods) /\ Len(mods) \in Nat
      BY DEF TypeOK, ListsTypeOK
<1>5. ASSUME NEW j \in 1 .. i - 1 PROVE ~SameId(mods[j].id, d.mod)
      <2>1. j \in DOMAIN mods /\ j # i
            BY <1>3, <1>4
      <2> QED BY <1>2, <1>3, <2>1 DEF ModsDistinct, SameId
<1> QED BY <1>2, <1>3, <1>5 DEF Satisfied

\* Mods that are refused once they are all read do not fit together.
LEMMA RefusedModsAreUnfit ==
    ASSUME TypeOK, ModsDistinct, ReadInv, RefuseMods
    PROVE  ~Acceptable
<1>1. AllRead /\ Underway /\ ~CheckPassed
      BY DEF RefuseMods, AllRead, Underway
<1>2. Depended = AllFiles /\ Classified = AllFiles
      BY <1>1, AllFilesRead DEF ReadInv
<1>3. success
      BY <1>1 DEF ReadInv, FilesRead
<1>4. CASE ~TypesAgree
      <2>1. TypesClash(AllFiles)
            BY <1>1, <1>2, <1>4 DEF ReadInv, ClassifiedInv, TypesAgree, TypesClash, Typed
      <2> QED BY <2>1 DEF Acceptable, AllFiles
<1>5. CASE ~DependenciesHold
      <2>1. PICK d \in Range(deps) : ~Satisfied(d)
            BY <1>5 DEF DependenciesHold
      <2>2. PICK f \in AllFiles : d \in Range(Image[f].deps)
            BY <1>1, <1>2 DEF ReadInv, DependedInv
      <2>3. ~Provided(d, AllFiles)
            BY <1>1, <2>1, ProvidedIsSatisfied DEF ReadInv
      <2> QED BY <2>2, <2>3 DEF Acceptable, AllFiles
<1> QED BY <1>1, <1>3, <1>4, <1>5 DEF CheckPassed

\* Every hook that is validated stands for at least one byte.
LEMMA EntriesHaveBytes ==
    ASSUME NoEmptyPatches, TypeOK, EntriesFaithful, ReadInv, AllRead, NEW e \in Range(allHooks)
    PROVE  /\ e \in EntrySet /\ e.start < e.end
           /\ e.ptr[1] \in AllFiles /\ e.ptr[2] \in HooksOf(e.ptr[1])
           /\ e.ptr = <<e.ptr[1], e.ptr[2]>>
<1> DEFINE f == e.ptr[1]
           h == HookAt(e.ptr)
<1>1. e \in EntrySet
      BY RangeOfSeq DEF TypeOK, ListsTypeOK
<1>2. Underway
      BY DEF Underway
<1>3. /\ f \in AllFiles /\ f \in Files /\ e.ptr[2] \in HooksOf(f) /\ Loadable(f)
      BY <1>2, AllFilesRead, ReadFilesAreFiles DEF ReadInv, EnteredInv, LoadableInv
<1>4. h \in Range(Image[f].hooks) /\ h.magic # "Null" /\ Readable(h) /\ Fits(h)
      BY <1>3, ImageAssumption DEF HooksOf, HookAt, Loadable, Range
<1>5. WriteSize(h) \in Nat /\ WriteSize(h) > 0
      <2>1. CASE h.magic = "Patch"
            <3>1. h.unit \div 8 \in {1, 2, 4, 8} /\ h.count \in Nat /\ h.count > 0
                  BY <1>3, <1>4, <2>1 DEF Readable, UnitIsValid, Fits, NoEmptyPatches
            <3>2. WriteSize(h) = h.count * (h.unit \div 8)
                  BY <2>1 DEF WriteSize
            <3> HIDE DEF h
            <3> QED BY <3>1, <3>2
      <2>2. CASE h.magic # "Patch"
            BY <2>2 DEF WriteSize
      <2> QED BY <2>1, <2>2
<1>6. h.addr \in Nat
      BY <1>4, WordIsNat DEF Fits
<1>7. h.addr \in Footprint(h)
      <2> HIDE DEF h
      <2> QED BY <1>5, <1>6 DEF Footprint
<1>8. h.addr \in e.start .. e.end - 1
      BY <1>7 DEF EntriesFaithful, Bytes
<1>9. e.start \in Nat /\ e.end \in Nat
      BY <1>1, WordIsNat DEF EntrySet
<1>10. e.start < e.end
       <2> HIDE DEF h
       <2> QED BY <1>6, <1>8, <1>9
<1>11. e.ptr = <<e.ptr[1], e.ptr[2]>>
       BY <1>1 DEF EntrySet, PtrSet
<1> QED BY <1>1, <1>3, <1>10, <1>11

\* If the scan objects, two hooks have a byte in common.
LEMMA RefusedHooksClash ==
    ASSUME NoEmptyPatches, TypeOK, EntriesFaithful, OnePerHook(allHooks), ReadInv, ScanHooks,
           pc' # "apply"
    PROVE  ~Acceptable
<1>1. AllRead
      BY DEF ScanHooks, AllRead
<1> DEFINE S == {e \in EntrySet : e.start < e.end}
<1>2. allHooks \in Seq(S)
      <2>1. \A e \in Range(allHooks) : e \in S
            BY <1>1, EntriesHaveBytes
      <2>2. allHooks \in Seq(EntrySet) /\ \A i \in DOMAIN allHooks : allHooks[i] \in S
            BY <2>1 DEF TypeOK, ListsTypeOK, Range
      <2> HIDE DEF S
      <2> QED BY <2>2
<1>3. \A e \in S : Ranged(e) /\ e.start < e.end
      BY EntriesAreRanged
<1>4. allHooks' \in SortedOrders(allHooks) /\ ~ValidHooks(allHooks')
      BY DEF ScanHooks
<1>5. ~PairwiseDisjoint(allHooks)
      <2> HIDE DEF S
      <2> QED BY <1>2, <1>3, <1>4, ScanIsComplete
<1>6. PICK i \in DOMAIN allHooks, j \in DOMAIN allHooks :
          i # j /\ ~Disjoint(allHooks[i], allHooks[j])
      BY <1>5 DEF PairwiseDisjoint
<1>7. allHooks[i] \in Range(allHooks) /\ allHooks[j] \in Range(allHooks)
      BY DEF Range
<1>8. PICK f \in AllFiles : \E k \in HooksOf(f) : allHooks[i].ptr = <<f, k>>
      BY <1>1, <1>7, EntriesHaveBytes
<1>9. PICK g \in AllFiles : \E l \in HooksOf(g) : allHooks[j].ptr = <<g, l>>
      BY <1>1, <1>7, EntriesHaveBytes
<1>10. PICK k \in HooksOf(f) : allHooks[i].ptr = <<f, k>>
       BY <1>8
<1>11. PICK l \in HooksOf(g) : allHooks[j].ptr = <<g, l>>
       BY <1>9
<1>12. <<f, k>> # <<g, l>>
       BY <1>6, <1>10, <1>11 DEF OnePerHook
<1>13. /\ Bytes(allHooks[i]) = Footprint(Image[f].hooks[k])
       /\ Bytes(allHooks[j]) = Footprint(Image[g].hooks[l])
       BY <1>7, <1>10, <1>11 DEF EntriesFaithful, HookAt
<1>14. HooksClash(AllFiles)
       BY <1>6, <1>12, <1>13 DEF HooksClash, Disjoint
<1> QED BY <1>14 DEF Acceptable, AllFiles

\* The ways in which reading and validating the files ends.
LEMMA RefusalStep ==
    ASSUME FatalHalts, [Next]_vars, pc' = "haltedLoading"
    PROVE  \/ pc = "haltedLoading"
           \/ LoadFails \/ RefuseMods \/ (ScanHooks /\ pc' # "apply")
           \/ pc = "classify" /\ RPL.type \in {"CoreAPI", "CoreMod"} /\ ~Has("__rpl_start")
           \/ pc = "classify" /\ RPL.type = "Special"
<1>1. CASE EnterInit \/ ReenterInit \/ Allocate \/ OpenDirs \/ EndPass
      BY <1>1 DEF EnterInit, ReenterInit, Allocate, OpenDirs, EndPass
<1>2. CASE \E f \in Files : ReadDir(f)
      BY <1>2 DEF ReadDir
<1>3. CASE Identify \/ ReadManifest \/ FindHooks \/ ReadHook \/ LoadDone
      BY <1>3 DEF Identify, ReadManifest, FindHooks, ReadHook, LoadDone
<1>4. CASE AsCoreAPI \/ AsCoreMod \/ AsStandard \/ AsOther
      BY <1>4 DEF AsCoreAPI, AsCoreMod, AsStandard, AsOther, BreakPass, Fatal
<1>5. CASE CheckMods \/ ApplyHook \/ ApplyFails \/ ApplyDone \/ RunStart \/ Finish
      BY <1>5 DEF CheckMods, ApplyHook, ApplyFails, ApplyDone, RunStart, Finish, Fatal
<1>6. CASE UNCHANGED vars
      BY <1>6 DEF vars
<1> QED BY <1>1, <1>2, <1>3, <1>4, <1>5, <1>6 DEF Next, InitStep, LoadStep, Stopped

RefusalInv == AcceptanceInv /\ NamesInv /\ NothingRefusedWrongly

\* Where OSFatal halts and no patch is empty, every refusal has its reason.
LEMMA RefusalIsDeserved ==
    ASSUME FatalHalts, NoEmptyPatches, RefusalInv, [Next]_vars
    PROVE  NothingRefusedWrongly'
<1> SUFFICES ASSUME pc' = "haltedLoading" PROVE ~Acceptable'
    BY DEF NothingRefusedWrongly
<1>1. /\ TypeOK /\ ModsDistinct /\ ReadInv /\ EntriesFaithful /\ OnePerHook(allHooks)
      BY DEF RefusalInv, AcceptanceInv, NamesInv, RefinementInv, PatchInv, WritesInv, EntriesInv,
             EntriesOnce
<1>2. Acceptable' <=> Acceptable
      BY DiskStep, FitStays
<1>3. CASE pc = "haltedLoading"
      BY <1>2, <1>3 DEF RefusalInv, NothingRefusedWrongly
<1>4. CASE RefuseMods
      BY <1>1, <1>2, <1>4, RefusedModsAreUnfit
<1>5. CASE ScanHooks /\ pc' # "apply"
      BY <1>1, <1>2, <1>5, RefusedHooksClash
<1>6. CASE \/ LoadFails
           \/ pc = "classify" /\ RPL.type \in {"CoreAPI", "CoreMod"} /\ ~Has("__rpl_start")
           \/ pc = "classify" /\ RPL.type = "Special"
      BY <1>1, <1>2, <1>6, RefusedFileIsUnfit
<1> QED BY <1>3, <1>4, <1>5, <1>6, RefusalStep

\* If OSFatal ends the application, files that fit together are never refused: whatever
\* they are, in whichever order they are listed, and however the sort breaks ties. A
\* patch of no bytes inside the range of another hook would be refused without cause.
THEOREM NothingIsRefusedWrongly ==
    ASSUME FatalHalts, NoEmptyPatches
    PROVE  Spec => []NothingRefusedWrongly
<1>1. Init => RefusalInv
      <2>1. Init => NamesInv
            BY InitType DEF Init, NamesInv, FirstCall, ModsDistinct
      <2>2. Init => NothingRefusedWrongly
            BY DEF Init, NothingRefusedWrongly
      <2> QED BY <2>1, <2>2, InitAcceptance DEF RefusalInv
<1>2. RefusalInv /\ [Next]_vars => RefusalInv'
      BY AcceptanceStep, NamesStep, RefusalIsDeserved DEF RefusalInv
<1>3. RefusalInv => NothingRefusedWrongly
      BY DEF RefusalInv
<1> QED BY <1>1, <1>2, <1>3, PTL DEF Spec
=============================================================================
