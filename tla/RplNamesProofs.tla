--------------------------- MODULE RplNamesProofs ---------------------------
(***************************************************************************)
(* The Aroma launcher, for every number of applications (AromaPlugin), and *)
(* the names of RPLs, for all sets of files and every size of the buffers  *)
(* (RplNames).                                                             *)
(***************************************************************************)
EXTENDS RplNames, SequenceTheorems, TLAPS

\* What the handlers have reached, of each kind of thing they hold.
LayersInv ==
    /\ pc \in {"loaded", "idle", "content", "halted"} => contentLayerHandle = None
    /\ pc \in {"loaded", "idle", "content", "aoc", "halted"} => aocLayerHandle = None
    /\ LayersOwned

Before == {"loaded", "idle", "content", "aoc", "bootstrap", "halted"}
RplInv ==
    /\ pc \in Before \cup {"find", "init", "running"}
    /\ pc \in Before =>
           references = 0 /\ TelkinRPLHandle = FALSE /\ TelkinInitialized = FALSE
    /\ pc \in {"find", "init"} => /\ references = 1 /\ TelkinRPLHandle = TRUE
                                  /\ sdCard # "empty"
    /\ pc = "init" => sdCard = "complete"
    /\ inits \in {0, 1}
    /\ pc \in {"content", "aoc", "bootstrap", "find", "init"} => inits = 0
    /\ pc = "running" =>
           /\ inits = 1 <=> sdCard = "complete"
           /\ IF sdCard = "empty" THEN references = 0 /\ TelkinRPLHandle = FALSE
                                  ELSE references = 1 /\ TelkinRPLHandle = TRUE

PluginInv == LayersInv /\ RplInv

\* A layer has a handle.
LEMMA LayerIsSome == ASSUME NEW kind PROVE Layer(kind) # None
<1>1. Layer(kind) = <<app, kind>> /\ None = <<>>
      BY DEF Layer, None
<1>2. Len(<<app, kind>>) = 2 /\ Len(<<>>) = 0
      OBVIOUS
<1> QED BY <1>1, <1>2

\* The plugin has just been loaded.
LEMMA PluginStart == Init => PluginInv
BY DEF Init, PluginInv, LayersInv, RplInv, Before, LayersOwned, Removed

\* Layers are added to the handles they are removed by.
LEMMA LayersStep == PluginInv /\ [Next]_vars => LayersInv'
<1> SUFFICES ASSUME PluginInv, [Next]_vars PROVE LayersInv'
    OBVIOUS
<1>1. LayersInv /\ layers = {contentLayerHandle, aocLayerHandle} \ {None}
      BY DEF PluginInv, LayersInv, LayersOwned, Removed
<1>2. CASE RedirectContent
      <2>1. pc' = "aoc" /\ contentLayerHandle = None /\ aocLayerHandle = None
            BY <1>1, <1>2 DEF RedirectContent, LayersInv
      <2>2. \/ /\ layers' = layers \cup {Layer("content")}
               /\ contentLayerHandle' = Layer("content")
            \/ UNCHANGED <<layers, contentLayerHandle>>
            BY <1>2 DEF RedirectContent
      <2>3. aocLayerHandle' = aocLayerHandle
            BY <1>2 DEF RedirectContent
      <2>4. layers' = {contentLayerHandle', aocLayerHandle'} \ {None}
            BY <1>1, <2>1, <2>2, <2>3, LayerIsSome
      <2> QED BY <2>1, <2>3, <2>4 DEF LayersInv, LayersOwned, Removed
<1>3. CASE RedirectAoc
      <2>1. pc' = "bootstrap" /\ aocLayerHandle = None
            BY <1>1, <1>3 DEF RedirectAoc, LayersInv
      <2>2. \/ layers' = layers \cup {Layer("aoc")} /\ aocLayerHandle' = Layer("aoc")
            \/ UNCHANGED <<layers, aocLayerHandle>>
            BY <1>3 DEF RedirectAoc
      <2>3. contentLayerHandle' = contentLayerHandle
            BY <1>3 DEF RedirectAoc
      <2>4. layers' = {contentLayerHandle', aocLayerHandle'} \ {None}
            BY <1>1, <2>1, <2>2, <2>3, LayerIsSome
      <2> QED BY <2>1, <2>4 DEF LayersInv, LayersOwned, Removed
<1>4. CASE EndApplication
      <2>1. contentLayerHandle' = None /\ aocLayerHandle' = None /\ layers' = {}
            BY <1>4 DEF EndApplication, PluginInv, LayersInv, LayersOwned
      <2> QED BY <2>1 DEF LayersInv, LayersOwned, Removed
<1>5. CASE UNCHANGED layerVars
      <2>1. /\ layers' = layers /\ contentLayerHandle' = contentLayerHandle
            /\ aocLayerHandle' = aocLayerHandle
            BY <1>5 DEF layerVars
      <2>2. \/ pc' = pc \/ (pc = "loaded" /\ pc' \in {"idle", "halted"})
            \/ (pc = "idle" /\ pc' = "content")
            \/ pc' \in {"find", "init", "running"}
            \/ (RedirectContent \/ RedirectAoc \/ EndApplication)
            BY DEF Next, InitializePlugin, StartApplication, TelkinBootstrap, FindInit,
                   CallInit, Stopped, vars
      <2> QED BY <1>1, <1>2, <1>3, <1>4, <2>1, <2>2 DEF LayersInv, LayersOwned, Removed
<1>6. CASE UNCHANGED vars
      BY <1>5, <1>6 DEF vars, layerVars
<1> QED BY <1>2, <1>3, <1>4, <1>5, <1>6
        DEF Next, InitializePlugin, StartApplication, TelkinBootstrap, FindInit, CallInit,
            Stopped

\* Telkin.rpl is loaded once and initialized once in an application.
LEMMA RplStep == PluginInv /\ [Next]_vars => RplInv'
<1> SUFFICES ASSUME RplInv, [Next]_vars PROVE RplInv'
    BY DEF PluginInv
<1> USE DEF RplInv, Before
<1>1. CASE InitializePlugin
      BY <1>1 DEF InitializePlugin, rplVars
<1>2. CASE StartApplication
      BY <1>2 DEF StartApplication
<1>3. CASE RedirectContent
      BY <1>3 DEF RedirectContent, rplVars, hostVars
<1>4. CASE RedirectAoc
      BY <1>4 DEF RedirectAoc, rplVars, hostVars
<1>5. CASE TelkinBootstrap
      BY <1>5 DEF TelkinBootstrap, hostVars
<1>6. CASE FindInit
      BY <1>6 DEF FindInit, rplVars, hostVars
<1>7. CASE CallInit
      BY <1>7 DEF CallInit, hostVars
<1>8. CASE EndApplication
      BY <1>8 DEF EndApplication, hostVars
<1>9. CASE UNCHANGED vars
      BY <1>9 DEF vars
<1> QED BY <1>1, <1>2, <1>3, <1>4, <1>5, <1>6, <1>7, <1>8, <1>9 DEF Next, Stopped

\* Every step of the plugin keeps the invariant.
LEMMA PluginStep == PluginInv /\ [Next]_vars => PluginInv'
BY LayersStep, RplStep DEF PluginInv

\* The plugin's life is not disturbed by questions for files.
LEMMA NamesLife == NamesInit /\ [][NamesNext]_<<vars, nameVars>> => []PluginInv
<1>1. NamesInit => PluginInv
      BY PluginStart DEF NamesInit
<1>2. [NamesNext]_<<vars, nameVars>> => [Next]_vars
      BY DEF NamesNext, Acquire, LoadMod, Find, Answer, Host, nameVars
<1> QED BY <1>1, <1>2, PluginStep, PTL

\* For every number of applications, the layers that are active are those that the
\* handles hold.
THEOREM LayersAreOwned == NamesSpec => []LayersOwned
<1>1. PluginInv => LayersOwned
      BY DEF PluginInv, LayersInv
<1> QED BY <1>1, NamesLife, PTL DEF NamesSpec

\* After every application, whatever failed in it, nothing of it is left.
THEOREM NothingIsLeft == NamesSpec => []NothingOutlivesApplication
<1>1. PluginInv => NothingOutlivesApplication
      BY DEF PluginInv, LayersInv, LayersOwned, Removed, RplInv, Before,
             NothingOutlivesApplication
<1> QED BY <1>1, NamesLife, PTL DEF NamesSpec

\* However many applications there were before, one with a complete Telkin gets its
\* init called once.
THEOREM EachApplicationIsServed == NamesSpec => []InitEachApplication
<1>1. PluginInv => InitEachApplication
      BY DEF PluginInv, RplInv, Before, InitEachApplication
<1> QED BY <1>1, NamesLife, PTL DEF NamesSpec

----------------------------------------------------------------------------
(* Names *)

\* (The provers do not see that a constant string is a string.)
Characters == STRING \cup {"~"}

\* What is loaded was loaded from a file that is still there.
LoadedInv == card \subseteq Names /\ \A m \in loaded : Exists(m)
NamesInv == LoadedInv /\ FindsItsFile

\* A name in the directory is a name, and not the plain one.
LEMMA DirectoryName ==
    ASSUME NEW n \in Seq(Characters)
    PROVE  /\ InDirectory(n) \in Seq(Characters)
           /\ InDirectory(n) # <<>> /\ InDirectory(n)[1] = "~"
<1> DEFINE d == <<"~">>
<1>1. d \in Seq(Characters) /\ Len(d) = 1 /\ d[1] = "~"
      <2>1. Len(d) = 1 /\ d[1] = "~"
            OBVIOUS
      <2>2. "~" \in Characters
            BY DEF Characters
      <2>3. \A S : \A e \in S : <<e>> \in Seq(S)
            OBVIOUS
      <2> QED BY <2>1, <2>2, <2>3
<1> HIDE DEF d
<1>2. d \o n \in Seq(Characters) /\ Len(d \o n) = 1 + Len(n) /\ Len(n) \in Nat
      <2>1. d \o n \in Seq(Characters) /\ Len(d \o n) = Len(d) + Len(n)
            BY <1>1, ConcatProperties
      <2>2. Len(n) \in Nat
            BY LenProperties
      <2> QED BY <1>1, <2>1, <2>2
<1>3. (d \o n)[1] = "~"
      <2>1. 1 \in 1 .. Len(d) + Len(n) /\ 1 <= Len(d)
            BY <1>1, LenProperties
      <2>2. (d \o n)[1] = IF 1 <= Len(d) THEN d[1] ELSE n[1 - Len(d)]
            BY <1>1, <2>1, ConcatProperties
      <2> QED BY <1>1, <2>1, <2>2
<1>4. d \o n # <<>>
      BY <1>2
<1> QED BY <1>2, <1>3, <1>4 DEF InDirectory, d

\* A name that fits is redirected into the directory, whole.
LEMMA RedirectedIsWhole ==
    ASSUME NEW n \in Seq(Characters), Len(InDirectory(n)) <= Limit
    PROVE  Redirected(n) = InDirectory(n)
<1>1. InDirectory(n) \in Seq(Characters)
      BY DirectoryName
<1>2. Limit \in Nat /\ Len(InDirectory(n)) \in Nat
      BY <1>1, NamesAssumption
<1>3. ~(Len(InDirectory(n)) > Limit)
      BY <1>2
<1>4. Redirected(n) = SubSeq(InDirectory(n), 1, Len(InDirectory(n)))
      BY <1>3 DEF Redirected
<1> QED BY <1>1, <1>4, SubSeqFull

\* A question that was answered as it should be.
Answered(n, by, got) ==
    LET places == {m \in {n, InDirectory(n)} : Exists(m)}
    IN  /\ got \in places \cup {NoModule}
        /\ by = "core" => got = InDirectory(n)
        /\ by = "acquire" /\ sInitDone => (got = NoModule <=> places = {})
        /\ by = "acquire" /\ n \in plain => got = n
        /\ by = "find" /\ got = NoModule => loaded \cap {n} = {}

\* An answer keeps the invariant, if it is a right one.
LEMMA AnswerStep ==
    ASSUME LoadedInv, NEW n, NEW by, NEW got, Answer(n, by, got),
           got = NoModule \/ Exists(got),
           Len(InDirectory(n)) <= Limit => Answered(n, by, got)
    PROVE  NamesInv'
<1>1. /\ plain' = plain /\ card' = card /\ sInitDone' = sInitDone
      /\ loaded' = loaded \cup ({got} \ {NoModule})
      /\ lookup' = [asked |-> n, by |-> by, got |-> got]
      BY DEF Answer, vars
<1>2. \A m : Exists(m)' <=> Exists(m)
      BY <1>1 DEF Exists
<1>3. LoadedInv'
      BY <1>1, <1>2 DEF LoadedInv, Exists
<1>4. lookup'.asked = n /\ lookup'.by = by /\ lookup'.got = got
      BY <1>1
<1>5. ASSUME Len(InDirectory(n)) <= Limit
      PROVE  LET places == {m \in {n, InDirectory(n)} : Exists(m)'}
             IN  /\ got \in places \cup {NoModule}
                 /\ by = "core" => got = InDirectory(n)
                 /\ by = "acquire" /\ sInitDone' => (got = NoModule <=> places = {})
                 /\ by = "acquire" /\ n \in plain' => got = n
                 /\ by = "find" /\ got = NoModule => loaded' \cap {n} = {}
      BY <1>1, <1>2, <1>5 DEF Answered
<1>6. FindsItsFile'
      BY <1>4, <1>5 DEF FindsItsFile, InDirectory, Exists
<1> QED BY <1>3, <1>6 DEF NamesInv

\* The plain name of a file has characters and does not begin with the directory.
LEMMA NamesAreNames ==
    ASSUME NEW n \in Names
    PROVE  n \in Seq(Characters) /\ n # <<>> /\ ~IsRedirected(n)
<1>1. STRING \subseteq Characters
      BY DEF Characters
<1>2. n \in Seq(STRING) /\ n # <<>> /\ n[1] # "~"
      BY NamesAssumption
<1>3. n \in Seq(Characters)
      <2>1. \A S, T : \A s \in Seq(S) : S \subseteq T => s \in Seq(T)
            OBVIOUS
      <2> QED BY <1>1, <1>2, <2>1
<1> QED BY <1>2, <1>3 DEF IsRedirected

\* An import.
LEMMA AcquireStep == ASSUME LoadedInv, Acquire PROVE NamesInv'
<1>1. PICK n \in Names : Answer(n, "acquire", Acquired(n))
      BY DEF Acquire
<1>2. n \in Seq(Characters) /\ n # <<>> /\ ~IsRedirected(n)
      BY NamesAreNames
<1>3. /\ Exists(n) => Acquired(n) = n
      /\ ~Exists(n) /\ sInitDone /\ Exists(Redirected(n)) => Acquired(n) = Redirected(n)
      /\ ~Exists(n) /\ ~(sInitDone /\ Exists(Redirected(n))) => Acquired(n) = NoModule
      BY <1>2 DEF Acquired
<1>4. Acquired(n) = NoModule \/ Exists(Acquired(n))
      BY <1>3
<1>5. ASSUME Len(InDirectory(n)) <= Limit PROVE Answered(n, "acquire", Acquired(n))
      <2>1. Redirected(n) = InDirectory(n) /\ InDirectory(n) # NoModule /\ n # NoModule
            BY <1>2, <1>5, RedirectedIsWhole, DirectoryName DEF NoModule
      <2>2. n \in plain => Exists(n)
            BY DEF Exists
      <2> QED BY <1>3, <2>1, <2>2 DEF Answered
<1> QED BY <1>1, <1>4, <1>5, AnswerStep

\* The core loads one of the mods it has listed.
LEMMA LoadModStep == ASSUME LoadedInv, LoadMod PROVE NamesInv'
<1>1. PICK n \in card : Answer(n, "core", Acquired(Redirected(n)))
      BY DEF LoadMod
<1>2. n \in Names /\ n \in Seq(Characters)
      BY NamesAreNames DEF LoadedInv
<1>3. Acquired(Redirected(n)) = NoModule \/ Exists(Acquired(Redirected(n)))
      BY DEF Acquired
<1>4. ASSUME Len(InDirectory(n)) <= Limit
      PROVE  Answered(n, "core", Acquired(Redirected(n)))
      <2>1. Redirected(n) = InDirectory(n)
            BY <1>2, <1>4, RedirectedIsWhole
      <2>2. Exists(InDirectory(n))
            BY DEF Exists
      <2>3. Acquired(Redirected(n)) = InDirectory(n)
            BY <2>1, <2>2 DEF Acquired
      <2> QED BY <2>2, <2>3 DEF Answered
<1> QED BY <1>1, <1>3, <1>4, AnswerStep

\* The loader looks whether a module is loaded.
LEMMA FindStep == ASSUME LoadedInv, Find PROVE NamesInv'
<1>1. PICK n \in Names \cup {InDirectory(f) : f \in card} : Answer(n, "find", FoundByName(n))
      BY DEF Find
<1>2. n \in Seq(Characters) /\ n # <<>>
      BY NamesAreNames, DirectoryName DEF LoadedInv
<1>3. /\ sInitDone /\ Redirected(n) \in loaded => FoundByName(n) = Redirected(n)
      /\ ~(sInitDone /\ Redirected(n) \in loaded) /\ n \in loaded => FoundByName(n) = n
      /\ ~(sInitDone /\ Redirected(n) \in loaded) /\ n \notin loaded
             => FoundByName(n) = NoModule
      BY DEF FoundByName
<1>4. FoundByName(n) = NoModule \/ Exists(FoundByName(n))
      BY <1>3 DEF LoadedInv
<1>5. ASSUME Len(InDirectory(n)) <= Limit PROVE Answered(n, "find", FoundByName(n))
      <2>1. Redirected(n) = InDirectory(n) /\ InDirectory(n) # NoModule /\ n # NoModule
            BY <1>2, <1>5, RedirectedIsWhole, DirectoryName DEF NoModule
      <2> QED BY <1>3, <1>4, <2>1 DEF Answered
<1> QED BY <1>1, <1>4, <1>5, AnswerStep

\* Another application has other files and no module loaded.
LEMMA HostStep == ASSUME LoadedInv, Host PROVE NamesInv'
<1>1. /\ plain' = plain /\ lookup'.by = "nobody"
      /\ card' \in (IF app' # app THEN SUBSET Names ELSE {card})
      /\ loaded' = IF app' # app THEN {} ELSE loaded
      BY DEF Host, NoLookup
<1>2. card' \subseteq Names /\ (loaded' = {} \/ (loaded' = loaded /\ card' = card))
      BY <1>1 DEF LoadedInv
<1>3. LoadedInv'
      BY <1>1, <1>2 DEF LoadedInv, Exists
<1>4. FindsItsFile'
      BY <1>1 DEF FindsItsFile
<1> QED BY <1>3, <1>4 DEF NamesInv

\* For all sets of files, names and sizes of the buffers, and in every order of
\* questions and applications, a name that fits leads to its file or to none.
THEOREM NamesFindTheirFiles == NamesSpec => []FindsItsFile
<1>1. NamesInit => NamesInv
      BY DEF NamesInit, NamesInv, LoadedInv, FindsItsFile, NoLookup
<1>2. NamesInv /\ [NamesNext]_<<vars, nameVars>> => NamesInv'
      <2> SUFFICES ASSUME NamesInv, [NamesNext]_<<vars, nameVars>> PROVE NamesInv'
          OBVIOUS
      <2>1. CASE UNCHANGED <<vars, nameVars>>
            BY <2>1 DEF vars, nameVars, NamesInv, LoadedInv, FindsItsFile, Exists, InDirectory
      <2> QED BY <2>1, AcquireStep, LoadModStep, FindStep, HostStep DEF NamesNext, NamesInv
<1>3. NamesInv => FindsItsFile
      BY DEF NamesInv
<1> QED BY <1>1, <1>2, <1>3, PTL DEF NamesSpec
=============================================================================
