# A verification of Telkin

Telkin loads mods into a running Wii U game. A launcher (a plugin of the Aroma
environment on the console, a graphic pack routine in the Cemu emulator) loads
`Telkin.rpl` and calls its `init`. `init` reads two directories, loads every RPL
module it finds, checks types, dependencies and hooks, overwrites parts of the
game with the hooks and runs the mods' start functions. This directory holds
TLA+ models of that code, TLC configurations that check them on small instances,
and proofs of their main properties for instances of any size.

## The system

| component | state | operations | talks to |
| - | - | - | - |
| loader core, `core/src/Main.cpp` | `initialized`, `sAllMods`; in `init` the hook lists, start functions, dependencies, encountered types, `success` | `init`, `loadRPL`, `validateDependencies`, `validateHooks`, `applyHooks` | FS and dynamic loader of the system, exports of the mods, the game's memory |
| hook reading and scan, `HookApplicators.cpp`, `Main.cpp` | none (appends to the lists of `init`) | `readBranchHook`, `readPointerHook`, `readPatchHook`, `validateHooks` | the RPL's hook table |
| hook applicators, `HookApplicators.cpp` | none; they change memory and caches | `applyBranchHook`, `applyPointerHook`, `applyPatchHook`, `checkPin` | `privilegedWrite`, `DCFlushRange`, `ICInvalidateRange`, `isync` |
| version requirements, `Main.cpp` | none | `check_manifest_dependency` | the semver library |
| compiler runtime, `Runtime.cpp` | none | 64-bit division, conversions between integers and floating point | called by compiled code |
| libc, `include/telkin/Runtime.h` | the heap | string, number and memory functions | called by Telkin and mods |
| Aroma launcher, `launcher/aroma/src/Main.cpp` | layers' handles, the RPL's handle, `TelkinInitialized`, `sInitDone` | `INITIALIZE_PLUGIN`, `ON_APPLICATION_START`, `ON_APPLICATION_ENDS`, two replaced system functions | content redirection, dynamic loader, the core's `init` |
| Cemu launcher, `launcher/cemu/main.asm` | `Initialized`, two handles, stack and LR | `TelkinBootstrap` | dynamic loader, the core's `init` |
| mods API, `Main.cpp` | reads `sAllMods` | `getMods`, `isModLoaded`, `isCemu` | called by mods |
| assembler and assembly macros, `Assembly.h` | none at run time; the macros use the stack | one function per mnemonic, `tSaveVolatileRegisters`, `tRestoreVolatileRegisters`, `tSaveLR`, `tRestoreLR` | patch hooks and naked functions of mods; `printf` of `Runtime.h` |
| hook macros, `Hooks.h` | none | compile-time layout of hooks | included by mods |

Everything runs in one thread of the application. What makes it hard is not
concurrency of its own but what it does not control: the order in which
directories are listed, the order `std::sort` leaves equal elements in, any mod
that is broken in any of some twenty ways after parts of it have been recorded,
an allocation that fails, a second call of `init`, caches that evict and refill
between any two instructions, applications that come and go under a plugin that
stays. The hazards in `PROJECT.json` list each at its line.

What makes the parts correct:

- loader: the game is touched only for mods that fit together, in every order of
  listing; never by two hooks at one byte; no mod starts on a half patched game;
- scan: it refuses exactly the lists that write some byte twice;
- applicators: after they return, nobody sees the bytes before; a branch goes
  where it should or is refused;
- requirements: numbers are compared as numbers, nonsense is reported;
- runtime: the results are those of C's operators and library, for every operand;
- assembler: the processor reads a word as the mnemonic it was made from, and does
  what the name says; assembly code leaves its caller's registers and stack alone;
- launchers: one call of `init` per application, nothing left over, a stack and a
  return address as the caller had them.

## The modules

| module | models | uses |
| - | - | - |
| `HookScan` | records, ranges, readability and encodability of hooks; the overlap scan | |
| `Loader` | `init` and `loadRPL`, one action per step that can fail on its own | `HookScan`, `Injection` |
| `Injection` | the abstract specification `Loader` implements | |
| `CodePatch` | one applicator after another beside the caches of a core | |
| `BranchCode` | the branch instruction that is written and its execution | `HookScan` |
| `HookedCode` | a list of hooks from the scan over the applicators to the game that runs into them | `BranchCode`, `HookScan` |
| `Requirement` | `check_manifest_dependency` | |
| `Division` | `__udivmoddi4` and its callers | |
| `Conversion` | `__float*` and `__fix*` | |
| `Libc` | strings, bytes, `strtol`, character tests | |
| `Assembler` | every function of `tk::ppc` | |
| `Processor` | external: what the PowerPC manual makes of a word | |
| `AssembledCode` | a line of assembler, its word and what it does | `Processor`, `Assembler` |
| `NakedCode` | functions in assembly between compiled ones | |
| `CemuBootstrap` | the Cemu launcher | |
| `AromaPlugin` | the Aroma plugin over several applications | |
| `RplNames` | its two replaced lookups, and the core's load of a mod | `AromaPlugin` |

`MC*` modules and `.cfg` files choose instances; `*Proofs` modules hold theorems.
`Loader` composes the reading, scanning and applying of `HookScan` with the
directories and the dependency check; the verdict of `check_manifest_dependency`
is its parameter `Verdict`, modelled in `Requirement`; what one application of a
hook does to instructions and caches is left to `BranchCode` and `CodePatch`.

### Loader

The variables are the locals of `init` under short names (`apiHooks` is
`coreapiHooks`, `seen` the three `...Encountered` flags), the statics
`initialized` and `sAllMods` (`mods`), the console (`coreDir`, `modsDir`, `mem`,
`started`) and a program counter. `mem` maps every address to the hook that wrote
it last: contents do not matter, who wrote them does. A hook is named by its file
and index, as the code names it by its place in the RPL.

`EnterInit`, `Allocate`, `OpenDirs`, `ReadDir`, `EndPass` are `init` up to the end of
the two passes; `Identify`, `ReadManifest`, `AsCoreAPI` ... `AsOther`, `FindHooks`,
`ReadHook`, `LoadDone`, `LoadFails` are `loadRPL`; `CheckMods`, `RefuseMods`,
`ScanHooks`, `ApplyHook`, `ApplyFails`, `ApplyDone`, `RunStart`, `Finish` are the rest.
An action ends where the next early return could leave state behind, so every
state a failed load leaves is a state of the model: a file that fails late stays
in `mods`, its dependencies in `deps`, the hooks before the bad one in the lists.

`fatal` reports through `OSFatal`, and `docs/pages/print.md` says it "will immediately
halt the application". The code after each call is written as if it returned,
and does not agree with itself: `success` of pass 1 is overwritten by pass 2
(`Main.cpp:247`), and start functions run after hooks that could not be applied
(`Main.cpp:281-295`). The constant `FatalHalts` tells the two readings apart. The
run takes `TRUE`, as documented: `OnlyAcceptable` and `PatchedBeforeStart` rest on it.
With `FALSE` both are false: in the first case an RPL of the core directory that
does not load, followed by one of the mods directory that does, is forgotten.
The theorems on names, lists and writes hold for both values.

`Loader` leaves out: FS calls that fail other than by not finding a directory
(they are made with flags that stop the application), the FS client's own
state, exports that are found but null, and hooks within a few bytes of
0xFFFFFFFF, whose ranges would wrap (assumption `ImageAssumption`, by `Fits`).

### Injection

`Injection` says what a user may rely on without a word about files: while
`"loading"` nothing is touched; `Commit` fixes a plan of hooks no two of which
share a byte; then they are written in order, or writing is given up with
nothing undone and nothing started; then mods start, each once. `Loader` maps to it
with `stage` read off the program counter and `plan` the two applied lists in
order.

### The others

`CodePatch` takes the content of a cache line to be the set of hooks whose bytes
it has. The applicators work through the lines of a hook one by one; between any
two steps the hardware may evict or refill a line of the data cache, drop or
refill one of the instruction cache (from memory, not from the data cache), or
fetch instructions ahead. Only the core that applies hooks is modelled.

`BranchCode` has instructions as numbers, with the offset field cut, sign-extended
and added modulo the address space as the processor does it. `HookedCode` puts it into
the loop of `applyHooks`: the scan, the sort with its choice of order, the
applicators on one memory, and the processor at the first hooked instruction it
comes to, which is an instruction only if all four bytes are still the hook's.

`Division` and `Conversion` have the width as a parameter. A shift by a whole half
or more, undefined in C, yields a value outside the type, so the type invariant
says that it never happens. Division by zero and conversions of NaN, infinities
and values out of range are left out: C leaves them undefined.

`Requirement` spells texts as sequences of characters, since how they are read is
the point. A request is what its author means (a version, the numbers in front of a
wildcard, or nonsense) and the manner of writing it (blanks, operator, `v`);
`RequestText` and `FoundText` spell both out, the code reads the text, and the
properties compare the verdict with what was meant. `Parse` and `Satisfies`, the semver
library, are parameters (a mod may give no version at all: `NoText`, a null pointer, for
which the answer is that of a bad requirement), of which only `Parse(Spelling(v)) = v` is supposed;
`MCRequirement` gives them the meaning of semantic versioning for versions of three
numbers and a tag.

`Libc` has memory as sequences that hold no more than a function may read, so a read
too far stops the check. A loop is the number of times it goes round; a long has
a width. The calls are those that C defines (`Defined`: strings end, counts fit, bases
exist), and those of `strpbrk` with a null pointer, for which it has a test of its own. `ResultsAsInC` and, for `strtol`, `StrtolAsInC` state the C standard's results
without a loop. Two differences from C are known and stay outside of them: `0x` without
a hexadecimal digit ends `strtol` without a number (C takes the `0`), and `isspace` knows
the blank only, so no other white space is skipped.

`Assembler` is a table: a mnemonic's form, where its parameters go, its opcodes;
shorthands, branches and traps are as the code computes or types them. `Processor` is
the other side, written from the PowerPC manual and without a look at that table: where
the fields of each form are, in `Manual` the opcodes of every instruction and which
operand is in which field, decoding, the numbers of the special registers
(`Special`), and the effect of the instructions that something else is named after. It shares
only the names of the instructions and the order of operands with the code, which is the
manual's text order but for the integer compares, whose CR field comes last as a default, and
for displacements, which come after the register they are added to.
An operand in its neighbour's field or two swapped opcodes are an instruction too, but
another one by `Manual`. The time base is taken to be read by `mfspr` under the numbers of
`mftb`, as the code has it.
`AssembledCode` sends jobs (a function, its arguments, the registers the word finds)
through both. What the processor `did` is, for a mnemonic with a row and for one typed
as a number, the instructions the word is, with their operands; for a shorthand and a move the
`Effect`: the register, CR field or special register that is written, the value, and
which of CR0, CA and OV are set beside. The properties speak of names and effects only:
`ShorthandMeans` says that `extrwi` extracts into its first operand and records when asked to,
`Met` that `bdzf` tests the counter and a bit, `MoveMeans` that `mtdar` writes DAR.

`NakedCode` steps through a hook that saves all registers, a function that saves `LR`
and `printf`, one instruction at a time, while compiled functions call them and are
called by them, use every volatile register and put `LR` where the convention says.
The code under `OSReport` does not come back to a module's, as the comment on `r2`
in `Runtime.h` supposes. No macro saves XER or `f0` to `f13`, and the model does not
have them: a hook that interrupts code at any instruction may need more than the
macros save.

`CemuBootstrap` follows `r1`, `LR` and the stack words. A call overwrites `LR`.

`AromaPlugin` counts references to `Telkin.rpl` and keeps the active layers as a
set; it goes on after `OSFatal` (`FatalHalts = FALSE`), which only adds behaviours.
`RplNames` adds the two places a file may be in, the modules that are loaded, and
the lookups, asked at any moment of the plugin's life. A name is a sequence of
characters because a buffer cuts it. `FindsItsFile` is about names that fit; one that
is cut does lead to another file if there is one, in plugin and core alike. No property
says that it should not: nothing in the repository does.

## The runs

| run | checks | bounds, and why they are enough |
| - | - | - |
| `hooked_code` | `ScanComplete`, `HooksStay`, `ReachesTarget`, `RefusedForGood` | lists of up to 3 hooks, addresses and sizes from 0 to 6: two ranges can touch, overlap, nest, be equal or empty, a third can come between them in the sort; single branch hooks with every source and target of 256 addresses and a reach of 32: forward, backward, both limits, wrapping differences. The theorems cover every length and reach |
| `loader` | `TypeOK`, `ModsDistinct`, `HookListsAgree`, `OnlyAcceptable`, `NothingRefusedWrongly`, `PatchedBeforeStart`, `StartsInOrder`, `WriteOnce`, `Injects`, `Terminates` | 32 files: one for each thing that is refused and for each way two mods fit or clash; every pair in each directory and some triples; 2 calls of `init`. Every check in the code is about one file or two, except the order of the CoreAPI, which needs the triples |
| `code_patch` | `FetchCoherent`, `DataCoherent` | 2 lines, 3 hooks, one of them over both lines, every pair sharing a line or not; all initial cache states |
| `division` | `TypeOK`, `DividesCorrectly`, `LeadingBitsDivided`, `EntersAsCommented` | halves of 3 bits: every special case and each of the three distances (below, at, above a half) occur |
| `conversion` | `SignedToNearest`, `DoubleToNearest`, `CutOff`, `ResultsAsInC`, `StrtolAsInC` | 10-bit integers, 4 and 8 significant bits: integers that are exact, one bit, two bits and more too long; a half fits a double's mantissa, as 32 bits fit 53. All pairs of strings of up to 3 characters of two, counts 0 to 5; all texts of up to 4 of 13 characters in bases 0, 8, 10, 16 and 36 with a long of 5 bits, so that four characters reach and pass both limits in every base |
| `unsigned_float` | `UnsignedToNearest`, violated | the same |
| `requirement` | `WildcardComparesNumbers`, `ComparesAsAsked`, `NonsenseIsReported` | 2,748 requirements against 208 versions and mods without one: numbers 1 and 10 (1 is a prefix of 10), 0 and 1 in the third place, no tag and two, every operator and some that are none, blanks and v in front, prefixes shorter and longer than the buffer (`PrefixSize` 5) |
| `same_version` | `SameVersionSatisfies`, violated | the same |
| `cemu_bootstrap` | `TypeOK`, `InitOnce`, `ReturnsBalanced` | 2 calls from three places, and every import failing or not |
| `cemu_reentry` | `LaterCallsReturn`, violated | the same |
| `aroma` | `LayersOwned`, `NothingOutlivesApplication`, `InitEachApplication`, `FindsItsFile` | 3 applications: one before and one after the one in question; 3 names, each the beginning of the next, of which the longest does not fit, in any of the two places |
| `assembly` | `DecodesToItself`, `ConditionalsAsNamed`, `ShorthandsAsNamed`, `RegistersSurvive`, `ReturnsToCaller` | every mnemonic, each parameter at its smallest, largest and a value with mixed bits; branches with the CR bit or field and the counter that decide, either way; rotates and shifts at every count; compares on both sides of zero and of 2^31; every special register that has a name; functions three deep: an interrupted one, one under it, one more |

`OnlyAcceptable` and `NothingRefusedWrongly` compare the loader with `Acceptable`, a
definition on the sets of files that knows no order; together they say that
the verdict does not depend on the order of listing. `loader` runs with the
deadlock check on: `Stopped` stutters only after the last call or a halt, so no state
inside `init` is without a successor.
`conversion` and `requirement` check one result per behaviour and stop after it;
their deadlock check is off.

Fairness: `Terminates` (a call of `init` comes back or ends the application) is
checked under weak fairness of `InitStep`, the steps inside `init`. A thread in `init`
is running code that never waits, so it keeps taking steps; nothing makes a
launcher call `init`, and `EnterInit` is not fair.

What the runs that expect a violation show:

- `unsigned_float`: `__floatundisf` (`Runtime.cpp:163`) hands its argument to the signed
  conversion, so numbers from 2^63 on become negative floats;
- `cemu_reentry`: a second call of the Cemu routine finds the flag set and returns
  (`main.asm:22`) after the stack frame was allocated and without freeing it;
- `same_version`: an `x` in a pre-release tag makes a requirement a wildcard
  (`Main.cpp:698`); `=1.1.0-next` refuses a mod of version `1.1.0-next`. `ComparesAsAsked`
  leaves out the requirements with such tags for that reason.

## The proofs

`tlapm` checks every theorem below for all values of the constants, under the
named assumptions of the modules. The assumptions say what kind of values the constants
are; the ones that say more are `Fits` (a hook ends before the last address),
`VerdictAssumption` (the requirement check gives one of the four answers its code has),
`SpanAssumption` (the reach is a multiple of four, and twice the reach divides the
address space), `WidthAssumption` (a half has at least two bits; 32 in the code),
`RequirementAssumption` (the semver library reads a version that is spelled out as that
version), `CallsAssumption` (library functions are called as C defines it) and
`JobsAssumption` (operands fit their fields, for what does not is cut without a word; a
shorthand has a meaning for them: a piece lies in the register, what is added are
numbers, and `r0` is not named where the processor reads it as zero) and
`ManualAssumption`, below.

- `HookScanProofs`. `ScanIsSound` and `ScanIsComplete`: a list of any length passes the
  scan iff no two ranges share an address (for completeness: if none is empty).
  The argument: whatever rearrangement the sort leaves is a bijection, so a pair
  of entries in the given list is a pair in the sorted list; there, the one that
  comes first starts first, and the scan compares exactly its end with the
  other's start. `FootprintIsRange` ties the recorded range to the bytes written.
- `LoaderProofs`. `TypeCorrect`; then inductive invariants, each needed because the
  property alone is not preserved:
  - `NamesInv` adds that nothing is installed before the first call: otherwise
    the loader's own name, installed without a check, could be a duplicate
    (`NamesAreDistinct`);
  - `WritesInv` adds that each entry's range is its hook's bytes, that the listed
    hooks are pairwise disjoint from the scan on (`ScanIsSound`), and that memory
    holds nothing but listed hooks and nothing before the scan. Then a byte that
    is written belongs to the hook being written, which is the only listed one
    to cover it (`ListsAgree`, `WritesAreFinal`);
  - `PatchInv` adds that the first `applied` hooks are in place and that a start
    function has run only when all are (`PatchesPrecedeStarts`, with `FatalHalts`);
  - `StartsInv` follows a file from `Identify` to its place among the start functions:
    every starter is an installed mod, recorded once and under the type it has, and
    what was run is a beginning of that order. `StartsPlaced` adds that the starters other
    than the CoreAPI are in the order of their places in `mods`, and all before the file that
    is being read, whose place is the last. A file has started at most once
    because its name was free when it was read (`StartsAreInOrder`: the CoreAPI first wherever
    it was listed, the others as they were installed, for both values of `FatalHalts`);
  - `EntriesInv` says that no hook is listed twice: the entries of a file are numbered
    as they are read, and a file is read once. `Injection` needs it, since its plan
    is written hook by hook.
  `LoaderImplementsInjection` puts the last three together: `StepRefines` takes the
  actions one by one: `ScanHooks` is `Commit` or a refusal; `ApplyHook`, `ApplyFails`,
  `ApplyDone`, `RunStart` and `Finish` are `Patch`, `GiveUp`, `Run`, `Start` and `Finish`; all
  that comes before the scan refuses or stutters (`LoadingRefines`).
  Then, with `FatalHalts`, which content is accepted. `ReadInv` says what the lists hold at every
  moment of reading, in terms of sets of files: `Named`, `Depended`, `Classified` and
  `Loaded` are the files whose names, dependencies, types and hooks are recorded, each
  a step further than the one before, so that the sets differ by the current file
  at most; what is recorded is exactly what these files say; and whoever is loaded
  was in order (`LoadableInv`). At the scan the sets are all files of both directories, and
  the three tests together are the definition `Acceptable`, which knows no
  order (`OnlyAcceptableIsInjected`). For the converse, `RefusalInv`, each refusal names a
  file or a pair of files that `Acceptable` refuses too. It holds under `NoEmptyPatches`:
  the scan also refuses an empty patch inside another hook's range, which shares no byte
  with it (`NothingIsRefusedWrongly`).
- `MachineProofs`, first the caches. The invariant follows the hook being applied: after its line is
  written it is in what a load sees, after the flush in memory, after the
  invalidation in every copy of the instruction cache, after `isync` in what has
  been fetched; and no copy in the data cache is older than memory with respect
  to applied hooks (`FetchesArePatched`, `MemoryIsPatched`).
  Then functions in assembly, for calls of any depth. The proof reads the code of the three functions
  off their definitions (`HookIs`, `FuncIs`, `PrintfIs`) and follows each instruction. `NakedInv`
  says for every active function, with the machine as it was called as reference: which
  slots of its frame hold what (`FrameOK`), and, for the one that runs, which registers do
  (`RegsOK`). The frame of a function that waits is in the entry of the one it called; it is the
  same at the return because a callee leaves memory from its caller's `r1` on as it was,
  save the word at `4(r1)` (`Carries`, `CarriedFrame`). `printf` alone keeps its return
  address in a register, `r2`, over a call; so the invariant adds that nothing in assembly
  runs under it (`HooksLeaveRegisters`, `AssemblyReturns`).
- `HookedCodeProofs`. First one branch alone: the difference of two addresses, cut to
  the field and extended again, is the difference itself if it is in reach
  (`ModShift`, `OffsetIsDistance`, `FieldOfOffset`, `BranchesReach`), and no field leads to a
  target that was refused (`FieldsReach`, `OutOfRangeIsOutOfReach`, `RefusalsAreFinal`).
  Then lists of any length, with `HookedInv`: the list is pairwise disjoint once it is
  valid (`VerdictInv`), every hook before the current one could be encoded (`TakenInv`) and
  is in the game byte for byte (`WrittenInv`). A write keeps what was written because
  it is in a disjoint range; four bytes fetched at a hook are therefore its
  instruction, and the first part says where that leads (`ArrivedInv`;
  `InvalidListsConflict`, `HooksStayApplied`, `ListedBranchesReach`, `ListedRefusalsAreFinal`).
- `AssemblyProofs`, first the Cemu launcher. `BootInv`: in the first run the frame is the
  caller's less 16 bytes and the save word above it still has the caller's address
  (`StackInv`); `init` is called only in it (`OnceInv`). Stack pointers are a number of
  frames below one of `Stacks`, the number being at most that of the calls, so that the
  words used are those of `TypeOK` (`KeepsToItsWords`, `CallsInitOnce`, `FirstCallReturns`).
  Then the assembler. `AsmInv` says which word a job has and what was made of it
  (`JobsAreRun`); the rest is about words.
  Branches and traps, with every operand that fits, any CR, CTR and registers:
  a word's fields read back as they were put together (`RegistersOf`, `RestOf`), and an
  offset that fits its field comes back from it (`OffsetComesBack`, `FarOffsetComesBack`).
  Every number the code types in for a conditional branch is `bc`'s with the BO and BI of its
  test (`NumberedIs`, `OnBitWord`, `OnFieldWord`, `OnCounterWord`, `GeneralWord`), every trap's
  is `tw`'s with the TO of its condition (`TrapNumbers`); the test that is named is met iff the
  branch with that BO is taken (`MetIsTaken`, `MetOnField`), and likewise for traps (`TrapIsMeant`,
  with the unsigned comparisons; `ConditionalsDoAsNamed`).
  Mnemonics with a row: form by form, every field of a word is found where it was put
  (`BackD` to `BackXW`, `IsRead`), so that each operand is read as it was given, through
  the sign of a displacement, the halves of a register number swapped twice, a CR field's
  place in five bits (`OperandsAreRead`). Two mnemonics of an opcode differ in what
  both their extended opcodes have (`OneInstruction`), and `DecodesAsWritten` follows.
  That the code's table says what the manual does is proved group by group
  (`GroupsAreBooks`, `TableIsManual`). Of the manual itself the proofs use
  `ManualAssumption`: each entry's operands are in fields of its form, no two in one,
  entries of an opcode are told apart, and no instruction is in two books. It speaks of no
  constant of the model, so TLC, which evaluates it in the run `assembly`, decides it
  once and for all.
  Shorthands: `RotationDoes`, `Sums`, `Differs`, `Logicals`, `Selects` and `Conditions` say what
  the instructions do that shorthands come to; for those that rotate, the shift and the
  mask that `Expand` computes are shown to place the piece that is meant, whatever its
  width and position (`ExtlwiBits` to `ClrlslwiBits`, `Places`, `Turns`), shifts by 32 less zero
  included. Which register or field they write and what they set beside is read off the same
  fields (`RotationAims` to `ConditionAims`), and each kind of shorthand has a lemma that puts
  the two together (`SumsAsMeant` to `FieldsAsMeant`; `ShorthandsMeant`). Special registers: the
  number the code types in, halves swapped twice, is the number of the register of that name
  (`MovedToAre`, `MovedFromAre`, `BanksAre`, `WritesSpecial`, `ReadsSpecial`). Words typed as
  numbers are the words of `orr` and `tw`, or have the opcodes of `sc` and `rfi`
  (`TypedWordsAre`, `TypedAre`; `ShorthandsDoAsNamed`).
- `RplNamesProofs`. `PluginInv`: active layers are the ones with a handle (`LayersInv`), and at
  each point of an application's life how often `Telkin.rpl` is held and whether `init`
  was called follow from what the card holds (`RplInv`; `LayersAreOwned`, `NothingIsLeft`,
  `EachApplicationIsServed`). `NamesInv`: a module that is loaded has its file, and what a
  lookup answers has the name that was asked for: a name that fits is not cut by the
  buffer, and no plain name is one in the directory (`NamesFindTheirFiles`).
- `RuntimeProofs`, first division, for every width of two bits or more. Shifts are products and
  quotients by powers of two, for which there is no induction here: `PowerOfSum`,
  `PowersGrow` and `PowerIsLarger` come from counting subsets of an interval, and
  the least power above a number from the order of the naturals. Then
  `Clz`, `Ctz` and the shifts by halves are what their names say (`ClzIs`, `ShlIs`, `ShrIs`,
  `QueueMoves`), and the distance is the difference of the leading zeros (`DistanceIs`).
  The inductive invariant is `DivInv`. Its part `LoopInv`: `q` holds the last `sr` bits of
  `n` above the quotient of the other bits, `r` is their remainder, below `d`; and
  a `d` of the full length has one round only, since there `2 * r` might not fit.
  With it every shift stays in its width (`StaysInWidth`), every round divides the leading
  bits (`RoundsDivide`), and what is returned is quotient or remainder with the
  signs C gives them (`SignsAreRight`, `QuotientsAreRight`, `LoopStartsAsCommented`).
  Then conversion, for all widths of a half and of the significands with
  `S + 2 < 2H` and `H < D < 2H`. `GuardBitsAre`: the two guard bits after the leading `S` tell
  how all that is dropped compares with half of the last bit kept, the sticky bit
  among them; so adding one and dropping them rounds to the nearest, and to even between two
  (`RoundOffIs`, `LongIsRounded`), and when that carries into a bit more, the exponent is
  raised (`FloatsAreNearest`). In the conversions to double, subtracting the power of two is
  exact, the difference being a multiple of `2^H` whose factor fits (`MultipleIsExact`,
  `OneRounding`), so the number is rounded once (`DoublesAreNearest`). Cutting
  off by halves is division by one (`FractionsAreCutOff`). The properties are inductive
  as they stand; that each is about every argument is what `StepIsCall` says.
  Then the C library, for texts of any length. A loop's number of rounds is the least index at
  which it stops (`FirstRound`, from `LeastNumber`); with it each function has its lemma
  (`StrlenIs` to `MemcmpIs`), `strstr` from what a place where the needle is found is
  (`FoundHereIs`, `PartIsText`), `toupper` from where the table says small letter
  (`LowerAppended`, `ToupperIs`; `CallsAsInC`). `strtol` is arithmetic on recursive
  functions: that there is such a function (`RoundsExist`) and what it is at
  every index (`SpelledIs`, `AccumulatedIs`) is shown by the least counterexample. As long as
  no digit was too many, the accumulator is the number spelled so far; the first time
  one is, the number is beyond a long and stays so with every digit after it (`BeyondIs`,
  `TakenHolds`, `SaturatedIs`); the last conversion gives the number or the limit (`LongOf`,
  `StrtolIs`, `NumbersAsInC`). That nothing beyond a string is read stays with TLC, for
  which such a read is an error.
- `RequirementProofs`, for texts of any length over any alphabet. A text is taken apart as
  it was written: a run of characters ends where the next part begins (`RunIs`), so blanks, operator
  and `v` come off one by one (`SkipVIs`, `ReadAsWritten`, `BareAsWritten`), and a spelled version has
  no wildcard unless its tag has one (`NoWildcardInVersion`). A prefix matches a version's text
  iff its numbers are the version's, because a number ends where a dot is or the text ends
  (`NumberPrefix`, `DottedPrefix`, `PrefixIsNumbers`, `NumbersMatch`). The invariant, `Answered`, says
  that the verdict is the code's for the request and the version found (`NumbersAreCompared`,
  `ComparedAsAsked`, `NonsenseAlwaysReported`).

Model-checked only: `Terminates` (liveness under fairness, and `ENABLED`).

## Not modelled

- The mods API: three reads of `sAllMods` and a flag. `isModLoaded` minds the case of a
  name, which the duplicate check does not; `ModsDistinct` is what makes that safe.
- The hook macros of `Hooks.h`: text that becomes initialised records, with nothing that
  happens in an order. (`_tPointerCodePin4` names a parameter it does not declare, so
  a pinned pointer to an overloaded function does not compile.)
- The parts of `Runtime.h` that pass on to the system or to the float function of the
  same name; `floor` of a double through `floorf` loses what a float does not hold.
- Encodings that do not fit: a branch too far, `subi` of -32768 and offsets that are no
  multiple of four are cut at compile time without a word, and nothing says what else
  should come of them.
- Formatting and logging, build files, documentation.
- The submodules (dynamic_libs, semver), which are not in the repository; the names of
  what is called there appear as parameters or external actions.

## The plan

Written so far, in this order, the most important behaviour first: `HookScan` and
its theorems; `Loader`, `Injection` and its run; `LoaderProofs`; `CodePatch` and
`BranchCode` with proofs; `Division` and `Conversion`; `Requirement`; the launchers;
`HookedCode`; `Assembler` to `NakedCode`; `RplNames`; `Libc`.

With proofs since: all of `Loader` but its liveness, `HookedCode`, the launchers,
`Division` and `Conversion` for every width, `NakedCode` for every depth, `Libc` and
`Requirement` for every text, all of `Assembler` for every operand.

Left without a proof is the loader's liveness ("The proofs").
