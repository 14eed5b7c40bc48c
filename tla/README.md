# Formal model of the freedom-tools build

freedom-tools builds SiFive's RISC-V tool packages (GCC, Binutils, GDB,
OpenOCD, QEMU, SDK utilities, trace decoder, xc3sprog and the merged
toolchain). It is a set of Makefiles: what can go wrong lives in the stamp
files, the INSTALL tree and the tarballs that many runs of `make`, stopped
anywhere, leave behind for the next one. That is what most of this project
models. The C files it patches into QEMU (a CPU and three boards) are the other
part.

## 1. Inventory

| Component | Source | State it keeps | Operations |
|---|---|---|---|
| Host detection, wholesale cleaning | `scripts/Freedom.mk`, `Makefile` | none of its own: chooses `NATIVE`, `CROSS`, `OBJDIR`, `BINDIR` | `clean` (obj and bin), `flush` (obj) |
| Package rules | `scripts/Package.mk` | the artifacts in `bin`, the launch tree, `launch.stamp`, `test.stamp` | `package`, `regress`, `cleanup`, `flushup` |
| Package Makefiles | `modules/freedom-*/Makefile` | the stamps under `obj/<platform>/build/<package>`, source and build trees beside them, the INSTALL tree, the `.properties` file beside INSTALL | `source.stamp`, a `build.stamp` per stage, `install.stamp`, `libs.stamp`, the recipe of `test.stamp` |
| Shared binutils recipes | `modules/freedom-binutils-metal/scripts/*.mk` | `support.stamp`, `transit.stamp` and their build trees | used by binutils-metal, gcc-metal and trace-decoder |
| gcc-metal | `modules/freedom-gcc-metal/Makefile` | as a package; besides, a list of the files of binutils in INSTALL, kept in the log directory | borrows binutils, builds two newlibs, copies the second into INSTALL, takes binutils out again |
| toolchain-metal | `modules/freedom-toolchain-metal/Makefile` | as a package; its inputs are the tarballs and INSTALL trees of three others | unpacks and merges, deletes its inputs |
| Monorepo dispatch | `modules/*/Monorepo.mk` | none | one recursive make per package and goal; four of them, in order, for the toolchain |
| Install checks | `scripts/*.tcl` | none | path length, case clashes, naming, dynamic libraries |
| QEMU: CPU | `patches/qemu-riscv-cpu.c`, `.h` | the CPU's configuration and `env` | realize, reset, the flags of translated blocks |
| QEMU: boards | `patches/qemu-sifive-{u,e,test}.c`, `.h` | memory map, PLIC configuration string, device tree, boot ROM, a pending reset | `soc_realize`, `create_fdt`, `machine_init`, the test device's write |
| Third-party build files | `patches/dtc.mk`, `patches/spike-dasm.mk`, `qemu-util-meson.build` | none | commands inside a stage |

They interact through files only. A package run reads time stamps, so a
component can be misled by anything an earlier run left: the stamps are the
messages, and they are delivered late, lost or duplicated by whoever deletes
half of a directory.

What is hard here:

* **Crash and restart.** A build takes hours and is stopped often. Ctrl-C
  makes make delete the target it was writing; a failing command or `kill -9`
  does not.
* **Order of deletion.** `source.stamp` empties INSTALL *before* it deletes
  the stamps of the stages that filled it; `cleanup` and `flushup` do it
  after; `flush` in no order at all.
* **`.SECONDARY`.** `Package.mk` line 30 makes every file an intermediate that
  is kept: a missing stamp is remade only on behalf of something else.
* **Time stamps within a run.** make decides about a target once; artifacts
  are considered in the order of the `package` goal.
* **Truncated output.** `tar | gzip > $@` in place, without `pipefail`.
* **Recipes that are not idempotent.** `sed -i` on a source tree.
* **Inputs that are consumed.** The toolchain's merge deletes the tree a tarball
  was packed from, unpacks the tarball in its place and deletes the tarball.
* **Wildcards read once.** A tarball that is not there when a Makefile is read
  is left out without a word.
* **Two descriptions of one board.** `soc_realize` builds the PLIC and
  `create_fdt` the tree that tells software about it; nothing compares them.
* **Reset under way.** One hart asks for a reset while another is in the ROM;
  `riscv_cpu_reset` clears what it names and no more.
* **Code that is kept.** QEMU runs a translated block wherever its flags are
  met again, long after the state it was translated in.

What makes each part correct:

* stamps: an up-to-date stamp stands for output that is complete in INSTALL;
* artifacts: an archive that unpacks holds every stage; success leaves no
  fragment and no stale artifact behind a fresh one;
* regress: what it passes is what is in `bin`;
* liveness: asking again for the package ends with the package;
* bin, as its user sees it: archives are written one at a time, what was whole
  stays, and "ok" means that all of them are there;
* toolchain: a toolchain tarball holds every part, and no part is lost on the
  way there;
* boards: every hart reaches the firmware in machine mode with the arguments
  and at the entry the options name, also after a reset; the device tree
  describes the board; memories and interrupt lines do not collide; a CPU that
  is accepted is one that is supported;
* translated blocks: a block that is found fits the state it is found in.

## 2. Modules

| Module | Contents |
|---|---|
| `PackageBuild` | One package on one platform: variables, the runs of make, the recipes, the clean-ups, the faults, and the properties. The rules of the package are constants. |
| `PackageRelease` | What a user of `bin` is promised of the archives of a package; `PackageBuild` implements it (`ImplementsRelease`). |
| `PackageOrder` | The order in which a run of make takes up the targets of a package: the rules a package may have (`PackingRules`, `LinkedRules`, `UncutRules`), and the invariants about artifacts, stamps and INSTALL that follow from them. |
| `PackageGraphs` | The values of those constants, one record for each of the packages sdk-utilities, gdb-metal, xc3sprog, openocd, binutils-metal, trace-decoder, qemu and gcc-metal, native and for Windows. |
| `MCPackage` | One package for TLC: each configuration names it and says which goals are invoked and what may go wrong. |
| `MCPackages` | Many of them in one run: which package is built is chosen at the start. |
| `PackageBuildProofs`, `PackageRegressProofs` | Theorems about `PackageBuild` for every value of its constants: stamps, archives and the refinement; what regress trusts. |
| `PackageOrderProofs`, `PackageCompleteProofs`, `PackageUncutProofs` | Theorems for every package with the rules of `PackageOrder`: what a run that ended well has left; that archives are complete and what regress proves of them, where clean-ups may be cut short and, for the rules of gcc too, where they are not. |
| `ToolchainMerge` | toolchain-metal over N parts: the goals of `Monorepo.mk`, each part in short, the merge command by command. |
| `ToolchainMergeProofs` | Theorems about `ToolchainMerge` for every number of parts. |
| `RiscvCpu` | One CPU of QEMU as a record: models, properties, `riscv_cpu_realize`, `riscv_cpu_reset`. |
| `TranslationBlocks`, `MCBlocks` | The translated blocks of one such CPU: `cpu_get_tb_cpu_state` and the lookup by its flags. |
| `TranslationBlocksProofs` | Theorems about `TranslationBlocks` for every CPU setting and vector type. |
| `SiFiveMemory` | Memory maps and interrupt numbers of the boards. |
| `SiFiveBoards` | The boards sifive_e, sifive_u and sifive_viu over `RiscvCpu` and `SiFiveMemory`: from the command line to the firmware, and the resets a guest asks for. |
| `MCBoards` | Command lines for TLC. |
| `SiFiveBoardsProofs` | Theorems about `SiFiveBoards` for every command line: types, the PLIC, the reset vector, the memory map and the device tree. |

`ToolchainMerge` stands on `PackageRelease`: what it takes from a part's run is
that a tarball in `bin` is never a fragment and that what was whole stays. It is
a module of its own and not three instances of `PackageBuild`, which have too
many states to be composed.

A package is described by its stages with their prerequisites (`stages`), the
stamps whose recipe writes into INSTALL (`fills`), the trees `source.stamp`
unpacks and the ones a stage builds from or fills (`trees`, `uses`, `makes`),
the stamps that `rm -rf $(dir $@)` takes along (`dirs`), the stages whose
recipe edits its tree with a `sed -i` that must not be applied twice (`once`: dtc
for Windows; what is edited of gettext and glib for qemu may be edited again and
stays the same), the stages whose output is not
redirected into the log directory (`quiet`), the installed output without
which a recipe fails (`needs`) and the stages whose programs `test.stamp` runs
(`tools`). Two more fields are for gcc: the stage that succeeds where it finds
nothing to copy (`lax`), and the one that lists the files of INSTALL so that
`install.stamp` can delete them (`listers`). `needs` is read off the configure and link lines: openocd is
configured with `--enable-ftdi` against libusb and libftdi in INSTALL, qemu
finds glib and pixman nowhere else, while zlib, libffi and gettext may as well
come from the host. The openocd and qemu recipes also remove shared libraries
from INSTALL on purpose; the output a library stage promises there is its
headers and its static library.

### State and code

| Variable | In the code |
|---|---|
| `present` | which stamps and artifacts exist |
| `newer` | pairs of files of which the first was written later: the order of their time stamps |
| `installed` | the stages whose output is complete under `obj/<platform>/install/<package>-<version>-<platform>` |
| `noted` | the `.properties` file beside it is complete |
| `logs`, `listed` | `obj/<platform>/buildlog/<package>` exists; the stages whose output is on the list in it |
| `trees` | the source and build trees under `obj/<platform>/build/<package>` that are whole and unedited |
| `art` | what an archive in `bin` holds, and whether it unpacks |
| `launched` | what `launch/<tarname>` holds |
| `job`, `stack`, `known`, `step`, `tarSeen` | the run in progress: its goal, the targets make is updating, those it is finished with, the position in a recipe, and whether `$(PACKAGE_TARBALL)` was empty |
| `outcome` | how the last run ended |
| `faults` | disturbances so far; a bound, not state of the program |

A recipe is split where an interruption leaves something different behind.
`source.stamp` is `WipeInstall`, `WipeLogs`, `WipeBuild` (one file or tree at a
time, in any order, as `rm -rf` does) and `Fetch`; a stage is `StageBegin` (the
recipe's own `rm -rf $(dir $@)` or `sed -i`; without the log directory, a needed
library or a tree it ends there), `StageInstall` (from here INSTALL is being
overwritten, and gcc's `install.stamp` has deleted any part of its list) and
`StageFinish`; a tarball is `PackBegin` (the shell has opened `gzip > $@`) and
`PackFinish` or `PackShort`. The `.zip` is one action: zip
writes a temporary file and renames it.

make itself is external. The model has what GNU Make 4.3 does with these
rules: depth first in the order of the prerequisites; a target must be remade
if it is missing or older than something it is made from; under `.SECONDARY` a
missing prerequisite does not make its target old; a target found up to date
is not looked at again in the run, even if a recipe deletes it; a recipe that
fails ends the run and its target stays; on SIGINT or SIGTERM the target is
deleted if it has changed; `kill -9` deletes nothing. Recipes run in bash
without `pipefail` (`SHELL = /bin/bash`, `Freedom.mk` line 47).

### The toolchain

| Variable | In the code |
|---|---|
| `stamped`, `tree`, `shelf` | of each part: `install.stamp` is up to date; its INSTALL tree is gone, in pieces, whole but for its `.properties` file, or whole; what its tarball in `bin` holds |
| `tested` | the packages whose `test.stamp` exists |
| `stamps`, `merged` | toolchain-metal's own `source.stamp`, `build-<part>/build.stamp`, `install.stamp`; the parts that are complete in its INSTALL tree |
| `packed`, `holds` | its own tarball is in `bin`, and the parts in it |
| `goal`, `at`, `last`, `step` | the goal, the line of the `Monorepo.mk` recipe that runs, the last line, and the position in its recipe |
| `seen` | the wildcards `NATIVE_*_TARBALL` as they were when the own Makefile was read |
| `outcome`, `cuts` | how the last run ended; a bound |

`StartAll` is `toolchain-metal-<goal>`, `StartPart` the goal of one part. The
recipe of a merge stage is `MergeBegin` (the `ifneq`), `RmTree`, `Untar`,
`TakeProperties`, `CopyTree`, `DropTarball` and `StampPart`; `CutShort` may come
between any two of them and within the ones that take time.

### The boards

| Variable | In the code |
|---|---|
| `opts` | `-machine`, `-smp`, `-cpu`, `msel`, `start-in-flash`, `revb`, `-dtb` |
| `stage` | the position in `machine_init` and `soc_realize`; then running, exited or aborted |
| `harts` | `env` of each CPU: misa, features, the registers the reset vector uses, what `riscv_cpu_reset` clears |
| `plic` | `plic_hart_config` with the characters used and `plic_hart_config_len`, and the lines devices are connected to |
| `fdt` | the handles, interrupts and references of the device tree |
| `rom` | `reset_vec` |
| `pending`, `resets`, `status` | `qemu_system_reset_request`, a bound, the argument of `exit` as its parent sees it |

The loop that puts the PLIC's string together is one action per hart
(`AddHart`), with what `strncat` may cut; the tree is built hart by hart
(`FdtCpuNode`). Each hart then executes the words of the reset vector one by
one (`RomStep`), so that a hart in ROM meets the resets of another. The guest
(`GuestRuns`) leaves no register as it was and may end in any mode its CPU has.
Addresses count words of four bytes. The two boards sifive_u and sifive_viu are
the same functions twice in `qemu-sifive-u.c`, but for the CPU; the map names
lines of both copies. QEMU's own PLIC, loader, hart array and main loop are
external, and so are the instructions.

The memory maps are records of pages (`SiFiveMemory`); `MemoryMap` and `Irq` say
which of them a machine maps and connects.

### Translated blocks

| Variable | In the code |
|---|---|
| `env`, `virt`, `hu` | the CPU record with its mode; `riscv_cpu_virt_enabled`; `hstatus.HU` |
| `fs`, `vs` | the fields of `mstatus` |
| `hs` | the same two fields of `mstatus_hs`, which is `mstatus` of the hypervisor while its guest runs |
| `vtype`, `vl`, `vstart` | the vector CSRs |
| `blocks` | the cache: for each block its flags, and what its translation took for granted |

`TbFlags` puts the flags together bit by bit, as a set of bit numbers, so that
fields that overlap do so in the model. What the translator relies on
(`Assumed`), the instructions, the swap of `mstatus` when a guest is entered or
left and the two functions that say whether floating point and vectors are
enabled (`FpEnabled`, `VecEnabled`) are QEMU's own and external. `Assumed` lists
what the flags are meant to tell. `FoundBlockFits` therefore finds fields that
overlap, are cut, or are computed of the wrong state or with a guard that forgets a
case; it cannot find a thing the translator relies on that no field was ever
meant for. One address is enough: blocks of different addresses never meet.

## 3. Runs

`MaxFaults` bounds the disturbances: faults, cleaning runs and regress runs
together. Package runs are free, so between two disturbances make may run to
the end any number of times. Every defect of the build that the project found
needs at most three of them (`SdkMissing`: a run that is stopped, a flushup, a
kill in it); `GdbSignals` allows twice as many.

| Run | Instance and bounds | States | Shows |
|---|---|---|---|
| `GdbSignals` | gdb-metal; package, regress, cleanup, flushup; Ctrl-C; 6 | 610 thousand | `TruthInv` (the inductive invariant), `StampsTruthful`, `SourceLogs`, `TestedInv` and `WholeInv` (inductive invariants too), `TestedIsPublished`, `ArchivesWhole`, `CompleteInv` and `RegressInv` (inductive as well), `PublishedComplete`, `RegressProves`, `ImplementsRelease` |
| `TraceWinProgress` | trace-decoder for Windows; package and all four clean-ups; failing and killed commands, short tarballs; 3; fairness | 930 thousand | `TypeOK`, `SettledInv` (an inductive invariant), `SettledAfterSuccess`, `StaleArtifactsFirst`, `PublishedUnlessHollow` |
| `EveryPackage` | fourteen package and platform pairs; package, cleanup, flushup (gcc: package, regress; qemu: package, flushup); signal, kill; 3 (qemu: 2) | 3.8 million | `EveryStampTruthful` for all, `ChainedComplete` for all but sdk-utilities and qemu; `UncleanedStands`, `UncleanedRegress` and `UncleanedStampsStay` for gcc |
| `Toolchain` | three parts; every goal, of all parts and of one; 3 cuts or other goals; fairness | 330 thousand | `MergeInv` (the inductive invariant), `ToolchainHasAll`, `NothingLost`, `MergedUnlessOrphaned` |
| `Boards` | one, two and three harts, every machine option, 16 CPU settings; one reset, exit codes 7 and 256; fairness | 140 thousand | `BoardTypeOK`, `HandOff`, `TopologyFits`, `BoardFits`, `TreeMatchesBoard`, `AllBoot` |
| `Blocks` | four CPU settings with and without vectors, hypervisor and floating point; three element widths, LMUL of 1/8, 1/4, 1 and 2; lengths 0, 3 and any; FS and VS off and dirty, of a hypervisor and of its guest; one block in the cache | 2.2 million | `BlocksTypeOK`, `FoundBlockFits`, `WholeRegisters` |

In every run TLC evaluates the assumptions of `PackageBuild` (acyclic rules and
the rest) for the package at hand, in `EveryPackage` as `RulesAssumption` for
every package and platform, together with `RegressChain`, `PackingRules`,
`UncutRules` and, where it is assumed, `LinkedRules` of the theorems. The native
qemu rules and the Windows rules of xc3sprog differ from rules that are there by
a library or two, and are left out of the states of that run for the time they
take.

`ChainedComplete` is `PublishedComplete` for the packages in which no stage
can be built without what the stages before it have installed. It leaves out
sdk-utilities and qemu, where a stage that was lost may go unnoticed; for
sdk-utilities `SdkMissing` is the counterexample.

gcc is in `EveryPackage` with package and regress runs only (`Uncleaned`),
because its clean-ups, cut short, break both properties: one that has deleted the tree
`build-newlib-nano-install` but not the stamp of the stage that fills it leaves
a recipe that loops over what `find` prints, copies nothing and reports nothing
(`Lax`); it makes its stamp, and the next package run publishes a gcc without newlib-nano. With
`Uncleaned = {}` TLC finds this with three disturbances. What usually saves the
recipe is that `date > $@` fails when the directory is gone as well.

As long as no clean-up of gcc is cut short (`Uncut`), both properties hold. There
are two ways for that: nobody runs one, and make may be stopped anywhere; or
anybody runs any of them at any time, and recipes may fail but nothing is
stopped. `UncleanedStands` is the inductive invariant of the proofs
(`UncutInv`), checked for the first way, together with `RegressProves`
(`UncleanedRegress`) and the action property `StampsStay`
(`UncleanedStampsStay`). `UncutInv` was also checked of gcc in the first way with
six disturbances and failing recipes besides, in the second way with every goal
and two disturbances (1.9 million states), and in both ways of sdk-utilities,
trace-decoder and qemu for Windows and of gdb-metal; a run for each would repeat
what is proved.
`StampsTruthful` is false for a moment while `flush` deletes obj; `UncutInv` says
what holds instead.

The cache of `Blocks` has room for one block: a violation needs one block and one
state it does not fit, and which block that is is arbitrary.

Six runs end in a counterexample; each is a defect of the build or of QEMU (the
findings of `PROJECT.json`):

| Run | Scenario |
|---|---|
| `SdkMissing` | `make package` stops after `dtc`; `make flushup` is killed having deleted `source.stamp` but not `dtc/build.stamp`; the next package run finds `dtc` up to date, then remakes `source.stamp`, which deletes everything, and publishes a tarball without dtc. |
| `GdbFragment` | the tarball's recipe fails half-way; the fragment is newer than `install.stamp`, and the next package run says all is well. |
| `ToolchainRegress` | `make toolchain-metal-package` ends well, having deleted the tarballs of its parts; `make toolchain-metal-regress` tests those first, and stops at the first one. |
| `PlicContexts` | sifive_u with two harts: the tree lists two PLIC contexts for hart 0, the PLIC has one. |
| `CpuBothBases` | `-cpu rv64,i=off,e=on`: accepted, and both I and E are in misa. |
| `BlockMmu` | a CPU with vectors and vl = VLMAX: the flag `VL_EQ_VLMAX` is bit 2, which `TB_FLAGS_MMU_MASK` takes for part of the MMU index (the bit of a hypervisor's access). |

The passing properties hold within what their configurations say, and fail
outside; these limits were found with TLC by changing one constant:

* `StampsTruthful` and `SourceLogs`: without `flush` and `clean` among the
  goals (they delete stamps and trees in no order; cut short, stamps stay over
  an empty tree).
* `PublishedComplete`: besides, only where the recipes themselves check for
  what they link against (`SdkMissing`). Of the others, gcc among them, it
  holds as long as no clean-up is cut short.
* `ArchivesWhole`, and so `ImplementsRelease`: only where runs are stopped by
  nothing but Ctrl-C (`GdbFragment`).
* `RegressProves`: not when tar is cut short and gzip succeeds. Then `regress`
  runs the missing programs out of the INSTALL tree, because `Package.mk` line
  3 has put it in `PATH`.
* `PublishedUnlessHollow` names its limit itself: a clean-up or a recipe that
  is cut short can leave a stamp standing over trees, logs or installed output
  that are gone, or without `source.stamp`. make, with every file `.SECONDARY`,
  has no reason to make again what such a stamp stands for, and whatever needs
  it fails until somebody cleans. The property says that this is the only way
  to be stuck. With two disturbances it also holds of gdb-metal, openocd and
  trace-decoder, native; it fails for sdk-utilities for Windows, whose dtc
  recipe edits its sources.
* `MergedUnlessOrphaned` names its limit itself: a merge that is cut short
  between deleting a part's tarball and making its stamp leaves a tree without
  its `.properties` file. It is packed again, and every later merge fails to
  copy that file.

`Boards` tells its bounds apart by what they are for: one hart with every
combination of options, because the options do not depend on the harts; two and
three harts with the options that reach the ROM, because hart 0 is special and
the others are alike; one reset, because a second one starts in a state the
first one has started in. It also passes for 32-bit harts (`XLen = 32`).
Deadlock is not checked: QEMU exits, or refuses its CPUs. With `ModelCommands`
in place of `BaseCommands`, `AcceptedIsSupported` also fails for
`sifive-viu75,vlen=2048` (the checks are for CPUs without a model only) and for
`x-v=on,elen=4` (the bound of ELEN is tested on `vlen`).

**Fairness.** In `SiFiveBoards`, `FairSpec` assumes weak fairness of
`machine_init`, of the main loop and of each hart while it is in ROM: each is a
thread of QEMU. The guest is not fair. In `ToolchainMerge` it assumes it of make
and rm (`Work`) and of `StartAll("package")`. In `PackageBuild`, `FairSpec` assumes weak fairness of make and rm (a running
process goes on) and of `StartGoal("package")` (someone asks again). Faults
and clean-ups are not fair, and finitely many by `MaxFaults`. `TranslationBlocks`
has no fairness: nothing there has to happen.

## 4. Proofs

TLAPS checks thirty-three theorems. Of a package (the five modules
`Package*Proofs`) they hold for every package graph that meets
`GraphAssumption` and `RecipeAssumption` (the rules are acyclic and `Below` is
closed under them; stamps, artifacts and goals have different names; a recipe
that clears its own directory clears its own stamp). TLC evaluates both
assumptions in every run.

* `TypeCorrect`: `Spec => []TypeOK`.
* `TruthIsInvariant`, `StampsAreTruthful`: `Spec => []TruthInv` and `Spec =>
  []StampsTruthful`, assuming no wholesale cleaning is among the jobs, and of
  the package that no recipe succeeds with nothing to copy (`Lax = {}`) and none
  deletes a list of files from INSTALL (`Listers = {}`), which is every package
  but gcc (for which see `UncutIsInvariant`). `StampsTruthful` is not inductive: a recipe that takes something out
  of INSTALL would break it if the stamps standing for it were current.
  `TruthInv` adds why they are not: the targets make is updating descend along
  prerequisites (`Descends`), none of them is current (`StackStale`), and whoever
  empties INSTALL elsewhere has deleted the stamps first (`Emptied`). The proof
  has one step per action of `Next`, over lemmas about `Touch`, `Remove` and
  `Current`.
* `SourcesCanLog`: `Spec => []SourceLogs`, under the same assumptions and from
  `TruthInv`: the log directory is deleted only after `Emptied` has no stamps.
* `WholeIsInvariant`, `SignalsLeaveNoFragment`: `Spec => []WholeInv` and `Spec
  => []ArchivesWhole`, for every package, assuming that nothing fails and
  nothing is killed (`GdbFragment` shows why). `WholeInv` adds that an archive in
  bin is whole except while its own recipe writes it, and that what make has
  finished with in a run is still there at its end.
* `BuildsAsPromised`: `Spec => ImplementsRelease`, under the assumption of
  `WholeIsInvariant`. The mapping takes an archive to absent, fragment or whole;
  each action maps to one of `PackageRelease` or to a stutter, and the proof has
  a step for each. `WholeInv` is what makes a run that ends well a `Succeed`, and
  an `Interrupt`, which deletes what was being written, a `GiveUp`.
* `TestedIsInvariant`, `TestsAreOfTheTarball`: `Spec => []TestedInv` and `Spec =>
  []TestedIsPublished`, whatever fails, is stopped or killed, assuming no
  wholesale cleaning (flush may delete the launch tree and spare `test.stamp`)
  and the rules of `Package.mk` (`RegressChain`). `TestedIsPublished` is not
  inductive: the recipe of `launch.stamp` empties the tree while both stamps are
  there. `TestedInv` adds that `launch.stamp` is older than the tarball by then,
  in three parts: file times are a linear order (`Ages`); make has finished with
  the tarball before that recipe starts, and took `launch.stamp` up because
  something was newer (`TarFirst`), so a tarball found up to date is itself
  newer than `launch.stamp` (lemma `TarIsNewer`); and targets on the stack follow
  rules (`Follows`, `Descends`), so nothing else makes the tarball in between.
* `RunsAreOrderly`, `SuccessSettles`, `NoStaleAfterCurrent`: `Spec =>
  []SettledInv`, `Spec => []SettledAfterSuccess` and `Spec =>
  []StaleArtifactsFirst`, whatever fails, is killed or is cleaned, flush and
  clean included, for packages whose artifacts are packed as `Package.mk` says
  (`PackingRules`) and the `RegressChain` rules. Neither property can be proved
  of the moment a run ends: what counts is that a stamp that was settled is not
  made again behind an artifact. `SettledInv` therefore follows the order of a
  run: targets are taken up only when those before them in the rule are settled
  (`InOrder`), nothing is both settled and under way (`Apart`), stages are made
  on behalf of `install.stamp` alone and `libs.stamp` after it (`UnderInstall`),
  so that once an artifact is packed, `install.stamp` and `libs.stamp` stay up to
  date (`LastSettled`); and artifacts are settled in the order of the goal
  (`ArtsInOrder`).
* `CompleteIsInvariant`, `ArchivesComplete`: `Spec => []CompleteInv` and `Spec =>
  []PublishedComplete`, whatever fails or is killed and whichever clean-up is cut
  short, without flush and clean (as above) and without short tars, for packages
  that meet `LinkedRules`: the stages form a tree, and one with several
  prerequisites links what the first of them installs. TLC evaluates these rules for
  gdb-metal, xc3sprog, openocd, binutils-metal and trace-decoder
  (`LinkedAssumption`); they exclude sdk-utilities and qemu, of which
  `PublishedComplete` is false or not known, and gcc, where two stages wait for
  the same one; those have the last theorems of this list. That stamps stand for
  what they say is not enough, because a stamp that is up to date in the eyes of make may have lost what it stands for
  to an INSTALL that was emptied in the meantime. `CompleteInv` says
  that either every stamp that exists stands for its output (`Intact`), or on some
  way from `install.stamp` down to `source.stamp` every stamp is missing (`Cut`), so
  that `source.stamp` is made before anything else can be; from then on until
  the new stamps are there, a stage that has found an old stamp in place has lost what it
  links first, and its recipe fails before it writes its own (`Fed`, `Starved`,
  `Supplied`).
* `RegressIsInvariant`, `RegressTellsOfTheTarball`: `Spec => []RegressInv` and
  `Spec => []RegressProves`, for the same packages. A fragment is newer than both
  stamps of the tests (`FragmentsAreNewer`), so a regress run unpacks it and fails;
  one that has settled `launch.stamp` has a whole tarball before it (`TestsWhole`),
  which `CompleteInv` says holds every stage.
* `UncutIsInvariant`, `UncutStampsTruthful`, `UncutArchivesComplete`,
  `UncutRegressProves`, `UncutStampsStay`: `Spec => []UncutInv`, and
  `StampsTruthful` (without flush and clean), `PublishedComplete`,
  `RegressProves` and the action property `StampsStay`, as long as no clean-up
  is cut short (`Uncut`) and tar is not, for packages that meet `RegressChain`
  and `UncutRules`. TLC evaluates both for every package of `PackageGraphs`, on
  both platforms: these are the theorems that say of gcc, sdk-utilities and qemu
  that archives are complete. None of the properties is inductive. What make finds
  up to date it does not look at again, so a stamp must be known to stay once it
  is settled (`StampsStand`: what is being made was missing, what is settled is
  there, and a stamp stands on all it is made from and is newer). Hence no run
  ever takes a stamp away, not even one that is stopped: make deletes the target
  it was writing, and that one was missing before (`StampsStay`). It also follows
  that `source.stamp` is made only where no stamp is left, and emptying INSTALL
  takes away nothing that a stamp stands for. `InstallStands` says that
  INSTALL holds what the stamps stand for and nothing else, until `install.stamp`
  deletes exactly what was listed, which is what gcc has borrowed from
  binutils (`listed = Listers \cap present`). `TreesStand` is why a recipe that
  copies what it finds (`Lax`) finds it: one stage makes that tree, no other
  touches it (lemma `OneMaker`). And a clean-up that runs to its end takes the
  stamps before anything they stand for, or everything (`Cleared`).

Of the toolchain (`ToolchainMergeProofs`), for any number of parts, any goals
and any number of cuts:

* `MergeIsInvariant`, `ToolchainIsWhole`, `NothingIsLost`: `Spec => []MergeInv`
  and the two properties it contains. A stamp stands for its part and all
  before it (`StampsMerged`), because INSTALL is emptied only where no stamp is
  left (`CleanedFirst`); when the own Makefile is read, every part has offered
  its tarball, and the offer stands until the part has been copied
  (`OffersStand`); what is packed or unpacked is a complete tree
  (`TreesComplete`).

Of the boards (`SiFiveBoardsProofs`), for every set of command lines that QEMU
admits (`CommandAssumption`), any number of resets and whatever modes the guest
ends in:

* `TopologyAlwaysFits`: `Spec => []TopologyFits`. The invariant `TopologyInv`
  counts the characters: n harts have used 3n - 2 and the room left is
  3(cpus - n), so `strncat` never cuts.
* `HandOffAlways`: `Spec => []HandOff`. The invariant `BootInv` places every
  hart: at word k of the reset vector with the registers the words before k have
  loaded (`AtWordU`, `AtWordE`), at the entry with all of them (`Handed`), or
  wherever firmware has run to (`Elsewhere`, an address that no register holds). A reset brings any of these back to word 1, since
  the vector reads no register that it has not written.
* `BoardAlwaysFits`: `Spec => []BoardFits`, for every size of DRAM.
* `TreeAlwaysMatches`: `Spec => []TreeMatchesBoard`. The invariant `TreeInv`
  counts handles: the loop over the harts counts down, so when n nodes are there
  hart h has handle 2 + cpus - h, and each device that follows takes the next
  one; interrupts and addresses are compared table by table.
* `BoardTypes`: `Spec => []BoardTypeOK`, from the invariant `TypeInv`.

Of translated blocks (`TranslationBlocksProofs`), for every set of `-cpu` settings
whose `vlen` is a number, every element width, fractional or whole LMUL, every
length asked for and any room in the cache:

* `BlocksAreReadBack`: `Spec => []BlocksInv`. `FoundBlockFits` is not inductive: it
  speaks of the flags of the present state only. `BlocksInv` says of every block
  that what it was translated for is what `ReadBack` makes of its flags, field by
  field. Lemmas about `Bits` and `Deposit` give the bits of each field and show that
  no two fields meet, so that `ReadBack(TbFlags) = Assumed` in every state; and since
  `ReadBack` depends on misa alone, which nothing changes after realize, it keeps
  being true of blocks that are not executed.
* `BlockTypes`, `FoundBlocksFit`: `Spec => []BlocksTypeOK` and `Spec =>
  []FoundBlockFits`.
* `VectorsAreWhole`: `Spec => []WholeRegisters`. That vl and vstart are the expected ones
  follows from reading back bit 2; that the elements take up whole registers is lemma
  `Geometry`, which goes over the powers of two there are, and uses that `riscv_cpu_realize` accepts
  no vlen but 128, 256, 512 and 1024 (lemma `RealizedVectors`).

`BlocksInv`, `TreeInv` and `TypeInv` were checked with TLC on the instances of `Blocks`
and `Boards`, as `TopologyInv` and `BootInv` were; they are no properties of those runs,
because their modules extend TLAPS.

Only model-checked: the liveness properties `PublishedUnlessHollow`,
`MergedUnlessOrphaned` and `AllBoot`, which are beyond the prover. Of
`EveryPackage`, `EveryStampTruthful` and `ChainedComplete` say in one formula what
`StampsAreTruthful` and `ArchivesComplete` say of each package but gcc, and
`UncutStampsTruthful` and `UncutArchivesComplete` of gcc whose clean-ups are not
run; `UncleanedStands`, `UncleanedRegress` and `UncleanedStampsStay` are
`UncutIsInvariant`, `UncutRegressProves` and `UncutStampsStay` of gcc. That the one follows from the others is not a theorem here: `MCPackages`
takes `PackageBuild` through an INSTANCE with a parameter, and theorems of such
an instance cannot be cited.

## 5. Not modelled

* The `.log.tar.gz`, `.cfg.tar.gz` and `.src.tar.gz` files: the first two
  repeat the rule of the tarball, the last is a side effect of `source.stamp`
  that no rule reads.
* `make -j` across stages and several makes at once: a run of `PackageBuild`
  makes one target at a time, and nothing in the repository locks against a
  second one.
* Changes of version, of `EXTRA_SUFFIX` or of the Makefiles between runs;
  several versions of a tarball in `bin`.
* In `ToolchainMerge`, a part that is built anew after it was merged is not told
  apart from the one before; an empty toolchain, for a platform without parts,
  cannot be asked for.
* The install checks (`scripts/*.tcl`): each is a loop over file names with
  one comparison; one that fails is a recipe that fails.
* Of QEMU: what is in memories and devices, `-kernel`, a `-dtb` file that
  cannot be read, reset vectors other than 0x1004, disassembly and gdb.
* Progress of a package with a recipe that edits its sources (`Once`: dtc for
  Windows): after one failure it fails until somebody cleans, and nobody has
  to, so `PublishedUnlessHollow` is checked of a package without such a recipe.
* Whether a compiler produces correct code: a stage that ends well is complete.

## 6. Plan

1. Packages whose clean-ups are cut short, beyond `LinkedRules`: which recipes of
   qemu check for what they link, and what gcc would have to check before it
   copies newlib-nano.
2. Versions: stamps that do not know the version they were built for; several
   tarballs in `bin`; the generations of a part in `ToolchainMerge`.
3. QEMU: the numbering of PLIC contexts as software sees it.
4. Two targets of one package under way at once, as `make -j` has them.
