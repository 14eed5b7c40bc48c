--------------------------- MODULE ToolchainMerge ---------------------------
(***************************************************************************)
(* toolchain-metal for one platform: the top-level goals run the Makefiles *)
(* of its parts (1 binutils, 2 gcc, 3 gdb) and then its own, which unpacks *)
(* the parts' tarballs over the INSTALL trees they were packed from,       *)
(* copies the trees into one, and deletes the tarballs.                    *)
(*                                                                         *)
(* What a part does on its own is module PackageBuild; here its runs keep  *)
(* what PackageRelease promises, so that no tarball is a fragment.         *)
(***************************************************************************)
EXTENDS Integers

CONSTANTS
    N,          \* the number of parts
    Goals,      \* the goals that are invoked
    MaxCuts     \* bound on runs that are cut short and on goals other than
                \* toolchain-metal-package

ASSUME MergeAssumption ==
    N \in Nat \ {0} /\ MaxCuts \in Nat
    /\ Goals \subseteq {"package", "regress", "cleanup", "flushup"}

Parts  == 1..N
Own    == N + 1        \* toolchain-metal's own Makefile, after the parts'
Makes  == 1..Own
\* The stamps of the own Makefile, each made from the one before: source.stamp
\* is 0, build-<part>/build.stamp has the part's number, install.stamp is Own.
Stamps == 0..Own

VARIABLES
    stamped,    \* parts whose install.stamp is up to date
    tree,       \* part -> its INSTALL tree: "none", "some" of it, all but its
                \* .properties file ("bare"), or "full"
    shelf,      \* part -> what its tarball in bin holds of the tree
    tested,     \* makes whose test.stamp exists
    stamps,     \* the own stamps that exist
    merged,     \* parts that are complete in the own INSTALL tree
    packed,     \* the own tarball is in bin
    holds,      \* the parts that it holds
    goal,       \* what is being made, or "idle"
    at, last,   \* the make that runs, and the last one to be run
    step,       \* how far it is
    seen,       \* parts whose tarball the own make found when it started
    outcome,    \* of the last run: <<goal, last, "ok" or "error">>
    cuts        \* disturbances so far

parts == <<stamped, tree, shelf>>
own   == <<stamps, merged, packed, holds>>
run   == <<goal, at, last, step, seen, outcome, cuts>>
vars  == <<parts, own, tested, run>>

Amounts == {"none", "some", "bare", "full"}
Complete == {"bare", "full"}
Steps == {"read", "begin", "building", "packing", "rmtree", "untar", "properties",
          "copy", "drop", "stamp", "stuck", "rmbuild", "rminstall", "rmbin"}

MergeTypeOK ==
    /\ stamped \subseteq Parts /\ tested \subseteq Makes
    /\ tree \in [Parts -> Amounts] /\ shelf \in [Parts -> Amounts]
    /\ stamps \subseteq Stamps /\ merged \subseteq Parts
    /\ packed \in BOOLEAN /\ holds \subseteq Parts
    /\ goal \in {"idle"} \cup Goals
    /\ at \in Makes /\ last \in Makes
    /\ step \in Steps /\ seen \subseteq Parts
    /\ outcome \in ({"none"} \cup Goals) \X Makes \X {"none", "ok", "error"}
    /\ cuts \in 0..MaxCuts

Init ==
    /\ stamped = {} /\ tested = {}
    /\ tree = [p \in Parts |-> "none"] /\ shelf = [p \in Parts |-> "none"]
    /\ stamps = {} /\ merged = {} /\ packed = FALSE /\ holds = {}
    /\ goal = "idle" /\ at = 1 /\ last = 1 /\ step = "begin" /\ seen = {}
    /\ outcome = <<"none", 1, "none">> /\ cuts = 0

-----------------------------------------------------------------------------
(* Runs.                                                                   *)

\* Mutant of First: the lines for the parts are missing.
FirstOwn == Own

\* toolchain-metal-<goal> starts with the first part.
First == 1

Start(g, from, to) ==
    /\ goal = "idle" /\ g \in Goals
    /\ goal' = g /\ at' = from /\ last' = to /\ step' = "read" /\ seen' = {}
    /\ outcome' = <<"none", 1, "none">>
    /\ IF g = "package" /\ to = Own THEN UNCHANGED cuts
       ELSE cuts < MaxCuts /\ cuts' = cuts + 1
    /\ UNCHANGED <<parts, own, tested>>

StartAll(g) == Start(g, First, Own)
StartPart(g) == \E p \in Parts : Start(g, p, p)

Stop(how) ==
    /\ goal' = "idle" /\ outcome' = <<goal, last, how>> /\ step' = "begin"
    /\ UNCHANGED <<at, last, seen>>

GoTo(s) == step' = s /\ UNCHANGED <<goal, at, last, seen, outcome, cuts>>

\* make -C modules/freedom-<part> has ended well; the recipe goes on with the
\* next line.
NextMake ==
    \/ at = last /\ Stop("ok") /\ UNCHANGED cuts
    \/ /\ at # last
       /\ at' = at + 1 /\ step' = "read"
       /\ UNCHANGED <<goal, last, seen, outcome, cuts>>

\* make reads a Makefile, and with the own one looks up the wildcards of the
\* parts' tarballs.
Read ==
    /\ goal # "idle" /\ step = "read" /\ step' = "begin"
    /\ seen' = IF at = Own THEN {p \in Parts : shelf[p] # "none"} ELSE seen
    /\ UNCHANGED <<parts, own, tested, goal, at, last, outcome, cuts>>

\* A command fails, Ctrl-C, kill -9: what was done stays done.
CutShort ==
    /\ goal # "idle"
    /\ cuts < MaxCuts /\ cuts' = cuts + 1
    /\ Stop("error")
    /\ UNCHANGED <<parts, own, tested>>

-----------------------------------------------------------------------------
(* A part: package (in short; PackageBuild has the whole of it).           *)

OfPart(g) == goal = g /\ at \in Parts

\* A tarball that is up to date is left alone.  Stamps that are missing below
\* it are not missed, unless another artifact of the part has to be remade.
PartBegin ==
    /\ OfPart("package") /\ step = "begin"
    /\ \/ shelf[at] # "none" /\ NextMake /\ UNCHANGED tree
       \/ shelf[at] = "none" /\ at \in stamped /\ GoTo("packing") /\ UNCHANGED tree
       \/ /\ at \notin stamped /\ GoTo("building")
          /\ tree' = [tree EXCEPT ![at] = "some"]
    /\ UNCHANGED <<stamped, shelf, own, tested>>

PartBuild ==
    /\ OfPart("package") /\ step = "building"
    /\ tree' = [tree EXCEPT ![at] = "full"]
    /\ stamped' = stamped \cup {at}
    /\ GoTo("packing")
    /\ UNCHANGED <<shelf, own, tested>>

\* (A tarball that was up to date earlier in the run is not packed again.)
PartPack ==
    /\ OfPart("package") /\ step = "packing"
    /\ \/ shelf' = [shelf EXCEPT ![at] = tree[at]]
       \/ shelf[at] # "none" /\ UNCHANGED shelf
    /\ NextMake
    /\ UNCHANGED <<stamped, tree, own, tested>>

-----------------------------------------------------------------------------
(* The own Makefile: package.                                              *)

OwnRun == goal = "package" /\ at = Own

\* A stamp that is missing below one that exists is not missed (.SECONDARY).
Due(s) == (\A t \in stamps : t < s) /\ (s = 0 \/ s - 1 \in stamps)

OwnPacked ==
    /\ OwnRun /\ step = "begin" /\ packed
    /\ NextMake
    /\ UNCHANGED <<parts, own, tested>>

Stamp(s) == stamps' = stamps \cup {s} /\ GoTo("begin")

\* Mutant of OwnSource: no mkdir -p before date > $@.
OwnSourceNoDir ==
    /\ OwnRun /\ step = "begin" /\ ~packed /\ Due(0)
    /\ \/ \E p \in merged : merged' = merged \ {p} /\ GoTo("begin") /\ UNCHANGED stamps
       \/ merged = {} /\ GoTo("stuck") /\ UNCHANGED <<stamps, merged>>
    /\ UNCHANGED <<parts, packed, holds, tested>>

\* source.stamp: rm -rf INSTALL, file by file.
OwnSource ==
    /\ OwnRun /\ step = "begin" /\ ~packed /\ Due(0)
    /\ \/ \E p \in merged : merged' = merged \ {p} /\ GoTo("begin") /\ UNCHANGED stamps
       \/ merged = {} /\ Stamp(0) /\ UNCHANGED merged
    /\ UNCHANGED <<parts, packed, holds, tested>>

\* build-<part>/build.stamp: ifneq ($(<part>_TARBALL),)
MergeBegin(p) ==
    /\ OwnRun /\ step = "begin" /\ ~packed /\ Due(p)
    /\ GoTo(IF p \in seen THEN "rmtree" ELSE "stamp")
    /\ UNCHANGED <<parts, own, tested>>

\* rm -rf of the part's own INSTALL tree.
RmTree(p) ==
    /\ OwnRun /\ step = "rmtree" /\ Due(p)
    /\ \/ tree' = [tree EXCEPT ![p] = "some"] /\ GoTo("rmtree")
       \/ tree' = [tree EXCEPT ![p] = "none"] /\ GoTo("untar")
    /\ UNCHANGED <<stamped, shelf, own, tested>>

Untar(p) ==
    /\ OwnRun /\ step = "untar" /\ Due(p)
    /\ \/ tree' = [tree EXCEPT ![p] = "some"] /\ GoTo("untar")
       \/ tree' = [tree EXCEPT ![p] = shelf[p]] /\ GoTo("properties")
    /\ UNCHANGED <<stamped, shelf, own, tested>>

\* cp and rm -f of <part>.properties: there must be one to copy.
TakeProperties(p) ==
    /\ OwnRun /\ step = "properties" /\ Due(p)
    /\ IF tree[p] = "full"
       THEN tree' = [tree EXCEPT ![p] = "bare"] /\ GoTo("copy")
       ELSE GoTo("stuck") /\ UNCHANGED tree
    /\ UNCHANGED <<stamped, shelf, own, tested>>

\* Mutant of CopyTree: mv instead of cp -RL.
MoveTree(p) ==
    /\ OwnRun /\ step = "copy" /\ Due(p)
    /\ merged' = merged \cup {p}
    /\ tree' = [tree EXCEPT ![p] = "none"]
    /\ GoTo("drop")
    /\ UNCHANGED <<stamped, shelf, stamps, packed, holds, tested>>

CopyTree(p) ==
    /\ OwnRun /\ step = "copy" /\ Due(p)
    /\ merged' = merged \cup {p}
    /\ GoTo("drop")
    /\ UNCHANGED <<parts, stamps, packed, holds, tested>>

\* rm -rf of the part's .tar.gz (and .properties and .zip) in bin.
DropTarball(p) ==
    /\ OwnRun /\ step = "drop" /\ Due(p)
    /\ shelf' = [shelf EXCEPT ![p] = "none"]
    /\ GoTo("stamp")
    /\ UNCHANGED <<stamped, tree, own, tested>>

StampPart(p) ==
    /\ OwnRun /\ step = "stamp" /\ Due(p)
    /\ Stamp(p)
    /\ UNCHANGED <<parts, merged, packed, holds, tested>>

MergePart(p) ==
    \/ MergeBegin(p) \/ RmTree(p) \/ Untar(p) \/ TakeProperties(p)
    \/ CopyTree(p) \/ DropTarball(p) \/ StampPart(p)

\* cp: cannot stat '<part>.properties'
Stuck ==
    /\ OwnRun /\ step = "stuck"
    /\ Stop("error")
    /\ UNCHANGED <<parts, own, tested, cuts>>

OwnInstall ==
    /\ OwnRun /\ step = "begin" /\ ~packed /\ Due(Own)
    /\ Stamp(Own)
    /\ UNCHANGED <<parts, merged, packed, holds, tested>>

OwnPack ==
    /\ OwnRun /\ step = "begin" /\ ~packed /\ Own \in stamps
    /\ packed' = TRUE /\ holds' = merged
    /\ GoTo("begin")
    /\ UNCHANGED <<parts, stamps, merged, tested>>

-----------------------------------------------------------------------------
(* regress: without a tarball only a test.stamp of the past will do.       *)

HasTarball == IF at = Own THEN packed ELSE shelf[at] # "none"

Regress ==
    /\ goal = "regress" /\ step = "begin"
    /\ IF HasTarball \/ at \in tested
       THEN tested' = tested \cup {at} /\ NextMake
       ELSE Stop("error") /\ UNCHANGED <<tested, cuts>>
    /\ UNCHANGED <<parts, own>>

-----------------------------------------------------------------------------
(* cleanup and flushup of a part, then of the next.                        *)

Cleaning == goal \in {"cleanup", "flushup"}

\* Mutant of RmBuild: the own stamps stay.
RmBuildOfParts ==
    /\ Cleaning /\ step = "begin"
    /\ tested' = tested \ {at}
    /\ stamped' = stamped \ {at} /\ GoTo("rminstall")
    /\ UNCHANGED <<stamps, tree, shelf, merged, packed, holds>>

\* rm -rf test/<package> and build/<package>
RmBuild ==
    /\ Cleaning /\ step = "begin"
    /\ tested' = tested \ {at}
    /\ \/ at \in Parts /\ stamped' = stamped \ {at} /\ UNCHANGED stamps /\ GoTo("rminstall")
       \/ /\ at = Own /\ UNCHANGED stamped
          /\ \/ \E s \in stamps : stamps' = stamps \ {s} /\ GoTo("begin")
             \/ stamps = {} /\ UNCHANGED stamps /\ GoTo("rminstall")
    /\ UNCHANGED <<tree, shelf, merged, packed, holds>>

\* rm -rf install/<package>-<version>-<platform>, where flushup ends.
RmInstall ==
    /\ Cleaning /\ step = "rminstall"
    /\ \/ /\ at \in Parts /\ UNCHANGED merged
          /\ \/ tree[at] \in Complete /\ tree' = [tree EXCEPT ![at] = "some"]
                /\ GoTo("rminstall")
             \/ tree' = [tree EXCEPT ![at] = "none"]
                /\ IF goal = "flushup" THEN NextMake ELSE GoTo("rmbin")
       \/ /\ at = Own /\ UNCHANGED tree
          /\ \/ \E p \in merged : merged' = merged \ {p} /\ GoTo("rminstall")
             \/ /\ merged = {} /\ UNCHANGED merged
                /\ IF goal = "flushup" THEN NextMake ELSE GoTo("rmbin")
    /\ UNCHANGED <<stamped, shelf, stamps, packed, holds, tested>>

RmBin ==
    /\ goal = "cleanup" /\ step = "rmbin"
    /\ \/ at \in Parts /\ shelf' = [shelf EXCEPT ![at] = "none"] /\ UNCHANGED packed
       \/ at = Own /\ packed' = FALSE /\ UNCHANGED shelf
    /\ NextMake
    /\ UNCHANGED <<stamped, tree, stamps, merged, holds, tested>>

-----------------------------------------------------------------------------
Work ==
    \/ Read
    \/ PartBegin \/ PartBuild \/ PartPack
    \/ OwnPacked \/ OwnSource \/ OwnInstall \/ OwnPack \/ Stuck
    \/ \E p \in Parts : MergePart(p)
    \/ Regress \/ RmBuild \/ RmInstall \/ RmBin

Next ==
    \/ \E g \in Goals : StartAll(g) \/ StartPart(g)
    \/ Work \/ CutShort

Spec == Init /\ [][Next]_vars

\* make and rm run on by themselves, and the user asks for the toolchain again.
FairSpec == Spec /\ WF_vars(Work) /\ WF_vars(StartAll("package"))

-----------------------------------------------------------------------------
(* Properties.                                                             *)

(***************************************************************************)
(* A toolchain tarball in bin holds every part: the own Makefile looks for *)
(* the parts' tarballs when it is read (ifneq), silently leaves out what   *)
(* it does not find, and deletes what it does.                             *)
(***************************************************************************)
ToolchainHasAll == packed => holds = Parts

(***************************************************************************)
(* The work of building a part is never lost: from the moment it is built  *)
(* until it is cleaned away its output is in its INSTALL tree or in its    *)
(* tarball, although the merge deletes the one and unpacks the other over  *)
(* it, deletes that in turn, and may be cut short anywhere.                *)
(***************************************************************************)
NothingLost == \A p \in stamped : tree[p] \in Complete \/ shelf[p] \in Complete

(***************************************************************************)
(* Why these hold however runs and clean-ups are cut short.  A stamp       *)
(* stands for its part and all those before it, since the INSTALL tree is  *)
(* emptied only where no stamp is left.  The own make starts after every   *)
(* part has offered its tarball, and the offer stands until the part has   *)
(* been copied; what is packed, and what is kept when a tarball is         *)
(* dropped, is a complete tree.                                            *)
(***************************************************************************)
StampsMerged ==
    /\ \A s \in stamps, p \in Parts : p <= s => p \in merged
    /\ step \in {"drop", "stamp"} => \A p \in Parts : Due(p) => p \in merged

Offered(p) == shelf[p] # "none" /\ (at = Own /\ step # "read" => p \in seen)
Settled(p) ==
    /\ at = Own /\ step # "read"
    /\ (\E s \in stamps : p <= s) \/ (step = "stamp" /\ Due(p))

OffersStand ==
    goal = "package" /\ last = Own => \A p \in Parts : p < at => Offered(p) \/ Settled(p)

TreesComplete ==
    /\ \A p \in Parts : shelf[p] # "some"
    /\ step = "packing" => tree[at] \in Complete
    /\ step \in {"properties", "copy", "drop"} =>
          \A p \in Parts : Due(p) => tree[p] \in Complete

CleanedFirst ==
    step \in {"rminstall", "rmbin"} => IF at = Own THEN stamps = {} ELSE at \notin stamped

MergeInv ==
    /\ MergeTypeOK /\ (last = Own \/ at = last)
    /\ step \in {"rminstall", "rmbin"} => Cleaning
    /\ step \in {"building", "packing"} => OfPart("package")
    /\ step \in {"rmtree", "untar", "properties", "copy", "drop", "stamp"} => OwnRun
    /\ StampsMerged /\ OffersStand /\ TreesComplete /\ CleanedFirst
    /\ NothingLost /\ ToolchainHasAll

(***************************************************************************)
(* Asking for the toolchain again and again ends in a run that succeeds,   *)
(* unless a merge was cut short between deleting a part's tarball and its  *)
(* stamp: the tree that the tarball is packed from again has lost its      *)
(* .properties file, and the next merge wants to copy that file.           *)
(***************************************************************************)
Orphan(p) == ~packed /\ shelf[p] = "bare" /\ \A s \in stamps : s < p

MergedUnlessOrphaned ==
    []<>(outcome = <<"package", Own, "ok">>) \/ <>[](\E p \in Parts : Orphan(p))

(***************************************************************************)
(* Where toolchain-metal-package has ended well, toolchain-metal-regress   *)
(* has something to test: each of its makes finds a tarball of its package *)
(* in bin, or has tested one.                                              *)
(***************************************************************************)
RegressHasTarballs ==
    outcome = <<"package", Own, "ok">> =>
        packed /\ \A p \in Parts : shelf[p] # "none" \/ p \in tested
=============================================================================
