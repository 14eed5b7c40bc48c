---------------------------- MODULE PackageBuild ----------------------------
(***************************************************************************)
(* One package of the monorepo, built for one platform: the stamp files    *)
(* under obj/<platform>/build/<package>, the INSTALL tree its stages fill, *)
(* the artifacts in bin, and the runs of make that move them: package,     *)
(* regress, cleanup and flushup of one package, and flush and clean of all. *)
(*                                                                         *)
(* The rules of a package are constants (its stages, their prerequisites,  *)
(* what a recipe does to its own directory); module PackageGraphs gives    *)
(* their values for the packages of modules/.  What a recipe writes is     *)
(* abstracted to the set of stages whose output is complete.               *)
(*                                                                         *)
(* make itself is external: Package.mk line 30 declares every file         *)
(* .SECONDARY, so a missing file is rebuilt only on behalf of a target     *)
(* that has to be remade, and a target has to be remade only when it is    *)
(* missing or older than a file it is made from, however far down.         *)
(***************************************************************************)
EXTENDS Integers, Sequences

CONSTANTS
    Stages,     \* stamps made after source.stamp, install.stamp among them
    Arts,       \* the files of bin that a package run leaves
    Tar,        \* the .tar.gz among them, which regress unpacks
    Piped,      \* the ones written by `tar ... | gzip > $@`
    Merged,     \* the ones `zip -r` updates in place
    Prereqs,    \* target -> the sequence of its prerequisites, in rule order
    Below,      \* target -> everything it is made from, directly or not
    SameDir,    \* stage -> the stamps its recipe's `rm -rf $(dir $@)` deletes
    Fills,      \* stamps whose recipe writes into the INSTALL tree
    Needs,      \* stage -> stamps whose installed output its recipe requires
    Fetched,    \* the source trees that source.stamp unpacks
    Makes,      \* stage -> build trees its recipe fills from empty
    Uses,       \* stage -> trees its recipe builds from
    Once,       \* stages whose recipe edits those trees, as can be done once only
    Quiet,      \* stages whose recipe writes nothing into buildlog
    Lax,        \* stages whose recipe succeeds where it finds nothing to copy
    Listers,    \* stages that list the files of INSTALL for install.stamp,
                \* whose recipe then deletes every file of the list
    Tools,      \* stamps whose programs the test recipe runs
    Jobs,       \* the make goals that are invoked
    Faults,     \* what may go wrong: "error", "signal", "kill", "short"
    MaxFaults   \* bound on disturbances: faults, cleaning and regress runs

BuildFiles == Stages \cup {"source"}
TestFiles  == {"launch", "test"}
Files      == BuildFiles \cup TestFiles \cup Arts
Archives   == Piped \cup Merged
Trees      == Fetched \cup UNION {Makes[s] : s \in Stages}
Shipped    == Fills \ Listers
Goals      == {"package", "regress"}
Wholesale  == {"flush", "clean"}
Cleanings  == {"cleanup", "flushup"} \cup Wholesale
RangeOf(s) == {s[i] : i \in DOMAIN s}

GraphOK ==
    /\ Tar \in Piped /\ Archives \subseteq Arts /\ Piped \cap Merged = {}
    /\ Archives \subseteq RangeOf(Prereqs["package"])
    /\ "install" \in Stages
    /\ Stages \cap (Arts \cup TestFiles \cup Goals \cup {"source"}) = {}
    /\ Arts \cap (TestFiles \cup Goals \cup {"source"}) = {}
    /\ Prereqs \in [Files \cup Goals -> Seq(Files)]
    /\ Below \in [Files \cup Goals -> SUBSET Files]
    /\ \A t \in Files \cup Goals :
          /\ RangeOf(Prereqs[t]) \subseteq Below[t]
          /\ \A q \in Below[t] : Below[q] \subseteq Below[t] /\ t \notin Below[q]
    /\ Below["source"] = {}
    /\ \A s \in Stages : "source" \in Below[s] /\ Below[s] \subseteq BuildFiles
    /\ \A a \in Arts : Below[a] \subseteq BuildFiles
    /\ SameDir \in [Stages -> SUBSET Stages]
    /\ \A s \in Stages : SameDir[s] # {} => s \in SameDir[s]

RecipeOK ==
    /\ Fills \subseteq BuildFiles /\ Tools \subseteq Fills
    /\ Needs \in [Stages -> SUBSET Fills]
    /\ DOMAIN Makes = Stages /\ Uses \in [Stages -> SUBSET Trees]
    /\ Once \subseteq Stages /\ Quiet \subseteq Stages
    /\ Lax \subseteq Fills \cap Stages /\ Listers \subseteq Fills \cap Stages
    /\ "install" \notin Listers
    /\ Jobs \subseteq Goals \cup Cleanings
    /\ Faults \subseteq {"error", "signal", "kill", "short"}
    /\ MaxFaults \in Nat

ASSUME GraphAssumption == GraphOK
ASSUME RecipeAssumption == RecipeOK

VARIABLES
    present,    \* the files that exist
    newer,      \* <<f, g>>: f and g exist and f was written after g
    installed,  \* stamps whose output is complete in the INSTALL tree
    noted,      \* install/<package>.properties, beside INSTALL, is complete
    logs,       \* the buildlog directory of the package exists
    listed,     \* stamps whose output is on the list in buildlog
    trees,      \* trees under the build directory, whole and unedited
    art,        \* archive -> what its file holds
    launched,   \* stamps whose output is complete in the launch tree
    job,        \* the goal being made, or "idle"
    stack,      \* the targets make is updating, the goal first
    known,      \* targets make is finished with in this run
    step,       \* position in the recipe of the top of stack
    tarSeen,    \* $(PACKAGE_TARBALL) was not empty when make read Package.mk
    outcome,    \* how the last run ended: <<goal, "ok">> or <<goal, "error">>
    faults      \* disturbances so far

files    == <<present, newer>>
shelves  == <<noted, logs, listed>>
contents == <<installed, shelves, trees, art, launched>>
run      == <<job, stack, known, step, tarSeen>>
vars     == <<files, contents, run, outcome, faults>>

Steps == {"scan", "begin", "wipebuild", "fetch", "build", "doomed",
          "wipelogs", "installing", "packing", "unpacking",
          "rmtest", "rmbuild", "rmlaunch", "rminstall", "rmlogs", "rmbin", "rmall"}
Holding == [whole : BOOLEAN, has : SUBSET Fills]

FilesOK ==
    /\ present \subseteq Files
    /\ newer \subseteq present \X present

ContentsOK ==
    /\ installed \subseteq Fills
    /\ noted \in BOOLEAN /\ logs \in BOOLEAN
    /\ listed \subseteq Fills
    /\ trees \subseteq Trees
    /\ art \in [Archives -> Holding]
    /\ launched \subseteq Fills

RunOK ==
    /\ job \in {"idle"} \cup Goals \cup Cleanings
    /\ stack \in Seq(Files \cup Goals)
    /\ IF job \in Goals THEN stack # <<>> /\ stack[1] = job ELSE stack = <<>>
    /\ known \subseteq Files
    /\ step \in Steps
    /\ tarSeen \in BOOLEAN
    /\ outcome \in (Goals \cup Cleanings \cup {"none"}) \X {"none", "ok", "error"}
    /\ faults \in 0..MaxFaults

(***************************************************************************)
(* Every variable keeps its type: only files that exist have an age,       *)
(* INSTALL, the archives and the launch tree hold nothing but what stages  *)
(* with INSTALL as their prefix put there, and make is updating targets,   *)
(* the goal first, exactly while it runs.                                  *)
(***************************************************************************)
TypeOK == FilesOK /\ ContentsOK /\ RunOK

Init ==
    /\ present = {} /\ newer = {}
    /\ installed = {} /\ trees = {} /\ launched = {}
    /\ noted = FALSE /\ logs = FALSE /\ listed = {}
    /\ art = [a \in Archives |-> [whole |-> FALSE, has |-> {}]]
    /\ job = "idle" /\ stack = <<>> /\ known = {} /\ step = "scan"
    /\ tarSeen = FALSE
    /\ outcome = <<"none", "none">>
    /\ faults = 0

-----------------------------------------------------------------------------
(* The file system.                                                        *)

\* `date > $@`: f becomes the newest file there is.
Touch(f) ==
    /\ present' = present \cup {f}
    /\ newer' = {p \in newer : f \notin {p[1], p[2]}}
                \cup {<<f, g>> : g \in present \ {f}}

Remove(S) ==
    /\ present' = present \ S
    /\ newer' = {p \in newer : p[1] \notin S /\ p[2] \notin S}

(* make's view of the rules (external).                                    *)

\* Without a tarball Package.mk lines 94-96 give launch.stamp no prerequisite.
Reach(t) == IF t \in TestFiles /\ ~tarSeen THEN Below[t] \cap TestFiles ELSE Below[t]
PrereqsOf(t) == IF t = "launch" /\ ~tarSeen THEN <<>> ELSE Prereqs[t]

Outdated(t) == t \in present /\ \E q \in Reach(t) : <<q, t>> \in newer
MustMake(t) == t \notin present \/ Outdated(t)

Top == stack[Len(stack)]
Running == job \in Goals
Unknown == {i \in DOMAIN PrereqsOf(Top) : PrereqsOf(Top)[i] \notin known}
FirstUnknown == {i \in Unknown : \A j \in Unknown : i <= j}

Stop(how) ==
    /\ job' = "idle" /\ stack' = <<>> /\ known' = {} /\ step' = "scan"
    /\ outcome' = <<job, how>>
    /\ UNCHANGED tarSeen

\* The recipe of the top target has ended well: make is finished with it.
Made ==
    /\ known' = known \cup {Top}
    /\ stack' = SubSeq(stack, 1, Len(stack) - 1)
    /\ step' = "scan"
    /\ UNCHANGED <<job, tarSeen, outcome, faults>>

GoTo(s) == step' = s /\ UNCHANGED <<job, stack, known, tarSeen, outcome, faults>>

-----------------------------------------------------------------------------
(* A run of make.                                                          *)

\* Only package runs are free: the others count as disturbances.
Charge(g) == IF g = "package" THEN UNCHANGED faults
             ELSE faults < MaxFaults /\ faults' = faults + 1

StartGoal(g) ==
    /\ job = "idle"
    /\ g \in Jobs \cap Goals
    /\ job' = g /\ stack' = <<g>> /\ known' = {} /\ step' = "scan"
    /\ tarSeen' = (Tar \in present)
    /\ outcome' = <<"none", "none">>
    /\ Charge(g)
    /\ UNCHANGED <<files, contents>>

\* make considers the next prerequisite of the target it is updating: one
\* that need not be remade is finished with, whatever happens to it later.
Consider ==
    /\ Running /\ step = "scan"
    /\ \E i \in FirstUnknown :
         LET t == PrereqsOf(Top)[i] IN
         IF MustMake(t)
         THEN stack' = Append(stack, t) /\ UNCHANGED known
         ELSE known' = known \cup {t} /\ UNCHANGED stack
    /\ UNCHANGED <<files, contents, job, step, tarSeen, outcome, faults>>

\* All prerequisites are settled: run the recipe of a file, end at the goal.
\* The recipe of launch.stamp is $(error ...) when there was no tarball.
Settle ==
    /\ Running /\ step = "scan" /\ Unknown = {}
    /\ \/ /\ Top = job
          /\ Stop("ok")
          /\ UNCHANGED <<files, contents, faults>>
       \/ /\ Top = "launch" /\ ~tarSeen
          /\ Stop("error")
          /\ UNCHANGED <<files, contents, faults>>
       \/ /\ Top \in Files /\ (Top = "launch" => tarSeen)
          /\ GoTo("begin")
          /\ UNCHANGED <<files, contents>>

-----------------------------------------------------------------------------
(* source.stamp: empty INSTALL, then buildlog, then the build directory,   *)
(* then fetch.  rm -rf deletes in no particular order and may be cut short. *)

\* rm -rf $($@_INSTALL); mkdir -p $($@_INSTALL)
WipeInstall ==
    /\ Running /\ Top = "source" /\ step = "begin"
    /\ \/ \E s \in installed : installed' = installed \ {s} /\ GoTo("begin")
       \/ installed = {} /\ UNCHANGED installed /\ GoTo("wipelogs")
    /\ UNCHANGED <<files, shelves, trees, art, launched>>

\* Mutant of WipeLogs: the directory is not made again.
WipeLogsForGood ==
    /\ Running /\ Top = "source" /\ step = "wipelogs"
    /\ logs' = FALSE /\ listed' = {}
    /\ GoTo("wipebuild")
    /\ UNCHANGED <<files, installed, noted, trees, art, launched>>

\* rm -rf $($@_BUILDLOG); mkdir -p $($@_BUILDLOG)
WipeLogs ==
    /\ Running /\ Top = "source" /\ step = "wipelogs"
    /\ logs' = ~logs /\ listed' = {}
    /\ GoTo(IF logs THEN "wipelogs" ELSE "wipebuild")
    /\ UNCHANGED <<files, installed, noted, trees, art, launched>>

BuildLeft == present \cap BuildFiles # {} \/ trees # {}

DropBuild ==
    \/ \E f \in present \cap BuildFiles : Remove({f}) /\ UNCHANGED trees
    \/ \E t \in trees : trees' = trees \ {t} /\ UNCHANGED files

\* rm -rf $(dir $@); mkdir -p $(dir $@): every stamp and every tree.
WipeBuild ==
    /\ Running /\ Top = "source" /\ step = "wipebuild"
    /\ \/ DropBuild /\ GoTo("wipebuild")
       \/ ~BuildLeft /\ UNCHANGED <<files, trees>> /\ GoTo("fetch")
    /\ UNCHANGED <<installed, shelves, art, launched>>

\* curl, git clone and unpack; gdb's Python goes straight into INSTALL.
Fetch ==
    /\ Running /\ Top = "source" /\ step = "fetch"
    /\ trees' = Fetched
    /\ installed' = Fills \cap {"source"}
    /\ Touch("source")
    /\ Made
    /\ UNCHANGED <<shelves, art, launched>>

-----------------------------------------------------------------------------
(* A build stage, install.stamp included.                                  *)

\* gcc's recipe that copies the nano libraries into INSTALL is a loop over
\* what `find` prints, and says nothing when there is nothing to copy; it ends
\* with `date > $@`, which fails if the directory of both is gone as well.
Idle == Top \in Lax /\ ~(Uses[Top] \subseteq trees)

\* `&> $@_BUILDLOG/...` fails without the directory.
CanBuild ==
    /\ Top \in Quiet \/ logs
    /\ Idle \/ (Needs[Top] \subseteq installed /\ Uses[Top] \subseteq trees)

\* Mutant of StageBegin: the recipe goes on without the libraries it needs.
StageBeginUnchecked ==
    /\ Running /\ Top \in Stages /\ step = "begin"
    /\ Remove(SameDir[Top])
    /\ trees' = (trees \ Makes[Top]) \ (IF Top \in Once THEN Uses[Top] ELSE {})
    /\ GoTo("build")
    /\ UNCHANGED <<installed, shelves, art, launched>>

\* Mutant of StageBegin: rm -rf $(dir $<), the directory of what it is made from.
StageBeginAbove ==
    /\ Running /\ Top \in Stages /\ step = "begin"
    /\ Remove(IF SameDir[Top] = {} THEN {} ELSE {Prereqs[Top][1]})
    /\ GoTo("build")
    /\ UNCHANGED contents

\* The first lines of a recipe: rm -rf of its own directory, or sed -i on its
\* source tree, which cannot be built once the edit has been applied twice.
StageBegin ==
    /\ Running /\ Top \in Stages /\ step = "begin"
    /\ Remove(SameDir[Top])
    /\ trees' = (trees \ Makes[Top]) \ (IF Top \in Once THEN Uses[Top] ELSE {})
    /\ \/ CanBuild /\ GoTo("build")
       \/ (~CanBuild \/ Idle) /\ GoTo("doomed")
    /\ UNCHANGED <<installed, shelves, art, launched>>

\* Mutant of Discards: install.stamp's own recipe lists the files.
DiscardsAll == IF Top = "install" /\ Listers # {} THEN installed ELSE {}

\* What install.stamp's recipe takes out of INSTALL before it ends, file by file:
\* cat $($@_BUILDLOG)/install-binutils-file-list | xargs rm -rf
Discards == IF Top = "install" /\ Listers # {} THEN listed ELSE {}

\* make install overwrites what an earlier run of the stage has installed;
\* install.stamp's recipe writes the .properties file line by line and deletes
\* what it discards, some of it if it does not come to its end.
StageInstall ==
    /\ Running /\ Top \in Stages /\ step = "build"
    /\ \E D \in SUBSET Discards : installed' = installed \ (D \cup {Top})
    /\ noted' = (noted /\ Top # "install")
    /\ GoTo("installing")
    /\ UNCHANGED <<files, logs, listed, trees, art, launched>>

\* Mutant of StageFinish: every stage installs, libraries that are linked
\* statically and live in the build directory too.
StageFinishAll ==
    /\ Running /\ Top \in Stages /\ step = "installing"
    /\ installed' = (IF Idle THEN installed ELSE installed \cup {Top}) \ Discards
    /\ noted' = (noted \/ Top = "install")
    /\ listed' = IF Top \in Listers THEN installed' ELSE listed
    /\ trees' = trees \cup Makes[Top]
    /\ Touch(Top)
    /\ Made
    /\ UNCHANGED <<logs, art, launched>>

\* find $($@_INSTALL) -type f > install-binutils-file-list, in a stage that
\* lists: everything that is in INSTALL by then.
StageFinish ==
    /\ Running /\ Top \in Stages /\ step = "installing"
    /\ installed' = (IF Idle THEN installed ELSE installed \cup ({Top} \cap Fills))
                    \ Discards
    /\ noted' = (noted \/ Top = "install")
    /\ listed' = IF Top \in Listers THEN installed' ELSE listed
    /\ trees' = trees \cup Makes[Top]
    /\ Touch(Top)
    /\ Made
    /\ UNCHANGED <<logs, art, launched>>

-----------------------------------------------------------------------------
(* The artifacts of bin.                                                   *)

\* The shell opens `gzip > $@` before tar has written anything.
PackBegin ==
    /\ Running /\ Top \in Piped /\ step = "begin"
    /\ Touch(Top)
    /\ art' = [art EXCEPT ![Top] = [whole |-> FALSE, has |-> {}]]
    /\ GoTo("packing")
    /\ UNCHANGED <<installed, shelves, trees, launched>>

PackFinish ==
    /\ Running /\ Top \in Piped /\ step = "packing"
    /\ art' = [art EXCEPT ![Top] = [whole |-> TRUE, has |-> installed]]
    /\ Made
    /\ UNCHANGED <<files, installed, shelves, trees, launched>>

\* tar stops early or skips files, gzip closes a valid archive of the rest,
\* and the pipeline's status is gzip's.
PackShort ==
    /\ Running /\ Top \in Piped /\ step = "packing" /\ "short" \in Faults
    /\ faults < MaxFaults /\ faults' = faults + 1
    /\ \E S \in SUBSET installed \ {installed} :
         art' = [art EXCEPT ![Top] = [whole |-> TRUE, has |-> S]]
    /\ known' = known \cup {Top}
    /\ stack' = SubSeq(stack, 1, Len(stack) - 1)
    /\ step' = "scan"
    /\ UNCHANGED <<files, installed, shelves, trees, launched, job, tarSeen, outcome>>

\* zip -r adds to and replaces in the archive it finds, and renames its
\* finished file into place.
Merge ==
    /\ Running /\ Top \in Merged /\ step = "begin"
    /\ LET old == IF Top \in present THEN art[Top].has ELSE {} IN
         art' = [art EXCEPT ![Top] = [whole |-> TRUE, has |-> old \cup installed]]
    /\ Touch(Top)
    /\ Made
    /\ UNCHANGED <<installed, shelves, trees, launched>>

\* Mutant of Copy: cp -p, which keeps the time install.stamp is newer than.
CopyKeepingTime ==
    /\ Running /\ Top \in Arts \ Archives /\ step = "begin"
    /\ present' = present \cup {Top}
    /\ newer' = {p \in newer : Top \notin {p[1], p[2]}}
                \cup {<<g, Top>> : g \in present \ {Top}}
    /\ Made
    /\ UNCHANGED contents

\* cp of the .properties file, which the clean-ups of one package spare.
Copy ==
    /\ Running /\ Top \in Arts \ Archives /\ step = "begin"
    /\ IF noted
       THEN Touch(Top) /\ Made
       ELSE GoTo("doomed") /\ UNCHANGED files
    /\ UNCHANGED contents

-----------------------------------------------------------------------------
(* regress: unpack the tarball, run its programs.                          *)

\* Mutant of LaunchBegin: gzip -dc | tar -x, and what gzip finds wrong is lost.
LaunchBeginPiped ==
    /\ Running /\ Top = "launch" /\ step = "begin"
    /\ launched' = {}
    /\ GoTo("unpacking")
    /\ UNCHANGED <<files, installed, shelves, trees, art>>

\* rm -rf launch/$(PACKAGE_TARNAME)
LaunchBegin ==
    /\ Running /\ Top = "launch" /\ step = "begin"
    /\ launched' = {}
    /\ IF art[Tar].whole THEN GoTo("unpacking") ELSE GoTo("doomed")
    /\ UNCHANGED <<files, installed, shelves, trees, art>>

LaunchFinish ==
    /\ Running /\ Top = "launch" /\ step = "unpacking"
    /\ launched' = art[Tar].has
    /\ Touch("launch")
    /\ Made
    /\ UNCHANGED <<installed, shelves, trees, art>>

\* PATH=launch/.../bin:$(PATH), and Package.mk line 3 has put the INSTALL
\* tree's bin in $(PATH): a program missing from the tarball is found there.
TestRun ==
    /\ Running /\ Top = "test" /\ step = "begin"
    /\ IF Tools \subseteq launched \cup installed
       THEN Touch("test") /\ Made
       ELSE GoTo("doomed") /\ UNCHANGED files
    /\ UNCHANGED contents

-----------------------------------------------------------------------------
(* What ends a run early.                                                  *)

\* A recipe that cannot succeed from this state.
Doomed ==
    /\ Running /\ step = "doomed"
    /\ Stop("error")
    /\ UNCHANGED <<files, contents, faults>>

InRecipe == Running /\ step # "scan"

\* A command of the recipe fails (network, disk, compiler): make stops and
\* keeps the target, there is no .DELETE_ON_ERROR.
RecipeError ==
    /\ InRecipe /\ "error" \in Faults
    /\ faults < MaxFaults /\ faults' = faults + 1
    /\ Stop("error")
    /\ UNCHANGED <<files, contents>>

\* Mutant of Interrupt: the target is .PRECIOUS and stays.
InterruptKeepingTarget ==
    /\ job # "idle" /\ "signal" \in Faults
    /\ faults < MaxFaults /\ faults' = faults + 1
    /\ Stop("error")
    /\ UNCHANGED <<files, contents>>

\* Ctrl-C: make deletes the target it was writing, if it has changed.
Interrupt ==
    /\ job # "idle" /\ "signal" \in Faults
    /\ faults < MaxFaults /\ faults' = faults + 1
    /\ Remove(IF Running /\ step = "packing" THEN {Top} ELSE {})
    /\ Stop("error")
    /\ UNCHANGED contents

\* Power loss or kill -9: everything stays as it is.
Crash ==
    /\ job # "idle" /\ "kill" \in Faults
    /\ faults < MaxFaults /\ faults' = faults + 1
    /\ Stop("error")
    /\ UNCHANGED <<files, contents>>

-----------------------------------------------------------------------------
(* Cleaning: one rm -rf after another, each of which may be cut short.     *)

StartCleaning(g) ==
    /\ job = "idle"
    /\ g \in Jobs \cap Cleanings
    /\ job' = g /\ stack' = <<>> /\ known' = {}
    /\ step' = IF g \in Wholesale THEN "rmall" ELSE "rmtest"
    /\ outcome' = <<"none", "none">>
    /\ Charge(g)
    /\ UNCHANGED <<files, contents, tarSeen>>

\* The next directory: flush and clean take them as they find them in obj.
GoOn(s) == GoTo(IF job \in Wholesale THEN "rmall" ELSE s)

\* Mutant of RmTest: the clean-up has no `rm -rf build/<package>`.
RmTestNotBuild ==
    /\ job \in Cleanings /\ step = "rmtest"
    /\ \/ \E f \in present \cap TestFiles : Remove({f}) /\ GoTo("rmtest")
       \/ present \cap TestFiles = {} /\ UNCHANGED files /\ GoOn("rmlaunch")
    /\ UNCHANGED contents

\* rm -rf test/<package>
RmTest ==
    /\ job \in Cleanings /\ step = "rmtest"
    /\ \/ \E f \in present \cap TestFiles : Remove({f}) /\ GoTo("rmtest")
       \/ present \cap TestFiles = {} /\ UNCHANGED files /\ GoOn("rmbuild")
    /\ UNCHANGED contents

\* rm -rf build/<package>
RmBuild ==
    /\ job \in Cleanings /\ step = "rmbuild"
    /\ \/ DropBuild /\ GoTo("rmbuild")
       \/ ~BuildLeft /\ UNCHANGED <<files, trees>> /\ GoOn("rmlaunch")
    /\ UNCHANGED <<installed, shelves, art, launched>>

\* rm -rf launch/<package>-<version>-<platform>
RmLaunch ==
    /\ job \in Cleanings /\ step = "rmlaunch"
    /\ \/ \E s \in launched : launched' = launched \ {s} /\ GoTo("rmlaunch")
       \/ launched = {} /\ UNCHANGED launched /\ GoOn("rminstall")
    /\ UNCHANGED <<files, installed, shelves, trees, art>>

\* rm -rf install/<package>-<version>-<platform>; without obj the .properties
\* file beside it goes too.
RmInstall ==
    /\ job \in Cleanings /\ step = "rminstall"
    /\ \/ /\ \E s \in installed : installed' = installed \ {s}
          /\ UNCHANGED noted /\ GoTo("rminstall")
       \/ /\ job \in Wholesale /\ noted /\ noted' = FALSE
          /\ UNCHANGED installed /\ GoTo("rminstall")
       \/ /\ installed = {} /\ (job \in Wholesale => ~noted)
          /\ UNCHANGED <<installed, noted>> /\ GoOn("rmlogs")
    /\ UNCHANGED <<files, logs, listed, trees, art, launched>>

\* rm -rf buildlog/<package>, where flushup ends.
RmLogs ==
    /\ job \in Cleanings /\ step = "rmlogs"
    /\ \/ /\ listed # {} /\ listed' = {}
          /\ UNCHANGED logs /\ GoTo("rmlogs")
       \/ /\ listed = {} /\ logs /\ logs' = FALSE
          /\ UNCHANGED listed /\ GoTo("rmlogs")
       \/ /\ ~logs /\ UNCHANGED <<logs, listed>>
          /\ \/ job # "flushup" /\ GoOn("rmbin")
             \/ job = "flushup" /\ Stop("ok") /\ UNCHANGED faults
    /\ UNCHANGED <<files, installed, noted, trees, art, launched>>

BinLeft == {i \in DOMAIN Prereqs["package"] : Prereqs["package"][i] \in present}

\* The artifacts of bin: cleanup has an rm for each, in the order of the
\* package target; clean takes them as it finds them.
RmBin ==
    /\ job \in {"cleanup", "clean"} /\ step = "rmbin"
    /\ \/ \E i \in BinLeft :
             /\ job = "cleanup" => \A j \in BinLeft : i <= j
             /\ Remove({Prereqs["package"][i]}) /\ GoTo("rmbin")
       \/ BinLeft = {} /\ Stop("ok") /\ UNCHANGED <<files, faults>>
    /\ UNCHANGED contents

\* rm -rf obj, one directory of it after another, and for clean bin after it.
RmAll ==
    /\ job \in Wholesale /\ step = "rmall"
    /\ LET left == [rmtest |-> present \cap TestFiles # {}, rmbuild |-> BuildLeft,
                    rmlaunch |-> launched # {}, rmlogs |-> logs,
                    rminstall |-> noted \/ installed # {}]
       IN \/ \E d \in DOMAIN left : left[d] /\ GoTo(d)
          \/ /\ \A d \in DOMAIN left : ~left[d]
             /\ \/ job = "clean" /\ GoTo("rmbin")
                \/ job = "flush" /\ Stop("ok") /\ UNCHANGED faults
    /\ UNCHANGED <<files, contents>>

-----------------------------------------------------------------------------
Make ==
    \/ Consider \/ Settle
    \/ WipeInstall \/ WipeLogs \/ WipeBuild \/ Fetch
    \/ StageBegin \/ StageInstall \/ StageFinish
    \/ PackBegin \/ PackFinish \/ Merge \/ Copy
    \/ LaunchBegin \/ LaunchFinish \/ TestRun \/ Doomed

Clean == RmTest \/ RmBuild \/ RmLaunch \/ RmInstall \/ RmLogs \/ RmBin \/ RmAll

Disturb == PackShort \/ RecipeError \/ Interrupt \/ Crash

Next ==
    \/ \E g \in Goals : StartGoal(g)
    \/ \E g \in Cleanings : StartCleaning(g)
    \/ Make \/ Clean \/ Disturb

Spec == Init /\ [][Next]_vars

\* make and rm run on by themselves, and the user asks for the package again.
Fairness == WF_vars(Make \/ Clean) /\ WF_vars(StartGoal("package"))

FairSpec == Spec /\ Fairness

-----------------------------------------------------------------------------
(* Properties.                                                             *)

(***************************************************************************)
(* A stamp that is up to date (all it is made from is there and older)     *)
(* tells the truth: what it stands for is complete in INSTALL (unless it   *)
(* is not to stay there, which is so for gcc's copy of binutils).          *)
(* source.stamp's recipe empties INSTALL before the stamps go, the         *)
(* clean-ups empty it after them, and any of them can be cut short.        *)
(***************************************************************************)
Current(s) == s \in present /\ Below[s] \subseteq present /\ ~Outdated(s)

StampsTruthful == \A s \in Shipped : Current(s) => s \in installed

(***************************************************************************)
(* Why the stamps are truthful while obj is never removed as a whole: make *)
(* descends along prerequisites and holds only targets that are not        *)
(* current, so a recipe that takes something out of INSTALL (source.stamp, *)
(* or a stage that installs again) takes it from stages that are not       *)
(* current; a clean-up reaches INSTALL after the last stamp is gone.       *)
(***************************************************************************)
Descends == \A i, j \in DOMAIN stack : i < j => stack[j] \in Below[stack[i]]

StackStale == \A i \in DOMAIN stack : stack[i] \in BuildFiles => ~Current(stack[i])

Emptied ==
    step \in {"fetch", "rmlaunch", "rminstall", "rmlogs", "rmbin"}
        => present \cap BuildFiles = {}

TruthInv ==
    /\ TypeOK /\ job \notin Wholesale
    /\ Descends /\ StackStale /\ Emptied
    /\ StampsTruthful

(***************************************************************************)
(* Wherever the sources are in place there is a buildlog directory for the *)
(* stages to write to.  Only source.stamp's recipe makes one, between      *)
(* emptying INSTALL and the build directory, and the clean-ups of a        *)
(* package delete it after the stamps.                                     *)
(***************************************************************************)
SourceLogs == "source" \in present \/ step \in {"wipebuild", "fetch"} => logs

(***************************************************************************)
(* An archive that unpacks was taken from an INSTALL tree in which every   *)
(* stage of the package was complete (the rules of Package.mk), and of     *)
(* which gcc's install.stamp had deleted what it borrowed from binutils.   *)
(***************************************************************************)
PublishedComplete ==
    \A a \in Archives \cap present : art[a].whole => art[a].has = Shipped

(***************************************************************************)
(* When a package run says it ended well, no tarball in bin is a fragment  *)
(* that an earlier run left behind: Package.mk's `tar | gzip > $@` writes  *)
(* the target in place.                                                    *)
(***************************************************************************)
ArchivesWhole ==
    outcome = <<"package", "ok">> => \A a \in Archives : art[a].whole

(***************************************************************************)
(* Why that holds when runs are only ever stopped by Ctrl-C: a fragment is *)
(* in bin only while its own recipe writes it, and what make has finished  *)
(* with in a run is still there when the run ends.                         *)
(***************************************************************************)
WholeInv ==
    /\ TypeOK
    /\ \A a \in Archives \cap present : art[a].whole \/ (step = "packing" /\ a = Top)
    /\ step = "packing" => Running /\ Top \in present \cap Archives /\ ~art[Top].whole
    /\ Running => known \cap Archives \subseteq present
    /\ outcome = <<"package", "ok">> => job = "idle"
    /\ ArchivesWhole

(***************************************************************************)
(* After a package run that ended well every artifact exists, and one that *)
(* is out of date after all (its own turn came before install.stamp was    *)
(* remade for a later one) only has to be packed again: the stamps it is   *)
(* packed from are there and current.                                      *)
(***************************************************************************)
SettledAfterSuccess ==
    outcome = <<"package", "ok">> =>
        \A a \in Arts :
            /\ a \in present
            /\ Outdated(a) => \A s \in RangeOf(Prereqs[a]) : ~MustMake(s)

(***************************************************************************)
(* Artifacts are remade in the order of the package goal, so after success *)
(* a stale artifact is never listed after a current one: a build that      *)
(* stopped half-way cannot leave new binaries beside an old .properties.   *)
(***************************************************************************)
StaleArtifactsFirst ==
    outcome = <<"package", "ok">> =>
        \A i, j \in DOMAIN Prereqs["package"] :
            i < j /\ Outdated(Prereqs["package"][j])
                => Outdated(Prereqs["package"][i])

(***************************************************************************)
(* A test.stamp that regress would trust was earned by the tarball that is *)
(* in bin now: the launch tree holds what that tarball holds.              *)
(***************************************************************************)
TestedIsPublished ==
    /\ TestFiles \cup {Tar} \subseteq present
    /\ \A t \in TestFiles, q \in {"launch", Tar} : q \in Below[t] => <<q, t>> \notin newer
    => launched = art[Tar].has

\* What regress tests is unpacked from the tarball (Package.mk lines 87 and 99,
\* and the rule of test.stamp of every package).
RegressChain ==
    /\ Prereqs["regress"] = <<"test">> /\ Prereqs["test"] = <<"launch">>
    /\ Prereqs["launch"] = <<Tar>>
    /\ Below["launch"] = {Tar} \cup Below[Tar]
    /\ "launch" \notin Below["package"]

\* The times of files order them all.
Ages ==
    /\ \A f \in present : <<f, f>> \notin newer
    /\ \A f, g \in present : f # g => <<f, g>> \in newer \/ <<g, f>> \in newer
    /\ \A f, g, h \in present :
          <<f, g>> \in newer /\ <<g, h>> \in newer => <<f, h>> \in newer

\* launch.stamp has to be made again, or there is nothing to compare.
Repacked == {"launch", Tar} \subseteq present => <<Tar, "launch">> \in newer

Follows == \A i \in 1..(Len(stack) - 1) : stack[i + 1] \in RangeOf(Prereqs[stack[i]])

TarFirst ==
    /\ Tar \in known => job = "package" \/ "launch" \in known \cup RangeOf(stack)
    /\ "launch" \in RangeOf(stack) /\ Tar \in known => Repacked
    /\ Running /\ Top = "launch" /\ Tar \notin known
          => step = "scan" /\ MustMake("launch")
    /\ Running /\ Top = Tar /\ step = "packing" => Repacked

(***************************************************************************)
(* Why that holds whatever goes wrong, short of flush and clean: either    *)
(* the launch tree is that of the tarball or launch.stamp is older than    *)
(* it.  The recipe that empties the tree comes after the tarball in a run, *)
(* and make, which would not have taken launch.stamp up without cause, has *)
(* seen to it that the tarball is the newer one by then; the clean-ups     *)
(* delete launch.stamp before the tree.                                    *)
(***************************************************************************)
TestedInv ==
    /\ TypeOK /\ job \notin Wholesale
    /\ Ages /\ Descends /\ Follows /\ TarFirst
    /\ job \in Cleanings /\ step # "rmtest" => present \cap TestFiles = {}
    /\ Repacked \/ launched = art[Tar].has

(***************************************************************************)
(* A regress run that found a tarball in bin and ended well has run every  *)
(* program out of that tarball, so it holds them.  (One that finds none is *)
(* satisfied with a test.stamp that a tarball of the past has earned:      *)
(* Package.mk line 95 gives launch.stamp no prerequisite then.)            *)
(***************************************************************************)
RegressProves ==
    outcome = <<"regress", "ok">> /\ tarSeen => Tools \subseteq art[Tar].has

(***************************************************************************)
(* However runs and clean-ups fail and are stopped or killed, asking for   *)
(* the package again and again ends in a run that succeeds, unless a stamp *)
(* is left standing over what is gone: source.stamp itself, trees that the *)
(* recipes up to this stamp had made, the log directory, installed output, *)
(* the .properties file.  (rm -rf takes stamps and trees as it finds them, *)
(* and make has no reason to make again what a standing stamp stands for.) *)
(***************************************************************************)
TreesFor(s) == Fetched \cup UNION {Makes[q] : q \in Stages \cap ({s} \cup Below[s])}

Hollow(s) ==
    /\ s \in present
    /\ \/ s # "source" /\ "source" \notin present
       \/ ~(TreesFor(s) \subseteq trees)
       \/ s = "source" /\ ~logs
       \/ s = "install" /\ ~noted
       \/ s \in Shipped \ installed

PublishedUnlessHollow ==
    []<>(outcome = <<"package", "ok">>) \/ <>[](\E s \in BuildFiles : Hollow(s))

(***************************************************************************)
(* PackageRelease is what a user of bin can rely on while only Ctrl-C      *)
(* stops runs: archives are written one at a time and by builds only, what *)
(* was being written goes when a run gives up and what was whole stays, no *)
(* goal but cleanup and clean takes archives away, and "ok" after package  *)
(* means that all of them are there.                                       *)
(***************************************************************************)
Shelf == [a \in Archives |-> IF a \notin present THEN "none"
                             ELSE IF art[a].whole THEN "whole" ELSE "fragment"]

Release == INSTANCE PackageRelease WITH
               shelf <- Shelf, asked <- job, answer <- outcome[2],
               Builds <- Goals, Deletions <- {"cleanup", "clean"},
               Others <- {"flushup", "flush"}

ImplementsRelease == Release!Spec
=============================================================================
