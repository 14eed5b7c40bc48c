---------------------------- MODULE PackageGraphs ----------------------------
(***************************************************************************)
(* The rules of the package Makefiles under modules/, as values for the    *)
(* constants of module PackageBuild: the prerequisites of every stamp and  *)
(* artifact in the order the rules list them, the directories a recipe     *)
(* starts from empty, the trees it builds from, and what it must find in   *)
(* the INSTALL tree.  A constant no package gives here is empty for it.    *)
(***************************************************************************)
EXTENDS TLC, Sequences

None == [s \in {} |-> {}]

(***************************************************************************)
(* Package.mk: the artifacts of bin, launch.stamp, and the goals.  The     *)
(* .log and .cfg tarballs repeat the rule of the .tar.gz and are left out. *)
(***************************************************************************)
NativeArts == {"tar.gz", "properties"}

\* Mutant of NativeRules: launch.stamp always has the rule of the else branch.
NativeRulesLooseLaunch(stages) ==
    stages @@ [t \in {"source"} |-> <<>>]
    @@ [t \in NativeArts |-> <<"install">>]
    @@ "package" :> <<"tar.gz", "properties">>
    @@ "launch" :> <<>> @@ "test" :> <<"launch">> @@ "regress" :> <<"test">>

\* Mutant of NativeRules: the tarball's rule waits for the sources only.
NativeRulesEarlyTar(stages) ==
    stages @@ [t \in {"source"} |-> <<>>]
    @@ "tar.gz" :> <<"source">> @@ "properties" :> <<"install">>
    @@ "package" :> <<"tar.gz", "properties">>
    @@ "launch" :> <<"tar.gz">> @@ "test" :> <<"launch">> @@ "regress" :> <<"test">>

NativeRules(stages) ==
    stages @@ [t \in {"source"} |-> <<>>]
    @@ [t \in NativeArts |-> <<"install">>]
    @@ "package" :> <<"tar.gz", "properties">>
    @@ "launch" :> <<"tar.gz">> @@ "test" :> <<"launch">> @@ "regress" :> <<"test">>

CrossArts == {"zip", "tar.gz", "properties"}

\* Mutant of CrossRules: the package goal forgets the .properties file.
CrossRulesNoProperties(stages) ==
    stages @@ [t \in {"source"} |-> <<>>]
    @@ [t \in CrossArts |-> <<"install", "libs">>]
    @@ "package" :> <<"zip", "tar.gz">>
    @@ "launch" :> <<"tar.gz">> @@ "test" :> <<"launch">> @@ "regress" :> <<"test">>

CrossRules(stages) ==
    stages @@ [t \in {"source"} |-> <<>>]
    @@ [t \in CrossArts |-> <<"install", "libs">>]
    @@ "package" :> <<"zip", "tar.gz", "properties">>
    @@ "launch" :> <<"tar.gz">> @@ "test" :> <<"launch">> @@ "regress" :> <<"test">>

\* Everything a target is made from: the rules followed to the bottom.
Closure(rules) ==
    LET below[t \in DOMAIN rules] ==
          LET direct == {rules[t][i] : i \in DOMAIN rules[t]}
          IN  direct \cup UNION {below[q] : q \in direct}
    IN  below

\* A package whose recipes all install, need nothing of each other, and build
\* in the trees they were given, which is what most of them do.
Plain(stages, fetched, uses) ==
    [stages |-> stages, fills |-> DOMAIN stages, trees |-> fetched, uses |-> uses,
     needs |-> None, dirs |-> None, makes |-> None, once |-> {}, tools |-> {},
     quiet |-> {"install"}, lax |-> {}, listers |-> {}]

\* libs.stamp of WIN64: the DLLs of the cross compiler, after install.stamp.
\* What is built for Windows is not run by a regress goal.
CrossOf(p) ==
    [p EXCEPT !.stages = @ @@ "libs" :> <<"install">>,
              !.fills = @ \cup {"libs"}, !.quiet = @ \cup {"libs"}, !.tools = {}]

(***************************************************************************)
(* freedom-sdk-utilities.  dtc, freedom-elf2hex and spike-dasm are built   *)
(* in their source trees, each on its own; the spike-dasm rule waits for   *)
(* the other two.  The Windows recipe of dtc edits dtc-lexer.l in place.   *)
(***************************************************************************)
SdkStages == "dtc" :> <<"source">> @@ "elf2hex" :> <<"source">>
             @@ "spike" :> <<"dtc", "elf2hex", "source">>
             @@ "install" :> <<"spike">>
SdkTrees == {"dtc", "elf2hex", "spike"}
SdkUses == [s \in SdkTrees |-> {s}]
Sdk == Plain(SdkStages, SdkTrees, SdkUses)
SdkWin == [CrossOf(Sdk) EXCEPT !.once = {"dtc"}]

(***************************************************************************)
(* freedom-gdb-metal: expat in its tree, then gdb and gdb with Python, each *)
(* configured from the gdb tree into an empty directory.  Both link expat; *)
(* the Python that source.stamp puts into INSTALL is for the second.       *)
(***************************************************************************)
GdbStages == "expat" :> <<"source">>
             @@ "gdb" :> <<"expat", "source">> @@ "gdb-py" :> <<"gdb">>
             @@ "install" :> <<"gdb-py">>
GdbFills == {"source"} \cup DOMAIN GdbStages
GdbTrees == {"expat", "gdb"}
GdbUses == "expat" :> {"expat"} @@ "gdb" :> {"gdb"} @@ "gdb-py" :> {"gdb"}
GdbDirs == "gdb" :> {"gdb"} @@ "gdb-py" :> {"gdb-py"}
GdbNeeds == "gdb" :> {"expat"} @@ "gdb-py" :> {"expat", "source"}
Gdb == [Plain(GdbStages, GdbTrees, GdbUses) EXCEPT
          !.fills = GdbFills, !.needs = GdbNeeds, !.dirs = GdbDirs,
          !.tools = {"gdb", "gdb-py"}]

(***************************************************************************)
(* freedom-xc3sprog: libusb, libusb-compat and libftdi, each configured    *)
(* against the ones before it, libiconv beside them, and xc3sprog linked   *)
(* with -lftdi1 out of INSTALL (LIBFTDI_LIBRARIES).                        *)
(***************************************************************************)
Xc3Stages == "libusb" :> <<"source">> @@ "compat" :> <<"libusb", "source">>
             @@ "libftdi" :> <<"compat", "source">> @@ "libiconv" :> <<"source">>
             @@ "xc3sprog" :> <<"libftdi", "libiconv", "source">>
             @@ "install" :> <<"xc3sprog">>
Xc3Trees == {"libusb", "compat", "libftdi", "libiconv", "xc3sprog"}
Xc3Uses == [s \in Xc3Trees |-> {s}]
Xc3Needs == "compat" :> {"libusb"} @@ "libftdi" :> {"libusb"}
            @@ "xc3sprog" :> {"libusb", "libftdi"}
Xc3 == [Plain(Xc3Stages, Xc3Trees, Xc3Uses) EXCEPT !.needs = Xc3Needs]

(***************************************************************************)
(* freedom-openocd: the same libraries, then openocd configured with       *)
(* --enable-ftdi out of INSTALL.  Its recipe first takes the shared        *)
(* libraries out of INSTALL: what a library stage is to leave there is its *)
(* headers and its static library.                                         *)
(***************************************************************************)
OpenocdStages == "libusb" :> <<"source">> @@ "compat" :> <<"libusb", "source">>
                 @@ "libftdi" :> <<"compat", "source">>
                 @@ "openocd" :> <<"libftdi", "source">>
                 @@ "install" :> <<"openocd">>
OpenocdTrees == {"libusb", "compat", "libftdi", "openocd"}
OpenocdUses == [s \in OpenocdTrees |-> {s}]
OpenocdNeeds == "compat" :> {"libusb"} @@ "libftdi" :> {"libusb"}
                @@ "openocd" :> {"libusb", "libftdi"}
Openocd == [Plain(OpenocdStages, OpenocdTrees, OpenocdUses) EXCEPT
              !.needs = OpenocdNeeds, !.tools = {"openocd"}]

(***************************************************************************)
(* freedom-binutils-metal: support.stamp configures and builds (the script *)
(* build_binutils_target of three packages) in a directory it empties,     *)
(* build.stamp of the same directory installs out of it.                   *)
(***************************************************************************)
SupportDirs == "support" :> {"support", "binutils"}
SupportMakes == "support" :> {"binutils-obj"}
BinutilsStages == "support" :> <<"source">> @@ "binutils" :> <<"support">>
                  @@ "install" :> <<"binutils">>
BinutilsFills == {"binutils", "install"}
BinutilsTrees == {"binutils-src"}
BinutilsUses == "support" :> {"binutils-src"} @@ "binutils" :> {"binutils-obj"}
Binutils == [Plain(BinutilsStages, BinutilsTrees, BinutilsUses) EXCEPT
               !.fills = BinutilsFills, !.dirs = SupportDirs,
               !.makes = SupportMakes, !.tools = {"binutils"}]

(***************************************************************************)
(* freedom-trace-decoder: binutils is built (scripts/build_binutils_target *)
(* of freedom-binutils-metal) but not installed; the decoder is linked     *)
(* against the objects in its build directory.                             *)
(***************************************************************************)
\* Mutant of TraceStages: the decoder's rule waits for the sources only.
TraceStagesAlone ==
    "support" :> <<"source">> @@ "binutils" :> <<"support">>
    @@ "decoder" :> <<"source">> @@ "install" :> <<"decoder">>

TraceStages == "support" :> <<"source">> @@ "binutils" :> <<"support">>
               @@ "decoder" :> <<"binutils">> @@ "install" :> <<"decoder">>
TraceFills == {"decoder", "install"}
TraceTrees == {"binutils-src", "decoder-src"}
TraceUses == "support" :> {"binutils-src"}
             @@ "decoder" :> {"decoder-src", "binutils-obj"}
Trace == [Plain(TraceStages, TraceTrees, TraceUses) EXCEPT
            !.fills = TraceFills, !.dirs = SupportDirs, !.makes = SupportMakes,
            !.quiet = @ \cup {"binutils"}, !.tools = {"decoder"}]

(***************************************************************************)
(* freedom-qemu: glib takes libiconv from INSTALL (--with-libiconv=gnu),   *)
(* and qemu, which sees no other library (PKG_CONFIG_LIBDIR), glib and     *)
(* pixman; the others may also come from the system.  For Windows the      *)
(* recipes of gettext and glib edit their trees in place.                  *)
(***************************************************************************)
QemuStages == "zlib" :> <<"source">> @@ "libffi" :> <<"zlib", "source">>
              @@ "libiconv" :> <<"libffi", "source">>
              @@ "gettext" :> <<"libiconv", "source">>
              @@ "glib" :> <<"gettext", "source">>
              @@ "pixman" :> <<"libffi", "source">>
              @@ "qemu" :> <<"glib", "pixman", "source">> @@ "install" :> <<"qemu">>
QemuTrees == {"zlib", "libffi", "libiconv", "gettext", "glib", "pixman", "qemu"}
QemuUses == [s \in QemuTrees |-> {s}]
QemuNeeds == "glib" :> {"libiconv"} @@ "qemu" :> {"glib", "pixman"}
Qemu == [Plain(QemuStages, QemuTrees, QemuUses) EXCEPT
           !.needs = QemuNeeds, !.tools = {"qemu"}]
QemuWin == CrossOf(Qemu)

(***************************************************************************)
(* freedom-gcc-metal: binutils, a first gcc without a C library (stage1),  *)
(* newlib built with it twice, once into INSTALL and once, as newlib-nano, *)
(* into a tree of its own that nano-install copies from, and the gcc that  *)
(* ships (stage2).  binutils is only borrowed: it is listed, and           *)
(* install.stamp deletes what is on the list.  For Windows a binutils and  *)
(* a gcc for the build machine (extra-as, extra-cc) come first.            *)
(***************************************************************************)
GccNewlibs == {"newlib", "nano"}
GccTail == [s \in GccNewlibs |-> <<"stage1">>] @@ "stage1" :> <<"binutils">>
           @@ "nano-install" :> <<"nano", "newlib">>
           @@ "stage2" :> <<"nano-install">> @@ "install" :> <<"stage2">>
GccStages == "support" :> <<"source">> @@ "binutils" :> <<"support">> @@ GccTail
GccFills == {"binutils", "stage1", "newlib", "nano-install", "stage2", "install"}
GccTrees == {"binutils-src", "gcc-src", "newlib-src"}
GccDirs == [s \in GccNewlibs \cup {"stage1", "stage2"} |-> {s}] @@ SupportDirs
GccUses == [s \in GccNewlibs |-> {"newlib-src"}]
           @@ [s \in {"stage1", "stage2"} |-> {"gcc-src"}]
           @@ "nano-install" :> {"nano-tree"} @@ BinutilsUses
GccMakes == "nano" :> {"nano-tree"} @@ SupportMakes
GccNeeds == [s \in GccNewlibs |-> {"binutils", "stage1"}]
            @@ "nano-install" :> {"newlib"} @@ "stage2" :> {"binutils", "newlib"}
Gcc == [Plain(GccStages, GccTrees, GccUses) EXCEPT
          !.fills = GccFills, !.needs = GccNeeds, !.dirs = GccDirs,
          !.makes = GccMakes, !.lax = {"nano-install"},
          !.listers = {"binutils"}, !.tools = {"stage2"}]

GccExtras == {"extra-as", "extra-cc"}
GccWinStages == "support" :> <<"source">> @@ "transit" :> <<"source">>
                @@ "extra-as" :> <<"transit">> @@ "extra-cc" :> <<"extra-as">>
                @@ "binutils" :> <<"support", "extra-cc">> @@ GccTail
GccWinDirs == "transit" :> {"transit", "extra-as"} @@ "extra-cc" :> {"extra-cc"}
              @@ GccDirs
GccWinUses == "transit" :> {"binutils-src"} @@ "extra-as" :> {"extra-obj"}
              @@ "extra-cc" :> {"gcc-src", "extra-as"}
              @@ [s \in GccNewlibs |-> {"newlib-src"} \cup GccExtras]
              @@ "stage2" :> {"gcc-src"} \cup GccExtras @@ GccUses
GccWinMakes == "transit" :> {"extra-obj"} @@ [s \in GccExtras |-> {s}] @@ GccMakes
GccWinNeeds == "nano-install" :> {"newlib"} @@ "stage2" :> {"newlib"}
GccWin == CrossOf([Gcc EXCEPT
             !.stages = GccWinStages, !.dirs = GccWinDirs, !.uses = GccWinUses,
             !.makes = GccWinMakes, !.needs = GccWinNeeds])

-----------------------------------------------------------------------------
Packages ==
    [sdk |-> Sdk, sdkWin |-> SdkWin, gdb |-> Gdb, gdbWin |-> CrossOf(Gdb),
     xc3 |-> Xc3, xc3Win |-> CrossOf(Xc3),
     openocd |-> Openocd, openocdWin |-> CrossOf(Openocd),
     binutils |-> Binutils, binutilsWin |-> CrossOf(Binutils),
     trace |-> Trace, traceWin |-> CrossOf(Trace),
     qemu |-> Qemu, qemuWin |-> QemuWin, gcc |-> Gcc, gccWin |-> GccWin]

(***************************************************************************)
(* The constants of PackageBuild, for every package.                       *)
(***************************************************************************)
Names == DOMAIN Packages
IsCross(p) == "libs" \in DOMAIN Packages[p].stages

PerStage(field) ==
    [p \in Names |-> [s \in DOMAIN Packages[p].stages |->
        LET given == Packages[p][field]
        IN  IF s \in DOMAIN given THEN given[s] ELSE {}]]

RulesOf == [p \in Names |-> IF IsCross(p) THEN CrossRules(Packages[p].stages)
                            ELSE NativeRules(Packages[p].stages)]
BelowOf == [p \in Names |-> Closure(RulesOf[p])]
ArtsOf == [p \in Names |-> IF IsCross(p) THEN CrossArts ELSE NativeArts]
MergedOf == [p \in Names |-> IF IsCross(p) THEN {"zip"} ELSE {}]
DirsOf == PerStage("dirs")
NeedsOf == PerStage("needs")
MakesOf == PerStage("makes")
UsesOf == PerStage("uses")
=============================================================================
