---------------------------- MODULE PackageOrder ----------------------------
(***************************************************************************)
(* The order in which a run of make takes up the targets of a package, and *)
(* what the artifacts of bin and the stamps owe to it: the rules a package *)
(* may have, and the invariants that hold for every package with them.     *)
(* Modules PackageOrderProofs and PackageCompleteProofs prove them.        *)
(***************************************************************************)
EXTENDS PackageBuild

-----------------------------------------------------------------------------
(* Rules.                                                                  *)

\* What the artifacts are packed from: install.stamp and, for WIN64, the
\* libs.stamp that waits for it alone.
Last  == RangeOf(Prereqs[Tar])
Tails == Last \ {"install"}

\* The rules of the artifacts (Package.mk lines 8-27 and 32-80): all of one
\* kind, install.stamp before libs.stamp, whose own recipe waits for nothing
\* else and deletes no directory.
PackingRules ==
    /\ RangeOf(Prereqs["package"]) = Arts
    /\ \A i, j \in DOMAIN Prereqs["package"] :
          Prereqs["package"][i] = Prereqs["package"][j] => i = j
    /\ \A a \in Arts : Prereqs[a] = Prereqs[Tar] /\ Below[a] = Below[Tar]
    /\ Prereqs[Tar] # <<>> /\ Prereqs[Tar][1] = "install" /\ Last \subseteq Stages
    /\ \A s \in Tails : Prereqs[s] = <<"install">> /\ SameDir[s] = {}
    /\ \A s \in Stages \ Tails : Last \cap Below[s] = {}
    /\ \A s \in Tails : Tails \cap Below[s] = {}

\* A package whose stages form a tree over source.stamp with install.stamp at
\* the root (no stage but source.stamp serves two others), in which a stage
\* with several prerequisites fails without what the first of them installs,
\* no recipe deletes the stamps it is made from, none succeeds with nothing to
\* copy and none deletes what others have installed: gdb-metal, xc3sprog,
\* openocd, binutils-metal and trace-decoder.
LinkedRules ==
    /\ PackingRules /\ Lax = {} /\ Listers = {}
    /\ \A s \in Stages : Below[s] = RangeOf(Prereqs[s])
                                    \cup UNION {Below[q] : q \in RangeOf(Prereqs[s])}
    /\ \A s, k \in Stages : \A t \in RangeOf(Prereqs[s]) \ {"source"} :
          t \in Below[k] => k = s \/ s \in Below[k]
    /\ \A s \in Stages : SameDir[s] \subseteq {s} \cup {k \in Stages : s \in Below[k]}
    /\ \A s \in Stages : s \notin Needs[s]
    /\ \A s \in Stages : Len(Prereqs[s]) > 1 =>
          \E n \in Needs[s] \ {"source"} :
             n = Prereqs[s][1] \/ n \in Below[Prereqs[s][1]]
    /\ Fills \subseteq {"install"} \cup Below["install"] \cup Tails

\* What a stage's recipe empties or edits before it makes anything.
Spoils(s) == Makes[s] \cup (IF s \in Once THEN Uses[s] ELSE {})

\* A package whose recipes delete no stamp but their own and those made from
\* them; in which what a stage lists for install.stamp to delete is its own
\* output, nothing having been installed before; and in which what a recipe
\* copies if it finds it was made by one stage below it and is left alone by
\* every other: every package of PackageGraphs, gcc-metal included.
UncutRules ==
    /\ PackingRules
    /\ \A s \in Stages : Below[s] = RangeOf(Prereqs[s])
                                    \cup UNION {Below[q] : q \in RangeOf(Prereqs[s])}
    /\ \A s \in Stages : SameDir[s] \subseteq {s} \cup {k \in Stages : s \in Below[k]}
    /\ Fills \subseteq {"install"} \cup Below["install"] \cup Tails
    /\ Listers \subseteq Below["install"] /\ Tools \cap Listers = {}
    /\ \A l \in Listers, k \in Fills : k = l \/ l \in Below[k]
    /\ \A s \in Lax : \A t \in Uses[s] : \E k \in Stages \cap Below[s] :
          t \in Makes[k] /\ \A j \in Stages \ {k} : t \notin Spoils(j)

\* No clean-up is cut short: nobody runs one, or nothing is stopped or killed
\* (recipes may still fail).
Uncut == Jobs \cap Cleanings = {} \/ Faults \cap {"signal", "kill"} = {}

-----------------------------------------------------------------------------
(* The targets of a run.                                                   *)

OnStack == RangeOf(stack)

\* A target is taken up when those before it in the rule are settled.
InOrder ==
    \A p \in 1..(Len(stack) - 1) : \E m \in DOMAIN Prereqs[stack[p]] :
        /\ stack[p + 1] = Prereqs[stack[p]][m]
        /\ \A j \in DOMAIN Prereqs[stack[p]] : j < m => Prereqs[stack[p]][j] \in known

\* Nothing is made twice in a run.
Apart == OnStack \cap known = {} /\ (~Running => known = {})

\* A recipe has everything it is made from settled.
Ready == Running /\ step # "scan" => RangeOf(PrereqsOf(Top)) \subseteq known

\* Every stage but libs.stamp is made for install.stamp, and libs.stamp after it.
UnderInstall ==
    IF "install" \in known THEN OnStack \cap BuildFiles \subseteq Tails
    ELSE /\ Tails \cap (known \cup OnStack) = {}
         /\ OnStack \cap BuildFiles # {} => "install" \in OnStack

\* What artifacts are packed from stays up to date once it is settled.
LastSettled == \A s \in Last \cap known : ~MustMake(s)

Orderly ==
    /\ TypeOK /\ Descends
    /\ InOrder /\ Apart /\ Ready /\ UnderInstall /\ LastSettled

\* Artifacts are settled in the order of the goal, and one that is younger than
\* a stamp has none before it that is older.
ArtsInOrder ==
    job = "package" =>
        LET P == Prereqs["package"] IN
        \A i, j \in DOMAIN P : i < j /\ P[j] \in known =>
            /\ P[i] \in known
            /\ \A q \in Below[Tar] : <<q, P[j]>> \in newer => <<q, P[i]>> \in newer

(***************************************************************************)
(* Why SettledAfterSuccess and StaleArtifactsFirst hold whatever goes      *)
(* wrong: a run that takes up an artifact has settled install.stamp and    *)
(* libs.stamp, no recipe that runs later touches what they are made from   *)
(* (the stages are all made on install.stamp's behalf), and an artifact    *)
(* that was found up to date before that comes first in the goal.          *)
(***************************************************************************)
SettledInv ==
    /\ Orderly
    /\ Running => known \cap Arts \subseteq present
    /\ Running /\ step = "packing" => Top \in present \cap Piped /\ ~Outdated(Top)
    /\ Running /\ Top = "package"
          => Last \subseteq known \/ \A a \in known \cap Arts : ~Outdated(a)
    /\ ArtsInOrder
    /\ outcome = <<"package", "ok">> => job = "idle"
    /\ SettledAfterSuccess /\ StaleArtifactsFirst

-----------------------------------------------------------------------------
(* INSTALL.                                                                *)

\* What a stamp stands for is there, with everything below it; libs.stamp,
\* which install.stamp may be newer than, stands for itself only.
Built(s) == (IF s \in Tails THEN {s} ELSE {s} \cup Below[s]) \cap Fills \subseteq installed

\* Whatever is made from a stage that is being made is being made.
Lineage ==
    \A t \in OnStack \cap Stages : \A k \in Stages \ Tails : t \in Below[k] => k \in OnStack

\* A stage is settled on behalf of one that waits for it, or has done so.
HandedUp ==
    \A q \in known \cap Stages, s \in Stages :
        q \in RangeOf(Prereqs[s]) => s \in OnStack \cup known \/ "install" \in known

\* A stage settles the one it links before any other.
LinkedFirst ==
    \A s \in OnStack \cap Stages :
        RangeOf(Prereqs[s]) \cap known \cap Stages # {} => Prereqs[s][1] \in known

\* What is made below install.stamp is made because it is missing, and only
\* libs.stamp is made because it is old: a recipe leaves its stamp newer than
\* all it is made from.
Missing ==
    /\ OnStack \cap (BuildFiles \ Tails) \cap present = {}
    /\ \A s \in Stages \ Tails : ~Outdated(s)
    /\ "source" \in known => "source" \in present
    /\ \A s \in Tails \cap OnStack \cap present : <<"install", s>> \in newer

\* source.stamp's recipe is under way.
Wiping == Running /\ Top = "source" /\ step # "scan"

\* What is not in INSTALL and will not be made in this run.
Lost == {n \in Fills \ (installed \cup {"source"}) :
            \E k \in known \cap Stages : n = k \/ n \in Below[k]}

\* Its recipe will fail.
Starved(s) == Needs[s] \cap Lost # {}

\* A stage that waits for its recipe has what it was promised, or will fail.
Fed ==
    Wiping \/ \A s \in OnStack \cap Stages :
                 Starved(s) \/ RangeOf(Prereqs[s]) \cap known \subseteq present

\* A recipe that got past its first lines has what it needs, to its end.
Supplied ==
    Running /\ Top \in Stages /\ step \in {"build", "installing"} => Needs[Top] \subseteq installed

\* C is a way from install.stamp down to source.stamp on which every stamp is
\* missing: whoever asks for install.stamp makes source.stamp first.
Cut(C) ==
    /\ {"install", "source"} \subseteq C /\ C \subseteq BuildFiles
    /\ C \cap present = {} /\ C \cap known = {}
    /\ \A s \in C \ {"source"} : RangeOf(Prereqs[s]) \cap C # {}

\* Every stamp that is there, but for libs.stamp, stands for what it says.
Intact == \A s \in (BuildFiles \ Tails) \cap present : Built(s)

Sound == Intact \/ \E C \in SUBSET BuildFiles : Cut(C)

\* libs.stamp does too, unless install.stamp is newer.
LibsTruthful ==
    "install" \in present =>
        \A s \in Tails \cap present : Built(s) \/ <<"install", s>> \in newer

(***************************************************************************)
(* Why PublishedComplete holds for such a package, clean-ups that are cut  *)
(* short included: either all stamps stand for what they say or all the    *)
(* way down from install.stamp they are missing (Sound), in which case     *)
(* source.stamp is made and INSTALL emptied before anything else, and a    *)
(* stage that finds a stamp of the past standing over what is gone finds   *)
(* what it links first gone as well, and fails (Fed, Supplied).            *)
(***************************************************************************)
CompleteInv ==
    /\ TruthInv /\ SettledInv /\ Ages
    /\ Lineage /\ HandedUp /\ LinkedFirst
    /\ Missing /\ Fed /\ Supplied
    /\ Sound /\ LibsTruthful
    /\ PublishedComplete

-----------------------------------------------------------------------------
(* A package of which no clean-up is cut short.                            *)

\* What is made is made because it is missing, what is settled is there, and a
\* stamp that is there stands on all it is made from, and is newer.
StampsStand ==
    /\ OnStack \cap BuildFiles \cap present = {}
    /\ known \cap BuildFiles \subseteq present
    /\ \A s \in BuildFiles \cap present : Below[s] \subseteq present /\ ~Outdated(s)

\* INSTALL holds what the stamps stand for, less what was listed for deletion
\* once install.stamp is there, and the list names just that.
InstallStands ==
    /\ installed \subseteq present
    /\ Shipped \cap present \subseteq installed
    /\ "install" \in present => installed \cap Listers = {}
    /\ listed = Listers \cap present

\* What a recipe copies if it finds it is there from when it is made.
TreesStand ==
    \A s \in Lax, k \in Stages \cap present : Makes[k] \cap Uses[s] \subseteq trees

Standing == StampsStand /\ InstallStands /\ TreesStand /\ SourceLogs

\* How far a clean-up is: the stamps and the trees are gone, then INSTALL, then
\* the logs; flush and clean may have taken any of them.
PastBuild   == IF job \in Wholesale THEN step = "rmbin"
               ELSE step \in {"rmlaunch", "rminstall", "rmlogs", "rmbin"}
PastInstall == IF job \in Wholesale THEN step = "rmbin" ELSE step \in {"rmlogs", "rmbin"}

Cleared ==
    /\ PastBuild => present \cap BuildFiles = {} /\ trees = {}
    /\ PastInstall => installed = {}
    /\ step = "rmbin" => ~logs

\* `zip -r` renames its finished file into place.
ZipsWhole == \A a \in Merged \cap present : art[a].whole

(***************************************************************************)
(* Why PublishedComplete and StampsTruthful hold for every package, gcc    *)
(* with its borrowed binutils included, when no clean-up is cut short:     *)
(* source.stamp is missing only when every other stamp is, so the recipe   *)
(* that empties INSTALL empties it of nothing that a stamp stands for, and *)
(* a stamp that is made is never taken away again but by a whole clean-up. *)
(***************************************************************************)
UncutInv ==
    /\ SettledInv
    /\ job \in Jobs \cup {"idle"}
    /\ IF job \in Cleanings THEN Cleared ELSE Standing
    /\ job \in Wholesale \/ Shipped \cap present \subseteq installed
    /\ listed # {} => logs
    /\ ZipsWhole /\ PublishedComplete

(***************************************************************************)
(* What has been made is not made again on account of what goes wrong: no  *)
(* run of make, however it ends, takes a stamp away that an earlier recipe *)
(* has left (`rm -rf $(dir $@)` of a stage deletes no other stage's stamp  *)
(* that stands, and source.stamp's finds none), only the clean-ups do.     *)
(***************************************************************************)
StampsStay == [][job \notin Cleanings => present \cap BuildFiles \subseteq present']_vars

-----------------------------------------------------------------------------
(* What regress finds in bin.                                              *)

\* regress makes a tarball only when make saw one as it started.
TarIsSeen ==
    job = "regress" => /\ tarSeen <=> Tar \in present
                       /\ ~tarSeen => OnStack \subseteq TestFiles \cup {"regress"}

\* A fragment is newer than what was tested.
FragmentsAreNewer ==
    Tar \in present /\ ~art[Tar].whole
        => \A t \in TestFiles \cap present : <<Tar, t>> \in newer

UnpacksWhole == Running /\ Top = "launch" /\ step = "unpacking" => art[Tar].whole

\* Once launch.stamp is settled the tarball is whole, and left alone.
TestsWhole ==
    job = "regress" /\ tarSeen /\ known \cap TestFiles # {}
        => art[Tar].whole /\ OnStack \subseteq {"regress", "test"}

EndsWhole ==
    outcome = <<"regress", "ok">> =>
        job = "idle" /\ (tarSeen => Tar \in present /\ art[Tar].whole)

(***************************************************************************)
(* Why RegressProves holds then: regress makes neither the tarball nor     *)
(* what it is packed from unless launch.stamp has to be made; a fragment   *)
(* is newer than both stamps of the tests, so they are made again and its  *)
(* unpacking fails; and a run that has taken one of them for made, or made *)
(* it, had a whole tarball before it, which holds every stage: of this all *)
(* that it owes to the rules of the package is PublishedComplete.          *)
(***************************************************************************)
RegressOwn ==
    /\ TarIsSeen /\ FragmentsAreNewer
    /\ UnpacksWhole /\ TestsWhole /\ EndsWhole
    /\ RegressProves

(***************************************************************************)
(* RegressProves for a package whose archives are complete by CompleteInv. *)
(***************************************************************************)
RegressInv == CompleteInv /\ RegressOwn
=============================================================================
