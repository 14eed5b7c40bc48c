------------------------- MODULE PackageUncutProofs -------------------------
(***************************************************************************)
(* Stamps, archives and regress runs of a package of which no clean-up is  *)
(* cut short, for the rules of every package of PackageGraphs: several     *)
(* stages may wait for the same one, a recipe may copy what it finds, and  *)
(* install.stamp may delete what was only borrowed.                        *)
(***************************************************************************)
EXTENDS PackageCompleteProofs

\* Wherever the assumption is cited, what it says is visible.
USE DEF GraphOK

-----------------------------------------------------------------------------
(* The rules.                                                              *)

LEMMA UncutFacts ==
    ASSUME UncutRules
    PROVE  /\ PackingRules /\ "install" \in Stages /\ "install" # "source"
           /\ Stages \subseteq BuildFiles /\ "source" \in BuildFiles /\ "source" \notin Stages
           /\ Fills \subseteq BuildFiles /\ Shipped \subseteq Fills
           /\ Listers \subseteq Fills \cap Stages /\ "install" \notin Listers
           /\ Lax \subseteq Fills \cap Stages
<1>1. PackingRules /\ "install" \in Stages /\ "source" \notin Stages
  BY SourceIsNoStage, GraphAssumption DEF UncutRules
<1>2. /\ Fills \subseteq BuildFiles /\ Shipped \subseteq Fills
      /\ Listers \subseteq Fills \cap Stages /\ "install" \notin Listers
      /\ Lax \subseteq Fills \cap Stages
  BY RecipeAssumption DEF RecipeOK, Shipped
<1> QED
  BY <1>1, <1>2 DEF BuildFiles

\* The tree a recipe copies from is made by one stage below it, and nothing
\* else spoils it.
LEMMA OneMaker ==
    ASSUME UncutRules, NEW s \in Lax, NEW k \in Stages, NEW t \in Makes[k] \cap Uses[s],
           NEW j \in Stages, j # k
    PROVE  t \notin Spoils(j)
<1>1. PICK m \in Stages \cap Below[s] : \A i \in Stages \ {m} : t \notin Spoils(i)
  BY DEF UncutRules
<1>2. k = m
  BY <1>1 DEF Spoils
<1> QED
  BY <1>1, <1>2

-----------------------------------------------------------------------------
(* What a step leaves alone.                                               *)

\* No stamp comes, goes or changes its age.
SameStamps ==
    /\ present' \cap BuildFiles = present \cap BuildFiles
    /\ \A f, g \in BuildFiles : <<f, g>> \in newer' <=> <<f, g>> \in newer

LEMMA SameStampsWhen ==
    ASSUME FilesOK,
           \/ UNCHANGED files
           \/ \E f : f \notin BuildFiles /\ Touch(f)
           \/ \E S : Remove(S) /\ S \cap BuildFiles \cap present = {}
    PROVE  SameStamps
<1>1. CASE UNCHANGED files
  BY <1>1 DEF files, SameStamps
<1>2. ASSUME NEW f, f \notin BuildFiles, Touch(f) PROVE SameStamps
  BY <1>2 DEF Touch, SameStamps
<1>3. ASSUME NEW S, Remove(S), S \cap BuildFiles \cap present = {} PROVE SameStamps
  BY <1>3 DEF Remove, SameStamps, FilesOK
<1> QED
  BY <1>1, <1>2, <1>3

LEMMA KeepStamps ==
    ASSUME StampsStand, SameStamps, OnStack' \cap BuildFiles \cap present = {},
           known' \cap BuildFiles \subseteq present
    PROVE  StampsStand'
<1>1. ASSUME NEW s \in BuildFiles \cap present'
      PROVE  Below[s] \subseteq present' /\ ~(Outdated(s)')
  <2>1. s \in BuildFiles /\ s \in present /\ Below[s] \subseteq present /\ ~Outdated(s)
        /\ Below[s] \subseteq BuildFiles
    BY BuildFileFacts DEF StampsStand, SameStamps
  <2>2. \A q \in Below[s] : <<q, s>> \notin newer
    BY <2>1, StageOutdated
  <2>3. Below[s] \subseteq present' /\ \A q \in Below[s] : <<q, s>> \notin newer'
    BY <2>1, <2>2 DEF SameStamps
  <2> QED
    BY <2>1, <2>3, StageOutdated
<1>2. OnStack' \cap BuildFiles \cap present' = {} /\ known' \cap BuildFiles \subseteq present'
  BY DEF SameStamps
<1> QED
  BY <1>1, <1>2 DEF StampsStand

LEMMA KeepInstall ==
    ASSUME UncutRules, TypeOK, InstallStands, present' \cap BuildFiles = present \cap BuildFiles,
           UNCHANGED <<installed, listed>>
    PROVE  InstallStands'
<1>1. installed \subseteq BuildFiles /\ Shipped \subseteq BuildFiles /\ Listers \subseteq BuildFiles
      /\ "install" \in BuildFiles
  BY UncutFacts DEF TypeOK, ContentsOK
<1> QED
  BY <1>1 DEF InstallStands

LEMMA KeepTrees ==
    ASSUME TreesStand, present' \cap BuildFiles = present \cap BuildFiles, trees \subseteq trees'
    PROVE  TreesStand'
BY DEF TreesStand, BuildFiles

\* All of it.
LEMMA KeepStanding ==
    ASSUME UncutRules, TypeOK, Standing, SameStamps,
           UNCHANGED <<installed, listed, trees, logs>>,
           OnStack' \cap BuildFiles \cap present = {},
           known' \cap BuildFiles \subseteq present,
           step' \in {"wipebuild", "fetch"} => step' = step
    PROVE  Standing' /\ present \cap BuildFiles \subseteq present'
<1>1. StampsStand' /\ InstallStands' /\ TreesStand'
  BY KeepStamps, KeepInstall, KeepTrees DEF Standing, SameStamps
<1>2. present \cap BuildFiles \subseteq present' /\ ("source" \in present' => "source" \in present)
  BY DEF SameStamps, BuildFiles
<1>3. SourceLogs'
  BY <1>2 DEF Standing, SourceLogs
<1> QED
  BY <1>1, <1>2, <1>3 DEF Standing

\* Without source.stamp there is no stamp, and nothing in INSTALL.
LEMMA NothingStands ==
    ASSUME UncutRules, TypeOK, StampsStand, InstallStands, "source" \notin present
    PROVE  present \cap BuildFiles = {} /\ installed = {} /\ listed = {}
<1>1. present \cap BuildFiles = {}
  <2> SUFFICES ASSUME NEW s \in BuildFiles \cap present PROVE FALSE
    OBVIOUS
  <2>1. s # "source" => "source" \in Below[s]
    BY BuildFileFacts
  <2> QED
    BY <2>1 DEF StampsStand
<1>2. installed \subseteq BuildFiles /\ Listers \subseteq BuildFiles
  BY UncutFacts DEF TypeOK, ContentsOK
<1> QED
  BY <1>1, <1>2 DEF InstallStands

\* What make makes is missing.
LEMMA TopIsMissing ==
    ASSUME RunOK, Running, StampsStand, Top \in BuildFiles
    PROVE  Top \notin present /\ \A s \in BuildFiles \cap present : Top \notin Below[s]
BY TopOnStack DEF StampsStand

-----------------------------------------------------------------------------
(* source.stamp's recipe.                                                  *)

LEMMA WipeStands ==
    ASSUME UncutRules, TypeOK, Standing, WipeInstall \/ WipeLogs \/ WipeBuild
    PROVE  Standing' /\ UNCHANGED present /\ (listed' # {} => logs')
<1>0. /\ RunOK /\ FilesOK /\ Running /\ Top = "source" /\ "source" \in BuildFiles
      /\ UNCHANGED <<job, stack, known>> /\ OnStack' = OnStack
      /\ StampsStand /\ InstallStands /\ TreesStand /\ SourceLogs
  BY UncutFacts DEF TypeOK, Standing, WipeInstall, WipeLogs, WipeBuild, GoTo, OnStack
<1>1. "source" \notin present
  BY <1>0, TopIsMissing
<1>2. present \cap BuildFiles = {} /\ installed = {} /\ listed = {}
  BY <1>0, <1>1, NothingStands
<1>3. /\ UNCHANGED files /\ installed' = installed /\ listed' = listed
      /\ step' \in {"wipebuild", "fetch"} => logs'
  <2>1. CASE WipeInstall
    BY <1>2, <2>1 DEF WipeInstall, GoTo, shelves
  <2>2. CASE WipeLogs
    BY <1>2, <2>2 DEF WipeLogs, GoTo
  <2>3. CASE WipeBuild
    BY <1>0, <1>2, <2>3 DEF WipeBuild, DropBuild, GoTo, shelves, SourceLogs, files
  <2> QED
    BY <2>1, <2>2, <2>3
<1>4. SameStamps
  BY <1>0, <1>3, SameStampsWhen
<1>5. StampsStand'
  BY <1>0, <1>4, KeepStamps DEF StampsStand
<1>6. InstallStands'
  BY <1>0, <1>3, <1>4, KeepInstall DEF SameStamps
<1>7. TreesStand'
  BY <1>2, <1>4 DEF TreesStand, SameStamps, BuildFiles
<1>8. SourceLogs'
  BY <1>1, <1>3 DEF SourceLogs, files
<1> QED
  BY <1>2, <1>3, <1>5, <1>6, <1>7, <1>8 DEF Standing, files

LEMMA FetchStands ==
    ASSUME UncutRules, TypeOK, Descends, Standing, Fetch
    PROVE  /\ Standing' /\ present \cap BuildFiles \subseteq present'
           /\ listed' # {} => logs'
<1>0. /\ RunOK /\ FilesOK /\ Running /\ Top = "source" /\ "source" \in BuildFiles
      /\ Top \in Files /\ stack' = SubSeq(stack, 1, Len(stack) - 1)
      /\ known' = known \cup {"source"} /\ step = "fetch" /\ step' = "scan"
      /\ Touch("source") /\ installed' = Fills \cap {"source"}
      /\ UNCHANGED <<logs, listed>>
      /\ StampsStand /\ InstallStands /\ TreesStand /\ SourceLogs
  BY UncutFacts, BuildFileFacts DEF TypeOK, Standing, Fetch, Made, shelves
<1>1. "source" \notin present
  BY <1>0, TopIsMissing
<1>2. present \cap BuildFiles = {} /\ installed = {} /\ listed = {}
  BY <1>0, <1>1, NothingStands
<1>3. present' \cap BuildFiles = {"source"}
  BY <1>0, <1>2 DEF Touch
<1>4. StampsStand'
  <2>1. OnStack' = OnStack \ {"source"}
    BY <1>0, PopStack
  <2>2. known \cap BuildFiles = {}
    BY <1>0, <1>2 DEF StampsStand
  <2>3. Below["source"] = {} /\ ~(Outdated("source")')
    BY <1>0, StageOutdated, GraphAssumption
  <2>4. OnStack' \cap BuildFiles \cap present' = {}
    BY <1>3, <2>1
  <2>5. known' \cap BuildFiles \subseteq present'
    BY <1>0, <1>3, <2>2
  <2>6. \A s \in BuildFiles \cap present' : s = "source"
    BY <1>3
  <2> QED
    BY <2>3, <2>4, <2>5, <2>6 DEF StampsStand
<1>5. InstallStands'
  <2>1. installed' \subseteq present'
    BY <1>0, <1>3
  <2>2. Shipped \cap present' \subseteq installed'
    BY <1>0, <1>3, UncutFacts
  <2>3. "install" \notin present' /\ Listers \cap present' = {}
    BY <1>3, UncutFacts
  <2> QED
    BY <1>0, <1>2, <2>1, <2>2, <2>3 DEF InstallStands
<1>6. TreesStand'
  BY <1>3, UncutFacts DEF TreesStand
<1>7. SourceLogs'
  BY <1>0 DEF SourceLogs
<1> QED
  BY <1>0, <1>2, <1>4, <1>5, <1>6, <1>7 DEF Standing

-----------------------------------------------------------------------------
(* A stage's recipe.                                                       *)

\* What a stage's recipe is made from is there, with all below it.
LEMMA StageHasAll ==
    ASSUME UncutRules, RunOK, Ready, StampsStand, Running, step # "scan", Top \in Stages
    PROVE  Below[Top] \subseteq present
<1>0. Top \in BuildFiles /\ Top # "launch"
  BY UncutFacts, ChainFacts
<1>1. RangeOf(Prereqs[Top]) \subseteq known
  BY <1>0 DEF Ready, PrereqsOf
<1>2. /\ Below[Top] \subseteq BuildFiles
      /\ Below[Top] = RangeOf(Prereqs[Top]) \cup UNION {Below[q] : q \in RangeOf(Prereqs[Top])}
  BY <1>0, BuildFileFacts DEF UncutRules
<1>3. \A q \in RangeOf(Prereqs[Top]) : q \in BuildFiles /\ q \in present /\ Below[q] \subseteq present
  BY <1>1, <1>2 DEF StampsStand
<1> QED
  BY <1>2, <1>3

LEMMA BeginStands ==
    ASSUME UncutRules, TypeOK, Standing, StageBegin
    PROVE  Standing' /\ present \cap BuildFiles \subseteq present'
<1>0. /\ RunOK /\ FilesOK /\ Running /\ Top \in Stages /\ Top \in BuildFiles
      /\ UNCHANGED <<job, stack, known, installed, listed, logs>> /\ OnStack' = OnStack
      /\ Remove(SameDir[Top]) /\ step' \in {"build", "doomed"}
      /\ trees' = (trees \ Makes[Top]) \ (IF Top \in Once THEN Uses[Top] ELSE {})
      /\ StampsStand /\ InstallStands /\ TreesStand /\ SourceLogs
  BY UncutFacts DEF TypeOK, Standing, StageBegin, GoTo, OnStack, shelves
<1>1. Top \notin present /\ \A s \in BuildFiles \cap present : Top \notin Below[s]
  BY <1>0, TopIsMissing
<1>2. SameStamps
  <2>1. SameDir[Top] \subseteq {Top} \cup {k \in Stages : Top \in Below[k]}
    BY <1>0 DEF UncutRules
  <2>2. SameDir[Top] \cap BuildFiles \cap present = {}
    BY <1>1, <2>1
  <2> QED
    BY <1>0, <2>2, SameStampsWhen
<1>3. StampsStand'
  BY <1>0, <1>2, KeepStamps DEF StampsStand
<1>4. InstallStands'
  BY <1>0, <1>2, KeepInstall DEF SameStamps
<1>5. TreesStand'
  <2> SUFFICES ASSUME NEW s \in Lax, NEW k \in Stages \cap present', NEW t \in Makes[k] \cap Uses[s]
               PROVE  t \in trees'
    BY DEF TreesStand
  <2>1. k \in present /\ k # Top
    BY <1>1, <1>2, UncutFacts DEF SameStamps
  <2>2. t \in trees
    BY <1>0, <2>1 DEF TreesStand
  <2>3. t \notin Spoils(Top)
    BY <1>0, <2>1, OneMaker
  <2> QED
    BY <1>0, <2>2, <2>3 DEF Spoils
<1>6. SourceLogs'
  <2>1. "source" \in present' => "source" \in present
    BY <1>0 DEF Remove
  <2> QED
    BY <1>0, <2>1, QuietLogs
<1> QED
  BY <1>2, <1>3, <1>4, <1>5, <1>6 DEF Standing, SameStamps

LEMMA InstallingStands ==
    ASSUME UncutRules, TypeOK, Standing, StageInstall
    PROVE  Standing' /\ UNCHANGED present
<1>0. /\ RunOK /\ FilesOK /\ Running /\ Top \in Stages /\ Top \in BuildFiles
      /\ UNCHANGED <<job, stack, known, listed, logs, trees>> /\ OnStack' = OnStack
      /\ UNCHANGED files /\ UNCHANGED present /\ step' = "installing"
      /\ StampsStand /\ InstallStands /\ TreesStand /\ SourceLogs
  BY UncutFacts DEF TypeOK, Standing, StageInstall, GoTo, OnStack, files
<1>1. Top \notin present
  BY <1>0, TopIsMissing
<1>2. SameStamps
  BY <1>0, SameStampsWhen
<1>3. StampsStand'
  BY <1>0, <1>2, KeepStamps DEF StampsStand
<1>4. TreesStand'
  BY <1>0 DEF TreesStand
<1>5. PICK D \in SUBSET Discards : installed' = installed \ (D \cup {Top})
  BY DEF StageInstall
<1>6. InstallStands'
  <2>1. D \cap Shipped = {}
    BY <1>0, <1>5 DEF Discards, InstallStands, Shipped
  <2> QED
    BY <1>0, <1>1, <1>5, <2>1 DEF InstallStands
<1>7. SourceLogs'
  BY <1>0, QuietLogs
<1> QED
  BY <1>0, <1>3, <1>4, <1>6, <1>7 DEF Standing

LEMMA FinishStands ==
    ASSUME UncutRules, TypeOK, Descends, Ready, Standing, listed # {} => logs, StageFinish
    PROVE  /\ Standing' /\ present \cap BuildFiles \subseteq present'
           /\ listed' # {} => logs'
<1>0. /\ RunOK /\ FilesOK /\ Running /\ Top \in Stages /\ Top \in BuildFiles /\ Top \in Files
      /\ step = "installing" /\ step' = "scan" /\ Touch(Top) /\ UNCHANGED logs
      /\ stack' = SubSeq(stack, 1, Len(stack) - 1) /\ known' = known \cup {Top}
      /\ trees' = trees \cup Makes[Top]
      /\ listed' = IF Top \in Listers THEN installed' ELSE listed
      /\ StampsStand /\ InstallStands /\ TreesStand /\ SourceLogs
      /\ installed \subseteq Fills
  BY UncutFacts, BuildFileFacts DEF TypeOK, ContentsOK, Standing, StageFinish, Made
<1>1. Top \notin present /\ \A s \in BuildFiles \cap present : Top \notin Below[s]
  BY <1>0, TopIsMissing
<1>2. Below[Top] \subseteq present /\ Below[Top] \subseteq BuildFiles /\ Top \notin Below[Top]
      /\ "source" \in Below[Top]
  BY <1>0, StageHasAll, BuildFileFacts, UncutFacts
<1>3. present' = present \cup {Top}
  BY <1>0 DEF Touch
<1>4. StampsStand'
  <2>1. OnStack' = OnStack \ {Top}
    BY <1>0, PopStack
  <2>2. OnStack' \cap BuildFiles \cap present' = {} /\ known' \cap BuildFiles \subseteq present'
    BY <1>0, <1>3, <2>1 DEF StampsStand
  <2>3. ASSUME NEW s \in BuildFiles \cap present'
        PROVE  Below[s] \subseteq present' /\ ~(Outdated(s)')
    <3>1. CASE s = Top
      <4>1. \A q \in Below[s] : <<q, s>> \notin newer'
        BY <1>0, <1>2, <3>1 DEF Touch
      <4> QED
        BY <1>0, <1>2, <1>3, <3>1, <4>1, StageOutdated
    <3>2. CASE s # Top
      <4>0. s \in BuildFiles \cap present
        BY <1>3, <3>2
      <4>1. s \in BuildFiles /\ Top \notin Below[s] /\ Below[s] \subseteq present /\ ~Outdated(s)
        BY <1>0, <1>1, <4>0, Zenon DEF StampsStand
      <4>2. \A q \in Below[s] : <<q, s>> \notin newer
        BY <4>0, <4>1, StageOutdated
      <4>3. \A q \in Below[s] : <<q, s>> \notin newer'
        BY <1>0, <3>2, <4>1, <4>2 DEF Touch
      <4> QED
        BY <1>3, <4>1, <4>3, StageOutdated
    <3> QED
      BY <3>1, <3>2
  <2> QED
    BY <2>2, <2>3 DEF StampsStand
<1>5. ~Idle
  <2> SUFFICES ASSUME Top \in Lax, NEW t \in Uses[Top] PROVE t \in trees
    BY DEF Idle
  <2>1. PICK k \in Stages \cap Below[Top] : t \in Makes[k]
    BY DEF UncutRules
  <2> QED
    BY <1>0, <1>2, <2>1 DEF TreesStand
<1>6. installed' = (installed \cup ({Top} \cap Fills)) \ Discards
  BY <1>5 DEF StageFinish
<1>7. Discards \subseteq Listers \cap present
  BY <1>0 DEF Discards, InstallStands
<1>8. ASSUME Top \in Listers PROVE installed = {} /\ Listers \cap present = {} /\ "install" \notin present
  <2>1. \A k \in Fills : k = Top \/ Top \in Below[k]
    BY <1>8 DEF UncutRules
  <2>2. Fills \subseteq BuildFiles /\ Listers \subseteq Fills /\ "install" \in BuildFiles
        /\ Top \in Below["install"]
    BY <1>8, UncutFacts DEF UncutRules
  <2>3. Fills \cap present = {} /\ "install" \notin present
    BY <1>1, <2>1, <2>2
  <2> QED
    BY <1>0, <2>2, <2>3 DEF InstallStands
<1>9. InstallStands'
  <2>1. installed' \subseteq present'
    BY <1>0, <1>3, <1>6 DEF InstallStands
  <2>2. Shipped \cap present' \subseteq installed'
    BY <1>0, <1>3, <1>6, <1>7 DEF InstallStands, Shipped
  <2>3. "install" \in present' => installed' \cap Listers = {}
    <3>1. CASE Top = "install"
      <4>1. Listers # {} => Discards = listed
        BY <3>1 DEF Discards
      <4> QED
        BY <1>0, <1>6, <3>1, <4>1, UncutFacts DEF InstallStands
    <3>2. CASE Top # "install"
      BY <1>0, <1>3, <1>6, <1>8, <3>2 DEF InstallStands
    <3> QED
      BY <3>1, <3>2
  <2>4. listed' = Listers \cap present'
    <3>1. CASE Top \in Listers
      <4>1. Discards = {} /\ Top \in Fills
        BY <1>7, <1>8, <3>1, UncutFacts
      <4> QED
        BY <1>0, <1>3, <1>6, <1>8, <3>1, <4>1
    <3>2. CASE Top \notin Listers
      BY <1>0, <1>3, <3>2 DEF InstallStands
    <3> QED
      BY <3>1, <3>2
  <2> QED
    BY <2>1, <2>2, <2>3, <2>4 DEF InstallStands
<1>10. TreesStand'
  BY <1>0, <1>3 DEF TreesStand
<1>11. SourceLogs' /\ logs
  BY <1>0, <1>2 DEF SourceLogs
<1> QED
  BY <1>0, <1>3, <1>4, <1>9, <1>10, <1>11 DEF Standing

-----------------------------------------------------------------------------
(* The other steps of a run.                                               *)

\* A run starts or ends.
LEMMA FreshStands ==
    ASSUME UncutRules, TypeOK, Standing, SameStamps,
           UNCHANGED <<installed, listed, trees, logs>>,
           stack' = <<>> \/ (\E g \in Goals : stack' = <<g>>), known' = {}, step' = "scan"
    PROVE  Standing' /\ present \cap BuildFiles \subseteq present'
<1>1. OnStack' \cap BuildFiles = {}
  BY FreshStack
<1> QED
  BY <1>1, KeepStanding

\* A recipe goes on.
LEMMA GoingStands ==
    ASSUME UncutRules, TypeOK, Standing, SameStamps,
           UNCHANGED <<installed, listed, trees, logs, stack, known>>,
           step' \in {"wipebuild", "fetch"} => step' = step
    PROVE  Standing' /\ present \cap BuildFiles \subseteq present'
<1>1. OnStack' = OnStack
  BY DEF OnStack
<1>2. OnStack \cap BuildFiles \cap present = {} /\ known \cap BuildFiles \subseteq present
  BY DEF Standing, StampsStand
<1> QED
  BY <1>1, <1>2, KeepStanding

\* An artifact, launch.stamp or test.stamp is made.
LEMMA MadeStands ==
    ASSUME UncutRules, TypeOK, Descends, Standing, SameStamps,
           UNCHANGED <<installed, listed, trees, logs>>,
           Running, Top \in Files \ BuildFiles, Made
    PROVE  Standing' /\ present \cap BuildFiles \subseteq present'
<1>1. OnStack' \subseteq OnStack
  BY PopStack DEF TypeOK, Made
<1>2. OnStack \cap BuildFiles \cap present = {} /\ known \cap BuildFiles \subseteq present
  BY DEF Standing, StampsStand
<1>3. known' \cap BuildFiles \subseteq present /\ step' = "scan"
  BY <1>2 DEF Made
<1> QED
  BY <1>1, <1>2, <1>3, KeepStanding

LEMMA ConsiderStands ==
    ASSUME UncutRules, TypeOK, Descends, Standing, Consider
    PROVE  Standing' /\ present \cap BuildFiles \subseteq present'
<1>0. /\ RunOK /\ Running /\ step' = "scan"
      /\ UNCHANGED <<files, installed, listed, trees, logs>>
      /\ OnStack \cap BuildFiles \cap present = {} /\ known \cap BuildFiles \subseteq present
  BY ConsiderKinds DEF TypeOK, contents, shelves, Standing, StampsStand
<1>1. SameStamps
  BY <1>0, SameStampsWhen DEF TypeOK
<1>2. PICK i \in FirstUnknown :
         \/ /\ known' = known \cup {Prereqs[Top][i]} /\ UNCHANGED stack
            /\ ~MustMake(Prereqs[Top][i])
         \/ /\ stack' = Append(stack, Prereqs[Top][i]) /\ UNCHANGED known
            /\ MustMake(Prereqs[Top][i])
  BY ConsiderKinds
<1> DEFINE t == Prereqs[Top][i]
<1>3. i \in Unknown /\ PrereqsOf(Top)[i] = t
  BY <1>0, Turn
<1> HIDE DEF t
<1>4. CASE known' = known \cup {t} /\ UNCHANGED stack /\ ~MustMake(t)
  <2>1. OnStack' = OnStack /\ t \in present
    BY <1>4 DEF OnStack, MustMake
  <2>2. known' \cap BuildFiles \subseteq present
    BY <1>0, <1>4, <2>1
  <2> QED
    BY <1>0, <1>1, <2>1, <2>2, KeepStanding
<1>5. CASE stack' = Append(stack, t) /\ UNCHANGED known /\ MustMake(t)
  <2>1. OnStack' = OnStack \cup {t}
    BY <1>0, <1>3, <1>5, PushStack
  <2>2. t \in BuildFiles => t \notin present
    BY <1>5, Zenon DEF MustMake, Standing, StampsStand
  <2>3. OnStack' \cap BuildFiles \cap present = {}
    BY <1>0, <2>1, <2>2
  <2> QED
    BY <1>0, <1>1, <1>5, <2>3, KeepStanding
<1> QED
  BY <1>2, <1>4, <1>5 DEF t

\* Every step of a run, and of nobody.
LEMMA NextStanding ==
    ASSUME UncutRules, SettledInv, Standing, listed # {} => logs,
           [Next]_vars, job \notin Cleanings, job' \notin Cleanings
    PROVE  /\ Standing' /\ present \cap BuildFiles \subseteq present'
           /\ listed' # {} => logs'
<1>0. /\ TypeOK /\ RunOK /\ FilesOK /\ Descends /\ Ready
      /\ Running /\ step = "packing" => Top \in Piped
  BY DEF SettledInv, Orderly, TypeOK
<1>n. /\ Archives \cap BuildFiles = {} /\ Arts \cap BuildFiles = {} /\ Archives \subseteq Files
      /\ Arts \subseteq Files /\ Piped \subseteq Archives /\ Merged \subseteq Archives
      /\ {"launch", "test"} \subseteq Files \ BuildFiles
  BY GraphAssumption, TargetsAreFiles DEF BuildFiles, Archives, TestFiles
\* A step that does nothing to INSTALL, buildlog and the build directory.
<1> DEFINE Aside == UNCHANGED <<installed, listed, trees, logs>>
<1>q. ASSUME Aside PROVE listed' # {} => logs'
  BY <1>q
<1>1. ASSUME NEW g \in Goals, StartGoal(g) PROVE Standing' /\ present \cap BuildFiles \subseteq present' /\ Aside
  <2>1. Aside /\ UNCHANGED files /\ stack' = <<g>> /\ known' = {} /\ step' = "scan"
    BY <1>1 DEF StartGoal, contents, shelves
  <2>2. SameStamps
    BY <1>0, <2>1, SameStampsWhen
  <2> QED
    BY <1>0, <2>1, <2>2, FreshStands
<1>2. ASSUME NEW g \in Cleanings, StartCleaning(g) PROVE FALSE
  BY <1>2 DEF StartCleaning
<1>3. CASE Consider
  <2>1. Aside
    BY <1>3 DEF Consider, contents, shelves
  <2> QED
    BY <1>0, <1>3, <1>q, <2>1, ConsiderStands
<1>4. CASE WipeInstall \/ WipeLogs \/ WipeBuild
  BY <1>0, <1>4, WipeStands
<1>5. CASE Fetch
  BY <1>0, <1>5, FetchStands
<1>6. CASE StageBegin
  <2>1. UNCHANGED <<listed, logs>>
    BY <1>6 DEF StageBegin, shelves
  <2> QED
    BY <1>0, <1>6, <2>1, BeginStands
<1>7. CASE StageInstall
  <2>1. UNCHANGED <<listed, logs>>
    BY <1>7 DEF StageInstall
  <2> QED
    BY <1>0, <1>7, <2>1, InstallingStands
<1>8. CASE StageFinish
  BY <1>0, <1>8, FinishStands
<1>9. ASSUME Aside, SameStamps,
             \/ /\ stack' = <<>> \/ \E g \in Goals : stack' = <<g>>
                /\ known' = {} /\ step' = "scan"
             \/ GoTo(step') /\ step' \notin {"wipebuild", "fetch"}
             \/ Running /\ Top \in Files \ BuildFiles /\ Made
      PROVE  /\ Standing' /\ present \cap BuildFiles \subseteq present'
             /\ listed' # {} => logs'
  <2>1. CASE (stack' = <<>> \/ \E g \in Goals : stack' = <<g>>) /\ known' = {} /\ step' = "scan"
    BY <1>0, <1>9, <1>q, <2>1, FreshStands
  <2>2. CASE GoTo(step') /\ step' \notin {"wipebuild", "fetch"}
    BY <1>0, <1>9, <1>q, <2>2, GoingStands DEF GoTo
  <2>3. CASE Running /\ Top \in Files \ BuildFiles /\ Made
    BY <1>0, <1>9, <1>q, <2>3, MadeStands
  <2> QED
    BY <1>9, <2>1, <2>2, <2>3
<1> HIDE DEF Aside
<1>10. CASE Settle \/ LaunchBegin \/ Doomed \/ RecipeError \/ Crash
  <2>1. Aside /\ UNCHANGED files
    BY <1>10 DEF Settle, LaunchBegin, Doomed, RecipeError, Crash, contents, shelves, Aside
  <2>2. SameStamps
    BY <1>0, <2>1, SameStampsWhen
  <2>3. \/ stack' = <<>> /\ known' = {} /\ step' = "scan"
        \/ GoTo(step') /\ step' \notin {"wipebuild", "fetch"}
    BY <1>10 DEF Settle, LaunchBegin, Doomed, RecipeError, Crash, Stop, GoTo
  <2> QED
    BY <1>9, <2>1, <2>2, <2>3
<1>11. CASE PackBegin
  <2>1. Aside /\ Touch(Top) /\ Top \notin BuildFiles
    BY <1>11, <1>n DEF PackBegin, shelves, Aside
  <2>2. SameStamps
    BY <1>0, <2>1, SameStampsWhen
  <2>3. GoTo(step') /\ step' \notin {"wipebuild", "fetch"}
    BY <1>11 DEF PackBegin, GoTo
  <2> QED
    BY <1>9, <2>1, <2>2, <2>3
<1>12. CASE PackFinish \/ Merge \/ LaunchFinish
  <2>1. Aside /\ (UNCHANGED files \/ Touch(Top)) /\ Top \in Files \ BuildFiles /\ Running /\ Made
    BY <1>12, <1>n DEF PackFinish, Merge, LaunchFinish, shelves, Aside
  <2>2. SameStamps
    BY <1>0, <2>1, SameStampsWhen
  <2> QED
    BY <1>9, <2>1, <2>2
<1>13. CASE Copy \/ TestRun
  <2>1. Aside /\ Top \in Files \ BuildFiles /\ Running
    BY <1>13, <1>n DEF Copy, TestRun, contents, shelves, Aside
  <2>2. \/ Touch(Top) /\ Made
        \/ UNCHANGED files /\ GoTo(step') /\ step' \notin {"wipebuild", "fetch"}
    BY <1>13 DEF Copy, TestRun, GoTo
  <2>3. SameStamps
    BY <1>0, <2>1, <2>2, SameStampsWhen
  <2> QED
    BY <1>9, <2>1, <2>2, <2>3
<1>14. CASE PackShort
  <2>1. Aside /\ UNCHANGED files /\ Top \in Files \ BuildFiles /\ Running
    BY <1>14, <1>n DEF PackShort, shelves, Aside
  <2>2. SameStamps
    BY <1>0, <2>1, SameStampsWhen
  <2>3. known' = known \cup {Top} /\ stack' = SubSeq(stack, 1, Len(stack) - 1) /\ step' = "scan"
    BY <1>14 DEF PackShort
  <2>4. OnStack' \subseteq OnStack
    BY <1>0, <2>1, <2>3, PopStack
  <2>5. OnStack \cap BuildFiles \cap present = {} /\ known \cap BuildFiles \subseteq present
    BY DEF Standing, StampsStand
  <2>6. known' \cap BuildFiles \subseteq present
    BY <2>1, <2>3, <2>5
  <2> QED
    BY <1>0, <1>q, <2>1, <2>2, <2>3, <2>4, <2>5, <2>6, KeepStanding DEF Aside
<1>15. CASE Interrupt
  <2>1. Aside /\ stack' = <<>> /\ known' = {} /\ step' = "scan"
    BY <1>15 DEF Interrupt, Stop, contents, shelves, Aside
  <2>2. \E S : Remove(S) /\ S \cap BuildFiles \cap present = {}
    BY <1>0, <1>15, <1>n DEF Interrupt
  <2>3. SameStamps
    BY <1>0, <2>2, SameStampsWhen
  <2> QED
    BY <1>9, <2>1, <2>3
<1>16. CASE UNCHANGED vars
  <2>1. UNCHANGED <<files, installed, listed, trees, logs, stack, known, step>>
    BY <1>16 DEF vars, contents, shelves, run
  <2>2. SameStamps
    BY <1>0, <2>1, SameStampsWhen
  <2> QED
    BY <1>0, <2>1, <2>2, GoingStands
<1>17. CASE Clean
  BY <1>17 DEF Clean, RmTest, RmBuild, RmLaunch, RmInstall, RmLogs, RmBin, RmAll, Cleanings, Wholesale
<1> QED
  BY <1>1, <1>2, <1>3, <1>4, <1>5, <1>6, <1>7, <1>8, <1>10, <1>11, <1>12, <1>13, <1>14, <1>15,
     <1>16, <1>17, <1>q
  DEF Next, Make, Disturb

-----------------------------------------------------------------------------
(* Clean-ups.                                                              *)

\* What all of a clean-up leaves is as good as a fresh start.
LEMMA GoneStands ==
    ASSUME UncutRules, present' \cap BuildFiles = {}, installed' = {}, listed' = {},
           known' = {}, step' = "scan"
    PROVE  Standing'
<1>0. /\ Shipped \subseteq BuildFiles /\ Listers \subseteq BuildFiles /\ "install" \in BuildFiles
      /\ Stages \subseteq BuildFiles /\ "source" \in BuildFiles
  BY UncutFacts
<1>1. StampsStand'
  BY DEF StampsStand
<1>2. InstallStands'
  BY <1>0 DEF InstallStands
<1>3. TreesStand'
  BY <1>0 DEF TreesStand
<1>4. SourceLogs'
  BY <1>0 DEF SourceLogs
<1> QED
  BY <1>1, <1>2, <1>3, <1>4 DEF Standing

\* What the invariant says of a clean-up.
Tidy ==
    /\ Cleared
    /\ job \in Wholesale \/ Shipped \cap present \subseteq installed
    /\ listed # {} => logs

\* It has deleted a stamp, or none.
LEMMA TidyStays ==
    ASSUME Tidy, UNCHANGED job, present' \cap BuildFiles \subseteq present,
           trees' \subseteq trees, UNCHANGED <<installed, listed, logs>>, Shipped \subseteq BuildFiles,
           PastBuild' => PastBuild, PastInstall' => PastInstall, step' = "rmbin" => step = "rmbin"
    PROVE  Tidy'
<1>1. /\ PastBuild => present \cap BuildFiles = {} /\ trees = {}
      /\ PastInstall => installed = {}
      /\ step = "rmbin" => ~logs
  BY DEF Tidy, Cleared
<1>2. Cleared'
  BY <1>1 DEF Cleared
<1>3. job' \in Wholesale \/ Shipped \cap present' \subseteq installed'
  BY DEF Tidy
<1> QED
  BY <1>2, <1>3 DEF Tidy

\* While one goes on, and how it ends.
LEMMA NextCleaning ==
    ASSUME UncutRules, Tidy, job \in Cleanings, Clean
    PROVE  \/ job' = job /\ Tidy'
           \/ /\ job' = "idle" /\ Standing' /\ listed' = {}
              /\ Shipped \cap present' \subseteq installed'
<1>0. /\ Shipped \subseteq BuildFiles /\ Arts \cap BuildFiles = {} /\ TestFiles \cap BuildFiles = {}
      /\ RangeOf(Prereqs["package"]) = Arts
  BY UncutFacts, GraphAssumption DEF TestFiles, BuildFiles, PackingRules
<1>t. /\ PastBuild => present \cap BuildFiles = {} /\ trees = {}
      /\ PastInstall => installed = {}
      /\ step = "rmbin" => ~logs
      /\ job \in Wholesale \/ Shipped \cap present \subseteq installed
      /\ listed # {} => logs
  BY DEF Tidy, Cleared
<1>w. Wholesale = {"flush", "clean"}
  BY DEF Wholesale
<1> DEFINE Over == /\ present' \cap BuildFiles = {} /\ installed' = {} /\ listed' = {}
                   /\ known' = {} /\ step' = "scan" /\ job' = "idle"
<1>o. ASSUME Over PROVE /\ job' = "idle" /\ Standing' /\ listed' = {}
                        /\ Shipped \cap present' \subseteq installed'
  BY <1>0, <1>o, GoneStands
<1>1. CASE RmTest
  <2>1. UNCHANGED <<job, trees, installed, listed, logs>> /\ step = "rmtest"
        /\ step' \in {"rmtest", "rmbuild", "rmall"} /\ present' \subseteq present
    BY <1>1 DEF RmTest, contents, shelves, files, GoTo, GoOn, Remove
  <2> QED
    BY <1>0, <1>w, <2>1, TidyStays DEF PastBuild, PastInstall
<1>2. CASE RmBuild
  <2>1. /\ UNCHANGED <<job, installed, listed, logs>> /\ step = "rmbuild"
        /\ present' \subseteq present /\ trees' \subseteq trees
    BY <1>2 DEF RmBuild, DropBuild, shelves, files, GoTo, GoOn, Remove
  <2>2. \/ step' \in {"rmbuild", "rmall"}
        \/ /\ step' = "rmlaunch" /\ job \notin Wholesale /\ present' \cap BuildFiles = {}
           /\ trees' = {}
    BY <1>2 DEF RmBuild, BuildLeft, files, GoTo, GoOn
  <2>3. CASE step' \in {"rmbuild", "rmall"}
    BY <1>0, <1>w, <2>1, <2>3, TidyStays DEF PastBuild, PastInstall
  <2>4. CASE step' = "rmlaunch" /\ job \notin Wholesale /\ present' \cap BuildFiles = {}
             /\ trees' = {}
    <3>1. Cleared'
      BY <2>1, <2>4 DEF Cleared, PastInstall
    <3>2. Shipped \cap present' \subseteq installed'
      BY <1>0, <2>4
    <3> QED
      BY <1>t, <2>1, <3>1, <3>2 DEF Tidy
  <2> QED
    BY <2>2, <2>3, <2>4
<1>3. CASE RmLaunch
  <2>1. /\ UNCHANGED <<job, present, trees, installed, listed, logs>> /\ step = "rmlaunch"
        /\ step' \in {"rmlaunch", "rminstall", "rmall"}
        /\ step' = "rmall" => job \in Wholesale
    BY <1>3 DEF RmLaunch, shelves, files, GoTo, GoOn
  <2> QED
    BY <1>0, <1>w, <2>1, TidyStays DEF PastBuild, PastInstall
<1>4. CASE RmInstall
  <2>1. /\ UNCHANGED <<job, present, trees, listed, logs>> /\ step = "rminstall"
        /\ installed' \subseteq installed
        /\ \/ step' = "rminstall"
           \/ step' = "rmall" /\ job \in Wholesale
           \/ step' = "rmlogs" /\ installed' = {} /\ job \notin Wholesale
    BY <1>4 DEF RmInstall, files, GoTo, GoOn
  <2>2. job \in Wholesale \/ (present \cap BuildFiles = {} /\ trees = {})
    BY <1>t, <2>1 DEF PastBuild
  <2>3. Cleared'
    <3>1. PastBuild' => present' \cap BuildFiles = {} /\ trees' = {}
      BY <2>1, <2>2 DEF PastBuild
    <3>2. PastInstall' => installed' = {}
      BY <2>1 DEF PastInstall
    <3> QED
      BY <2>1, <3>1, <3>2 DEF Cleared
  <2>4. job' \in Wholesale \/ Shipped \cap present' \subseteq installed'
    BY <1>0, <2>1, <2>2
  <2> QED
    BY <1>t, <2>1, <2>3, <2>4 DEF Tidy
<1>5. CASE RmLogs
  <2>1. /\ UNCHANGED <<present, trees, installed>> /\ step = "rmlogs"
        /\ listed' # {} => logs'
        /\ \/ UNCHANGED job /\ step' = "rmlogs"
           \/ UNCHANGED job /\ step' = "rmall" /\ job \in Wholesale
           \/ UNCHANGED job /\ step' = "rmbin" /\ job \notin Wholesale /\ ~logs'
           \/ /\ job = "flushup" /\ job' = "idle" /\ known' = {} /\ step' = "scan"
              /\ listed' = {}
    BY <1>5, <1>t DEF RmLogs, files, GoTo, GoOn, Stop
  <2>2. job \in Wholesale \/ (present \cap BuildFiles = {} /\ trees = {} /\ installed = {})
    BY <1>t, <2>1 DEF PastBuild, PastInstall
  <2>3. CASE UNCHANGED job
    <3>0. step' \in {"rmlogs", "rmall", "rmbin"} /\ (step' = "rmbin" => job \notin Wholesale /\ ~logs')
      BY <2>1, <2>3, ChainFacts
    <3>1. PastBuild' => present' \cap BuildFiles = {} /\ trees' = {}
      BY <2>1, <2>2, <2>3, <3>0 DEF PastBuild
    <3>2. PastInstall' => installed' = {}
      BY <2>1, <2>2, <2>3, <3>0 DEF PastInstall
    <3>3. Cleared'
      BY <3>0, <3>1, <3>2 DEF Cleared
    <3> QED
      BY <1>t, <2>1, <2>3, <3>3 DEF Tidy
  <2>4. CASE job = "flushup" /\ job' = "idle" /\ known' = {} /\ step' = "scan" /\ listed' = {}
    BY <1>o, <1>w, <2>1, <2>2, <2>4
  <2> QED
    BY <2>1, <2>3, <2>4
<1>6. CASE RmBin
  <2>1. /\ UNCHANGED <<trees, installed, listed, logs>> /\ step = "rmbin"
        /\ present' \subseteq present
        /\ \/ UNCHANGED job /\ step' = "rmbin"
           \/ job' = "idle" /\ known' = {} /\ step' = "scan"
    BY <1>6 DEF RmBin, contents, shelves, files, GoTo, Stop, Remove
  <2>2. present \cap BuildFiles = {} /\ trees = {} /\ installed = {} /\ listed = {}
    BY <1>t, <2>1 DEF PastBuild, PastInstall
  <2>3. CASE UNCHANGED job /\ step' = "rmbin"
    BY <1>0, <2>1, <2>2, <2>3, TidyStays DEF PastBuild, PastInstall
  <2>4. CASE job' = "idle" /\ known' = {} /\ step' = "scan"
    <3>1. Over
      BY <2>1, <2>2, <2>4
    <3> QED
      BY <1>o, <3>1
  <2> QED
    BY <2>1, <2>3, <2>4
<1>7. CASE RmAll
  <2>1. UNCHANGED <<present, trees, installed, listed, logs>> /\ job \in Wholesale
    BY <1>7 DEF RmAll, contents, shelves, files
  <2>2. \/ UNCHANGED job /\ step' \in {"rmtest", "rmbuild", "rmlaunch", "rmlogs", "rminstall"}
        \/ /\ ~BuildLeft /\ installed = {} /\ ~logs
           /\ \/ UNCHANGED job /\ step' = "rmbin"
              \/ job' = "idle" /\ known' = {} /\ step' = "scan"
    BY <1>7 DEF RmAll, GoTo, Stop
  <2>3. CASE UNCHANGED job /\ step' \in {"rmtest", "rmbuild", "rmlaunch", "rmlogs", "rminstall"}
    <3>1. Cleared'
      BY <2>1, <2>3 DEF Cleared, PastBuild, PastInstall
    <3> QED
      BY <1>t, <2>1, <2>3, <3>1 DEF Tidy
  <2>4. CASE /\ ~BuildLeft /\ installed = {} /\ ~logs
             /\ \/ UNCHANGED job /\ step' = "rmbin"
                \/ job' = "idle" /\ known' = {} /\ step' = "scan"
    <3>1. present \cap BuildFiles = {} /\ trees = {} /\ listed = {}
      BY <1>t, <2>4 DEF BuildLeft
    <3>2. CASE UNCHANGED job /\ step' = "rmbin"
      <4>1. Cleared'
        BY <2>1, <2>4, <3>1, <3>2 DEF Cleared
      <4> QED
        BY <1>t, <2>1, <3>2, <4>1 DEF Tidy
    <3>3. CASE job' = "idle" /\ known' = {} /\ step' = "scan"
      <4>1. Over
        BY <2>1, <2>4, <3>1, <3>3
      <4> QED
        BY <1>o, <4>1
    <3> QED
      BY <2>4, <3>2, <3>3
  <2> QED
    BY <2>2, <2>3, <2>4
<1> HIDE DEF Over
<1> QED
  BY <1>1, <1>2, <1>3, <1>4, <1>5, <1>6, <1>7 DEF Clean

LEMMA StartTidy ==
    ASSUME Standing, listed # {} => logs, NEW g \in Cleanings, StartCleaning(g)
    PROVE  job' \in Jobs \cap Cleanings /\ Tidy'
<1>1. /\ job' \in Jobs \cap Cleanings /\ step' \in {"rmall", "rmtest"}
      /\ UNCHANGED <<present, installed, listed, logs>>
  BY DEF StartCleaning, files, contents, shelves
<1>2. Cleared'
  BY <1>1 DEF Cleared, PastBuild, PastInstall
<1>3. Shipped \cap present \subseteq installed
  BY DEF Standing, InstallStands
<1> QED
  BY <1>1, <1>2, <1>3 DEF Tidy

-----------------------------------------------------------------------------
(* Archives.                                                               *)

\* What is in a zip file was in INSTALL when zip had ended.
LEMMA ZipsStay ==
    ASSUME TypeOK, ZipsWhole, "short" \notin Faults, [Next]_vars
    PROVE  ZipsWhole'
<1>0. art \in [Archives -> Holding] /\ Merged \subseteq Archives /\ Piped \cap Merged = {}
      /\ Piped \subseteq Archives
  BY GraphAssumption DEF TypeOK, ContentsOK, Archives
<1>1. ASSUME NonePacked PROVE ZipsWhole'
  BY <1>0, <1>1 DEF NonePacked, ZipsWhole
<1>2. CASE Started \/ Ended \/ Consider \/ Cleaned \/ UNCHANGED vars
  <2>1. art' = art /\ (UNCHANGED files \/ \E S : Remove(S))
    BY <1>2, StartedContents, EndedContents, CleanedArt
    DEF Started, Ended, Consider, Cleaned, contents, vars
  <2> QED
    BY <1>1, <2>1, Packless
<1>3. CASE Worked
  <2>1. CASE /\ Top \in Piped /\ Touch(Top)
             /\ art' = [art EXCEPT ![Top] = [whole |-> FALSE, has |-> {}]]
    <3>1. \A a \in Merged : art'[a] = art[a] /\ (a \in present' => a \in present)
      BY <1>0, <2>1 DEF Touch
    <3> QED
      BY <3>1 DEF ZipsWhole
  <2> QED
    BY <1>1, <1>3, <2>1, WorkedKinds
<1>4. CASE Finished
  <2>1. CASE Top \in Archives /\ Packed
    <3>1. art'[Top].whole
      BY <2>1 DEF Packed
    <3>2. \A a \in Merged \cap present' : a # Top => a \in present /\ art'[a] = art[a]
      BY <1>0, <2>1 DEF Packed
    <3> QED
      BY <3>1, <3>2 DEF ZipsWhole
  <2> QED
    BY <1>1, <1>4, <2>1, FinishedContents
<1> QED
  BY <1>2, <1>3, <1>4, StepKinds

\* An artifact is packed when INSTALL holds what ships and nothing else.
LEMMA PacksAll ==
    ASSUME UncutRules, Orderly, Standing, Finished, Top \in Archives
    PROVE  installed = Shipped
<1>0. /\ PackingRules /\ Running /\ step # "scan" /\ Top \in Arts /\ Top # "launch"
      /\ "install" \in Last /\ Last = Tails \cup {"install"} /\ Last \subseteq BuildFiles
      /\ StampsStand /\ InstallStands /\ "install" \in BuildFiles
  BY UncutFacts, OrderFacts, ChainFacts, GraphAssumption DEF Finished, Standing
<1>1. Last \subseteq known
  <2>1. RangeOf(PrereqsOf(Top)) = Last
    BY <1>0, OrderFacts DEF PrereqsOf
  <2> QED
    BY <1>0, <2>1 DEF Orderly, Ready
<1>2. Last \subseteq present /\ Below["install"] \subseteq present
  BY <1>0, <1>1 DEF StampsStand
<1>3. Fills \subseteq present
  BY <1>0, <1>2 DEF UncutRules
<1>4. Shipped \subseteq installed /\ installed \cap Listers = {}
  BY <1>0, <1>2, <1>3 DEF InstallStands, Shipped
<1>5. installed \subseteq Fills
  BY DEF Orderly, TypeOK, ContentsOK
<1> QED
  BY <1>4, <1>5 DEF Shipped

-----------------------------------------------------------------------------
(* The invariant.                                                          *)

\* Nobody stops a clean-up.
LEMMA CleansOn ==
    ASSUME Uncut, job \in Jobs \cap Cleanings, [Next]_vars
    PROVE  Clean \/ UNCHANGED vars
<1>1. ~Running /\ job # "idle" /\ "signal" \notin Faults /\ "kill" \notin Faults
  BY ChainFacts DEF Uncut, Running
<1>2. ~Make
  BY <1>1
  DEF Make, Consider, Settle, WipeInstall, WipeLogs, WipeBuild, Fetch,
      StageBegin, StageInstall, StageFinish, PackBegin, PackFinish, Merge, Copy,
      LaunchBegin, LaunchFinish, TestRun, Doomed
<1>3. ~Disturb
  BY <1>1 DEF Disturb, PackShort, RecipeError, Interrupt, Crash, InRecipe
<1> QED
  BY <1>1, <1>2, <1>3 DEF Next, StartGoal, StartCleaning

\* Whose turn it is next.
LEMMA NextJob ==
    ASSUME job \in Jobs \cup {"idle"}, [Next]_vars
    PROVE  /\ job' \in Jobs \cup {"idle"}
           /\ job \notin Cleanings /\ job' \in Cleanings
                => \E g \in Cleanings : StartCleaning(g)
<1>1. "idle" \notin Cleanings /\ Goals \cap Cleanings = {}
  BY ChainFacts
<1>2. CASE Make
  <2>1. job' = job \/ job' = "idle"
    BY <1>2
    DEF Make, Consider, Settle, WipeInstall, WipeLogs, WipeBuild, Fetch,
        StageBegin, StageInstall, StageFinish, PackBegin, PackFinish, Merge, Copy,
        LaunchBegin, LaunchFinish, TestRun, Doomed, Made, GoTo, Stop
  <2> QED
    BY <1>1, <2>1
<1>3. CASE Clean
  <2>1. job' = job \/ job' = "idle"
    BY <1>3
    DEF Clean, RmTest, RmBuild, RmLaunch, RmInstall, RmLogs, RmBin, RmAll, GoTo, GoOn, Stop
  <2> QED
    BY <1>1, <2>1
<1>4. CASE Disturb
  <2>1. job' = job \/ job' = "idle"
    BY <1>4 DEF Disturb, PackShort, RecipeError, Interrupt, Crash, Stop
  <2> QED
    BY <1>1, <2>1
<1>5. CASE UNCHANGED vars
  BY <1>5 DEF vars, run
<1>6. ASSUME NEW g \in Goals, StartGoal(g)
      PROVE  job' \in Jobs /\ job' \notin Cleanings
  BY <1>1, <1>6 DEF StartGoal
<1>7. ASSUME NEW g \in Cleanings, StartCleaning(g)
      PROVE  job' \in Jobs
  BY <1>7 DEF StartCleaning
<1> QED
  BY <1>2, <1>3, <1>4, <1>5, <1>6, <1>7 DEF Next

LEMMA NextUncut ==
    ASSUME UncutRules, RegressChain, Uncut, "short" \notin Faults, UncutInv, [Next]_vars
    PROVE  UncutInv' /\ (job \notin Cleanings => present \cap BuildFiles \subseteq present')
<1>0. /\ PackingRules /\ SettledInv /\ SettledInv' /\ Orderly /\ TypeOK
      /\ job \in Jobs \cup {"idle"} /\ job' \in Jobs \cup {"idle"}
      /\ "idle" \notin Cleanings /\ Goals \cap Cleanings = {} /\ (listed # {} => logs)
      /\ ZipsWhole /\ PublishedComplete
  BY UncutFacts, NextSettled, NextJob, ChainFacts DEF UncutInv, SettledInv, Orderly
<1>z. ZipsWhole'
  BY <1>0, ZipsStay
<1>p. PublishedComplete'
  <2>1. Finished /\ Top \in Archives => installed = Shipped
    <3> SUFFICES ASSUME Finished, Top \in Archives PROVE installed = Shipped
      OBVIOUS
    <3>1. job \notin Cleanings
      BY <1>0 DEF Finished, Running
    <3> QED
      BY <1>0, <3>1, PacksAll DEF UncutInv
  <2> QED
    BY <1>0, <2>1, PackedPublished
<1>1. CASE job \in Cleanings
  <2>0. Tidy /\ job \in Jobs
    BY <1>0, <1>1 DEF UncutInv, Tidy
  <2>1. CASE Clean
    <3>1. CASE job' = job /\ Tidy'
      BY <1>0, <1>1, <1>z, <1>p, <3>1 DEF UncutInv, Tidy
    <3>2. CASE /\ job' = "idle" /\ Standing' /\ listed' = {}
               /\ Shipped \cap present' \subseteq installed'
      BY <1>0, <1>1, <1>z, <1>p, <3>2 DEF UncutInv
    <3> QED
      BY <1>1, <2>0, <2>1, <3>1, <3>2, NextCleaning
  <2>2. CASE UNCHANGED vars
    <3>1. Tidy' /\ job' = job
      BY <2>0, <2>2
      DEF Tidy, Cleared, PastBuild, PastInstall, vars, files, contents, shelves, run
    <3> QED
      BY <1>0, <1>1, <1>z, <1>p, <3>1 DEF UncutInv, Tidy
  <2> QED
    BY <1>0, <1>1, <2>0, <2>1, <2>2, CleansOn
<1>2. CASE job \notin Cleanings /\ job' \in Cleanings
  <2>1. PICK g \in Cleanings : StartCleaning(g)
    BY <1>0, <1>2, NextJob
  <2>2. Standing
    BY <1>2 DEF UncutInv
  <2>3. Tidy' /\ UNCHANGED present
    BY <1>0, <2>1, <2>2, StartTidy DEF StartCleaning, files
  <2> QED
    BY <1>0, <1>2, <1>z, <1>p, <2>3 DEF UncutInv, Tidy
<1>3. CASE job \notin Cleanings /\ job' \notin Cleanings
  <2>1. Standing
    BY <1>3 DEF UncutInv
  <2>2. /\ Standing' /\ present \cap BuildFiles \subseteq present'
        /\ listed' # {} => logs'
    BY <1>0, <1>3, <2>1, NextStanding
  <2>3. Shipped \cap present' \subseteq installed'
    BY <2>2 DEF Standing, InstallStands
  <2> QED
    BY <1>0, <1>3, <1>z, <1>p, <2>2, <2>3 DEF UncutInv
<1> QED
  BY <1>1, <1>2, <1>3

LEMMA InitUncut == ASSUME UncutRules, Init PROVE UncutInv
<1>1. SettledInv /\ job \in Jobs \cup {"idle"} /\ job \notin Cleanings
  BY UncutFacts, InitSettled, ChainFacts DEF Init
<1>2. StampsStand /\ TreesStand /\ SourceLogs
  <2>1. OnStack = {}
    BY DEF Init, OnStack, RangeOf
  <2> QED
    BY <2>1 DEF Init, StampsStand, TreesStand, SourceLogs
<1>3. InstallStands /\ listed = {} /\ present = {}
  BY DEF Init, InstallStands
<1> QED
  BY <1>1, <1>2, <1>3 DEF UncutInv, Standing, ZipsWhole, PublishedComplete

(***************************************************************************)
(* Whichever recipes fail, and whatever stops a run of make or a clean-up  *)
(* (not both): a stamp in obj stands on all it is made from and is newer,  *)
(* INSTALL holds what the stamps stand for, and nothing else but what gcc  *)
(* has borrowed, and the clean-ups take the stamps first.                  *)
(***************************************************************************)
THEOREM UncutIsInvariant ==
    ASSUME UncutRules, RegressChain, Uncut, "short" \notin Faults
    PROVE  Spec => []UncutInv
<1>1. Init => UncutInv
  BY InitUncut
<1>2. UncutInv /\ [Next]_vars => UncutInv'
  BY NextUncut
<1> QED
  BY <1>1, <1>2, PTL DEF Spec

(***************************************************************************)
(* Where nobody removes obj as a whole, a stamp that is up to date has its *)
(* output in INSTALL: of gcc too, whose first stage is made for several    *)
(* others and whose INSTALL loses what its install.stamp has borrowed.     *)
(***************************************************************************)
THEOREM UncutStampsTruthful ==
    ASSUME UncutRules, RegressChain, Uncut, "short" \notin Faults, Jobs \cap Wholesale = {}
    PROVE  Spec => []StampsTruthful
<1>1. UncutInv => StampsTruthful
  BY ChainFacts DEF UncutInv, StampsTruthful, Current, Wholesale
<1> QED
  BY <1>1, UncutIsInvariant, PTL

(***************************************************************************)
(* Every archive in bin that unpacks holds all that the package ships and  *)
(* none of what gcc has borrowed.                                          *)
(***************************************************************************)
THEOREM UncutArchivesComplete ==
    ASSUME UncutRules, RegressChain, Uncut, "short" \notin Faults
    PROVE  Spec => []PublishedComplete
<1>1. UncutInv => PublishedComplete
  BY DEF UncutInv
<1> QED
  BY <1>1, UncutIsInvariant, PTL

(***************************************************************************)
(* A regress run of such a package that found a tarball in bin and ended   *)
(* well has run every program out of it.                                   *)
(***************************************************************************)
THEOREM UncutRegressProves ==
    ASSUME UncutRules, RegressChain, Uncut, "short" \notin Faults
    PROVE  Spec => []RegressProves
<1>1. Init => UncutInv /\ RegressOwn
  BY InitUncut, InitRegressOwn
<1>2. UncutInv /\ RegressOwn /\ [Next]_vars => (UncutInv /\ RegressOwn)'
  <2> SUFFICES ASSUME UncutInv, RegressOwn, [Next]_vars PROVE (UncutInv /\ RegressOwn)'
    OBVIOUS
  <2>1. UncutInv'
    BY NextUncut
  <2>2. PublishedComplete' /\ Orderly /\ PackingRules /\ Tools \cap Listers = {}
    BY <2>1, UncutFacts DEF UncutInv, SettledInv, UncutRules
  <2>3. RegressOwn'
    BY <2>2, NextRegressOwn
  <2> QED
    BY <2>1, <2>3
<1>3. RegressOwn => RegressProves
  BY DEF RegressOwn
<1> QED
  BY <1>1, <1>2, <1>3, PTL DEF Spec

(***************************************************************************)
(* No run of make takes a stamp away, however it ends: what is made stays  *)
(* made until a clean-up.                                                  *)
(***************************************************************************)
THEOREM UncutStampsStay ==
    ASSUME UncutRules, RegressChain, Uncut, "short" \notin Faults
    PROVE  Spec => StampsStay
<1>1. UncutInv /\ [Next]_vars
        => [job \notin Cleanings => present \cap BuildFiles \subseteq present']_vars
  BY NextUncut
<1> QED
  BY <1>1, UncutIsInvariant, PTL DEF Spec, StampsStay
=============================================================================
