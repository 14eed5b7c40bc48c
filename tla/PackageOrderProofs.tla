------------------------- MODULE PackageOrderProofs -------------------------
(***************************************************************************)
(* What the order of a run of make gives the artifacts of bin, for the     *)
(* rules of any package that packs them as Package.mk says.                *)
(***************************************************************************)
EXTENDS PackageOrder, PackageRegressProofs

\* Wherever the assumption is cited, what it says is visible.
USE DEF GraphOK

-----------------------------------------------------------------------------
(* The kinds of step there are.                                            *)

\* A run or a clean-up is started.
Started ==
    /\ job = "idle" /\ job' \in Jobs \cap (Goals \cup Cleanings)
    /\ stack' = IF job' \in Goals THEN <<job'>> ELSE <<>>
    /\ known' = {} /\ (job' \in Goals => step' = "scan")
    /\ outcome' = <<"none", "none">>
    /\ UNCHANGED files

\* It ends, well or not.
Ended ==
    /\ job # "idle"
    /\ \/ UNCHANGED files
       \/ \E S : Remove(S)
    /\ \/ Stop("error")
       \/ Stop("ok") /\ job \notin Goals
       \/ Stop("ok") /\ UNCHANGED files /\ Running /\ Top = job /\ Unknown = {}

\* A recipe begins or goes on.
Worked ==
    /\ Running /\ step' # "scan" /\ GoTo(step') /\ (step = "scan" => Unknown = {})
    /\ \/ UNCHANGED files /\ step' # "packing"
       \/ Top \in Stages /\ Remove(SameDir[Top]) /\ step' # "packing"
       \/ Top = "source" /\ step # "scan" /\ step' # "packing"
          /\ \E S \in SUBSET BuildFiles : Remove(S)
       \/ Top \in Piped /\ Touch(Top) /\ step' = "packing"

\* A recipe ends well.
Finished ==
    /\ Running /\ Top \in Files /\ step # "scan" /\ step' = "scan"
    /\ known' = known \cup {Top}
    /\ stack' = SubSeq(stack, 1, Len(stack) - 1)
    /\ UNCHANGED <<job, tarSeen, outcome>>
    /\ \/ Touch(Top) /\ (Top = "source" => step = "fetch")
       \/ UNCHANGED files /\ Top \in Piped /\ step = "packing"

\* A clean-up goes on.
Cleaned ==
    /\ job \in Cleanings
    /\ UNCHANGED <<job, stack, known, tarSeen, outcome>>
    /\ \/ UNCHANGED files
       \/ \E S : Remove(S)

LEMMA StepKinds ==
    ASSUME TypeOK, [Next]_vars
    PROVE  \/ Started \/ Ended \/ Consider \/ Worked \/ Finished \/ Cleaned
           \/ UNCHANGED vars
<1>n. /\ "idle" \notin Goals \cup Cleanings /\ Goals \cap Cleanings = {}
      /\ Archives \subseteq Files /\ Arts \subseteq Files /\ BuildFiles \subseteq Files
      /\ TestFiles \subseteq Files /\ Stages \subseteq BuildFiles
      /\ "source" \notin Stages
      /\ Piped \subseteq Archives /\ Merged \subseteq Archives
      /\ Archives \cap BuildFiles = {} /\ Arts \cap BuildFiles = {} /\ TestFiles \cap BuildFiles = {}
      /\ "source" \in BuildFiles
  <2>1. Arts \cap BuildFiles = {} /\ Archives \subseteq Arts /\ TestFiles \cap BuildFiles = {}
    BY GraphAssumption DEF BuildFiles, TestFiles
  <2> QED
    BY <2>1, ChainFacts, SourceIsNoStage DEF Files, BuildFiles, Archives
<1>1. ASSUME NEW g \in Goals, StartGoal(g) PROVE Started
  BY <1>1 DEF StartGoal, Started
<1>2. ASSUME NEW g \in Cleanings, StartCleaning(g) PROVE Started
  BY <1>n, <1>2 DEF StartCleaning, Started
<1>4. CASE Settle
  <2>0. Running /\ Unknown = {} /\ job # "idle"
    BY <1>4, <1>n DEF Settle, Running
  <2>1. CASE Top = job /\ Stop("ok") /\ UNCHANGED files
    BY <2>0, <2>1 DEF Ended
  <2>2. CASE Stop("error") /\ UNCHANGED files
    BY <2>0, <2>2 DEF Ended
  <2>3. CASE GoTo("begin") /\ UNCHANGED files
    BY <2>0, <2>3 DEF Worked, GoTo
  <2> QED
    BY <1>4, <2>1, <2>2, <2>3 DEF Settle
<1>5. CASE WipeInstall
  BY <1>5 DEF WipeInstall, Worked, GoTo
<1>w. CASE WipeLogs
  BY <1>w DEF WipeLogs, Worked, GoTo
<1>6. CASE WipeBuild
  <2>1. /\ Running /\ Top = "source" /\ step = "wipebuild" /\ step' # "scan" /\ step' # "packing"
        /\ GoTo(step')
    BY <1>6 DEF WipeBuild, GoTo
  <2>2. UNCHANGED files \/ \E f \in BuildFiles : Remove({f})
    BY <1>6 DEF WipeBuild, DropBuild
  <2> QED
    BY <2>1, <2>2 DEF Worked
<1>7. CASE Fetch
  BY <1>7, <1>n DEF Fetch, Finished, Made
<1>8. CASE StageBegin
  BY <1>8 DEF StageBegin, Worked, GoTo
<1>9. CASE StageInstall
  BY <1>9 DEF StageInstall, Worked, GoTo
<1>10. CASE StageFinish
  BY <1>10, <1>n DEF StageFinish, Finished, Made
<1>11. CASE PackBegin
  BY <1>11 DEF PackBegin, Worked, GoTo
<1>12. CASE PackFinish
  BY <1>12, <1>n DEF PackFinish, Finished, Made
<1>13. CASE PackShort
  BY <1>13, <1>n DEF PackShort, Finished
<1>14. CASE Merge
  BY <1>14, <1>n DEF Merge, Finished, Made
<1>15. CASE Copy
  <2>1. CASE Touch(Top) /\ Made
    BY <1>15, <1>n, <2>1 DEF Copy, Finished, Made
  <2>2. CASE GoTo("doomed") /\ UNCHANGED files
    BY <1>15, <2>2 DEF Copy, Worked, GoTo
  <2> QED
    BY <1>15, <2>1, <2>2 DEF Copy
<1>16. CASE LaunchBegin
  BY <1>16 DEF LaunchBegin, Worked, GoTo
<1>17. CASE LaunchFinish
  BY <1>17, <1>n DEF LaunchFinish, Finished, Made, TestFiles
<1>18. CASE TestRun
  <2>1. CASE Touch("test") /\ Made
    BY <1>18, <1>n, <2>1 DEF TestRun, Finished, Made, TestFiles
  <2>2. CASE GoTo("doomed") /\ UNCHANGED files
    BY <1>18, <2>2 DEF TestRun, Worked, GoTo
  <2> QED
    BY <1>18, <2>1, <2>2 DEF TestRun
<1>19. CASE Doomed
  BY <1>19, <1>n DEF Doomed, Ended, Running
<1>20. CASE RecipeError \/ Interrupt \/ Crash
  BY <1>20, <1>n DEF RecipeError, Interrupt, Crash, Ended, InRecipe, Running
<1>c. ASSUME job \in Cleanings, NEW s, GoTo(s), UNCHANGED files \/ \E S : Remove(S)
      PROVE  Cleaned
  BY <1>c DEF Cleaned, GoTo
<1>e. ASSUME job \in Cleanings, Stop("ok"), UNCHANGED files \/ \E S : Remove(S)
      PROVE  Ended
  BY <1>e, <1>n DEF Ended
<1>21. CASE RmTest
  BY <1>21, <1>c DEF RmTest, GoOn
<1>22. CASE RmBuild
  BY <1>22, <1>c DEF RmBuild, GoOn, DropBuild
<1>23. CASE RmLaunch
  BY <1>23, <1>c DEF RmLaunch, GoOn
<1>24. CASE RmInstall
  BY <1>24, <1>c DEF RmInstall, GoOn
<1>25. CASE RmLogs
  <2>1. CASE Stop("ok")
    BY <1>25, <1>e, <2>1 DEF RmLogs
  <2>2. CASE \E s : GoTo(s)
    BY <1>25, <1>c, <2>2 DEF RmLogs
  <2> QED
    BY <1>25, <2>1, <2>2 DEF RmLogs, GoOn
<1>26. CASE RmBin
  <2>1. job \in Cleanings
    BY <1>26 DEF RmBin, Cleanings, Wholesale
  <2> QED
    BY <1>26, <1>c, <1>e, <2>1 DEF RmBin
<1>27. CASE RmAll
  <2>1. job \in Cleanings /\ UNCHANGED files
    BY <1>27 DEF RmAll, Cleanings
  <2>2. (\E s : GoTo(s)) \/ Stop("ok")
    BY <1>27 DEF RmAll
  <2> QED
    BY <1>c, <1>e, <2>1, <2>2
<1>28. CASE UNCHANGED vars
  BY <1>28
<1> QED
  BY <1>1, <1>2, <1>4, <1>5, <1>w, <1>6, <1>7, <1>8, <1>9, <1>10, <1>11, <1>12, <1>13,
     <1>14, <1>15, <1>16, <1>17, <1>18, <1>19, <1>20, <1>21, <1>22, <1>23, <1>24, <1>25,
     <1>26, <1>27, <1>28
  DEF Next, Make, Clean, Disturb

-----------------------------------------------------------------------------
(* The stack.                                                              *)

LEMMA OrderFacts ==
    ASSUME PackingRules
    PROVE  /\ "install" \in Last /\ "install" \notin Tails /\ Last = Tails \cup {"install"}
           /\ Last \subseteq Stages /\ Last \subseteq BuildFiles /\ Tails \subseteq BuildFiles
           /\ \A s \in BuildFiles : Tails \cap Below[s] = {}
           /\ \A s \in BuildFiles \ Tails : Last \cap Below[s] = {}
           /\ \A s \in Tails : RangeOf(Prereqs[s]) = {"install"} /\ SameDir[s] = {}
           /\ RangeOf(Prereqs["source"]) = {} /\ "source" \notin Last
           /\ \A a \in Arts : /\ RangeOf(Prereqs[a]) = Last /\ Below[a] = Below[Tar]
                              /\ 1 \in DOMAIN Prereqs[a] /\ Prereqs[a][1] = "install"
<1>1. Tar \in Arts /\ Tar \in Files
  BY ChainFacts
<1>2. Prereqs[Tar] \in Seq(Files) /\ Prereqs[Tar] # <<>> /\ Prereqs[Tar][1] = "install"
  BY <1>1, GraphAssumption DEF PackingRules
<1>3. 1 \in DOMAIN Prereqs[Tar]
  BY <1>2, EmptySeq, LenProperties
<1>4. "install" \in Last /\ "install" \notin Tails /\ Last = Tails \cup {"install"}
  BY <1>2, <1>3 DEF Last, Tails, RangeOf
<1>5. Last \subseteq Stages /\ Last \subseteq BuildFiles /\ Tails \subseteq BuildFiles
      /\ "source" \notin Last
  BY SourceIsNoStage DEF PackingRules, BuildFiles, Tails
<1>6. Below["source"] = {} /\ RangeOf(Prereqs["source"]) = {}
  <2>1. "source" \in Files /\ Below["source"] = {}
    BY TargetsAreFiles, GraphAssumption
  <2> QED
    BY <2>1, GraphAssumption
<1>7. /\ \A s \in Stages \ Tails : Last \cap Below[s] = {}
      /\ \A s \in Tails : Tails \cap Below[s] = {}
      /\ \A a \in Arts : Prereqs[a] = Prereqs[Tar] /\ Below[a] = Below[Tar]
      /\ \A s \in Tails : Prereqs[s] = <<"install">> /\ SameDir[s] = {}
  BY DEF PackingRules
<1>8. \A s \in Tails : RangeOf(Prereqs[s]) = {"install"} /\ SameDir[s] = {}
  <2>1. RangeOf(<<"install">>) = {"install"}
    BY DEF RangeOf
  <2> QED
    BY <1>7, <2>1
<1>9. \A s \in BuildFiles \ Tails : Last \cap Below[s] = {}
  BY <1>6, <1>7 DEF BuildFiles
<1>10. \A s \in BuildFiles : Tails \cap Below[s] = {}
  BY <1>4, <1>7, <1>9
<1> QED
  BY <1>2, <1>3, <1>4, <1>5, <1>6, <1>7, <1>8, <1>9, <1>10 DEF Last

\* One target more on the stack.
LEMMA PushStack ==
    ASSUME RunOK, Running, Descends, NEW i \in Unknown,
           stack' = Append(stack, PrereqsOf(Top)[i])
    PROVE  /\ Descends'
           /\ Len(stack) \in Nat /\ DOMAIN stack = 1..Len(stack)
           /\ Len(stack') = Len(stack) + 1
           /\ stack'[Len(stack) + 1] = PrereqsOf(Top)[i]
           /\ \A j \in 1..Len(stack) : stack'[j] = stack[j]
           /\ OnStack' = OnStack \cup {PrereqsOf(Top)[i]}
           /\ Top' = PrereqsOf(Top)[i]
<1>1. /\ Descends' /\ Len(stack') = Len(stack) + 1
      /\ stack'[Len(stack) + 1] = PrereqsOf(Top)[i]
      /\ DOMAIN stack = 1..Len(stack) /\ DOMAIN stack' = 1..(Len(stack) + 1)
      /\ \A j \in 1..Len(stack) : stack'[j] = stack[j]
  BY PushDescends
<1>2. Len(stack) \in Nat
  BY TopOK
<1>3. /\ \A j \in DOMAIN stack' : j \in DOMAIN stack \/ j = Len(stack) + 1
      /\ DOMAIN stack \subseteq DOMAIN stack' /\ Len(stack) + 1 \in DOMAIN stack'
  BY <1>1, <1>2
<1>4. OnStack' = OnStack \cup {PrereqsOf(Top)[i]}
  BY <1>1, <1>3 DEF OnStack, RangeOf
<1> QED
  BY <1>1, <1>2, <1>4 DEF Top

\* One target less on it.
LEMMA PopStack ==
    ASSUME RunOK, Running, Top \in Files, Descends,
           stack' = SubSeq(stack, 1, Len(stack) - 1)
    PROVE  /\ Descends'
           /\ Len(stack) \in Nat /\ Len(stack) > 1 /\ Len(stack') = Len(stack) - 1
           /\ DOMAIN stack = 1..Len(stack) /\ DOMAIN stack' = 1..(Len(stack) - 1)
           /\ \A j \in 1..(Len(stack) - 1) : stack'[j] = stack[j]
           /\ OnStack = OnStack' \cup {Top} /\ Top \notin OnStack'
           /\ Top' = stack[Len(stack) - 1] /\ Top' \in OnStack'
<1>1. /\ Descends' /\ Len(stack) \in Nat /\ Len(stack) > 1
      /\ DOMAIN stack = 1..Len(stack) /\ Len(stack') = Len(stack) - 1
      /\ DOMAIN stack' = 1..(Len(stack) - 1)
      /\ \A j \in DOMAIN stack' : j \in DOMAIN stack /\ stack'[j] = stack[j] /\ j < Len(stack)
  BY PopDescends
<1>2. Len(stack) \in DOMAIN stack /\ Len(stack) - 1 \in DOMAIN stack'
      /\ \A j \in DOMAIN stack : j = Len(stack) \/ j \in DOMAIN stack'
  BY <1>1
<1>3. OnStack = OnStack' \cup {Top}
  BY <1>1, <1>2 DEF OnStack, RangeOf, Top
<1>4. Top \notin OnStack'
  <2> SUFFICES ASSUME NEW j \in DOMAIN stack', stack'[j] = Top PROVE FALSE
    BY DEF OnStack, RangeOf
  <2>1. Top \in Below[Top]
    BY <1>1, <1>2 DEF Descends, Top
  <2> QED
    BY <2>1, GraphAssumption
<1>5. Top' = stack[Len(stack) - 1] /\ Top' \in OnStack'
  BY <1>1, <1>2 DEF Top, OnStack, RangeOf
<1> QED
  BY <1>1, <1>3, <1>4, <1>5

LEMMA TopOnStack == ASSUME RunOK, Running PROVE Top \in OnStack
<1>1. Len(stack) \in DOMAIN stack
  BY TopOK, LenProperties DEF RunOK
<1> QED
  BY <1>1 DEF Top, OnStack, RangeOf

\* What build files are made from are build files.
LEMMA NoStageAbove ==
    ASSUME RunOK, Running, Descends, Top \notin BuildFiles
    PROVE  OnStack \cap BuildFiles = {}
<1> SUFFICES ASSUME NEW j \in DOMAIN stack, stack[j] \in BuildFiles PROVE FALSE
  BY DEF OnStack, RangeOf
<1>1. Len(stack) \in DOMAIN stack /\ DOMAIN stack = 1..Len(stack) /\ Len(stack) \in Nat
  BY UnderGoal
<1>2. j < Len(stack)
  BY <1>1 DEF Top
<1>3. Top \in Below[stack[j]]
  BY <1>1, <1>2 DEF Descends, Top
<1> QED
  BY <1>3, BuildFileFacts

\* The prerequisite that make turns to: those before it are settled.
LEMMA Turn ==
    ASSUME RunOK, Running, NEW i \in FirstUnknown
    PROVE  /\ i \in Unknown /\ i \in DOMAIN Prereqs[Top]
           /\ PrereqsOf(Top) = Prereqs[Top]
           /\ Prereqs[Top][i] \in RangeOf(Prereqs[Top]) /\ Prereqs[Top][i] \notin known
           /\ Prereqs[Top][i] \in Below[Top] /\ Prereqs[Top][i] \in Files
           /\ \A j \in DOMAIN Prereqs[Top] : j < i => Prereqs[Top][j] \in known
           /\ Top \in Files \cup Goals
           /\ Top = "launch" => tarSeen
<1>1. i \in DOMAIN PrereqsOf(Top) /\ PrereqsOf(Top)[i] \notin known /\ i \in Unknown
      /\ \A j \in Unknown : i <= j
  BY DEF FirstUnknown, Unknown
<1>2. PrereqsOf(Top) = Prereqs[Top] /\ (Top = "launch" => tarSeen)
  BY <1>1, EmptySeq DEF PrereqsOf
<1>3. Top \in Files \cup Goals
  BY TopOK
<1>4. Prereqs[Top] \in Seq(Files)
  BY <1>3, GraphAssumption
<1>5. DOMAIN Prereqs[Top] \subseteq Nat
  BY <1>4, LenProperties
<1>6. \A j \in DOMAIN Prereqs[Top] : j < i => Prereqs[Top][j] \in known
  BY <1>1, <1>2, <1>5 DEF Unknown
<1>7. Prereqs[Top][i] \in RangeOf(Prereqs[Top]) /\ Prereqs[Top][i] \in Files
  BY <1>1, <1>2, <1>4, ElementOfSeq, LenProperties DEF RangeOf
<1>8. Prereqs[Top][i] \in Below[Top]
  BY <1>3, <1>7, GraphAssumption
<1> QED
  BY <1>1, <1>2, <1>3, <1>6, <1>7, <1>8

-----------------------------------------------------------------------------
(* The order of a run.                                                     *)

\* What is settled stays settled while only files it does not depend on are
\* written or go.
LEMMA TouchSettled ==
    ASSUME FilesOK, NEW s \in BuildFiles, ~MustMake(s), NEW f, Touch(f),
           f \notin Below[s], f # s
    PROVE  ~MustMake(s)'
<1>1. Reach(s) = Below[s] /\ Reach(s)' = Below[s]
  BY BuildFileFacts DEF Reach
<1>2. s \in present /\ \A q \in Below[s] : <<q, s>> \notin newer
  BY <1>1 DEF MustMake, Outdated
<1>3. s \in present' /\ \A q \in Below[s] : <<q, s>> \notin newer'
  BY <1>2 DEF Touch
<1> QED
  BY <1>1, <1>3 DEF MustMake, Outdated

LEMMA TouchedSettled ==
    ASSUME NEW s \in Files, Touch(s)
    PROVE  ~MustMake(s)'
<1>1. Reach(s)' \subseteq Below[s] /\ s \notin Below[s]
  BY GraphAssumption DEF Reach
<1>2. s \in present' /\ \A q \in Below[s] : <<q, s>> \notin newer'
  BY <1>1 DEF Touch
<1> QED
  BY <1>1, <1>2 DEF MustMake, Outdated

LEMMA RemoveSettled ==
    ASSUME NEW s, ~MustMake(s), NEW S, Remove(S), s \notin S, UNCHANGED tarSeen
    PROVE  ~MustMake(s)'
BY DEF MustMake, Outdated, Reach, Remove

LEMMA SameSettled ==
    ASSUME UNCHANGED files, NEW s \in BuildFiles
    PROVE  MustMake(s)' <=> MustMake(s)
<1>1. Reach(s) = Below[s] /\ Reach(s)' = Below[s]
  BY BuildFileFacts DEF Reach
<1> QED
  BY <1>1 DEF MustMake, Outdated, files

\* Nothing is known and at most the goal is being made.
LEMMA FreshOrderly ==
    ASSUME PackingRules, TypeOK', known' = {},
           \/ stack' = <<>> /\ ~Running'
           \/ step' = "scan" /\ \E g \in Goals : stack' = <<g>>
    PROVE  Orderly'
<1>1. (Len(stack') = 0 /\ DOMAIN stack' = {} /\ OnStack' = {})
      \/ \E g \in Goals : Len(stack') = 1 /\ DOMAIN stack' = {1} /\ OnStack' = {g}
  <2>1. CASE stack' = <<>>
    <3>1. Len(stack') = 0 /\ DOMAIN stack' = {}
      BY <2>1
    <3> QED
      BY <3>1 DEF OnStack, RangeOf
  <2>2. ASSUME NEW g \in Goals, stack' = <<g>>
        PROVE  Len(stack') = 1 /\ DOMAIN stack' = {1} /\ OnStack' = {g}
    <3>1. Len(stack') = 1 /\ DOMAIN stack' = {1} /\ stack'[1] = g
      BY <2>2
    <3> QED
      BY <3>1 DEF OnStack, RangeOf
  <2> QED
    BY <2>1, <2>2
<1>2. Descends' /\ InOrder'
  BY <1>1 DEF Descends, InOrder
<1>3. OnStack' \cap BuildFiles = {}
  BY <1>1, GoalsAreNoFiles DEF Files
<1>4. Apart' /\ LastSettled'
  BY DEF Apart, LastSettled
<1>5. Ready'
  BY DEF Ready
<1>6. UnderInstall'
  <2>1. Tails \cap OnStack' = {}
    BY <1>3, OrderFacts
  <2> QED
    BY <1>3, <2>1 DEF UnderInstall
<1> QED
  BY <1>2, <1>4, <1>5, <1>6 DEF Orderly

\* Outside the build only artifacts are made from stages, of which they name
\* install.stamp first.
LEMMA InstallFirst ==
    ASSUME PackingRules, RegressChain, RunOK, Running, NEW i \in FirstUnknown,
           Prereqs[Top][i] \in BuildFiles, Top \notin BuildFiles
    PROVE  /\ Top \in Arts /\ Prereqs[Top][i] \in Last
           /\ "install" \notin known => Prereqs[Top][i] = "install"
<1>1. /\ Prereqs[Top][i] \in RangeOf(Prereqs[Top])
      /\ \A j \in DOMAIN Prereqs[Top] : j < i => Prereqs[Top][j] \in known
      /\ Top \in Files \cup Goals /\ i \in DOMAIN Prereqs[Top]
  BY Turn
<1>2. Top \in Arts
  <2>1. /\ RangeOf(<<"test">>) = {"test"} /\ RangeOf(<<"launch">>) = {"launch"}
        /\ RangeOf(<<Tar>>) = {Tar}
    BY DEF RangeOf
  <2>2. Arts \cap BuildFiles = {} /\ TestFiles \cap BuildFiles = {} /\ Tar \in Arts
    BY ChainFacts, GraphAssumption DEF BuildFiles, TestFiles
  <2> QED
    BY <1>1, <2>1, <2>2 DEF RegressChain, PackingRules, Files, Goals, TestFiles
<1>3. RangeOf(Prereqs[Top]) = Last /\ 1 \in DOMAIN Prereqs[Top] /\ Prereqs[Top][1] = "install"
  BY <1>2, OrderFacts
<1>4. "install" \notin known => i = 1
  <2>1. DOMAIN Prereqs[Top] \subseteq Nat \ {0}
    BY <1>1, GraphAssumption, LenProperties
  <2> QED
    BY <1>1, <1>3, <2>1
<1> QED
  BY <1>1, <1>2, <1>3, <1>4

\* A step that leaves the run's targets alone.
LEMMA KeepOrderly ==
    ASSUME Orderly, TypeOK', UNCHANGED <<job, stack, known, tarSeen>>, LastSettled',
           Running /\ step' # "scan" => RangeOf(PrereqsOf(Top)) \subseteq known
    PROVE  Orderly'
<1>1. Descends' /\ InOrder' /\ Apart' /\ UnderInstall'
  BY DEF Orderly, Descends, InOrder, Apart, UnderInstall, OnStack, Running
<1>2. Ready'
  BY DEF Ready, Running, Top, PrereqsOf
<1> QED
  BY <1>1, <1>2 DEF Orderly

\* make is finished with a target that need not be remade.
LEMMA MarkOrderly ==
    ASSUME PackingRules, RegressChain, Orderly, TypeOK', Running, step' = "scan", NEW i \in FirstUnknown,
           known' = known \cup {Prereqs[Top][i]}, ~MustMake(Prereqs[Top][i]),
           UNCHANGED <<files, job, stack, tarSeen>>
    PROVE  Orderly'
<1> DEFINE t == Prereqs[Top][i]
<1>0. RunOK /\ Descends
  BY DEF Orderly, TypeOK
<1>1. /\ t \in RangeOf(Prereqs[Top]) /\ t \notin known /\ t \in Below[Top] /\ t \in Files
      /\ \A j \in DOMAIN Prereqs[Top] : j < i => Prereqs[Top][j] \in known
      /\ Top \in Files \cup Goals /\ i \in DOMAIN Prereqs[Top]
  BY <1>0, Turn
<1>2. known' = known \cup {t} /\ ~MustMake(t)
  OBVIOUS
<1> HIDE DEF t
<1>3. Descends' /\ InOrder' /\ Ready'
  BY <1>2 DEF Orderly, Descends, InOrder, Ready
<1>4. t \notin OnStack
  <2> SUFFICES ASSUME NEW j \in DOMAIN stack, stack[j] = t PROVE FALSE
    BY DEF OnStack, RangeOf
  <2>1. Len(stack) \in DOMAIN stack /\ DOMAIN stack = 1..Len(stack) /\ Len(stack) \in Nat
    BY <1>0, UnderGoal
  <2>2. CASE j = Len(stack)
    <3>1. t = Top
      BY <2>2 DEF Top
    <3> QED
      BY <1>1, <3>1, GraphAssumption
  <2>3. CASE j # Len(stack)
    <3>1. j < Len(stack)
      BY <2>1, <2>3
    <3>2. Top \in Below[t]
      BY <2>1, <3>1 DEF Orderly, Descends, Top
    <3> QED
      BY <1>1, <3>2, GraphAssumption
  <2> QED
    BY <2>2, <2>3
<1>5. Apart'
  BY <1>2, <1>4 DEF Orderly, Apart, OnStack, Running
<1>6. LastSettled'
  <2>1. \A s \in Last : MustMake(s)' <=> MustMake(s)
    BY OrderFacts, SameSettled
  <2> QED
    BY <1>2, <2>1 DEF Orderly, LastSettled
<1>7. UnderInstall'
  <2>0. UnderInstall /\ OnStack' = OnStack /\ Top \in OnStack
    BY <1>0, TopOnStack DEF Orderly, OnStack
  <2>1. CASE "install" \in known
    BY <1>2, <2>0, <2>1 DEF UnderInstall
  <2>2. CASE "install" \notin known /\ t # "install"
    <3>1. t \notin Tails
      <4> SUFFICES ASSUME t \in Tails PROVE FALSE
        OBVIOUS
      <4>1. Top \notin BuildFiles
        BY <1>1, OrderFacts
      <4>2. t \in BuildFiles
        BY OrderFacts
      <4> QED
        BY <1>0, <2>2, <4>1, <4>2, InstallFirst DEF t
    <3> QED
      BY <1>2, <2>0, <2>2, <3>1 DEF UnderInstall
  <2>3. CASE "install" \notin known /\ t = "install"
    <3>1. Top \notin BuildFiles
      BY <1>1, <2>0, <2>3, OrderFacts DEF UnderInstall
    <3>2. OnStack \cap BuildFiles = {}
      BY <1>0, <3>1, NoStageAbove
    <3> QED
      BY <1>2, <2>0, <2>3, <3>2 DEF UnderInstall
  <2> QED
    BY <2>1, <2>2, <2>3
<1> QED
  BY <1>3, <1>5, <1>6, <1>7 DEF Orderly

\* make takes up another target.
LEMMA PushOrderly ==
    ASSUME PackingRules, RegressChain, Orderly, TypeOK', Running, step' = "scan",
           NEW i \in FirstUnknown, stack' = Append(stack, Prereqs[Top][i]),
           UNCHANGED <<files, job, known, tarSeen>>
    PROVE  Orderly'
<1> DEFINE t == Prereqs[Top][i]
<1>0. RunOK /\ Descends /\ i \in Unknown /\ PrereqsOf(Top) = Prereqs[Top]
  BY Turn DEF Orderly, TypeOK
<1>1. /\ t \in RangeOf(Prereqs[Top]) /\ t \notin known /\ t \in Below[Top] /\ t \in Files
      /\ \A j \in DOMAIN Prereqs[Top] : j < i => Prereqs[Top][j] \in known
      /\ Top \in Files \cup Goals /\ i \in DOMAIN Prereqs[Top]
  BY <1>0, Turn
<1>2. /\ Descends' /\ Len(stack) \in Nat /\ DOMAIN stack = 1..Len(stack)
      /\ Len(stack') = Len(stack) + 1
      /\ stack'[Len(stack) + 1] = t
      /\ \A j \in 1..Len(stack) : stack'[j] = stack[j]
      /\ OnStack' = OnStack \cup {t}
  BY <1>0, PushStack
<1> HIDE DEF t
<1>3. InOrder'
  <2> SUFFICES ASSUME NEW k \in 1..Len(stack)
               PROVE  \E m \in DOMAIN Prereqs[stack'[k]] :
                         /\ stack'[k + 1] = Prereqs[stack'[k]][m]
                         /\ \A j \in DOMAIN Prereqs[stack'[k]] :
                               j < m => Prereqs[stack'[k]][j] \in known'
    <3>1. 1..(Len(stack') - 1) = 1..Len(stack)
      BY <1>2
    <3> QED
      BY <3>1 DEF InOrder
  <2>1. CASE k = Len(stack)
    <3>1. stack'[k] = Top /\ stack'[k + 1] = t
      BY <1>2, <2>1 DEF Top
    <3> QED
      BY <1>1, <3>1 DEF t
  <2>2. CASE k # Len(stack)
    <3>1. k \in 1..(Len(stack) - 1) /\ k + 1 \in 1..Len(stack)
      BY <1>2, <2>2
    <3>2. stack'[k] = stack[k] /\ stack'[k + 1] = stack[k + 1]
      BY <1>2, <3>1
    <3> QED
      BY <3>1, <3>2 DEF Orderly, InOrder
  <2> QED
    BY <2>1, <2>2
<1>4. Apart' /\ Ready'
  BY <1>1, <1>2 DEF Orderly, Apart, Ready, Running
<1>5. LastSettled'
  <2>1. \A s \in Last : MustMake(s)' <=> MustMake(s)
    BY OrderFacts, SameSettled
  <2> QED
    BY <2>1 DEF Orderly, LastSettled
<1>6. UnderInstall'
  <2>0. UnderInstall /\ Top \in OnStack
    BY <1>0, TopOnStack DEF Orderly
  <2>1. CASE "install" \in known
    <3>1. t \in BuildFiles => t \in Tails
      <4> SUFFICES ASSUME t \in BuildFiles PROVE t \in Tails
        OBVIOUS
      <4>1. CASE Top \in BuildFiles
        <5>1. RangeOf(Prereqs[Top]) = {"install"}
          BY <2>0, <2>1, <4>1, OrderFacts DEF UnderInstall
        <5> QED
          BY <1>1, <2>1, <5>1
      <4>2. CASE Top \notin BuildFiles
        BY <1>0, <1>1, <2>1, <4>2, InstallFirst, OrderFacts DEF t
      <4> QED
        BY <4>1, <4>2
    <3> QED
      BY <1>2, <2>0, <2>1, <3>1 DEF UnderInstall
  <2>2. CASE "install" \notin known
    <3>1. t \notin Tails /\ (t \in BuildFiles => "install" \in OnStack')
      <4>1. CASE Top \in BuildFiles
        BY <1>1, <1>2, <2>0, <2>2, <4>1, OrderFacts DEF UnderInstall
      <4>2. CASE Top \notin BuildFiles /\ t \in BuildFiles
        <5>1. t = "install"
          BY <1>0, <2>2, <4>2, InstallFirst DEF t
        <5> QED
          BY <1>2, <5>1, OrderFacts
      <4>3. CASE t \notin BuildFiles
        BY <4>3, OrderFacts
      <4> QED
        BY <4>1, <4>2, <4>3
    <3> QED
      BY <1>2, <2>0, <2>2, <3>1 DEF UnderInstall
  <2> QED
    BY <2>1, <2>2
<1> QED
  BY <1>2, <1>3, <1>4, <1>5, <1>6 DEF Orderly

\* While a stage is being made the last ones are not known, unless it is one
\* of them.
LEMMA LastWait ==
    ASSUME PackingRules, Orderly, Running, Top \in BuildFiles
    PROVE  Last \cap known = {} \/ Top \in Tails
<1>1. Top \in OnStack /\ UnderInstall
  BY TopOnStack DEF Orderly, TypeOK
<1> QED
  BY <1>1, OrderFacts DEF UnderInstall

\* A recipe ends well.
LEMMA PopOrderly ==
    ASSUME PackingRules, Orderly, TypeOK', Finished
    PROVE  Orderly'
<1>0. RunOK /\ FilesOK /\ Descends /\ Running /\ Top \in Files /\ UnderInstall
      /\ known' = known \cup {Top} /\ step' = "scan"
  BY DEF Orderly, TypeOK, Finished
<1>1. /\ Descends' /\ Len(stack) \in Nat /\ Len(stack) > 1 /\ Len(stack') = Len(stack) - 1
      /\ DOMAIN stack = 1..Len(stack) /\ DOMAIN stack' = 1..(Len(stack) - 1)
      /\ \A j \in 1..(Len(stack) - 1) : stack'[j] = stack[j]
      /\ OnStack = OnStack' \cup {Top} /\ Top \notin OnStack'
  BY <1>0, PopStack DEF Finished
<1>2. InOrder'
  <2> SUFFICES ASSUME NEW k \in 1..(Len(stack') - 1)
               PROVE  \E m \in DOMAIN Prereqs[stack'[k]] :
                         /\ stack'[k + 1] = Prereqs[stack'[k]][m]
                         /\ \A j \in DOMAIN Prereqs[stack'[k]] :
                               j < m => Prereqs[stack'[k]][j] \in known'
    BY DEF InOrder
  <2>1. /\ k \in 1..(Len(stack) - 1) /\ k + 1 \in 1..(Len(stack) - 1)
    BY <1>1
  <2>2. stack'[k] = stack[k] /\ stack'[k + 1] = stack[k + 1]
    BY <1>1, <2>1
  <2> QED
    BY <1>0, <2>1, <2>2 DEF Orderly, InOrder
<1>3. Apart'
  BY <1>0, <1>1 DEF Orderly, Apart, Finished, Running
<1>4. Ready'
  BY <1>0 DEF Ready
<1>5. UnderInstall'
  <2>1. CASE "install" \in known
    BY <1>0, <1>1, <2>1 DEF UnderInstall
  <2>2. CASE "install" \notin known /\ Top # "install"
    <3>1. Top \notin Tails
      BY <1>1, <1>0, <2>2 DEF UnderInstall
    <3> QED
      BY <1>0, <1>1, <2>2, <3>1 DEF UnderInstall
  <2>3. CASE "install" \notin known /\ Top = "install"
    <3> SUFFICES ASSUME NEW j \in DOMAIN stack', stack'[j] \in BuildFiles PROVE FALSE
      BY <1>0, <2>3 DEF UnderInstall, OnStack, RangeOf
    <3>1. j \in DOMAIN stack /\ j < Len(stack) /\ Len(stack) \in DOMAIN stack
          /\ stack'[j] = stack[j]
      BY <1>1
    <3>2. "install" \in Below[stack[j]]
      BY <1>0, <2>3, <3>1 DEF Descends, Top
    <3>3. stack[j] \in Tails /\ stack[j] \in OnStack
      BY <3>1, <3>2, OrderFacts DEF OnStack, RangeOf
    <3> QED
      BY <1>0, <2>2, <2>3, <3>3 DEF UnderInstall
  <2> QED
    BY <2>1, <2>2, <2>3
<1>6. LastSettled'
  <2> SUFFICES ASSUME NEW s \in Last, s \in known' PROVE ~MustMake(s)'
    BY DEF LastSettled
  <2>0. s \in BuildFiles /\ (s \in known => ~MustMake(s))
    BY OrderFacts DEF Orderly, LastSettled
  <2>1. CASE Touch(Top) /\ s = Top
    BY <1>0, <2>1, TouchedSettled
  <2>2. CASE Touch(Top) /\ s # Top
    <3>1. s \in known
      BY <1>0, <2>2
    <3>2. Top \notin Below[s]
      <4>1. CASE Top \in BuildFiles
        <5>1. Top \in Tails
          BY <1>0, <3>1, <4>1, LastWait
        <5> QED
          BY <2>0, <5>1, OrderFacts
      <4>2. CASE Top \notin BuildFiles
        BY <2>0, <4>2, BuildFileFacts
      <4> QED
        BY <4>1, <4>2
    <3> QED
      BY <1>0, <2>0, <2>2, <3>1, <3>2, TouchSettled
  <2>3. CASE UNCHANGED files /\ Top \in Piped
    <3>1. Top \notin BuildFiles
      BY <2>3, GraphAssumption DEF Archives, BuildFiles
    <3> QED
      BY <1>0, <2>0, <2>3, <3>1, SameSettled
  <2> QED
    BY <2>1, <2>2, <2>3 DEF Finished
<1> QED
  BY <1>1, <1>2, <1>3, <1>4, <1>5, <1>6 DEF Orderly

LEMMA ConsiderKinds ==
    ASSUME TypeOK, Consider
    PROVE  /\ Running /\ step = "scan" /\ step' = "scan"
           /\ UNCHANGED <<files, contents, job, tarSeen, outcome>>
           /\ \E i \in FirstUnknown :
                 \/ /\ known' = known \cup {Prereqs[Top][i]} /\ UNCHANGED stack
                    /\ ~MustMake(Prereqs[Top][i])
                 \/ /\ stack' = Append(stack, Prereqs[Top][i]) /\ UNCHANGED known
                    /\ MustMake(Prereqs[Top][i])
<1>1. \A i \in FirstUnknown : PrereqsOf(Top) = Prereqs[Top]
  BY Turn DEF TypeOK, Consider
<1> QED
  BY <1>1 DEF Consider

LEMMA NextOrderly ==
    ASSUME PackingRules, RegressChain, Orderly, [Next]_vars
    PROVE  Orderly'
<1>0. TypeOK /\ TypeOK' /\ RunOK /\ FilesOK /\ LastSettled /\ Ready /\ Apart
  BY NextTypeOK DEF Orderly, TypeOK
<1>n. "idle" \notin Goals /\ Goals \cap Cleanings = {}
  BY ChainFacts
<1>s. UNCHANGED files /\ known' = known => LastSettled'
  <2>1. UNCHANGED files => \A s \in Last : MustMake(s)' <=> MustMake(s)
    BY OrderFacts, SameSettled
  <2> QED
    BY <1>0, <2>1 DEF LastSettled
<1>1. CASE Started
  <2>1. CASE job' \in Goals
    BY <1>0, <1>1, <2>1, FreshOrderly DEF Started
  <2>2. CASE job' \notin Goals
    BY <1>0, <1>1, <2>2, FreshOrderly DEF Started, Running
  <2> QED
    BY <2>1, <2>2
<1>2. CASE Ended
  <2>1. known' = {} /\ stack' = <<>> /\ job' = "idle"
    BY <1>2 DEF Ended, Stop
  <2> QED
    BY <1>0, <1>n, <2>1, FreshOrderly DEF Running
<1>3. CASE Consider
  <2>1. PICK i \in FirstUnknown :
          \/ /\ known' = known \cup {Prereqs[Top][i]} /\ UNCHANGED stack
             /\ ~MustMake(Prereqs[Top][i])
          \/ stack' = Append(stack, Prereqs[Top][i]) /\ UNCHANGED known
    BY <1>0, <1>3, ConsiderKinds
  <2>2. Running /\ step' = "scan" /\ UNCHANGED <<files, job, tarSeen>>
    BY <1>0, <1>3, ConsiderKinds
  <2> QED
    BY <1>0, <2>1, <2>2, MarkOrderly, PushOrderly
<1>4. CASE Worked
  <2>1. /\ Running /\ UNCHANGED <<job, stack, known, tarSeen>>
        /\ RangeOf(PrereqsOf(Top)) \subseteq known
    <3>1. step # "scan" \/ Unknown = {}
      BY <1>4 DEF Worked
    <3> QED
      BY <1>0, <1>4, <3>1 DEF Worked, GoTo, Ready, Unknown, RangeOf
  <2>2. LastSettled'
    <3>1. CASE UNCHANGED files
      BY <1>s, <2>1, <3>1
    <3>2. ASSUME NEW S, Remove(S), Last \cap known = {} \/ S = {} PROVE LastSettled'
      BY <1>0, <2>1, <3>2, RemoveSettled DEF LastSettled
    <3>3. CASE Top \in Stages /\ Remove(SameDir[Top])
      <4>1. Last \cap known = {} \/ SameDir[Top] = {}
        BY <2>1, <3>3, LastWait, OrderFacts DEF BuildFiles
      <4> QED
        BY <3>2, <3>3, <4>1
    <3>4. CASE Top = "source" /\ \E S : Remove(S)
      <4>1. "source" \in BuildFiles /\ "source" \notin Tails
        BY OrderFacts DEF BuildFiles, Tails
      <4>2. Last \cap known = {}
        BY <2>1, <3>4, <4>1, LastWait
      <4> QED
        BY <3>2, <3>4, <4>2
    <3>5. CASE Top \in Piped /\ Touch(Top)
      <4>1. Top \notin BuildFiles
        BY <3>5, GraphAssumption DEF Archives, BuildFiles
      <4> SUFFICES ASSUME NEW s \in Last, s \in known' PROVE ~MustMake(s)'
        BY DEF LastSettled
      <4>2. s \in BuildFiles /\ ~MustMake(s) /\ Below[s] \subseteq BuildFiles
        BY <1>0, <2>1, OrderFacts, BuildFileFacts DEF LastSettled
      <4> QED
        BY <1>0, <3>5, <4>1, <4>2, TouchSettled
    <3> QED
      BY <1>4, <3>1, <3>3, <3>4, <3>5 DEF Worked
  <2> QED
    BY <1>0, <2>1, <2>2, KeepOrderly
<1>5. CASE Finished
  BY <1>0, <1>5, PopOrderly
<1>6. CASE Cleaned
  <2>1. ~Running /\ known = {} /\ UNCHANGED <<job, stack, known, tarSeen>>
    BY <1>0, <1>6, <1>n DEF Cleaned, Running, Apart
  <2>2. LastSettled'
    BY <2>1 DEF LastSettled
  <2> QED
    BY <1>0, <2>1, <2>2, KeepOrderly
<1>7. CASE UNCHANGED vars
  <2>1. UNCHANGED <<job, stack, known, tarSeen, step>> /\ UNCHANGED files
    BY <1>7 DEF vars, run
  <2> QED
    BY <1>0, <1>s, <2>1, KeepOrderly DEF Ready
<1> QED
  BY <1>0, <1>1, <1>2, <1>3, <1>4, <1>5, <1>6, <1>7, StepKinds

-----------------------------------------------------------------------------
(* The artifacts.                                                          *)

\* Whether an artifact is out of date.
LEMMA ArtFacts ==
    ASSUME PackingRules, NEW a \in Arts
    PROVE  /\ Outdated(a) <=> a \in present /\ \E q \in Below[Tar] : <<q, a>> \in newer
           /\ Outdated(a)' <=> a \in present' /\ \E q \in Below[Tar] : <<q, a>> \in newer'
           /\ Below[Tar] \subseteq BuildFiles /\ a \notin BuildFiles /\ a \in Files
           /\ a \notin TestFiles /\ a \notin Goals
<1>1. a \notin BuildFiles /\ a \notin TestFiles /\ a \in Files /\ a \notin Goals
  <2>1. a \notin BuildFiles /\ a \notin TestFiles /\ a \in Files
    BY GraphAssumption DEF BuildFiles, Files
  <2> QED
    BY <2>1, GoalsAreNoFiles
<1>2. Below[a] = Below[Tar] /\ Below[Tar] \subseteq BuildFiles
  BY OrderFacts, ChainFacts, GraphAssumption
<1> QED
  BY <1>1, <1>2 DEF Outdated, Reach

\* In a package run artifacts are made for the goal alone.
LEMMA ArtsForPackage ==
    ASSUME PackingRules, RegressChain, RunOK, Running, Descends, job = "package",
           NEW k \in DOMAIN stack, NEW a \in Arts, a \in RangeOf(Prereqs[stack[k]])
    PROVE  stack[k] = "package"
<1> SUFFICES ASSUME k # 1 PROVE FALSE
  BY DEF RunOK, Running
<1>1. stack[k] \in Below["package"] /\ stack[k] \in Files
  BY UnderGoal
<1>2. a \in Below[stack[k]]
  BY <1>1, GraphAssumption
<1>3. stack[k] \notin BuildFiles /\ stack[k] \notin Arts
  BY <1>2, ArtFacts, BuildFileFacts, OrderFacts
<1>4. stack[k] \in TestFiles
  BY <1>1, <1>3 DEF Files
<1>5. "launch" \in Below["test"]
  <2>1. RangeOf(<<"launch">>) = {"launch"}
    BY DEF RangeOf
  <2> QED
    BY <2>1, ChainFacts, TargetsAreFiles, GraphAssumption DEF RegressChain
<1>6. "launch" \in Below["package"]
  BY <1>1, <1>4, <1>5, GraphAssumption DEF TestFiles, Goals
<1> QED
  BY <1>6 DEF RegressChain

LEMMA InPackageGoal ==
    ASSUME RunOK, Running, Descends, Top = "package"
    PROVE  job = "package" /\ Top \notin Files
<1>1. "package" \notin Files
  BY GoalsAreNoFiles DEF Goals
<1>2. Len(stack) = 1
  BY <1>1, UnderGoal DEF Top
<1> QED
  BY <1>1, <1>2 DEF Top, RunOK, Running

\* An artifact that make is finished with in a package run: so are those that
\* the goal lists before it.
LEMMA MarkArts ==
    ASSUME PackingRules, RegressChain, Orderly, ArtsInOrder, UNCHANGED <<files, job>>,
           Running, NEW i \in FirstUnknown, known' = known \cup {Prereqs[Top][i]},
           ~MustMake(Prereqs[Top][i])
    PROVE  ArtsInOrder'
<1> DEFINE P == Prereqs["package"]
           t == Prereqs[Top][i]
<1>0. RunOK /\ Descends
  BY DEF Orderly, TypeOK
<1>1. /\ t \in RangeOf(Prereqs[Top]) /\ t \notin known /\ i \in DOMAIN Prereqs[Top]
      /\ \A j \in DOMAIN Prereqs[Top] : j < i => Prereqs[Top][j] \in known
  BY <1>0, Turn
<1> SUFFICES ASSUME job = "package", NEW k \in DOMAIN P, NEW j \in DOMAIN P, k < j,
                    P[j] \in known'
             PROVE  /\ P[k] \in known'
                    /\ \A q \in Below[Tar] : <<q, P[j]>> \in newer' => <<q, P[k]>> \in newer'
  BY DEF ArtsInOrder
<1>2. CASE P[j] \in known
  BY <1>2 DEF ArtsInOrder, files
<1>3. CASE P[j] \notin known
  <2>1. P[j] = t /\ t \in Arts
    BY <1>3 DEF PackingRules, RangeOf
  <2>2. Top = "package"
    <3>1. Len(stack) \in DOMAIN stack
      BY <1>0, UnderGoal
    <3> QED
      BY <1>0, <1>1, <2>1, <3>1, ArtsForPackage DEF Top
  <2>3. j = i
    BY <1>1, <2>1, <2>2 DEF PackingRules
  <2>4. P[k] \in known
    BY <1>1, <2>2, <2>3
  <2>5. \A q \in Below[Tar] : <<q, P[j]>> \notin newer'
    BY <2>1, ArtFacts DEF MustMake, files
  <2> QED
    BY <2>4, <2>5
<1> QED
  BY <1>2, <1>3

\* Nothing more is known and no artifact that is known is written.
LEMMA KeepArts ==
    ASSUME PackingRules, Orderly, ArtsInOrder, UNCHANGED <<job, known>>,
           Running => known \cap Arts \subseteq present,
           \/ UNCHANGED files
           \/ \E S \in SUBSET BuildFiles : Remove(S)
           \/ \E f \in Files \ known : Touch(f)
    PROVE  ArtsInOrder'
<1> DEFINE P == Prereqs["package"]
<1> SUFFICES ASSUME job = "package", NEW k \in DOMAIN P, NEW j \in DOMAIN P, k < j,
                    P[j] \in known, NEW q \in Below[Tar], <<q, P[j]>> \in newer'
             PROVE  P[k] \in known /\ <<q, P[k]>> \in newer'
  BY DEF ArtsInOrder
<1>1. /\ P[k] \in known /\ (<<q, P[j]>> \in newer => <<q, P[k]>> \in newer)
      /\ P[k] \in Arts /\ P[j] \in Arts
  BY DEF ArtsInOrder, PackingRules, RangeOf
<1>2. P[k] \in present /\ P[k] \notin BuildFiles
  BY <1>1, ArtFacts DEF Running, Goals
<1>3. CASE UNCHANGED files
  BY <1>1, <1>3 DEF files
<1>4. CASE \E S \in SUBSET BuildFiles : Remove(S)
  BY <1>1, <1>2, <1>4 DEF Remove
<1>5. ASSUME NEW f \in Files \ known, Touch(f) PROVE <<q, P[k]>> \in newer'
  BY <1>1, <1>2, <1>5 DEF Touch
<1> QED
  BY <1>1, <1>3, <1>4, <1>5

\* A recipe ends well.
LEMMA PopArts ==
    ASSUME PackingRules, RegressChain, Orderly, ArtsInOrder, Finished,
           known \cap Arts \subseteq present,
           step = "packing" => Top \in present \cap Piped /\ ~Outdated(Top)
    PROVE  ArtsInOrder'
<1> DEFINE P == Prereqs["package"]
<1>0. /\ RunOK /\ Descends /\ Running /\ Top \in Files /\ job' = job
      /\ known' = known \cup {Top} /\ Apart /\ InOrder
  BY DEF Orderly, TypeOK, Finished
<1>1. Top \notin known
  BY <1>0, TopOnStack DEF Apart
<1> SUFFICES ASSUME job = "package", NEW k \in DOMAIN P, NEW j \in DOMAIN P, k < j,
                    P[j] \in known'
             PROVE  /\ P[k] \in known'
                    /\ \A q \in Below[Tar] : <<q, P[j]>> \in newer' => <<q, P[k]>> \in newer'
  BY <1>0 DEF ArtsInOrder
<1>2. P[k] \in Arts /\ P[j] \in Arts
  BY DEF PackingRules, RangeOf
<1>3. CASE P[j] \in known
  <2>1. /\ P[k] \in known
        /\ \A q \in Below[Tar] : <<q, P[j]>> \in newer => <<q, P[k]>> \in newer
    BY <1>3 DEF ArtsInOrder
  <2>2. P[k] \in present /\ P[k] # Top
    BY <1>1, <1>2, <2>1
  <2>3. \A q \in Below[Tar] : <<q, P[j]>> \in newer' => <<q, P[k]>> \in newer'
    BY <2>1, <2>2 DEF Finished, Touch, files
  <2> QED
    BY <1>0, <2>1, <2>3
<1>4. CASE P[j] \notin known
  <2>1. P[j] = Top /\ Top \in Arts
    BY <1>0, <1>2, <1>4
  <2>2. /\ Len(stack) \in Nat /\ Len(stack) > 1 /\ DOMAIN stack = 1..Len(stack)
        /\ Len(stack) - 1 \in 1..(Len(stack) - 1) /\ Len(stack) - 1 + 1 = Len(stack)
        /\ Len(stack) - 1 \in DOMAIN stack
    BY <1>0, TopOK, UnderGoal
  <2>3. PICK m \in DOMAIN Prereqs[stack[Len(stack) - 1]] :
          /\ Top = Prereqs[stack[Len(stack) - 1]][m]
          /\ \A h \in DOMAIN Prereqs[stack[Len(stack) - 1]] :
                h < m => Prereqs[stack[Len(stack) - 1]][h] \in known
    BY <1>0, <2>2 DEF InOrder, Top
  <2>4. stack[Len(stack) - 1] = "package"
    BY <1>0, <2>1, <2>2, <2>3, ArtsForPackage DEF RangeOf
  <2>5. j = m /\ P[k] \in known
    BY <2>1, <2>3, <2>4 DEF PackingRules
  <2>6. \A q \in Below[Tar] : <<q, P[j]>> \notin newer'
    <3>1. Top \notin Below[Tar]
      BY <2>1, ArtFacts
    <3>2. CASE Touch(Top)
      BY <2>1, <3>1, <3>2 DEF Touch
    <3>3. CASE UNCHANGED files /\ step = "packing"
      BY <2>1, <3>3, ArtFacts DEF files
    <3> QED
      BY <3>2, <3>3 DEF Finished
  <2> QED
    BY <1>0, <2>5, <2>6
<1> QED
  BY <1>3, <1>4

\* The goal ends well.
LEMMA PackageEnds ==
    ASSUME PackingRules, SettledInv, Running, Top = "package", Unknown = {},
           UNCHANGED <<files, tarSeen>>
    PROVE  SettledAfterSuccess' /\ StaleArtifactsFirst'
<1> DEFINE P == Prereqs["package"]
<1>0. RunOK /\ Descends /\ job = "package" /\ LastSettled
  BY InPackageGoal DEF SettledInv, Orderly, TypeOK
<1>1. \A i \in DOMAIN P : P[i] \in known
  BY DEF Unknown, PrereqsOf
<1>2. \A a \in Arts : a \in known /\ a \in present
  BY <1>1 DEF SettledInv, PackingRules, RangeOf
<1>3. \A a \in Arts : Outdated(a)' <=> Outdated(a)
  BY DEF files, Outdated, Reach
<1>4. SettledAfterSuccess'
  <2> SUFFICES ASSUME NEW a \in Arts
               PROVE  /\ a \in present'
                      /\ Outdated(a)' => \A s \in RangeOf(Prereqs[a]) : ~MustMake(s)'
    BY DEF SettledAfterSuccess
  <2>1. a \in present'
    BY <1>2 DEF files
  <2>2. ASSUME Outdated(a)', NEW s \in RangeOf(Prereqs[a]) PROVE ~MustMake(s)'
    <3>1. Last \subseteq known
      BY <1>2, <1>3, <2>2 DEF SettledInv
    <3>2. s \in Last /\ s \in BuildFiles
      BY <2>2, OrderFacts
    <3> QED
      BY <1>0, <3>1, <3>2, SameSettled DEF LastSettled
  <2> QED
    BY <2>1, <2>2
<1>5. StaleArtifactsFirst'
  <2> SUFFICES ASSUME NEW i \in DOMAIN P, NEW j \in DOMAIN P, i < j, Outdated(P[j])'
               PROVE  Outdated(P[i])'
    BY DEF StaleArtifactsFirst
  <2>1. P[i] \in Arts /\ P[j] \in Arts
    BY DEF PackingRules, RangeOf
  <2>2. \A q \in Below[Tar] : <<q, P[j]>> \in newer => <<q, P[i]>> \in newer
    BY <1>0, <1>1 DEF SettledInv, ArtsInOrder
  <2> QED
    BY <1>2, <1>3, <2>1, <2>2, ArtFacts
<1> QED
  BY <1>4, <1>5

LEMMA NextSettled ==
    ASSUME PackingRules, RegressChain, SettledInv, [Next]_vars
    PROVE  SettledInv'
<1>0. /\ Orderly /\ Orderly' /\ TypeOK /\ TypeOK' /\ RunOK /\ FilesOK /\ Descends /\ Apart
      /\ Ready /\ InOrder
  BY NextOrderly DEF SettledInv, Orderly, TypeOK
<1>n. /\ "idle" \notin Goals \cup Cleanings /\ Goals \cap Cleanings = {}
      /\ "package" \in Goals /\ "source" \in BuildFiles
      /\ BuildFiles \cap Arts = {} /\ Stages \subseteq BuildFiles
      /\ Piped \subseteq Arts /\ BuildFiles \subseteq Files /\ "package" \notin Files
      /\ Arts \subseteq Files
  BY ChainFacts, GoalsAreNoFiles, GraphAssumption DEF Goals, BuildFiles, Files, Archives
\* Nothing of the invariant is about a state in which make does not run.
<1>q. ASSUME ~Running', known' = {},
             outcome' = <<"package", "ok">> => job' = "idle",
             outcome' = <<"package", "ok">> => SettledAfterSuccess' /\ StaleArtifactsFirst'
      PROVE  SettledInv'
  <2>1. ArtsInOrder'
    BY <1>q DEF ArtsInOrder
  <2>2. SettledAfterSuccess' /\ StaleArtifactsFirst'
    BY <1>q DEF SettledAfterSuccess, StaleArtifactsFirst
  <2> QED
    BY <1>0, <1>q, <2>1, <2>2 DEF SettledInv
\* While it runs it has not ended.
<1>r. ASSUME Running, UNCHANGED outcome
      PROVE  /\ outcome' # <<"package", "ok">>
             /\ SettledAfterSuccess' /\ StaleArtifactsFirst'
  <2>1. outcome' # <<"package", "ok">>
    BY <1>n, <1>r DEF SettledInv, Running
  <2> QED
    BY <2>1 DEF SettledAfterSuccess, StaleArtifactsFirst
<1>1. CASE Started
  <2>1. known' = {} /\ outcome' # <<"package", "ok">> /\ (job' \in Goals => step' = "scan")
    BY <1>1 DEF Started
  <2>2. ArtsInOrder' /\ SettledAfterSuccess' /\ StaleArtifactsFirst'
    BY <2>1 DEF ArtsInOrder, SettledAfterSuccess, StaleArtifactsFirst
  <2> QED
    BY <1>0, <2>1, <2>2 DEF SettledInv, Running
<1>2. CASE Ended
  <2>1. ~Running' /\ known' = {} /\ job' = "idle" /\ UNCHANGED tarSeen
    BY <1>2, <1>n DEF Ended, Stop, Running
  <2>2. ASSUME outcome' = <<"package", "ok">>
        PROVE  SettledAfterSuccess' /\ StaleArtifactsFirst'
    <3>1. job = "package" /\ UNCHANGED files /\ Running /\ Top = job /\ Unknown = {}
      BY <1>2, <1>n, <2>2 DEF Ended, Stop
    <3> QED
      BY <2>1, <3>1, PackageEnds
  <2> QED
    BY <1>q, <2>1, <2>2
<1>3. CASE Consider
  <2>1. /\ Running /\ step' = "scan" /\ UNCHANGED <<files, job, tarSeen, outcome>>
        /\ Running' /\ outcome' # <<"package", "ok">>
        /\ SettledAfterSuccess' /\ StaleArtifactsFirst'
    BY <1>0, <1>3, <1>r, ConsiderKinds DEF Running
  <2>2. PICK i \in FirstUnknown :
          \/ /\ known' = known \cup {Prereqs[Top][i]} /\ UNCHANGED stack
             /\ ~MustMake(Prereqs[Top][i])
          \/ /\ stack' = Append(stack, Prereqs[Top][i]) /\ UNCHANGED known
             /\ MustMake(Prereqs[Top][i])
    BY <1>0, <1>3, ConsiderKinds
  <2> DEFINE t == Prereqs[Top][i]
  <2>3. t \in Files /\ PrereqsOf(Top) = Prereqs[Top] /\ i \in Unknown
    BY <1>0, <2>1, Turn
  <2>4. \A a \in Arts : Outdated(a)' <=> Outdated(a)
    BY <2>1, ArtFacts DEF files
  <2>5. CASE known' = known \cup {t} /\ UNCHANGED stack /\ ~MustMake(t)
    <3>1. ArtsInOrder'
      BY <2>1, <2>5, MarkArts DEF SettledInv
    <3> HIDE DEF t
    <3>2. known' \cap Arts \subseteq present'
      BY <2>1, <2>5 DEF SettledInv, MustMake, files
    <3>3. Top' = "package" => Last \subseteq known' \/ \A a \in known' \cap Arts : ~Outdated(a)'
      BY <2>1, <2>4, <2>5 DEF SettledInv, MustMake, Top
    <3> QED
      BY <1>0, <2>1, <3>1, <3>2, <3>3 DEF SettledInv
  <2>6. CASE stack' = Append(stack, t) /\ UNCHANGED known
    <3>1. ArtsInOrder'
      BY <2>1, <2>6, KeepArts DEF SettledInv
    <3>2. Top' # "package"
      BY <1>0, <1>n, <2>1, <2>3, <2>6, PushStack
    <3> QED
      BY <1>0, <2>1, <2>6, <3>1, <3>2 DEF SettledInv, files
  <2> QED
    BY <2>2, <2>5, <2>6
<1>4. CASE Worked
  <2>1. /\ Running /\ Running' /\ UNCHANGED <<job, stack, known, outcome>> /\ Top' = Top
        /\ step' # "scan"
    BY <1>4 DEF Worked, GoTo, Running, Top
  <2>2. /\ outcome' # <<"package", "ok">>
        /\ SettledAfterSuccess' /\ StaleArtifactsFirst'
    BY <1>r, <2>1
  <2>3. \/ UNCHANGED files /\ step' # "packing"
        \/ Top \in BuildFiles /\ step' # "packing" /\ \E S \in SUBSET BuildFiles : Remove(S)
        \/ Top \in Piped /\ Touch(Top) /\ step' = "packing"
    <3>1. ASSUME Top \in Stages PROVE SameDir[Top] \in SUBSET BuildFiles
      BY <1>n, <3>1, GraphAssumption
    <3> QED
      BY <1>4, <1>n, <3>1 DEF Worked
  <2>4. Top \notin known
    BY <1>0, <2>1, TopOnStack DEF Apart
  <2>5. ArtsInOrder'
    BY <1>0, <1>n, <2>1, <2>3, <2>4, KeepArts DEF SettledInv
  <2>6. known' \cap Arts \subseteq present'
    BY <1>n, <2>1, <2>3 DEF SettledInv, Remove, Touch, files
  <2>7. step' = "packing" => Top' \in present' \cap Piped /\ ~Outdated(Top)'
    <3> SUFFICES ASSUME NEW x \in Files, x = Top, x \in Piped, Touch(x)
                 PROVE  x \in present' /\ ~Outdated(x)'
      BY <1>n, <2>1, <2>3 DEF Outdated, Reach
    <3>1. ~MustMake(x)'
      BY TouchedSettled
    <3> QED
      BY <3>1 DEF MustMake
  <2>8. Top' = "package" => Last \subseteq known' \/ \A a \in known' \cap Arts : ~Outdated(a)'
    <3> SUFFICES ASSUME Top = "package"
                 PROVE  Last \subseteq known \/ \A a \in known \cap Arts : ~Outdated(a)'
      BY <2>1
    <3>1. UNCHANGED files
      BY <1>n, <2>3
    <3> QED
      BY <2>1, <3>1, ArtFacts DEF SettledInv, files
  <2> QED
    BY <1>0, <2>1, <2>2, <2>5, <2>6, <2>7, <2>8 DEF SettledInv
<1>5. CASE Finished
  <2>1. /\ Running /\ Running' /\ UNCHANGED <<job, outcome>> /\ step' = "scan"
        /\ known' = known \cup {Top} /\ Top \in Files
    BY <1>5 DEF Finished, Running
  <2>2. /\ outcome' # <<"package", "ok">>
        /\ SettledAfterSuccess' /\ StaleArtifactsFirst'
    BY <1>r, <2>1
  <2>3. ArtsInOrder'
    BY <1>5, <2>1, PopArts DEF SettledInv
  <2>4. known' \cap Arts \subseteq present'
    <3>1. CASE Touch(Top)
      BY <2>1, <3>1 DEF SettledInv, Touch
    <3>2. CASE UNCHANGED files /\ step = "packing"
      BY <2>1, <3>2 DEF SettledInv, files
    <3> QED
      BY <1>5, <3>1, <3>2 DEF Finished
  <2>5. Top' = "package" => Last \subseteq known'
    <3> SUFFICES ASSUME Top' = "package" PROVE Last \subseteq known
      BY <2>1
    <3>1. /\ Len(stack) \in Nat /\ Len(stack) > 1 /\ Top' = stack[Len(stack) - 1]
      BY <1>0, <1>5, <2>1, PopStack DEF Finished
    <3>2. Len(stack) - 1 \in 1..(Len(stack) - 1) /\ Len(stack) - 1 + 1 = Len(stack)
      BY <3>1
    <3>3. Top \in RangeOf(Prereqs["package"])
      BY <1>0, <3>1, <3>2 DEF InOrder, RangeOf, Top
    <3>4. Top \in Arts /\ Top # "launch"
      BY <3>3, ChainFacts DEF PackingRules
    <3>5. RangeOf(PrereqsOf(Top)) = Last
      BY <3>4, OrderFacts DEF PrereqsOf
    <3> QED
      BY <1>0, <1>5, <2>1, <3>5 DEF Ready, Finished
  <2> QED
    BY <1>0, <2>1, <2>2, <2>3, <2>4, <2>5 DEF SettledInv
<1>6. CASE Cleaned
  <2>1. ~Running /\ ~Running' /\ known' = {} /\ UNCHANGED outcome /\ job # "idle"
    BY <1>0, <1>6, <1>n DEF Cleaned, Running, Apart
  <2>2. outcome' # <<"package", "ok">>
    BY <2>1 DEF SettledInv
  <2> QED
    BY <1>q, <2>1, <2>2
<1>7. CASE UNCHANGED vars
  <2>1. UNCHANGED <<present, newer, job, stack, known, tarSeen, step, outcome>>
    BY <1>7 DEF vars, run, files
  <2>2. /\ \A f : Outdated(f)' <=> Outdated(f)
        /\ \A f : MustMake(f)' <=> MustMake(f)
        /\ Top' = Top /\ (Running' <=> Running)
    BY <2>1 DEF Outdated, MustMake, Reach, Top, Running
  <2>3. ArtsInOrder' /\ SettledAfterSuccess' /\ StaleArtifactsFirst'
    BY <2>1, <2>2 DEF SettledInv, ArtsInOrder, SettledAfterSuccess, StaleArtifactsFirst
  <2>4. Running' /\ step' = "packing" => Top' \in present' \cap Piped /\ ~Outdated(Top)'
    BY <2>1, <2>2 DEF SettledInv
  <2> QED
    BY <1>0, <2>1, <2>2, <2>3, <2>4 DEF SettledInv
<1> QED
  BY <1>0, <1>1, <1>2, <1>3, <1>4, <1>5, <1>6, <1>7, StepKinds

LEMMA InitSettled ==
    ASSUME PackingRules, Init
    PROVE  SettledInv
<1>1. TypeOK /\ Descends /\ OnStack = {} /\ ~Running /\ known = {}
  <2>1. DOMAIN stack = {} /\ Len(stack) = 0
    BY DEF Init
  <2> QED
    BY <2>1, InitTypeOK DEF Init, Descends, OnStack, RangeOf, Running, Goals
<1>2. InOrder
  BY DEF Init, InOrder
<1>3. Orderly
  BY <1>1, <1>2 DEF Orderly, Apart, Ready, UnderInstall, LastSettled
<1> QED
  BY <1>1, <1>3 DEF Init, SettledInv, ArtsInOrder, SettledAfterSuccess, StaleArtifactsFirst

(***************************************************************************)
(* A run of make takes up targets in the order of the rules, and what it   *)
(* is finished with of the artifacts and the stamps they are packed from   *)
(* stays as the end of a package run needs it: whatever is killed, stopped *)
(* or cleaned in between, for any package that packs its artifacts as      *)
(* Package.mk does.                                                        *)
(***************************************************************************)
THEOREM RunsAreOrderly ==
    ASSUME PackingRules, RegressChain
    PROVE  Spec => []SettledInv
<1>1. Init => SettledInv
  BY InitSettled
<1>2. SettledInv /\ [Next]_vars => SettledInv'
  BY NextSettled
<1> QED
  BY <1>1, <1>2, PTL DEF Spec

(***************************************************************************)
(* After a package run that ended well every artifact is in bin, and one   *)
(* that is older than what it is packed from (its turn came first) only    *)
(* has to be packed again: install.stamp and libs.stamp are current.       *)
(***************************************************************************)
THEOREM SuccessSettles ==
    ASSUME PackingRules, RegressChain
    PROVE  Spec => []SettledAfterSuccess
<1>1. SettledInv => SettledAfterSuccess
  BY DEF SettledInv
<1> QED
  BY <1>1, RunsAreOrderly, PTL

(***************************************************************************)
(* After such a run the artifacts that are out of date come first in the   *)
(* list of the package goal: no new archive stands beside an old one that  *)
(* the goal lists after it.                                                *)
(***************************************************************************)
THEOREM NoStaleAfterCurrent ==
    ASSUME PackingRules, RegressChain
    PROVE  Spec => []StaleArtifactsFirst
<1>1. SettledInv => StaleArtifactsFirst
  BY DEF SettledInv
<1> QED
  BY <1>1, RunsAreOrderly, PTL
=============================================================================
