----------------------- MODULE PackageCompleteProofs -----------------------
(***************************************************************************)
(* An archive that unpacks holds every stage of its package, for the rules *)
(* of any package whose stages form a tree in which the stage that links   *)
(* several others links the first of them; and what a regress run that     *)
(* found a tarball has run came out of it.                                 *)
(***************************************************************************)
EXTENDS PackageOrderProofs

\* Wherever the assumption is cited, what it says is visible.
USE DEF GraphOK

-----------------------------------------------------------------------------
(* What the kinds of step do to INSTALL and to the archives.               *)

\* Nothing is packed.
NonePacked == \A a \in Archives \cap present' : a \in present /\ art'[a] = art[a]

LEMMA Packless ==
    ASSUME UNCHANGED art, UNCHANGED files \/ (\E S : Remove(S)) \/ \E f \in Files \ Archives : Touch(f)
    PROVE  NonePacked
BY DEF NonePacked, Remove, Touch, files

LEMMA StartedContents ==
    ASSUME [Next]_vars, Started
    PROVE  UNCHANGED <<installed, art>> /\ (job' \in Goals => tarSeen' = (Tar \in present))
<1>1. job = "idle" /\ job' # "idle"
  BY ChainFacts DEF Started
<1>2. job \notin Goals \cup Cleanings
  BY <1>1, ChainFacts
<1>3. ~Make /\ ~Clean /\ ~Disturb
  BY <1>1, <1>2
  DEF Make, Clean, Disturb, Consider, Settle, WipeInstall, WipeLogs, WipeBuild, Fetch,
      StageBegin, StageInstall, StageFinish, PackBegin, PackFinish, Merge, Copy,
      LaunchBegin, LaunchFinish, TestRun, Doomed, RmTest, RmBuild, RmLaunch, RmInstall,
      RmLogs, RmBin, RmAll, PackShort, RecipeError, Interrupt, Crash, InRecipe, Running,
      Cleanings, Wholesale
<1> QED
  BY <1>1, <1>3, ChainFacts DEF Next, StartGoal, StartCleaning, contents, vars, run

LEMMA EndedContents ==
    ASSUME [Next]_vars, Ended
    PROVE  UNCHANGED <<installed, art>>
<1>1. job # "idle" /\ job' = "idle"
  BY DEF Ended, Stop
<1>2. job' \notin Goals \cup Cleanings
  BY <1>1, ChainFacts
<1>3. CASE Make
  BY <1>1, <1>3
  DEF Make, Consider, Settle, WipeInstall, WipeLogs, WipeBuild, Fetch,
      StageBegin, StageInstall, StageFinish, PackBegin, PackFinish, Merge, Copy,
      LaunchBegin, LaunchFinish, TestRun, Doomed, Made, GoTo, contents
<1>4. CASE Clean
  BY <1>1, <1>4
  DEF Clean, RmTest, RmBuild, RmLaunch, RmInstall, RmLogs, RmBin, RmAll, GoTo, GoOn, contents
<1>5. CASE Disturb
  BY <1>1, <1>5 DEF Disturb, PackShort, RecipeError, Interrupt, Crash, contents
<1>6. CASE UNCHANGED vars
  BY <1>1, <1>6 DEF vars, run
<1> QED
  BY <1>1, <1>3, <1>4, <1>5, <1>6 DEF Next, StartGoal, StartCleaning

LEMMA CleanedContents ==
    ASSUME [Next]_vars, Cleaned, Emptied
    PROVE  /\ UNCHANGED art /\ installed' \subseteq installed
           /\ installed' = installed \/ present \cap BuildFiles = {}
<1>1. job \in Cleanings /\ job' = job /\ job # "idle" /\ ~Running
  BY ChainFacts DEF Cleaned, Running
<1>2. ~Make
  BY <1>1
  DEF Make, Consider, Settle, WipeInstall, WipeLogs, WipeBuild, Fetch,
      StageBegin, StageInstall, StageFinish, PackBegin, PackFinish, Merge, Copy,
      LaunchBegin, LaunchFinish, TestRun, Doomed
<1>3. CASE RmInstall
  <2>1. present \cap BuildFiles = {}
    BY <1>3 DEF RmInstall, Emptied
  <2> QED
    BY <1>3, <2>1 DEF RmInstall
<1>4. CASE RmTest \/ RmBuild \/ RmLaunch \/ RmLogs \/ RmBin \/ RmAll
  BY <1>4 DEF RmTest, RmBuild, RmLaunch, RmLogs, RmBin, RmAll, contents
<1>5. CASE Disturb
  BY <1>1, <1>5 DEF Disturb, PackShort, RecipeError, Interrupt, Crash, InRecipe, contents
<1>6. CASE UNCHANGED vars
  BY <1>6 DEF vars, contents
<1> QED
  BY <1>1, <1>2, <1>3, <1>4, <1>5, <1>6 DEF Next, StartGoal, StartCleaning, Clean

\* A clean-up packs nothing.
LEMMA CleanedArt ==
    ASSUME [Next]_vars, Cleaned
    PROVE  UNCHANGED art
<1>1. job \in Cleanings /\ job' = job /\ job # "idle" /\ ~Running
  BY ChainFacts DEF Cleaned, Running
<1>2. ~Make
  BY <1>1
  DEF Make, Consider, Settle, WipeInstall, WipeLogs, WipeBuild, Fetch,
      StageBegin, StageInstall, StageFinish, PackBegin, PackFinish, Merge, Copy,
      LaunchBegin, LaunchFinish, TestRun, Doomed
<1>3. CASE Clean
  BY <1>3 DEF Clean, RmTest, RmBuild, RmLaunch, RmInstall, RmLogs, RmBin, RmAll, contents
<1>4. CASE Disturb
  BY <1>1, <1>4 DEF Disturb, PackShort, RecipeError, Interrupt, Crash, InRecipe, contents
<1>5. CASE UNCHANGED vars
  BY <1>5 DEF vars, contents
<1> QED
  BY <1>1, <1>2, <1>3, <1>4, <1>5 DEF Next, StartGoal, StartCleaning

LEMMA WorkedKinds ==
    ASSUME TypeOK, [Next]_vars, Worked
    PROVE  /\ \/ /\ UNCHANGED installed
                 /\ \/ step' = step \/ step' \notin {"build", "installing"}
                    \/ step' = "build" /\ Top \in Stages /\ CanBuild
              \/ /\ Top = "source" /\ installed' \subseteq installed /\ UNCHANGED files
                 /\ step' \notin {"build", "installing"}
              \/ /\ Top \in Stages /\ UNCHANGED files
                 /\ \E D \in SUBSET Discards : installed' = installed \ (D \cup {Top})
                 /\ step = "build" /\ step' = "installing"
           /\ \/ NonePacked /\ UNCHANGED art
              \/ /\ Top \in Piped /\ Touch(Top) /\ step' = "packing"
                 /\ art' = [art EXCEPT ![Top] = [whole |-> FALSE, has |-> {}]]
           /\ Top = "launch" /\ step' = "unpacking" => step = "unpacking" \/ art[Tar].whole
<1>1. Running /\ step' # "scan" /\ UNCHANGED <<job, stack, known>> /\ job # "idle"
      /\ job' # "idle" /\ job \notin Cleanings
  BY ChainFacts DEF Worked, GoTo, Running
<1>2. CASE Settle \/ WipeLogs \/ WipeBuild \/ LaunchBegin
  <2>1. UNCHANGED <<installed, art>> /\ step' \notin {"build", "installing"}
        /\ (step' = "unpacking" => art[Tar].whole)
    BY <1>1, <1>2
    DEF Settle, WipeLogs, WipeBuild, LaunchBegin, GoTo, Stop, contents
  <2>2. UNCHANGED files \/ \E S : Remove(S)
    BY <1>2 DEF Settle, WipeLogs, WipeBuild, DropBuild, LaunchBegin
  <2> QED
    BY <2>1, <2>2, Packless
<1>3. CASE WipeInstall
  <2>1. Top = "source" /\ installed' \subseteq installed /\ UNCHANGED files
        /\ step' \notin {"build", "installing", "unpacking"} /\ UNCHANGED art
    BY <1>3 DEF WipeInstall, GoTo
  <2> QED
    BY <2>1, Packless
<1>4. CASE StageBegin
  <2>1. UNCHANGED <<installed, art>> /\ (\E S : Remove(S)) /\ Top \in Stages
    BY <1>4 DEF StageBegin
  <2>2. step' \notin {"build", "installing", "unpacking"}
        \/ (step' = "build" /\ CanBuild)
    BY <1>4 DEF StageBegin, GoTo
  <2> QED
    BY <2>1, <2>2, Packless
<1>5. CASE StageInstall
  <2>1. /\ Top \in Stages /\ UNCHANGED files /\ UNCHANGED art
        /\ \E D \in SUBSET Discards : installed' = installed \ (D \cup {Top})
        /\ step = "build" /\ step' = "installing"
    BY <1>5 DEF StageInstall, GoTo
  <2> QED
    BY <2>1, Packless
<1>6. CASE PackBegin
  BY <1>6 DEF PackBegin, GoTo
<1>7. CASE Copy \/ TestRun
  <2>1. UNCHANGED <<installed, art>> /\ step' \notin {"build", "installing", "unpacking"}
        /\ UNCHANGED files
    BY <1>1, <1>7 DEF Copy, TestRun, GoTo, Made, contents
  <2> QED
    BY <2>1, Packless
<1>8. CASE UNCHANGED vars
  BY <1>8, Packless DEF vars, run, contents
<1>9. CASE Consider
  BY <1>1, <1>9 DEF Consider
<1>10. CASE Fetch \/ StageFinish \/ PackFinish \/ Merge \/ LaunchFinish \/ PackShort
  BY <1>1, <1>10 DEF Fetch, StageFinish, PackFinish, Merge, LaunchFinish, PackShort, Made
<1>11. CASE Doomed \/ RecipeError \/ Interrupt \/ Crash
  BY <1>1, <1>11 DEF Doomed, RecipeError, Interrupt, Crash, Stop
<1>12. ~Clean
  BY <1>1 DEF Clean, RmTest, RmBuild, RmLaunch, RmInstall, RmLogs, RmBin, RmAll, Cleanings, Wholesale
<1> QED
  BY <1>1, <1>2, <1>3, <1>4, <1>5, <1>6, <1>7, <1>8, <1>9, <1>10, <1>11, <1>12
  DEF Next, StartGoal, StartCleaning, Make, Disturb

\* In a package without the two recipes of its own that gcc has.
LEMMA WorkedContents ==
    ASSUME TypeOK, [Next]_vars, Worked, Lax = {}, Listers = {}
    PROVE  \/ /\ UNCHANGED installed
              /\ \/ step' = step \/ step' \notin {"build", "installing"}
                 \/ step' = "build" /\ Top \in Stages /\ Needs[Top] \subseteq installed
           \/ /\ Top = "source" /\ installed' \subseteq installed /\ UNCHANGED files
              /\ step' \notin {"build", "installing"}
           \/ /\ Top \in Stages /\ installed' = installed \ {Top} /\ UNCHANGED files
              /\ step = "build" /\ step' = "installing"
<1>1. Discards = {} /\ (CanBuild => Needs[Top] \subseteq installed)
  BY DEF Discards, CanBuild, Idle
<1>2. \A D \in SUBSET Discards : installed \ (D \cup {Top}) = installed \ {Top}
  BY <1>1
<1> QED
  BY <1>1, <1>2, WorkedKinds

\* What an archive holds once its recipe has ended.
Packed ==
    /\ Top \in Archives
    /\ \A a \in Archives \cap present' : a # Top => a \in present /\ art'[a] = art[a]
    /\ \/ art'[Top] = [whole |-> TRUE, has |-> installed]
       \/ /\ Top \in Merged \cap present
          /\ art'[Top] = [whole |-> TRUE, has |-> art[Top].has \cup installed]

LEMMA FinishedContents ==
    ASSUME TypeOK, [Next]_vars, Finished, "short" \notin Faults
    PROVE  \/ Fetch /\ NonePacked /\ UNCHANGED art
           \/ StageFinish /\ NonePacked /\ UNCHANGED art
           \/ /\ Top \notin BuildFiles /\ UNCHANGED installed
              /\ \/ Top \in Archives /\ Packed
                 \/ Top \notin Archives /\ NonePacked /\ UNCHANGED art
                    /\ (Top = "launch" => step = "unpacking")
<1>1. /\ Running /\ step # "scan" /\ step' = "scan" /\ job # "idle" /\ job' = job
      /\ job \notin Cleanings /\ Top \in Files
  BY ChainFacts DEF Finished, Running
<1>n. /\ Archives \cap BuildFiles = {} /\ Arts \cap BuildFiles = {} /\ Archives \subseteq Files
      /\ "source" \in Files \ Archives /\ Stages \subseteq Files \ Archives
      /\ "launch" \in Files \ (Archives \cup BuildFiles) /\ Piped \subseteq Archives
      /\ "test" \in Files \ (Archives \cup BuildFiles) /\ Merged \subseteq Archives
      /\ "launch" \notin Arts /\ "test" # "launch" /\ Arts \subseteq Files
  BY GraphAssumption, TargetsAreFiles DEF BuildFiles, Archives, TestFiles
<1>2. CASE Fetch
  BY <1>2, <1>n, Packless DEF Fetch
<1>3. CASE StageFinish
  BY <1>3, <1>n, Packless DEF StageFinish
<1>4. CASE PackFinish \/ Merge
  <2>0. art \in [Archives -> Holding] /\ Top \in Archives /\ UNCHANGED installed
    BY <1>4, <1>n DEF TypeOK, ContentsOK, PackFinish, Merge
  <2>1. UNCHANGED files \/ Touch(Top)
    BY <1>4 DEF PackFinish, Merge
  <2>2. \/ art' = [art EXCEPT ![Top] = [whole |-> TRUE, has |-> installed]]
        \/ /\ Top \in Merged \cap present
           /\ art' = [art EXCEPT ![Top] = [whole |-> TRUE, has |-> art[Top].has \cup installed]]
    BY <1>4 DEF PackFinish, Merge
  <2> QED
    BY <1>n, <2>0, <2>1, <2>2 DEF Packed, Touch, files
<1>5. CASE Copy \/ LaunchFinish \/ TestRun
  <2>1. UNCHANGED <<installed, art>> /\ Touch(Top) /\ Top \in Files \ (Archives \cup BuildFiles)
    BY <1>1, <1>5, <1>n DEF Copy, LaunchFinish, TestRun, GoTo, contents
  <2>2. Top = "launch" => step = "unpacking"
    BY <1>5, <1>n DEF Copy, LaunchFinish, TestRun
  <2> QED
    BY <2>1, <2>2, Packless
<1>6. CASE UNCHANGED vars
  BY <1>1, <1>6 DEF vars, run
<1>7. CASE Consider \/ Settle
  BY <1>1, <1>7 DEF Consider, Settle
<1>8. CASE WipeInstall \/ WipeLogs \/ WipeBuild \/ StageBegin \/ StageInstall \/ PackBegin
           \/ LaunchBegin
  BY <1>1, <1>8
  DEF WipeInstall, WipeLogs, WipeBuild, StageBegin, StageInstall, PackBegin, LaunchBegin, GoTo
<1>9. CASE PackShort \/ Doomed \/ RecipeError \/ Interrupt \/ Crash
  BY <1>1, <1>9 DEF PackShort, Doomed, RecipeError, Interrupt, Crash, Stop
<1>10. ~Clean
  BY <1>1 DEF Clean, RmTest, RmBuild, RmLaunch, RmInstall, RmLogs, RmBin, RmAll, Cleanings, Wholesale
<1> QED
  BY <1>1, <1>2, <1>3, <1>4, <1>5, <1>6, <1>7, <1>8, <1>9, <1>10
  DEF Next, StartGoal, StartCleaning, Make, Disturb

-----------------------------------------------------------------------------
(* The tree of stages.                                                     *)

LEMMA LinkFacts ==
    ASSUME LinkedRules
    PROVE  /\ PackingRules /\ Lax = {} /\ Listers = {} /\ Shipped = Fills
           /\ \A s \in Stages : s \in BuildFiles /\ s # "source"
           /\ \A s \in BuildFiles : s \in Stages \/ s = "source"
           /\ \A s \in Stages : RangeOf(Prereqs[s]) \subseteq Below[s]
           /\ \A s \in Stages : RangeOf(Prereqs[s]) \subseteq BuildFiles \ Tails
           /\ \A s, k \in Stages : \A t \in RangeOf(Prereqs[s]) \cap Stages :
                 t \in Below[k] => k = s \/ s \in Below[k]
           /\ "install" \in Stages \ Tails /\ "source" \in BuildFiles \ (Stages \cup Tails)
<1>1. PackingRules /\ Lax = {} /\ Listers = {} /\ Shipped = Fills
  BY DEF LinkedRules, Shipped
<1>2. "source" \notin Stages
  BY SourceIsNoStage
<1>3. /\ \A s \in Stages : s \in BuildFiles /\ s # "source"
      /\ \A s \in BuildFiles : s \in Stages \/ s = "source"
      /\ "install" \in Stages \ Tails /\ "source" \in BuildFiles \ (Stages \cup Tails)
  BY <1>1, <1>2, OrderFacts DEF BuildFiles
<1>4. \A s \in Stages : RangeOf(Prereqs[s]) \subseteq Below[s]
  BY TargetsAreFiles, GraphAssumption
<1>5. \A s \in Stages : RangeOf(Prereqs[s]) \subseteq BuildFiles \ Tails
  BY <1>1, <1>3, <1>4, BuildFileFacts, OrderFacts
<1>6. \A s, k \in Stages : \A t \in RangeOf(Prereqs[s]) \cap Stages :
         t \in Below[k] => k = s \/ s \in Below[k]
  BY <1>2 DEF LinkedRules
<1> QED
  BY <1>1, <1>3, <1>4, <1>5, <1>6

LEMMA Acyclic ==
    ASSUME NEW s \in BuildFiles, NEW t \in Below[s]
    PROVE  t \in BuildFiles /\ t # s /\ s \notin Below[t] /\ Below[t] \subseteq Below[s]
BY BuildFileFacts, GraphAssumption

\* A prerequisite that make turns to is not being made already.
LEMMA NewTarget ==
    ASSUME RunOK, Running, Descends, NEW i \in FirstUnknown
    PROVE  Prereqs[Top][i] \notin OnStack
<1> DEFINE t == Prereqs[Top][i]
<1>1. t \in Below[Top] /\ t \in Files /\ Top \in Files \cup Goals
  BY Turn
<1> HIDE DEF t
<1> SUFFICES ASSUME NEW j \in DOMAIN stack, stack[j] = t PROVE FALSE
  BY DEF OnStack, RangeOf, t
<1>2. Len(stack) \in DOMAIN stack /\ DOMAIN stack = 1..Len(stack) /\ Len(stack) \in Nat
  BY UnderGoal
<1>3. CASE j = Len(stack)
  <2>1. t = Top
    BY <1>3 DEF Top
  <2> QED
    BY <1>1, <2>1, GraphAssumption
<1>4. CASE j # Len(stack)
  <2>1. j < Len(stack)
    BY <1>2, <1>4
  <2>2. Top \in Below[t]
    BY <1>2, <2>1 DEF Descends, Top
  <2> QED
    BY <1>1, <2>2, GraphAssumption
<1> QED
  BY <1>3, <1>4

\* What a stage waits for is not made on behalf of another one.
LEMMA Waiting ==
    ASSUME LinkedRules, Descends, NEW p \in DOMAIN stack, NEW r \in DOMAIN stack, p < r,
           stack[p] \in Stages, NEW t \in RangeOf(Prereqs[stack[p]]) \cap Stages
    PROVE  t \notin Below[stack[r]]
<1>1. stack[p] \in BuildFiles /\ stack[r] \in Below[stack[p]]
  BY LinkFacts DEF Descends
<1>2. stack[r] \in BuildFiles /\ stack[r] # stack[p] /\ stack[p] \notin Below[stack[r]]
  BY <1>1, Acyclic
<1>3. CASE stack[r] = "source"
  BY <1>3, GraphAssumption
<1>4. CASE stack[r] \in Stages
  BY <1>2, <1>4, LinkFacts
<1> QED
  BY <1>2, <1>3, <1>4, LinkFacts

LEMMA FreshStack ==
    ASSUME stack' = <<>> \/ \E g \in Goals : stack' = <<g>>
    PROVE  OnStack' \cap BuildFiles = {}
<1>1. CASE stack' = <<>>
  <2>1. DOMAIN stack' = {}
    BY <1>1
  <2> QED
    BY <2>1 DEF OnStack, RangeOf
<1>2. ASSUME NEW g \in Goals, stack' = <<g>> PROVE OnStack' \cap BuildFiles = {}
  <2>1. DOMAIN stack' = {1} /\ stack'[1] = g
    BY <1>2
  <2> QED
    BY <2>1, GoalsAreNoFiles DEF OnStack, RangeOf, Files
<1> QED
  BY <1>1, <1>2

\* Whose turn it is: a stage, on behalf of a stage or of an artifact.
LEMMA TurnOfStage ==
    ASSUME LinkedRules, RegressChain, RunOK, Running, Lineage, NEW i \in FirstUnknown,
           NEW t \in Stages, t = Prereqs[Top][i],
           NEW k \in Stages \ Tails, t \in Below[k]
    PROVE  k \in OnStack
<1>1. t \in RangeOf(Prereqs[Top]) /\ Top \in OnStack
  BY Turn, TopOnStack
<1>2. CASE Top \in BuildFiles
  <2>1. Top \in Stages
    BY <1>1, <1>2, LinkFacts, OrderFacts
  <2>2. k = Top \/ Top \in Below[k]
    BY <1>1, <2>1, LinkFacts
  <2> QED
    BY <1>1, <2>1, <2>2 DEF Lineage
<1>3. CASE Top \notin BuildFiles
  BY <1>3, LinkFacts, InstallFirst, OrderFacts
<1> QED
  BY <1>2, <1>3

LEMMA PushLine ==
    ASSUME LinkedRules, RegressChain, Orderly, Orderly', Lineage, HandedUp, LinkedFirst,
           Running, NEW i \in FirstUnknown, stack' = Append(stack, Prereqs[Top][i]),
           UNCHANGED known
    PROVE  Lineage' /\ HandedUp' /\ LinkedFirst'
<1> DEFINE t == Prereqs[Top][i]
<1>0. RunOK /\ Descends /\ PackingRules
  BY LinkFacts DEF Orderly, TypeOK
<1>1. OnStack' = OnStack \cup {t} /\ t \notin OnStack /\ t \notin known
  BY <1>0, PushStack, Turn, NewTarget
<1>2. ASSUME t \in Stages, NEW k \in Stages \ Tails, t \in Below[k] PROVE k \in OnStack
  BY <1>0, <1>2, TurnOfStage
<1> HIDE DEF t
<1>3. Lineage'
  BY <1>1, <1>2 DEF Lineage
<1>4. HandedUp'
  BY <1>1 DEF HandedUp
<1>5. ASSUME t \in Stages, RangeOf(Prereqs[t]) \cap known \cap Stages # {}
      PROVE  Prereqs[t][1] \in known
  <2>1. "install" \in known
    BY <1>1, <1>5 DEF HandedUp
  <2>2. t \in Tails
    BY <1>1, <1>5, <2>1, LinkFacts DEF Orderly, UnderInstall
  <2> QED
    BY <1>0, <2>1, <2>2 DEF PackingRules
<1>6. LinkedFirst'
  BY <1>1, <1>5 DEF LinkedFirst
<1> QED
  BY <1>3, <1>4, <1>6

LEMMA MarkLine ==
    ASSUME LinkedRules, RegressChain, Orderly, Lineage, HandedUp, LinkedFirst,
           Running, NEW i \in FirstUnknown, known' = known \cup {Prereqs[Top][i]},
           UNCHANGED stack
    PROVE  Lineage' /\ HandedUp' /\ LinkedFirst'
<1> DEFINE t == Prereqs[Top][i]
<1>0. RunOK /\ Descends /\ PackingRules /\ OnStack' = OnStack /\ known' = known \cup {t}
  BY LinkFacts DEF Orderly, TypeOK, OnStack
<1>1. /\ t \in RangeOf(Prereqs[Top]) /\ t \in Below[Top] /\ i \in DOMAIN Prereqs[Top]
      /\ \A j \in DOMAIN Prereqs[Top] : j < i => Prereqs[Top][j] \in known
      /\ Top \in Files \cup Goals
  BY <1>0, Turn
<1>2. ASSUME t \in Stages, NEW k \in Stages \ Tails, t \in Below[k] PROVE k \in OnStack
  BY <1>0, <1>2, TurnOfStage
<1>3. Prereqs[Top][1] \in known'
  <2>1. Prereqs[Top] \in Seq(Files)
    BY <1>1, GraphAssumption
  <2>2. i = 1 \/ (1 \in DOMAIN Prereqs[Top] /\ 1 < i)
    BY <1>1, <2>1, LenProperties
  <2> QED
    BY <1>0, <1>1, <2>2
<1> HIDE DEF t
<1>4. Lineage'
  BY <1>0 DEF Lineage
<1>5. HandedUp'
  <2>1. ASSUME t \in Stages, NEW s \in Stages, t \in RangeOf(Prereqs[s])
        PROVE  s \in OnStack \/ "install" = t
    <3>1. CASE s \in Tails
      BY <1>0, <2>1, <3>1, OrderFacts
    <3>2. CASE s \notin Tails
      BY <1>2, <2>1, <3>2, LinkFacts
    <3> QED
      BY <3>1, <3>2
  <2> QED
    BY <1>0, <2>1 DEF HandedUp
<1>6. LinkedFirst'
  <2>1. ASSUME NEW p \in DOMAIN stack, stack[p] \in Stages, t \in Stages,
               t \in RangeOf(Prereqs[stack[p]])
        PROVE  Prereqs[stack[p]][1] \in known'
    <3>1. Len(stack) \in DOMAIN stack /\ DOMAIN stack = 1..Len(stack) /\ Len(stack) \in Nat
      BY <1>0, UnderGoal
    <3>2. ~(p < Len(stack))
      BY <1>0, <1>1, <2>1, <3>1, Waiting DEF Top
    <3>3. p = Len(stack)
      BY <3>1, <3>2
    <3> QED
      BY <1>3, <3>3 DEF Top
  <2> QED
    BY <1>0, <2>1 DEF LinkedFirst, OnStack, RangeOf
<1> QED
  BY <1>4, <1>5, <1>6

LEMMA PopLine ==
    ASSUME LinkedRules, Orderly, Lineage, HandedUp, LinkedFirst, Finished
    PROVE  Lineage' /\ HandedUp' /\ LinkedFirst'
<1>0. /\ RunOK /\ Descends /\ PackingRules /\ Running /\ Top \in Files
      /\ known' = known \cup {Top} /\ InOrder
  BY LinkFacts DEF Orderly, TypeOK, Finished
<1>1. /\ Len(stack) \in Nat /\ Len(stack) > 1
      /\ DOMAIN stack = 1..Len(stack) /\ DOMAIN stack' = 1..(Len(stack) - 1)
      /\ \A j \in 1..(Len(stack) - 1) : stack'[j] = stack[j]
      /\ OnStack = OnStack' \cup {Top} /\ Top \notin OnStack'
  BY <1>0, PopStack DEF Finished
<1>2. ASSUME NEW j \in DOMAIN stack' PROVE Top \in Below[stack'[j]] /\ stack'[j] = stack[j]
  <2>1. j \in DOMAIN stack /\ j < Len(stack) /\ Len(stack) \in DOMAIN stack /\ stack'[j] = stack[j]
    BY <1>1, <1>2
  <2> QED
    BY <1>0, <2>1 DEF Descends, Top
<1>3. Lineage'
  <2> SUFFICES ASSUME NEW t \in OnStack' \cap Stages, NEW k \in Stages \ Tails, t \in Below[k]
               PROVE  k \in OnStack'
    BY DEF Lineage
  <2>1. k \in OnStack
    BY <1>1 DEF Lineage
  <2>2. Top \in Below[t]
    BY <1>2 DEF OnStack, RangeOf
  <2>3. k # Top
    BY <2>2, LinkFacts, Acyclic
  <2> QED
    BY <1>1, <2>1, <2>3
<1>4. HandedUp'
  <2>1. ASSUME Top \in Stages, NEW s \in Stages, Top \in RangeOf(Prereqs[s])
        PROVE  s \in OnStack' \/ "install" = Top
    <3>1. CASE s \in Tails
      BY <1>0, <2>1, <3>1, OrderFacts
    <3>2. CASE s \notin Tails
      <4>1. Top \in Below[s] /\ Top # s
        BY <2>1, LinkFacts, Acyclic
      <4>2. s \in OnStack
        BY <1>0, <2>1, <3>2, <4>1, TopOnStack DEF Lineage
      <4> QED
        BY <1>1, <4>1, <4>2
    <3> QED
      BY <3>1, <3>2
  <2> QED
    BY <1>0, <1>1, <2>1 DEF HandedUp
<1>5. LinkedFirst'
  <2>1. ASSUME NEW p \in DOMAIN stack', stack'[p] \in Stages, Top \in Stages,
               Top \in RangeOf(Prereqs[stack'[p]])
        PROVE  Prereqs[stack'[p]][1] \in known'
    <3>1. /\ p \in DOMAIN stack /\ Len(stack) - 1 \in DOMAIN stack /\ p <= Len(stack) - 1
          /\ Len(stack) - 1 \in DOMAIN stack' /\ p \in 1..(Len(stack) - 1)
      BY <1>1
    <3>2. ~(p < Len(stack) - 1)
      <4>1. Top \in Below[stack[Len(stack) - 1]]
        BY <1>2, <3>1
      <4> QED
        BY <1>0, <1>2, <2>1, <3>1, <4>1, Waiting
    <3>3. p + 1 = Len(stack) /\ stack[p + 1] = Top
      BY <1>1, <3>1, <3>2 DEF Top
    <3>4. PICK m \in DOMAIN Prereqs[stack[p]] :
            /\ Top = Prereqs[stack[p]][m]
            /\ \A j \in DOMAIN Prereqs[stack[p]] : j < m => Prereqs[stack[p]][j] \in known
      BY <1>0, <3>1, <3>3 DEF InOrder
    <3>5. stack'[p] = stack[p] /\ Prereqs[stack[p]] \in Seq(Files)
      BY <1>2, <2>1, TargetsAreFiles, GraphAssumption
    <3>6. m = 1 \/ (1 \in DOMAIN Prereqs[stack[p]] /\ 1 < m)
      BY <3>4, <3>5, LenProperties
    <3> QED
      BY <1>0, <3>4, <3>5, <3>6
  <2>2. ASSUME NEW s \in OnStack' \cap Stages,
               RangeOf(Prereqs[s]) \cap known' \cap Stages # {}
        PROVE  Prereqs[s][1] \in known'
    <3>1. CASE RangeOf(Prereqs[s]) \cap known \cap Stages # {}
      BY <1>0, <1>1, <2>2, <3>1 DEF LinkedFirst
    <3>2. CASE Top \in RangeOf(Prereqs[s]) \cap Stages
      BY <2>1, <2>2, <3>2 DEF OnStack, RangeOf
    <3> QED
      BY <1>0, <2>2, <3>1, <3>2
  <2> QED
    BY <2>2 DEF LinkedFirst
<1> QED
  BY <1>3, <1>4, <1>5

LEMMA NextLine ==
    ASSUME LinkedRules, RegressChain, Orderly, Orderly', Lineage, HandedUp, LinkedFirst,
           [Next]_vars
    PROVE  Lineage' /\ HandedUp' /\ LinkedFirst'
<1>0. TypeOK
  BY DEF Orderly
<1>1. CASE Started \/ Ended
  <2>1. known' = {} /\ (stack' = <<>> \/ \E g \in Goals : stack' = <<g>>)
    BY <1>1 DEF Started, Ended, Stop
  <2>2. OnStack' \cap BuildFiles = {}
    BY <2>1, FreshStack
  <2> QED
    BY <2>1, <2>2 DEF Lineage, HandedUp, LinkedFirst, BuildFiles
<1>2. CASE Consider
  BY <1>0, <1>2, ConsiderKinds, PushLine, MarkLine
<1>3. CASE UNCHANGED <<stack, known>>
  BY <1>3 DEF Lineage, HandedUp, LinkedFirst, OnStack
<1>4. CASE Finished
  BY <1>4, PopLine
<1> QED
  BY <1>0, <1>1, <1>2, <1>3, <1>4, StepKinds DEF Worked, GoTo, Cleaned, vars, run

-----------------------------------------------------------------------------
(* The stamps.                                                             *)

LEMMA NextAges ==
    ASSUME TypeOK, Ages, [Next]_vars
    PROVE  Ages'
<1>1. ASSUME UNCHANGED files PROVE Ages'
  BY <1>1 DEF Ages, files
<1>2. ASSUME NEW S, Remove(S) PROVE Ages'
  BY <1>2, RemoveAges
<1>3. ASSUME NEW f, Touch(f) PROVE Ages'
  BY <1>3, TouchAges DEF TypeOK
<1> QED
  BY <1>1, <1>2, <1>3, StepKinds
  DEF Started, Ended, Consider, Worked, Finished, Cleaned, vars

\* Between runs, and while the files of bin are made, no stage is.
LEMMA Unstaged ==
    ASSUME RunOK, Running => Descends /\ Top \notin BuildFiles
    PROVE  OnStack \cap BuildFiles = {}
<1>1. CASE Running
  BY <1>1, NoStageAbove
<1>2. CASE ~Running
  <2>1. DOMAIN stack = {}
    BY <1>2 DEF RunOK, Running
  <2> QED
    BY <2>1 DEF OnStack, RangeOf
<1> QED
  BY <1>1, <1>2

\* While a stage or source.stamp is being made, libs.stamp is not, unless it
\* is the one.
LEMMA NoTailsYet ==
    ASSUME LinkedRules, Orderly, Running, Top \in BuildFiles \ Tails
    PROVE  Tails \cap OnStack = {} /\ "install" \notin known /\ "install" \in OnStack
<1>1. Top \in OnStack
  BY TopOnStack DEF Orderly, TypeOK
<1> QED
  BY <1>1 DEF Orderly, UnderInstall

\* When a stage is out of date.
LEMMA StageOutdated ==
    ASSUME NEW s \in BuildFiles
    PROVE  /\ Outdated(s) <=> s \in present /\ \E q \in Below[s] : <<q, s>> \in newer
           /\ Outdated(s)' <=> s \in present' /\ \E q \in Below[s] : <<q, s>> \in newer'
BY BuildFileFacts DEF Outdated, Reach

\* The stages that are not out of date while others go or are written.
LEMMA SameUpToDate ==
    ASSUME \A s \in Stages \ Tails : ~Outdated(s),
           \/ UNCHANGED files
           \/ \E S : Remove(S)
           \/ \E f \in Files \ BuildFiles : Touch(f)
    PROVE  \A s \in Stages \ Tails : ~(Outdated(s)')
<1> SUFFICES ASSUME NEW s \in Stages \ Tails PROVE ~(Outdated(s)')
  OBVIOUS
<1>1. s \in BuildFiles /\ Below[s] \subseteq BuildFiles
  BY BuildFileFacts DEF BuildFiles
<1>2. ~(s \in present /\ \E q \in Below[s] : <<q, s>> \in newer)
  BY <1>1, StageOutdated
<1>3. ~(s \in present' /\ \E q \in Below[s] : <<q, s>> \in newer')
  BY <1>1, <1>2 DEF files, Remove, Touch
<1> QED
  BY <1>1, <1>3, StageOutdated

LEMMA PushMissing ==
    ASSUME LinkedRules, RegressChain, Orderly, Orderly', Ages, Missing,
           Running, NEW i \in FirstUnknown, stack' = Append(stack, Prereqs[Top][i]),
           MustMake(Prereqs[Top][i]), UNCHANGED <<files, known>>
    PROVE  Missing'
<1> DEFINE t == Prereqs[Top][i]
<1>0. /\ RunOK /\ FilesOK /\ Descends /\ PackingRules /\ OnStack' = OnStack \cup {t}
      /\ MustMake(t) /\ t \in OnStack'
  BY PushStack, Turn, LinkFacts DEF Orderly, TypeOK
<1> HIDE DEF t
<1>1. t \in BuildFiles \ Tails => t \notin present
  <2>1. CASE t \in Stages \ Tails
    BY <1>0, <2>1 DEF Missing, MustMake
  <2>2. CASE t = "source"
    <3>1. "source" \in BuildFiles /\ Below["source"] = {}
      BY GraphAssumption DEF BuildFiles
    <3> QED
      BY <1>0, <2>2, <3>1, StageOutdated DEF MustMake
  <2> QED
    BY <2>1, <2>2, LinkFacts
<1>2. ASSUME t \in Tails, t \in present PROVE <<"install", t>> \in newer
  <2>1. t \in BuildFiles /\ t \in Stages /\ "install" \in BuildFiles /\ "install" \in Last
    BY <1>0, <1>2, OrderFacts
  <2>2. PICK q \in Below[t] : <<q, t>> \in newer
    BY <1>0, <1>2, <2>1, StageOutdated DEF MustMake
  <2>3. "install" \in known
    BY <1>0, <1>2 DEF Orderly, UnderInstall
  <2>4. "install" \in present /\ \A x \in Below["install"] : <<x, "install">> \notin newer
    BY <2>1, <2>3, StageOutdated DEF Orderly, LastSettled, MustMake
  <2>5. RangeOf(Prereqs[t]) = {"install"}
    BY <1>0, <1>2, OrderFacts
  <2>6. q = "install" \/ q \in Below["install"]
    BY <2>1, <2>5 DEF LinkedRules
  <2>7. CASE q \in Below["install"]
    <3>1. q # "install" /\ q \in present
      BY <1>0, <2>1, <2>2, <2>7, Acyclic DEF FilesOK
    <3>2. <<"install", q>> \in newer
      BY <2>4, <2>7, <3>1 DEF Ages
    <3> QED
      BY <1>2, <2>2, <2>4, <3>1, <3>2 DEF Ages
  <2> QED
    BY <2>2, <2>6, <2>7
<1>3. \A s \in Stages \ Tails : ~(Outdated(s)')
  BY SameUpToDate DEF Missing
<1> QED
  BY <1>0, <1>1, <1>2, <1>3 DEF Missing, files

LEMMA WorkedMissing ==
    ASSUME LinkedRules, Orderly, Missing, Worked
    PROVE  Missing'
<1>0. /\ RunOK /\ Running /\ OnStack' = OnStack /\ known' = known /\ Apart
      /\ Top \in OnStack /\ PackingRules
  BY TopOnStack, LinkFacts DEF Orderly, TypeOK, Worked, GoTo, OnStack
<1>1. CASE UNCHANGED files
  BY <1>0, <1>1, SameUpToDate DEF Missing, files
<1>2. ASSUME NEW S, Remove(S), Top \in BuildFiles, "source" \notin S \/ Top = "source",
             S = {} \/ Top \notin Tails
      PROVE  Missing'
  <2>1. \A s \in Stages \ Tails : ~(Outdated(s)')
    BY <1>2, SameUpToDate DEF Missing
  <2>2. "source" \in known => "source" \in present'
    BY <1>0, <1>2 DEF Missing, Remove, Apart
  <2>3. \A s \in Tails \cap OnStack \cap present' : <<"install", s>> \in newer'
    <3>1. CASE S = {}
      BY <1>2, <3>1 DEF Missing, Remove
    <3>2. CASE Top \notin Tails
      BY <1>0, <1>2, <3>2, NoTailsYet
    <3> QED
      BY <1>2, <3>1, <3>2
  <2> QED
    BY <1>0, <1>2, <2>1, <2>2, <2>3 DEF Missing, Remove
<1>3. CASE Top \in Stages /\ Remove(SameDir[Top])
  <2>1. "source" \notin SameDir[Top] /\ (Top \in Tails => SameDir[Top] = {})
    BY <1>0, <1>3, OrderFacts, GraphAssumption
  <2> QED
    BY <1>2, <1>3, <2>1, LinkFacts
<1>4. CASE Top = "source" /\ \E S : Remove(S)
  BY <1>2, <1>4, LinkFacts
<1>5. CASE Top \in Piped /\ Touch(Top)
  <2>1. Top \in Files \ BuildFiles
    BY <1>5, GraphAssumption, TargetsAreFiles DEF Archives, BuildFiles
  <2>2. \A s \in Stages \ Tails : ~(Outdated(s)')
    BY <1>5, <2>1, SameUpToDate DEF Missing
  <2>3. OnStack \cap BuildFiles = {}
    BY <1>0, <2>1, Unstaged DEF Orderly
  <2>4. Tails \subseteq BuildFiles
    BY <1>0, OrderFacts
  <2> QED
    BY <1>0, <1>5, <2>2, <2>3, <2>4 DEF Missing, Touch
<1> QED
  BY <1>1, <1>3, <1>4, <1>5 DEF Worked

LEMMA PopMissing ==
    ASSUME LinkedRules, Orderly, Missing, Lineage, Emptied, Finished
    PROVE  Missing'
<1>0. /\ RunOK /\ FilesOK /\ Running /\ known' = known \cup {Top} /\ Apart /\ Descends
      /\ Top \in OnStack /\ PackingRules /\ Top \in Files
      /\ OnStack = OnStack' \cup {Top} /\ Top \notin OnStack'
  BY TopOnStack, LinkFacts, PopStack DEF Orderly, TypeOK, Finished
<1>1. CASE Top \notin BuildFiles
  <2>1. OnStack \cap BuildFiles = {}
    BY <1>0, <1>1, NoStageAbove
  <2>2. \A s \in Stages \ Tails : ~(Outdated(s)')
    BY <1>0, <1>1, SameUpToDate DEF Missing, Finished
  <2>3. Tails \subseteq BuildFiles /\ "source" \in BuildFiles
    BY <1>0, OrderFacts, LinkFacts
  <2>4. "source" \in known => "source" \in present'
    BY DEF Missing, Finished, Touch, files
  <2> QED
    BY <1>0, <1>1, <2>1, <2>2, <2>3, <2>4 DEF Missing
<1>2. CASE Top \in BuildFiles
  <2>1. Touch(Top) /\ (Top = "source" => step = "fetch")
    <3>1. Top \notin Piped
      BY <1>2, GraphAssumption DEF Archives, BuildFiles
    <3> QED
      BY <3>1 DEF Finished
  <2>2. \A s \in Stages \ Tails : ~(Outdated(s)')
    <3> SUFFICES ASSUME NEW s \in Stages \ Tails PROVE ~(Outdated(s)')
      OBVIOUS
    <3>0. s \in BuildFiles
      BY LinkFacts
    <3>1. ~(s \in present /\ \E q \in Below[s] : <<q, s>> \in newer)
      BY <3>0, StageOutdated DEF Missing
    <3>2. CASE Top \in Below[s]
      <4>1. s \notin present
        <5>1. CASE Top = "source"
          BY <2>1, <3>0, <5>1 DEF Emptied
        <5>2. CASE Top \in Stages
          BY <1>0, <3>0, <3>2, <5>2 DEF Lineage, Missing
        <5> QED
          BY <1>2, <5>1, <5>2, LinkFacts
      <4>2. s # Top
        BY <3>0, <3>2, Acyclic
      <4> QED
        BY <2>1, <3>0, <4>1, <4>2, StageOutdated DEF Touch
    <3>3. CASE Top \notin Below[s]
      BY <2>1, <3>0, <3>1, <3>3, StageOutdated DEF Touch
    <3> QED
      BY <3>2, <3>3
  <2>3. \A s \in Tails \cap OnStack' \cap present' : <<"install", s>> \in newer'
    <3> SUFFICES ASSUME NEW s \in Tails \cap OnStack' \cap present'
                 PROVE  <<"install", s>> \in newer'
      OBVIOUS
    <3>1. s # Top /\ s \in present /\ <<"install", s>> \in newer
      BY <1>0, <2>1 DEF Touch, Missing
    <3>2. Top # "install"
      BY <1>0, <1>2, NoTailsYet, LinkFacts
    <3> QED
      BY <2>1, <3>1, <3>2 DEF Touch
  <2> QED
    BY <1>0, <2>1, <2>2, <2>3 DEF Missing, Touch
<1> QED
  BY <1>1, <1>2

LEMMA NextMissing ==
    ASSUME LinkedRules, RegressChain, Orderly, Orderly', Ages, Missing, Lineage, Emptied,
           [Next]_vars
    PROVE  Missing'
<1>0. TypeOK /\ RunOK /\ Tails \subseteq BuildFiles /\ PackingRules
  BY LinkFacts, OrderFacts DEF Orderly, TypeOK
<1>1. ASSUME known' = {}, OnStack' \cap BuildFiles = {},
             UNCHANGED files \/ \E S : Remove(S)
      PROVE  Missing'
  BY <1>0, <1>1, SameUpToDate DEF Missing
<1>2. CASE Started \/ Ended
  <2>1. /\ known' = {} /\ (stack' = <<>> \/ \E g \in Goals : stack' = <<g>>)
        /\ UNCHANGED files \/ \E S : Remove(S)
    BY <1>2 DEF Started, Ended, Stop
  <2> QED
    BY <1>1, <2>1, FreshStack
<1>3. CASE Consider
  <2>1. UNCHANGED files
    BY <1>3 DEF Consider
  <2>2. PICK i \in FirstUnknown :
          \/ /\ known' = known \cup {Prereqs[Top][i]} /\ UNCHANGED stack
             /\ ~MustMake(Prereqs[Top][i])
          \/ /\ stack' = Append(stack, Prereqs[Top][i]) /\ UNCHANGED known
             /\ MustMake(Prereqs[Top][i])
    BY <1>0, <1>3, ConsiderKinds
  <2>3. CASE known' = known \cup {Prereqs[Top][i]} /\ UNCHANGED stack
             /\ ~MustMake(Prereqs[Top][i])
    BY <2>1, <2>3, SameUpToDate DEF Missing, MustMake, files, OnStack
  <2>4. CASE stack' = Append(stack, Prereqs[Top][i]) /\ UNCHANGED known
             /\ MustMake(Prereqs[Top][i])
    BY <1>3, <2>1, <2>4, PushMissing DEF Consider
  <2> QED
    BY <2>2, <2>3, <2>4
<1>4. CASE Worked
  BY <1>4, WorkedMissing
<1>5. CASE Finished
  BY <1>5, PopMissing
<1>6. CASE Cleaned
  <2>1. ~Running /\ known = {} /\ UNCHANGED <<stack, known>>
    BY <1>6, ChainFacts DEF Cleaned, Running, Orderly, Apart
  <2>2. OnStack \cap BuildFiles = {}
    BY <1>0, <2>1, Unstaged
  <2> QED
    BY <1>1, <1>6, <2>1, <2>2 DEF Cleaned, OnStack
<1>7. CASE UNCHANGED vars
  <2>1. UNCHANGED <<present, newer, stack, known>> /\ UNCHANGED files
    BY <1>7 DEF vars, run, files
  <2> QED
    BY <2>1, SameUpToDate DEF Missing, OnStack
<1> QED
  BY <1>0, <1>2, <1>3, <1>4, <1>5, <1>6, <1>7, StepKinds

-----------------------------------------------------------------------------
(* What stages find in INSTALL.                                            *)

LEMMA NextSupplied ==
    ASSUME LinkedRules, TypeOK, Supplied, [Next]_vars
    PROVE  Supplied'
<1>1. CASE Started \/ Ended
  <2>1. ~Running' \/ step' = "scan"
    BY <1>1, ChainFacts DEF Started, Ended, Stop, Running
  <2> QED
    BY <2>1 DEF Supplied
<1>2. CASE Consider \/ Finished
  BY <1>2 DEF Consider, Finished, Supplied
<1>3. CASE Worked
  <2>1. Top' = Top /\ Lax = {} /\ Listers = {} /\ Running
    BY <1>3, LinkFacts DEF Worked, GoTo, Top
  <2>2. \/ /\ UNCHANGED installed
           /\ \/ step' = step \/ step' \notin {"build", "installing"}
              \/ step' = "build" /\ Top \in Stages /\ Needs[Top] \subseteq installed
        \/ step' \notin {"build", "installing"}
        \/ Top \in Stages /\ installed' = installed \ {Top} /\ step = "build"
    BY <1>3, <2>1, WorkedContents
  <2>3. Top \in Stages => Top \notin Needs[Top]
    BY DEF LinkedRules
  <2> QED
    BY <2>1, <2>2, <2>3 DEF Supplied
<1>4. CASE Cleaned
  <2>1. ~Running'
    BY <1>4, ChainFacts DEF Cleaned, Running
  <2> QED
    BY <2>1 DEF Supplied
<1>5. CASE UNCHANGED vars
  BY <1>5 DEF vars, run, contents, Supplied, Running, Top
<1> QED
  BY <1>1, <1>2, <1>3, <1>4, <1>5, StepKinds

\* What is lost stays lost while nothing is installed.
LEMMA LostStays ==
    ASSUME known \subseteq known', NEW n \in Lost, n \notin installed'
    PROVE  n \in Lost'
BY DEF Lost

LEMMA FedStays ==
    ASSUME Fed, ~Wiping, installed' \subseteq installed, known \subseteq known',
           OnStack' \subseteq OnStack, known' \cap BuildFiles \subseteq known \cup present',
           known \cap present \cap BuildFiles \subseteq present'
    PROVE  Fed'
<1> SUFFICES ASSUME NEW s \in OnStack' \cap Stages
             PROVE  Starved(s)' \/ RangeOf(Prereqs[s]) \cap known' \subseteq present'
  BY DEF Fed
<1>1. RangeOf(Prereqs[s]) \subseteq BuildFiles
  BY BuildFileFacts, TargetsAreFiles, GraphAssumption DEF BuildFiles
<1>2. CASE Starved(s)
  BY <1>2, LostStays DEF Starved, Lost
<1>3. CASE RangeOf(Prereqs[s]) \cap known \subseteq present
  BY <1>1, <1>3
<1> QED
  BY <1>2, <1>3 DEF Fed

LEMMA PushFed ==
    ASSUME LinkedRules, RegressChain, Orderly, Orderly', HandedUp, Missing, Fed, ~Wiping,
           Running, NEW i \in FirstUnknown, stack' = Append(stack, Prereqs[Top][i]),
           UNCHANGED <<files, known, installed>>
    PROVE  Fed'
<1> DEFINE t == Prereqs[Top][i]
<1>0. RunOK /\ Descends /\ PackingRules
  BY LinkFacts DEF Orderly, TypeOK
<1>1. OnStack' = OnStack \cup {t} /\ t \notin OnStack /\ t \notin known
  BY <1>0, PushStack, Turn, NewTarget
<1> HIDE DEF t
<1>2. ASSUME t \in Stages PROVE RangeOf(Prereqs[t]) \cap known \subseteq present
  <2>1. CASE "install" \in known
    <3>1. t \in Tails
      BY <1>1, <1>2, <2>1, LinkFacts DEF Orderly, UnderInstall
    <3>2. RangeOf(Prereqs[t]) = {"install"} /\ "install" \in Last
      BY <1>0, <3>1, OrderFacts
    <3>3. "install" \in present
      BY <2>1, <3>2 DEF Orderly, LastSettled, MustMake
    <3> QED
      BY <3>2, <3>3
  <2>2. CASE "install" \notin known
    <3>1. RangeOf(Prereqs[t]) \cap known \cap Stages = {}
      BY <1>1, <1>2, <2>2 DEF HandedUp
    <3>2. RangeOf(Prereqs[t]) \subseteq Stages \cup {"source"}
      BY <1>2, LinkFacts
    <3> QED
      BY <3>1, <3>2 DEF Missing
  <2> QED
    BY <2>1, <2>2
<1>3. ASSUME NEW s \in OnStack' \cap Stages
      PROVE  Starved(s)' \/ RangeOf(Prereqs[s]) \cap known' \subseteq present'
  <2>1. CASE s = t
    BY <1>2, <1>3, <2>1 DEF files
  <2>2. CASE s \in OnStack
    BY <1>3, <2>2 DEF Fed, Starved, Lost, files
  <2> QED
    BY <1>1, <1>3, <2>1, <2>2
<1> QED
  BY <1>3 DEF Fed

\* source.stamp is made and a stage that waits is known to have no hope.
LEMMA FetchFed ==
    ASSUME LinkedRules, Orderly, LinkedFirst, Emptied, Fetch
    PROVE  Fed'
<1>0. /\ RunOK /\ Running /\ known' = known \cup {Top} /\ Apart /\ Descends /\ InOrder
      /\ Top \in OnStack /\ Top = "source" /\ Top \in Files /\ step = "fetch"
      /\ installed' = Fills \cap {"source"} /\ present \cap BuildFiles = {}
      /\ present' = present \cup {"source"}
      /\ stack' = SubSeq(stack, 1, Len(stack) - 1)
  BY TopOnStack, TargetsAreFiles DEF Orderly, TypeOK, Fetch, Made, Emptied, Touch
<1>1. /\ Len(stack) \in Nat /\ Len(stack) > 1
      /\ DOMAIN stack = 1..Len(stack) /\ DOMAIN stack' = 1..(Len(stack) - 1)
      /\ \A j \in 1..(Len(stack) - 1) : stack'[j] = stack[j]
  BY <1>0, PopStack
<1> SUFFICES ASSUME NEW s \in OnStack' \cap Stages, NEW q \in RangeOf(Prereqs[s]),
                    q \in known', q \notin present'
             PROVE  Starved(s)'
  BY DEF Fed
<1>2. Prereqs[s] \in Seq(Files)
  BY TargetsAreFiles, GraphAssumption
<1>3. q \in known \cap Stages
  BY <1>0, LinkFacts
<1>4. Prereqs[s][1] \in known
  <2>1. s \in OnStack
    BY <1>1 DEF OnStack, RangeOf
  <2> QED
    BY <1>3, <2>1 DEF LinkedFirst
<1>5. Len(Prereqs[s]) > 1
  <2>1. PICK p \in 1..(Len(stack) - 1) : s = stack[p]
    BY <1>1 DEF OnStack, RangeOf
  <2>2. PICK m \in DOMAIN Prereqs[s] : stack[p + 1] = Prereqs[s][m]
    BY <1>0, <2>1 DEF InOrder
  <2>3. p + 1 \in DOMAIN stack
    BY <1>1
  <2>4. stack[p + 1] \notin known
    BY <1>0, <2>3 DEF Apart, OnStack, RangeOf
  <2>5. m # 1
    BY <1>4, <2>2, <2>4
  <2> QED
    BY <1>2, <2>2, <2>5, LenProperties
<1>6. Prereqs[s][1] \in RangeOf(Prereqs[s])
  BY <1>2, <1>5, LenProperties DEF RangeOf
<1>7. Prereqs[s][1] \in known \cap Stages
  <2>1. Prereqs[s][1] # "source"
    BY <1>0, <1>4 DEF Apart
  <2> QED
    BY <1>4, <1>6, <2>1, LinkFacts
<1>8. PICK n \in Needs[s] \ {"source"} : n = Prereqs[s][1] \/ n \in Below[Prereqs[s][1]]
  BY <1>5 DEF LinkedRules
<1>9. n \in Fills
  BY RecipeAssumption DEF RecipeOK
<1>10. n \in Lost'
  BY <1>0, <1>7, <1>8, <1>9 DEF Lost
<1> QED
  BY <1>8, <1>10 DEF Starved

\* What is being made is not lost.
LEMMA TopNotLost ==
    ASSUME LinkedRules, Orderly, Lineage, Running, Top \in Stages
    PROVE  Top \notin Lost
<1>0. Top \in OnStack /\ Top \in BuildFiles /\ Apart /\ Top \notin known /\ PackingRules
  BY TopOnStack, LinkFacts DEF Orderly, TypeOK, Apart
<1> SUFFICES ASSUME NEW k \in known \cap Stages, Top \in Below[k] PROVE FALSE
  BY <1>0 DEF Lost
<1>1. CASE k \notin Tails
  BY <1>0, <1>1 DEF Lineage, Apart
<1>2. CASE k \in Tails
  <2>1. Top \notin Tails
    BY <1>0, <1>2, OrderFacts, LinkFacts
  <2> QED
    BY <1>0, <1>2, <2>1, NoTailsYet DEF Orderly, UnderInstall
<1> QED
  BY <1>1, <1>2

LEMMA StageFed ==
    ASSUME LinkedRules, Orderly, Lineage, Fed, StageFinish
    PROVE  Fed'
<1>0. /\ RunOK /\ Running /\ known' = known \cup {Top} /\ Descends /\ Top \in Stages
      /\ Top \in Files /\ ~Wiping /\ present' = present \cup {Top}
      /\ stack' = SubSeq(stack, 1, Len(stack) - 1)
      /\ installed' \subseteq installed \cup {Top}
  BY TargetsAreFiles, SourceIsNoStage DEF Orderly, TypeOK, StageFinish, Made, Touch, Wiping
<1>1. OnStack = OnStack' \cup {Top}
  BY <1>0, PopStack
<1>2. Lost \subseteq Lost'
  BY <1>0, TopNotLost, LostStays DEF Lost
<1> SUFFICES ASSUME NEW s \in OnStack' \cap Stages
             PROVE  Starved(s)' \/ RangeOf(Prereqs[s]) \cap known' \subseteq present'
  BY DEF Fed
<1>3. CASE Starved(s)
  BY <1>2, <1>3 DEF Starved
<1>4. CASE RangeOf(Prereqs[s]) \cap known \subseteq present
  BY <1>0, <1>4
<1> QED
  BY <1>0, <1>1, <1>3, <1>4 DEF Fed

\* Nothing that is known goes with the directory of a stage.
LEMMA KnownStays ==
    ASSUME LinkedRules, Orderly, Lineage, Running, Top \in Stages
    PROVE  known \cap SameDir[Top] \subseteq Tails
<1>0. Top \in OnStack /\ Apart /\ SameDir[Top] \subseteq {Top} \cup {k \in Stages : Top \in Below[k]}
  BY TopOnStack DEF Orderly, TypeOK, LinkedRules
<1> QED
  BY <1>0 DEF Lineage, Apart

LEMMA NextFed ==
    ASSUME LinkedRules, RegressChain, "short" \notin Faults, Orderly, Orderly', Lineage, HandedUp,
           LinkedFirst, Missing, Emptied, Fed, [Next]_vars
    PROVE  Fed'
<1>0. /\ TypeOK /\ RunOK /\ PackingRules /\ Lax = {} /\ Listers = {} /\ Stages \subseteq BuildFiles
      /\ Descends
  BY LinkFacts DEF Orderly, TypeOK
<1>1. ASSUME OnStack' \cap BuildFiles = {} PROVE Fed'
  BY <1>0, <1>1 DEF Fed
<1>2. CASE Started \/ Ended
  BY <1>1, <1>2, FreshStack DEF Started, Ended, Stop
<1>3. CASE Consider
  <2>1. UNCHANGED <<files, installed>> /\ step = "scan" /\ Running /\ ~Wiping
    BY <1>3 DEF Consider, contents, Wiping
  <2>2. PICK i \in FirstUnknown :
          \/ /\ known' = known \cup {Prereqs[Top][i]} /\ UNCHANGED stack
             /\ ~MustMake(Prereqs[Top][i])
          \/ stack' = Append(stack, Prereqs[Top][i]) /\ UNCHANGED known
    BY <1>0, <1>3, ConsiderKinds
  <2>3. CASE known' = known \cup {Prereqs[Top][i]} /\ UNCHANGED stack
             /\ ~MustMake(Prereqs[Top][i])
    <3>1. Prereqs[Top][i] \in present' /\ OnStack' = OnStack /\ known \subseteq known'
      BY <2>1, <2>3 DEF MustMake, files, OnStack
    <3> QED
      BY <2>1, <2>3, <3>1, FedStays DEF files
  <2>4. CASE stack' = Append(stack, Prereqs[Top][i]) /\ UNCHANGED known
    BY <2>1, <2>4, PushFed
  <2> QED
    BY <2>2, <2>3, <2>4
<1>4. CASE Worked
  <2>0. /\ Running /\ Running' /\ Top' = Top /\ OnStack' = OnStack /\ known' = known /\ step' # "scan"
    BY <1>4 DEF Worked, GoTo, Running, Top, OnStack
  <2>1. CASE Top = "source"
    BY <2>0, <2>1 DEF Fed, Wiping
  <2>2. CASE Top \notin BuildFiles
    BY <1>0, <1>1, <2>0, <2>2, Unstaged
  <2>3. CASE Top \in Stages
    <3>1. ~Wiping /\ installed' \subseteq installed
      BY <1>0, <1>4, <2>3, SourceIsNoStage, WorkedContents DEF Wiping
    <3>2. UNCHANGED files \/ Remove(SameDir[Top])
      <4>1. Top # "source" /\ Top \notin Piped
        BY <2>3, SourceIsNoStage, GraphAssumption DEF Archives
      <4> QED
        BY <1>4, <4>1 DEF Worked
    <3>3. CASE UNCHANGED files
      BY <2>0, <3>1, <3>3, FedStays DEF files
    <3>4. CASE Remove(SameDir[Top])
      <4> SUFFICES ASSUME NEW s \in OnStack \cap Stages
                   PROVE  Starved(s)' \/ RangeOf(Prereqs[s]) \cap known \subseteq present'
        BY <2>0 DEF Fed
      <4>1. CASE Starved(s)
        BY <2>0, <3>1, <4>1, LostStays DEF Starved, Lost
      <4>2. CASE RangeOf(Prereqs[s]) \cap known \subseteq present
        <5>1. known \cap SameDir[Top] \subseteq Tails
          BY <2>0, <2>3, KnownStays
        <5>2. RangeOf(Prereqs[s]) \cap Tails = {}
          BY LinkFacts
        <5> QED
          BY <3>4, <4>2, <5>1, <5>2 DEF Remove
      <4> QED
        BY <3>1, <4>1, <4>2 DEF Fed
    <3> QED
      BY <3>2, <3>3, <3>4
  <2> QED
    BY <2>1, <2>2, <2>3 DEF BuildFiles
<1>5. CASE Finished
  <2>1. CASE Fetch
    BY <2>1, FetchFed
  <2>2. CASE StageFinish
    BY <2>2, StageFed
  <2>3. CASE Top \notin BuildFiles
    <3>1. OnStack \cap BuildFiles = {} /\ OnStack' \subseteq OnStack
      BY <1>0, <1>5, <2>3, Unstaged, PopStack DEF Finished
    <3> QED
      BY <1>1, <3>1
  <2> QED
    BY <1>0, <1>5, <2>1, <2>2, <2>3, FinishedContents
<1>6. CASE Cleaned
  <2>1. OnStack' = OnStack /\ ~Running
    BY <1>6, ChainFacts DEF Cleaned, OnStack, Running
  <2> QED
    BY <1>0, <1>1, <2>1, Unstaged
<1>7. CASE UNCHANGED vars
  <2>1. UNCHANGED <<present, stack, known, job, step, installed>>
    BY <1>7 DEF vars, run, files, contents
  <2> QED
    BY <2>1 DEF Fed, Starved, Lost, Wiping, Running, Top, OnStack
<1> QED
  BY <1>0, <1>2, <1>3, <1>4, <1>5, <1>6, <1>7, StepKinds

-----------------------------------------------------------------------------
(* The stamps tell the truth about INSTALL, or none of them is in the way  *)
(* of a build from source.stamp up.                                        *)

LEMMA CutStays ==
    ASSUME NEW C \in SUBSET BuildFiles, Cut(C), C \cap present' = {}, C \cap known' = {}
    PROVE  Sound'
BY DEF Cut, Sound

LEMMA SoundStays ==
    ASSUME Sound, installed \subseteq installed', present' \cap BuildFiles \subseteq present,
           known' \cap BuildFiles \subseteq known \cup present
    PROVE  Sound'
<1>1. CASE Intact
  BY <1>1 DEF Sound, Intact, Built
<1>2. ASSUME NEW C \in SUBSET BuildFiles, Cut(C) PROVE Sound'
  BY <1>2, CutStays DEF Cut
<1> QED
  BY <1>1, <1>2 DEF Sound

\* source.stamp is being made, and with it everything up to install.stamp.
LEMMA StackCuts ==
    ASSUME LinkedRules, Orderly, Missing, Running, Top = "source"
    PROVE  Cut(OnStack \cap BuildFiles)
<1> DEFINE C == OnStack \cap BuildFiles
<1>0. RunOK /\ Top \in OnStack /\ InOrder /\ Apart /\ "source" \in BuildFiles \ Tails
      /\ "install" \in BuildFiles
  BY TopOnStack, LinkFacts DEF Orderly, TypeOK
<1>1. Tails \cap OnStack = {} /\ "install" \in OnStack
  BY <1>0, NoTailsYet
<1>2. C \cap present = {} /\ C \cap known = {}
  BY <1>0, <1>1 DEF Missing, Apart
<1>3. ASSUME NEW s \in C \ {"source"} PROVE RangeOf(Prereqs[s]) \cap C # {}
  <2>1. PICK p \in DOMAIN stack : s = stack[p]
    BY DEF OnStack, RangeOf
  <2>2. DOMAIN stack = 1..Len(stack) /\ Len(stack) \in Nat
    BY <1>0, UnderGoal DEF Orderly
  <2>3. p \in 1..(Len(stack) - 1) /\ p + 1 \in DOMAIN stack
    <3>1. p # Len(stack)
      BY <1>3, <2>1 DEF Top
    <3> QED
      BY <2>2, <3>1
  <2>4. PICK m \in DOMAIN Prereqs[s] : stack[p + 1] = Prereqs[s][m]
    BY <1>0, <2>1, <2>3 DEF InOrder
  <2>5. stack[p + 1] \in OnStack /\ stack[p + 1] \in RangeOf(Prereqs[s])
    BY <2>3, <2>4 DEF OnStack, RangeOf
  <2>6. s \in Stages
    BY LinkFacts
  <2>7. stack[p + 1] \in BuildFiles
    BY <2>5, <2>6, LinkFacts
  <2> QED
    BY <2>5, <2>7
<1> QED
  BY <1>0, <1>1, <1>2, <1>3 DEF Cut

LEMMA StageSound ==
    ASSUME LinkedRules, Orderly, Fed, Supplied, Sound, StageFinish
    PROVE  Sound'
<1>0. /\ Running /\ Top \in Stages /\ known' = known \cup {Top} /\ step = "installing"
      /\ present' = present \cup {Top} /\ Top \in OnStack /\ Top \in BuildFiles /\ Top # "source"
      /\ Lax = {} /\ Listers = {} /\ ~Wiping /\ PackingRules
  BY TopOnStack, LinkFacts DEF Orderly, TypeOK, StageFinish, Made, Touch, Wiping
<1>1. installed' = installed \cup ({Top} \cap Fills)
  BY <1>0 DEF StageFinish, Idle, Discards
<1>2. RangeOf(Prereqs[Top]) \subseteq known
  <2>1. RangeOf(PrereqsOf(Top)) \subseteq known
    BY <1>0 DEF Orderly, Ready
  <2> QED
    BY <1>0, <2>1, BuildFileFacts DEF PrereqsOf, TestFiles
<1>3. CASE Intact
  <2>1. RangeOf(Prereqs[Top]) \subseteq present
    <3>1. ~Starved(Top)
      BY <1>0 DEF Supplied, Starved, Lost
    <3> QED
      BY <1>0, <1>2, <3>1 DEF Fed
  <2>2. \A q \in RangeOf(Prereqs[Top]) : ({q} \cup Below[q]) \cap Fills \subseteq installed
    <3>1. RangeOf(Prereqs[Top]) \subseteq BuildFiles \ Tails
      BY <1>0, LinkFacts
    <3> QED
      BY <1>3, <2>1, <3>1 DEF Intact, Built
  <2>3. Below[Top] = RangeOf(Prereqs[Top]) \cup UNION {Below[q] : q \in RangeOf(Prereqs[Top])}
    BY <1>0 DEF LinkedRules
  <2>4. ({Top} \cup Below[Top]) \cap Fills \subseteq installed'
    BY <1>1, <2>2, <2>3
  <2>5. \A s \in (BuildFiles \ Tails) \cap present : Built(s)'
    BY <1>1, <1>3 DEF Intact, Built
  <2> QED
    BY <1>0, <2>4, <2>5 DEF Sound, Intact, Built
<1>4. ASSUME NEW C \in SUBSET BuildFiles, Cut(C) PROVE Sound'
  <2>1. Top \notin C
    BY <1>0, <1>2, <1>4 DEF Cut
  <2> QED
    BY <1>0, <1>4, <2>1, CutStays DEF Cut
<1> QED
  BY <1>3, <1>4 DEF Sound

LEMMA NextSound ==
    ASSUME LinkedRules, RegressChain, "short" \notin Faults, Orderly, Lineage, Missing, Emptied,
           Supplied, Fed, Sound, [Next]_vars
    PROVE  Sound'
<1>0. /\ TypeOK /\ RunOK /\ PackingRules /\ Lax = {} /\ Listers = {} /\ Stages \subseteq BuildFiles
      /\ Descends /\ "source" \in BuildFiles /\ Apart
  BY LinkFacts DEF Orderly, TypeOK
<1>1. CASE Started \/ Ended
  <2>1. installed' = installed /\ known' = {} /\ present' \subseteq present
    BY <1>1, StartedContents, EndedContents DEF Started, Ended, Stop, Remove, files
  <2> QED
    BY <2>1, SoundStays
<1>2. CASE Consider
  <2>1. UNCHANGED <<present, installed>> /\ known' \subseteq known \cup present
    BY <1>0, <1>2, ConsiderKinds DEF MustMake, files, contents
  <2> QED
    BY <2>1, SoundStays
<1>3. CASE Worked
  <2>1. /\ Running /\ Top' = Top /\ UNCHANGED <<stack, known>> /\ Top \in OnStack
        /\ present' \cap BuildFiles \subseteq present
    <3>1. Running /\ Top' = Top /\ UNCHANGED <<stack, known>>
      BY <1>3 DEF Worked, GoTo, Top
    <3>2. Piped \cap BuildFiles = {}
      BY GraphAssumption DEF Archives, BuildFiles
    <3> QED
      BY <1>0, <1>3, <3>1, <3>2, TopOnStack DEF Worked, Remove, Touch, files
  <2>2. CASE UNCHANGED installed
    BY <2>1, <2>2, SoundStays
  <2>3. CASE Top = "source" /\ UNCHANGED files
    <3>1. Cut(OnStack \cap BuildFiles)
      BY <2>1, <2>3, StackCuts
    <3> QED
      BY <2>1, <2>3, <3>1, CutStays DEF Cut, files
  <2>4. CASE Top \in Stages /\ installed' = installed \ {Top} /\ UNCHANGED files
    <3>1. CASE Intact
      <4> SUFFICES ASSUME NEW s \in (BuildFiles \ Tails) \cap present
                   PROVE  Built(s)'
        BY <2>4 DEF Sound, Intact, files
      <4>1. s \notin OnStack
        BY DEF Missing
      <4>2. s = "source" => Below[s] = {}
        BY GraphAssumption
      <4>3. Top \notin {s} \cup Below[s]
        BY <2>1, <2>4, <4>1, <4>2, LinkFacts DEF Lineage
      <4> QED
        BY <2>4, <3>1, <4>3 DEF Intact, Built
    <3>2. ASSUME NEW C \in SUBSET BuildFiles, Cut(C) PROVE Sound'
      BY <2>1, <2>4, <3>2, CutStays DEF Cut, files
    <3> QED
      BY <3>1, <3>2 DEF Sound
  <2> QED
    BY <1>0, <1>3, <2>2, <2>3, <2>4, WorkedContents
<1>4. CASE Finished
  <2>1. CASE Fetch
    <3>1. installed' = Fills \cap {"source"} /\ present' \cap BuildFiles = {"source"}
      BY <1>0, <2>1 DEF Fetch, Emptied, Touch
    <3>2. Below["source"] = {}
      BY GraphAssumption
    <3> QED
      BY <3>1, <3>2 DEF Sound, Intact, Built
  <2>2. CASE StageFinish
    BY <2>2, StageSound
  <2>3. CASE Top \notin BuildFiles /\ UNCHANGED installed
    <3>1. known' = known \cup {Top} /\ present' \cap BuildFiles \subseteq present
      BY <1>4, <2>3 DEF Finished, Touch, files
    <3> QED
      BY <2>3, <3>1, SoundStays
  <2> QED
    BY <1>0, <1>4, <2>1, <2>2, <2>3, FinishedContents
<1>5. CASE Cleaned
  <2>1. known' = known /\ present' \subseteq present
    BY <1>5 DEF Cleaned, Remove, files
  <2>2. CASE installed' = installed
    BY <2>1, <2>2, SoundStays
  <2>3. CASE present \cap BuildFiles = {}
    BY <2>1, <2>3 DEF Sound, Intact
  <2> QED
    BY <1>5, <2>2, <2>3, CleanedContents
<1>6. CASE UNCHANGED vars
  BY <1>6, SoundStays DEF vars, files, run, contents
<1> QED
  BY <1>0, <1>1, <1>2, <1>3, <1>4, <1>5, <1>6, StepKinds

-----------------------------------------------------------------------------
(* libs.stamp, which install.stamp goes before.                            *)

LEMMA LibsStay ==
    ASSUME LinkedRules, LibsTruthful,
           "install" \in present => Tails \cap present \cap installed \subseteq installed',
           \/ UNCHANGED files
           \/ \E S : Remove(S)
           \/ \E f \in Files \ BuildFiles : Touch(f)
    PROVE  LibsTruthful'
<1>1. Tails \subseteq BuildFiles /\ "install" \in BuildFiles
  BY LinkFacts, OrderFacts
<1> SUFFICES ASSUME "install" \in present', NEW s \in Tails \cap present'
             PROVE  Built(s)' \/ <<"install", s>> \in newer'
  BY DEF LibsTruthful
<1>2. "install" \in present /\ s \in present
  BY <1>1 DEF files, Remove, Touch
<1>3. CASE Built(s)
  BY <1>2, <1>3 DEF Built
<1>4. CASE <<"install", s>> \in newer
  BY <1>1, <1>2, <1>4 DEF files, Remove, Touch
<1> QED
  BY <1>2, <1>3, <1>4 DEF LibsTruthful

LEMMA StageLibs ==
    ASSUME LinkedRules, LibsTruthful, StageFinish
    PROVE  LibsTruthful'
<1>0. /\ Lax = {} /\ Listers = {} /\ Top \in Stages /\ Touch(Top) /\ "install" \notin Tails
  BY LinkFacts DEF StageFinish
<1>1. installed' = installed \cup ({Top} \cap Fills)
  BY <1>0 DEF StageFinish, Idle, Discards
<1> SUFFICES ASSUME "install" \in present', NEW s \in Tails \cap present'
             PROVE  Built(s)' \/ <<"install", s>> \in newer'
  BY DEF LibsTruthful
<1>2. CASE s = Top
  BY <1>1, <1>2 DEF Built
<1>3. CASE s # Top /\ Top = "install"
  BY <1>0, <1>3 DEF Touch
<1>4. CASE s # Top /\ Top # "install"
  <2>1. "install" \in present /\ s \in present
    BY <1>0, <1>4 DEF Touch
  <2> QED
    BY <1>0, <1>1, <1>4, <2>1 DEF LibsTruthful, Built, Touch
<1> QED
  BY <1>2, <1>3, <1>4

LEMMA NextLibs ==
    ASSUME LinkedRules, RegressChain, "short" \notin Faults, Orderly, Missing, Emptied,
           LibsTruthful, [Next]_vars
    PROVE  LibsTruthful'
<1>0. /\ TypeOK /\ RunOK /\ Lax = {} /\ Listers = {} /\ PackingRules /\ "install" \in BuildFiles
      /\ "source" \in BuildFiles \ Tails /\ Tails \subseteq BuildFiles /\ "install" \notin Tails
      /\ Piped \cap BuildFiles = {} /\ Piped \subseteq Files
  <2>1. Piped \cap BuildFiles = {} /\ Piped \subseteq Files
    BY GraphAssumption DEF Archives, BuildFiles, Files
  <2> QED
    BY <2>1, LinkFacts, OrderFacts DEF Orderly, TypeOK
<1>1. CASE Started \/ Ended
  <2>1. installed' = installed /\ (UNCHANGED files \/ \E S : Remove(S))
    BY <1>1, StartedContents, EndedContents DEF Started, Ended
  <2> QED
    BY <2>1, LibsStay
<1>2. CASE Consider
  BY <1>2, LibsStay DEF Consider, contents
<1>3. CASE Worked
  <2>1. Running /\ Top \in OnStack
    BY <1>0, <1>3, TopOnStack DEF Worked
  <2>2. CASE UNCHANGED installed
    <3>1. UNCHANGED files \/ (\E S : Remove(S)) \/ \E f \in Files \ BuildFiles : Touch(f)
      BY <1>0, <1>3 DEF Worked
    <3> QED
      BY <2>2, <3>1, LibsStay
  <2>3. CASE Top = "source" /\ UNCHANGED files
    <3>1. "install" \notin present
      BY <1>0, <2>1, <2>3, NoTailsYet DEF Missing
    <3> QED
      BY <2>3, <3>1, LibsStay
  <2>4. CASE Top \in Stages /\ installed' = installed \ {Top} /\ UNCHANGED files
    <3>1. CASE Top \notin Tails
      BY <2>4, <3>1, LibsStay
    <3>2. CASE Top \in Tails
      <4> SUFFICES ASSUME "install" \in present, NEW s \in Tails \cap present
                   PROVE  Built(s)' \/ <<"install", s>> \in newer
        BY <2>4 DEF LibsTruthful, files
      <4>1. CASE s = Top
        BY <2>1, <4>1 DEF Missing
      <4>2. CASE s # Top
        BY <2>4, <4>2 DEF LibsTruthful, Built
      <4> QED
        BY <4>1, <4>2
    <3> QED
      BY <3>1, <3>2
  <2> QED
    BY <1>0, <1>3, <2>2, <2>3, <2>4, WorkedContents
<1>4. CASE Finished
  <2>1. CASE Fetch
    <3>1. "install" \notin present'
      BY <1>0, <2>1 DEF Fetch, Emptied, Touch
    <3> QED
      BY <3>1 DEF LibsTruthful
  <2>2. CASE StageFinish
    BY <2>2, StageLibs
  <2>3. CASE Top \notin BuildFiles /\ UNCHANGED installed
    <3>1. UNCHANGED files \/ (\E f \in Files \ BuildFiles : Touch(f))
      BY <1>4, <2>3 DEF Finished
    <3> QED
      BY <2>3, <3>1, LibsStay
  <2> QED
    BY <1>0, <1>4, <2>1, <2>2, <2>3, FinishedContents
<1>5. CASE Cleaned
  <2>1. /\ UNCHANGED files \/ \E S : Remove(S)
        /\ installed' = installed \/ present \cap BuildFiles = {}
    BY <1>5, CleanedContents DEF Cleaned
  <2> QED
    BY <1>0, <2>1, LibsStay
<1>6. CASE UNCHANGED vars
  BY <1>6, LibsStay DEF vars, contents
<1> QED
  BY <1>0, <1>1, <1>2, <1>3, <1>4, <1>5, <1>6, StepKinds

-----------------------------------------------------------------------------
(* The archives.                                                           *)

\* An archive's recipe finds every stage in INSTALL.
LEMMA PackedWhole ==
    ASSUME LinkedRules, Orderly, Sound, LibsTruthful, Running, step # "scan", Top \in Archives
    PROVE  Fills \subseteq installed
<1>0. /\ PackingRules /\ "install" \in Last /\ "install" \in BuildFiles \ Tails
      /\ Last = Tails \cup {"install"}
  BY LinkFacts, OrderFacts
<1>1. Last \subseteq known
  <2>1. Top \in Arts /\ Top # "launch"
    BY ChainFacts, GraphAssumption
  <2>2. RangeOf(PrereqsOf(Top)) = Last
    BY <1>0, <2>1, OrderFacts DEF PrereqsOf
  <2> QED
    BY <2>2 DEF Orderly, Ready
<1>2. "install" \in present
  BY <1>0, <1>1 DEF Orderly, LastSettled, MustMake
<1>3. Built("install")
  <2>1. \A C : ~Cut(C)
    BY <1>2 DEF Cut
  <2> QED
    BY <1>0, <1>2, <2>1 DEF Sound, Intact
<1>4. ASSUME NEW s \in Tails PROVE Built(s)
  <2>1. ~MustMake(s) /\ s \in BuildFiles
    BY <1>0, <1>1, OrderFacts DEF Orderly, LastSettled
  <2>2. "install" \in Below[s]
    <3>1. RangeOf(Prereqs[s]) = {"install"} /\ s \in Stages
      BY <1>0, OrderFacts
    <3> QED
      BY <3>1, LinkFacts
  <2>3. s \in present /\ <<"install", s>> \notin newer
    BY <2>1, <2>2, StageOutdated DEF MustMake
  <2> QED
    BY <1>2, <2>3 DEF LibsTruthful
<1>5. Fills \subseteq {"install"} \cup Below["install"] \cup Tails
  BY DEF LinkedRules
<1> QED
  BY <1>0, <1>3, <1>4, <1>5 DEF Built

\* What is packed is whole, as long as a recipe that packs finds just what ships.
LEMMA PackedPublished ==
    ASSUME TypeOK, PublishedComplete, ZipsWhole \/ Shipped = Fills, "short" \notin Faults,
           [Next]_vars, Finished /\ Top \in Archives => installed = Shipped
    PROVE  PublishedComplete'
<1>0. installed \subseteq Fills /\ art \in [Archives -> Holding]
  BY DEF TypeOK, ContentsOK
<1>1. ASSUME NonePacked PROVE PublishedComplete'
  BY <1>1 DEF NonePacked, PublishedComplete
<1>2. CASE Started \/ Ended
  <2>1. art' = art /\ (UNCHANGED files \/ \E S : Remove(S))
    BY <1>2, StartedContents, EndedContents DEF Started, Ended
  <2> QED
    BY <1>1, <2>1, Packless
<1>3. CASE Consider
  BY <1>1, <1>3, Packless DEF Consider, contents
<1>4. CASE Worked
  <2>1. CASE NonePacked
    BY <1>1, <2>1
  <2>2. CASE /\ Top \in Piped /\ Touch(Top)
             /\ art' = [art EXCEPT ![Top] = [whole |-> FALSE, has |-> {}]]
    <3>1. ~art'[Top].whole
      BY <1>0, <2>2 DEF Archives
    <3>2. \A a \in Archives : a # Top => art'[a] = art[a]
      BY <1>0, <2>2
    <3> QED
      BY <2>2, <3>1, <3>2 DEF PublishedComplete, Touch
  <2> QED
    BY <1>0, <1>4, <2>1, <2>2, WorkedKinds
<1>5. CASE Finished
  <2>1. CASE NonePacked
    BY <1>1, <2>1
  <2>2. CASE Top \in Archives /\ Packed
    <3>1. installed = Shipped
      BY <1>5, <2>2
    <3>2. Top \in Merged \cap present => art[Top].has \subseteq Shipped
      <4>1. CASE ZipsWhole
        BY <2>2, <4>1 DEF ZipsWhole, PublishedComplete
      <4>2. CASE Shipped = Fills
        BY <1>0, <2>2, <4>2 DEF Holding
      <4> QED
        BY <4>1, <4>2
    <3>3. art'[Top].has = Shipped
      <4>1. Top \in Merged \cap present => art[Top].has \cup installed = Shipped
        BY <3>1, <3>2
      <4>2. art'[Top] = [whole |-> TRUE, has |-> Shipped]
        BY <2>2, <3>1, <4>1 DEF Packed
      <4> QED
        BY <4>2
    <3> QED
      BY <1>0, <2>2, <3>3 DEF PublishedComplete, Packed
  <2> QED
    BY <1>0, <1>5, <2>1, <2>2, FinishedContents
<1>6. CASE Cleaned
  <2>1. art' = art /\ (UNCHANGED files \/ \E S : Remove(S))
    BY <1>6, CleanedArt DEF Cleaned
  <2> QED
    BY <1>1, <2>1, Packless
<1>7. CASE UNCHANGED vars
  BY <1>1, <1>7, Packless DEF vars, contents
<1> QED
  BY <1>0, <1>2, <1>3, <1>4, <1>5, <1>6, <1>7, StepKinds

LEMMA NextPublished ==
    ASSUME LinkedRules, "short" \notin Faults, Orderly, Sound, LibsTruthful,
           PublishedComplete, [Next]_vars
    PROVE  PublishedComplete'
<1>1. TypeOK /\ Shipped = Fills /\ installed \subseteq Fills
  BY LinkFacts DEF Orderly, TypeOK, ContentsOK
<1>2. Finished /\ Top \in Archives => installed = Shipped
  BY <1>1, PackedWhole DEF Finished
<1> QED
  BY <1>1, <1>2, PackedPublished

LEMMA NextComplete ==
    ASSUME LinkedRules, RegressChain, Jobs \cap Wholesale = {}, "short" \notin Faults,
           CompleteInv, [Next]_vars
    PROVE  CompleteInv'
<1>0. /\ PackingRules /\ Lax = {} /\ Listers = {}
      /\ TruthInv /\ SettledInv /\ Orderly /\ TypeOK /\ Emptied
  BY LinkFacts DEF CompleteInv, SettledInv, Orderly, TruthInv
<1>1. TruthInv'
  BY <1>0, NextTruth
<1>2. SettledInv'
  BY <1>0, NextSettled
<1>3. Orderly'
  BY <1>2 DEF SettledInv
<1>4. Ages'
  BY <1>0, NextAges DEF CompleteInv
<1>5. Lineage' /\ HandedUp' /\ LinkedFirst'
  BY <1>0, <1>3, NextLine DEF CompleteInv
<1>6. Missing'
  BY <1>0, <1>3, NextMissing DEF CompleteInv
<1>7. Fed' /\ Supplied'
  BY <1>0, <1>3, NextFed, NextSupplied DEF CompleteInv
<1>8. Sound'
  BY <1>0, NextSound DEF CompleteInv
<1>9. LibsTruthful'
  BY <1>0, NextLibs DEF CompleteInv
<1>10. PublishedComplete'
  BY <1>0, NextPublished DEF CompleteInv
<1> QED
  BY <1>1, <1>2, <1>4, <1>5, <1>6, <1>7, <1>8, <1>9, <1>10 DEF CompleteInv

LEMMA InitComplete == ASSUME LinkedRules, Init PROVE CompleteInv
<1>1. TruthInv /\ SettledInv
  BY InitTruth, InitSettled, LinkFacts
<1>2. OnStack = {} /\ known = {} /\ ~Running /\ present = {} /\ newer = {}
  <2>1. DOMAIN stack = {}
    BY DEF Init
  <2> QED
    BY <2>1 DEF Init, OnStack, RangeOf, Running, Goals
<1>3. Ages /\ PublishedComplete /\ LibsTruthful /\ Sound
  BY <1>2 DEF Ages, PublishedComplete, LibsTruthful, Sound, Intact
<1>4. Missing
  BY <1>2 DEF Missing, Outdated
<1> QED
  BY <1>1, <1>2, <1>3, <1>4
  DEF CompleteInv, Lineage, HandedUp, LinkedFirst, Fed, Supplied

(***************************************************************************)
(* However runs of make fail, are interrupted or killed and are started    *)
(* again, and whatever of a package cleanup and flushup take away, the     *)
(* stamps either tell the truth about INSTALL or make is bound to build    *)
(* from source.stamp up, and a stage that lost what it links fails before  *)
(* its stamp is written: for any package whose stages form such a tree.    *)
(***************************************************************************)
THEOREM CompleteIsInvariant ==
    ASSUME LinkedRules, RegressChain, Jobs \cap Wholesale = {}, "short" \notin Faults
    PROVE  Spec => []CompleteInv
<1>1. Init => CompleteInv
  BY InitComplete
<1>2. CompleteInv /\ [Next]_vars => CompleteInv'
  BY NextComplete
<1> QED
  BY <1>1, <1>2, PTL DEF Spec

(***************************************************************************)
(* An archive of such a package that unpacks holds every stage.            *)
(***************************************************************************)
THEOREM ArchivesComplete ==
    ASSUME LinkedRules, RegressChain, Jobs \cap Wholesale = {}, "short" \notin Faults
    PROVE  Spec => []PublishedComplete
<1>1. CompleteInv => PublishedComplete
  BY DEF CompleteInv
<1> QED
  BY <1>1, CompleteIsInvariant, PTL

-----------------------------------------------------------------------------
(* regress.                                                                *)

\* Its parts are visible wherever the invariant is.
USE DEF TarIsSeen, FragmentsAreNewer, UnpacksWhole, TestsWhole, EndsWhole

\* What is made from launch.stamp.
LEMMA UpFromLaunch ==
    ASSUME RegressChain, PackingRules, NEW t \in Files \cup Goals, "launch" \in Below[t]
    PROVE  t \in {"test", "regress"}
<1>1. t \notin BuildFiles /\ t \notin Arts
  BY BuildFileFacts, ChainFacts, ArtFacts, OrderFacts
<1>2. t # "launch"
  BY ChainFacts, GraphAssumption
<1>3. t # "package"
  BY DEF RegressChain
<1> QED
  BY <1>1, <1>2, <1>3 DEF Files, TestFiles, Goals

LEMMA TestFacts ==
    ASSUME RegressChain
    PROVE  /\ RangeOf(Prereqs["regress"]) = {"test"} /\ RangeOf(Prereqs["test"]) = {"launch"}
           /\ RangeOf(Prereqs["launch"]) = {Tar}
           /\ "launch" \in Below["test"] /\ Tar \in Below["launch"] /\ Tar \in Below["test"]
           /\ "test" \in Files /\ "regress" \in Goals /\ "regress" \notin Files
           /\ "test" \notin Archives /\ "test" \notin BuildFiles /\ "test" # Tar
           /\ "test" \notin Piped
<1>1. /\ RangeOf(<<"test">>) = {"test"} /\ RangeOf(<<"launch">>) = {"launch"}
      /\ RangeOf(<<Tar>>) = {Tar}
  BY DEF RangeOf
<1>2. /\ RangeOf(Prereqs["regress"]) = {"test"} /\ RangeOf(Prereqs["test"]) = {"launch"}
      /\ RangeOf(Prereqs["launch"]) = {Tar}
  BY <1>1 DEF RegressChain
<1>3. "launch" \in Below["test"] /\ Tar \in Below["launch"] /\ Tar \in Below["test"]
  BY <1>2, TargetsAreFiles, GraphAssumption
<1>4. "test" \in Files /\ "regress" \in Goals /\ "regress" \notin Files
  BY TargetsAreFiles, GoalsAreNoFiles DEF Goals
<1>5. "test" \notin Archives /\ "test" \notin BuildFiles
  BY GraphAssumption DEF BuildFiles, TestFiles
<1> QED
  BY <1>2, <1>3, <1>4, <1>5, ChainFacts DEF Archives

\* Only regress makes launch.stamp and test.stamp.
LEMMA MakingTests ==
    ASSUME RegressChain, PackingRules, RunOK, Running, Descends, Top \in TestFiles
    PROVE  job = "regress" /\ OnStack \ {Top} \subseteq {"regress", "test"}
<1>1. /\ Len(stack) \in DOMAIN stack /\ DOMAIN stack = 1..Len(stack) /\ Len(stack) \in Nat
      /\ job = stack[1] /\ job \in Goals /\ 1 \in DOMAIN stack
      /\ \A i \in DOMAIN stack : stack[i] \in Files \cup Goals
  BY UnderGoal, LenProperties, ElementOfSeq DEF RunOK, Running
<1>2. ASSUME NEW j \in DOMAIN stack, stack[j] # Top PROVE stack[j] \in {"regress", "test"}
  <2>1. j < Len(stack)
    BY <1>1, <1>2 DEF Top
  <2>2. Top \in Below[stack[j]]
    BY <1>1, <2>1 DEF Descends, Top
  <2>3. "launch" \in Below[stack[j]]
    BY <1>1, <2>2, TestFacts, GraphAssumption DEF TestFiles
  <2> QED
    BY <1>1, <2>3, UpFromLaunch
<1>3. job # Top
  BY <1>1, GoalsAreNoFiles DEF Files
<1>4. job = "regress"
  BY <1>1, <1>2, <1>3, TestFacts, GoalsAreNoFiles
<1> QED
  BY <1>2, <1>4 DEF OnStack, RangeOf

\* A tarball that launch.stamp or test.stamp is not older than is whole.
LEMMA OlderIsWhole ==
    ASSUME RegressOwn, RegressChain, job = "regress", tarSeen, NEW t \in TestFiles, ~MustMake(t)
    PROVE  art[Tar].whole
<1>1. t \in present /\ <<Tar, t>> \notin newer
  BY TestFacts DEF MustMake, Outdated, Reach, TestFiles
<1> QED
  BY <1>1 DEF RegressOwn

LEMMA ConsiderRegress ==
    ASSUME PackingRules, RegressChain, Orderly, RegressOwn, Consider
    PROVE  RegressOwn'
<1>0. /\ PackingRules /\ TypeOK /\ RunOK /\ Descends /\ Apart /\ Running /\ step' = "scan"
      /\ UNCHANGED <<files, job, tarSeen, outcome, art>>
  BY DEF Orderly, TypeOK, Consider, contents
<1>1. PICK i \in FirstUnknown :
        \/ /\ known' = known \cup {Prereqs[Top][i]} /\ UNCHANGED stack
           /\ ~MustMake(Prereqs[Top][i])
        \/ stack' = Append(stack, Prereqs[Top][i]) /\ UNCHANGED known
  BY <1>0, ConsiderKinds
<1> DEFINE t == Prereqs[Top][i]
<1>2. /\ t \in RangeOf(Prereqs[Top]) /\ t \in Below[Top] /\ t \notin known
      /\ Top \in Files \cup Goals /\ (Top = "launch" => tarSeen) /\ Top \in OnStack
      /\ i \in Unknown /\ PrereqsOf(Top) = Prereqs[Top]
  BY <1>0, Turn, TopOnStack
<1>3. /\ job = "regress" /\ ~tarSeen => OnStack' \subseteq TestFiles \cup {"regress"}
      /\ job = "regress" /\ tarSeen /\ known' \cap TestFiles # {}
            => art[Tar].whole /\ OnStack' \subseteq {"regress", "test"}
  <2>1. CASE known' = known \cup {t} /\ UNCHANGED stack /\ ~MustMake(t)
    <3>1. OnStack' = OnStack
      BY <2>1 DEF OnStack
    <3>2. ASSUME job = "regress", tarSeen, t \in TestFiles
          PROVE  art[Tar].whole /\ OnStack \subseteq {"regress", "test"}
      <4>1. art[Tar].whole
        BY <2>1, <3>2, OlderIsWhole
      <4>2. Top \in {"test", "regress"}
        <5>1. "launch" \in Below[Top]
          BY <1>2, <3>2, TestFacts, GraphAssumption DEF TestFiles
        <5> QED
          BY <1>0, <1>2, <5>1, UpFromLaunch
      <4>3. CASE Top = "test"
        BY <1>0, <4>1, <4>3, MakingTests DEF TestFiles
      <4>4. CASE Top = "regress"
        <5>1. Len(stack) = 1
          BY <1>0, <4>4, UnderGoal, TestFacts DEF Top
        <5>2. DOMAIN stack = {1}
          BY <1>0, <5>1, UnderGoal
        <5> QED
          BY <4>1, <4>4, <5>1, <5>2 DEF OnStack, RangeOf, Top
      <4> QED
        BY <4>2, <4>3, <4>4
    <3> HIDE DEF t
    <3> QED
      BY <2>1, <3>1, <3>2 DEF RegressOwn
  <2>2. CASE stack' = Append(stack, t) /\ UNCHANGED known
    <3>1. OnStack' = OnStack \cup {t}
      BY <1>0, <1>2, <2>2, PushStack
    <3>2. Top = "regress" => t = "test"
      BY <1>2, TestFacts
    <3>3. Top = "test" => t = "launch"
      BY <1>2, TestFacts
    <3>4. Top = "test" => known \cap TestFiles = {}
      BY <1>0, <1>2, <3>3 DEF Apart, TestFiles
    <3> HIDE DEF t
    <3> QED
      BY <1>2, <2>2, <3>1, <3>2, <3>3, <3>4 DEF RegressOwn, TestFiles
  <2> QED
    BY <1>1, <2>1, <2>2
<1> QED
  BY <1>0, <1>3 DEF RegressOwn, RegressProves, files

LEMMA WorkedRegress ==
    ASSUME RegressChain, TypeOK, RegressOwn, [Next]_vars, Worked
    PROVE  RegressOwn'
<1>0. /\ TypeOK /\ RunOK /\ Running /\ Top' = Top /\ UNCHANGED <<job, stack, known, tarSeen, outcome>>
      /\ OnStack' = OnStack /\ Top \in OnStack /\ art \in [Archives -> Holding]
      /\ Tar \in Archives /\ Tar \notin TestFiles /\ "launch" \in TestFiles
  BY TopOnStack, ChainFacts DEF TypeOK, ContentsOK, Worked, GoTo, Top, OnStack
<1>1. outcome # <<"regress", "ok">>
  BY <1>0, ChainFacts DEF RegressOwn, Running
<1>2. CASE UNCHANGED art /\ (UNCHANGED files \/ \E S \in SUBSET BuildFiles : Remove(S))
  <2>1. /\ Tar \in present' <=> Tar \in present
        /\ \A t \in TestFiles \cap present' : t \in present
        /\ \A t \in TestFiles : <<Tar, t>> \in newer => <<Tar, t>> \in newer'
    <3>1. Tar \notin BuildFiles /\ TestFiles \cap BuildFiles = {}
      BY ChainFacts, BuildFileFacts
    <3> QED
      BY <1>2, <3>1 DEF files, Remove
  <2>2. Top = "launch" /\ step' = "unpacking" => art[Tar].whole
    <3>1. Top = "launch" /\ step' = "unpacking" => step = "unpacking" \/ art[Tar].whole
      BY <1>0, WorkedKinds
    <3> QED
      BY <1>0, <3>1 DEF RegressOwn
  <2> QED
    BY <1>0, <1>1, <1>2, <2>1, <2>2 DEF RegressOwn, RegressProves
<1>3. CASE /\ Top \in Piped /\ Touch(Top)
           /\ art' = art \/ art' = [art EXCEPT ![Top] = [whole |-> FALSE, has |-> {}]]
           /\ step' = "packing"
  <2>1. /\ Top \notin TestFiles /\ Top # "regress" /\ Top # "test"
        /\ TestFiles \cap Archives = {}
    BY <1>3, TestFacts, ChainFacts, GoalsAreNoFiles, GraphAssumption DEF Archives, TestFiles
  <2>2. Tar \in present' /\ ~(art'[Tar].whole) => \A t \in TestFiles \cap present' : <<Tar, t>> \in newer'
    <3>1. CASE Top = Tar
      BY <1>0, <1>3, <2>1, <3>1 DEF Touch
    <3>2. CASE Top # Tar
      <4>1. art'[Tar] = art[Tar]
        BY <1>0, <1>3, <3>2
      <4> QED
        BY <1>0, <1>3, <2>1, <3>2, <4>1 DEF Touch, RegressOwn
    <3> QED
      BY <3>1, <3>2
  <2>3. job = "regress" => (tarSeen <=> Tar \in present')
    BY <1>0, <1>3, <2>1 DEF RegressOwn, Touch
  <2>4. ~(job = "regress" /\ tarSeen /\ known \cap TestFiles # {})
    BY <1>0, <2>1 DEF RegressOwn
  <2> QED
    BY <1>0, <1>1, <1>3, <2>2, <2>3, <2>4 DEF RegressOwn, RegressProves
<1>4. \/ UNCHANGED art
      \/ /\ Top \in Piped /\ Touch(Top) /\ step' = "packing"
         /\ art' = [art EXCEPT ![Top] = [whole |-> FALSE, has |-> {}]]
  BY <1>0, WorkedKinds
<1>5. \/ step' # "packing" /\ (UNCHANGED files \/ \E S \in SUBSET BuildFiles : Remove(S))
      \/ Top \in Piped /\ Touch(Top) /\ step' = "packing"
  <2>1. ASSUME Top \in Stages PROVE SameDir[Top] \in SUBSET BuildFiles
    BY <2>1, GraphAssumption DEF BuildFiles
  <2> QED
    BY <2>1 DEF Worked
<1> QED
  BY <1>2, <1>3, <1>4, <1>5

LEMMA FinishedRegress ==
    ASSUME PackingRules, RegressChain, Orderly, RegressOwn, [Next]_vars, Finished,
           "short" \notin Faults
    PROVE  RegressOwn'
<1>0. /\ PackingRules /\ TypeOK /\ RunOK /\ Descends /\ Ready /\ Running /\ Top \in Files
      /\ step # "scan" /\ step' = "scan" /\ known' = known \cup {Top}
      /\ UNCHANGED <<job, tarSeen, outcome>> /\ Top \in OnStack
      /\ Tar \in Archives /\ Tar \notin TestFiles /\ Tar \notin BuildFiles
      /\ TestFiles \cap Archives = {} /\ TestFiles \cap BuildFiles = {}
      /\ TestFiles = {"launch", "test"} /\ art \in [Archives -> Holding]
  BY TopOnStack, ChainFacts, TestFacts, BuildFileFacts, GraphAssumption
  DEF Orderly, TypeOK, ContentsOK, Finished, TestFiles, Archives
<1>1. outcome # <<"regress", "ok">>
  BY <1>0, ChainFacts DEF RegressOwn, Running
<1>2. OnStack' = OnStack \ {Top}
  BY <1>0, PopStack DEF Finished
<1>3. /\ Top \notin Archives => UNCHANGED art
      /\ Top # Tar /\ Tar \in present' => Tar \in present /\ art'[Tar] = art[Tar]
      /\ Top = Tar => art'[Tar].whole
      /\ Top = "launch" => step = "unpacking"
  <2>1. CASE (Fetch \/ StageFinish) /\ NonePacked /\ UNCHANGED art
    <3>1. Top \in BuildFiles
      BY <2>1 DEF Fetch, StageFinish, BuildFiles
    <3> QED
      BY <1>0, <2>1, <3>1 DEF NonePacked
  <2>2. CASE Top \in Archives /\ Packed
    BY <1>0, <2>2 DEF Packed
  <2>3. CASE Top \notin Archives /\ NonePacked /\ UNCHANGED art /\ (Top = "launch" => step = "unpacking")
    BY <1>0, <2>3 DEF NonePacked
  <2> QED
    BY <1>0, <2>1, <2>2, <2>3, FinishedContents
<1>4. ASSUME Top \in TestFiles
      PROVE  /\ job = "regress" /\ OnStack' \subseteq {"regress", "test"}
             /\ art' = art /\ (tarSeen => art[Tar].whole)
  <2>1. job = "regress" /\ OnStack \ {Top} \subseteq {"regress", "test"}
    BY <1>0, <1>4, MakingTests
  <2>2. art' = art
    BY <1>0, <1>3, <1>4
  <2>3. CASE Top = "launch"
    BY <1>0, <1>2, <1>3, <2>1, <2>2, <2>3 DEF RegressOwn
  <2>4. CASE Top = "test"
    <3>1. "launch" \in known
      <4>1. PrereqsOf(Top) = Prereqs["test"]
        BY <2>4 DEF PrereqsOf
      <4> QED
        BY <1>0, <4>1, TestFacts DEF Ready
    <3> QED
      BY <1>0, <1>2, <2>1, <2>2, <3>1 DEF RegressOwn
  <2> QED
    BY <1>0, <1>4, <2>3, <2>4
<1>5. job = "regress" => (tarSeen <=> Tar \in present')
  <2>1. job = "regress" /\ Top = Tar => tarSeen
    BY <1>0, ChainFacts, TestFacts DEF RegressOwn
  <2>2. present' = present \/ present' = present \cup {Top}
    BY DEF Finished, Touch, files
  <2>3. Top = Tar /\ Touch(Top) => Tar \in present'
    BY DEF Touch
  <2> QED
    BY <1>0, <2>1, <2>2, <2>3 DEF RegressOwn
<1>6. Tar \in present' /\ ~(art'[Tar].whole) => \A t \in TestFiles \cap present' : <<Tar, t>> \in newer'
  <2> SUFFICES ASSUME Tar \in present', ~(art'[Tar].whole), NEW t \in TestFiles \cap present'
               PROVE  <<Tar, t>> \in newer'
    OBVIOUS
  <2>1. Top # Tar /\ Tar \in present /\ ~art[Tar].whole
    BY <1>3
  <2>2. Top \notin TestFiles
    BY <1>0, <1>4, <1>5, <2>1
  <2>3. t \in present /\ <<Tar, t>> \in newer
    BY <1>0, <2>1, <2>2 DEF RegressOwn, Finished, Touch, files
  <2> QED
    BY <1>0, <2>1, <2>2, <2>3 DEF Finished, Touch, files
<1>7. job = "regress" /\ tarSeen /\ known' \cap TestFiles # {}
         => art'[Tar].whole /\ OnStack' \subseteq {"regress", "test"}
  <2>1. CASE Top \in TestFiles
    BY <1>4, <2>1
  <2>2. CASE Top \notin TestFiles
    <3>1. job = "regress" /\ tarSeen /\ known \cap TestFiles # {} => Top \in {"regress", "test"}
      BY <1>0 DEF RegressOwn
    <3> QED
      BY <1>0, <2>2, <3>1, TestFacts
  <2> QED
    BY <2>1, <2>2
<1> QED
  BY <1>0, <1>1, <1>2, <1>5, <1>6, <1>7 DEF RegressOwn, RegressProves

LEMMA EndedRegress ==
    ASSUME RegressChain, Tools \cap Listers = {}, RegressOwn, PublishedComplete', [Next]_vars, Ended
    PROVE  RegressOwn'
<1>0. /\ UNCHANGED <<art, tarSeen>> /\ job' = "idle" /\ ~Running' /\ known' = {}
      /\ "regress" \in Goals /\ "regress" # "launch" /\ Tar \notin TestFiles
  BY EndedContents, ChainFacts DEF Ended, Stop, Running, Goals
<1>1. Tar \in present' /\ ~(art'[Tar].whole) => \A t \in TestFiles \cap present' : <<Tar, t>> \in newer'
  BY <1>0 DEF Ended, Remove, files, RegressOwn
<1>2. outcome' = <<"regress", "ok">> => (tarSeen' => Tar \in present' /\ art'[Tar].whole)
  <2> SUFFICES ASSUME outcome' = <<"regress", "ok">>, tarSeen
               PROVE  Tar \in present' /\ art'[Tar].whole
    BY <1>0
  <2>1. job = "regress" /\ UNCHANGED files /\ Top = job /\ Unknown = {}
    BY <1>0 DEF Ended, Stop
  <2>2. PrereqsOf(Top) = <<"test">>
    BY <1>0, <2>1 DEF PrereqsOf, RegressChain
  <2>3. "test" \in known
    <3>1. 1 \in DOMAIN PrereqsOf(Top) /\ PrereqsOf(Top)[1] = "test"
      BY <2>2
    <3> QED
      BY <2>1, <3>1 DEF Unknown
  <2> QED
    BY <1>0, <2>1, <2>3 DEF RegressOwn, TestFiles, files
<1>3. RegressProves'
  <2>1. Tools \subseteq Shipped
    BY RecipeAssumption DEF RecipeOK, Shipped
  <2> HIDE DEF GraphOK
  <2> QED
    BY <1>2, <2>1, ChainFacts DEF PublishedComplete, RegressProves
<1> QED
  BY <1>0, <1>1, <1>2, <1>3 DEF RegressOwn

\* Whatever the rules of the package are that make its archives complete.
LEMMA NextRegressOwn ==
    ASSUME PackingRules, RegressChain, Tools \cap Listers = {}, "short" \notin Faults,
           Orderly, RegressOwn, PublishedComplete', [Next]_vars
    PROVE  RegressOwn'
<1>0. TypeOK
  BY DEF Orderly
<1>1. CASE Started
  <2>1. /\ UNCHANGED <<art, files>> /\ (job' \in Goals => tarSeen' = (Tar \in present))
        /\ outcome' # <<"regress", "ok">> /\ known' = {}
        /\ job' \in Goals \cup Cleanings /\ (job' \in Goals => step' = "scan")
        /\ "regress" \in Goals
    BY <1>1, StartedContents DEF Started, Goals
  <2>2. job' = "regress" => OnStack' = {"regress"}
    <3>1. ASSUME job' = "regress" PROVE stack' = <<"regress">> /\ DOMAIN stack' = {1}
      BY <1>1, <2>1, <3>1 DEF Started
    <3> QED
      BY <3>1 DEF OnStack, RangeOf
  <2>3. ~(Running' /\ Top' = "launch" /\ step' = "unpacking")
    BY <2>1 DEF Running
  <2> QED
    BY <1>0, <2>1, <2>2, <2>3 DEF RegressOwn, RegressProves, files
<1>2. CASE Ended
  BY <1>0, <1>2, EndedRegress
<1>3. CASE Consider
  BY <1>0, <1>3, ConsiderRegress
<1>4. CASE Worked
  BY <1>0, <1>4, WorkedRegress
<1>5. CASE Finished
  BY <1>0, <1>5, FinishedRegress
<1>6. CASE Cleaned
  <2>1. /\ UNCHANGED <<art, job, outcome>> /\ job \in Cleanings /\ job # "regress"
        /\ job # "idle" /\ ~Running' /\ Tar \notin TestFiles
    BY <1>0, <1>6, CleanedArt, ChainFacts DEF Cleaned, Running, Goals
  <2>2. outcome # <<"regress", "ok">>
    BY <2>1 DEF RegressOwn
  <2>3. Tar \in present' /\ ~(art'[Tar].whole) => \A t \in TestFiles \cap present' : <<Tar, t>> \in newer'
    BY <1>6, <2>1 DEF Cleaned, Remove, files, RegressOwn
  <2> QED
    BY <1>0, <2>1, <2>2, <2>3 DEF RegressOwn, RegressProves
<1>7. CASE UNCHANGED vars
  BY <1>0, <1>7 DEF vars, files, contents, run, RegressOwn, RegressProves, Running, Top, OnStack
<1> QED
  BY <1>0, <1>1, <1>2, <1>3, <1>4, <1>5, <1>6, <1>7, StepKinds

LEMMA NextRegress ==
    ASSUME LinkedRules, RegressChain, Jobs \cap Wholesale = {}, "short" \notin Faults,
           RegressInv, [Next]_vars
    PROVE  RegressInv'
<1>1. CompleteInv /\ Orderly /\ CompleteInv' /\ PublishedComplete'
  BY NextComplete DEF RegressInv, CompleteInv, SettledInv
<1>2. PackingRules /\ Tools \cap Listers = {}
  BY LinkFacts
<1> QED
  BY <1>1, <1>2, NextRegressOwn DEF RegressInv

LEMMA InitRegressOwn == Init => RegressOwn
<1> SUFFICES ASSUME Init PROVE RegressOwn
  OBVIOUS
<1>1. OnStack = {} /\ known = {} /\ ~Running /\ job = "idle" /\ outcome # <<"regress", "ok">>
  <2>1. DOMAIN stack = {}
    BY DEF Init
  <2> QED
    BY <2>1 DEF Init, OnStack, RangeOf, Running, Goals
<1>2. present = {}
  BY DEF Init
<1> QED
  BY <1>1, <1>2 DEF RegressOwn, RegressProves

(***************************************************************************)
(* A tarball that test.stamp or launch.stamp is not older than is never a  *)
(* fragment, whatever interrupts runs and clean-ups: the recipe that opens *)
(* it makes it the newest file, and make takes up neither stamp before it. *)
(***************************************************************************)
THEOREM RegressIsInvariant ==
    ASSUME LinkedRules, RegressChain, Jobs \cap Wholesale = {}, "short" \notin Faults
    PROVE  Spec => []RegressInv
<1>1. Init => RegressInv
  BY InitComplete, InitRegressOwn DEF RegressInv
<1>2. RegressInv /\ [Next]_vars => RegressInv'
  BY NextRegress
<1> QED
  BY <1>1, <1>2, PTL DEF Spec

(***************************************************************************)
(* A regress run of such a package that found a tarball and ended well has *)
(* found every program it runs in that tarball (RegressProves).            *)
(***************************************************************************)
THEOREM RegressTellsOfTheTarball ==
    ASSUME LinkedRules, RegressChain, Jobs \cap Wholesale = {}, "short" \notin Faults
    PROVE  Spec => []RegressProves
<1>1. RegressInv => RegressProves
  BY DEF RegressInv, RegressOwn
<1> QED
  BY <1>1, RegressIsInvariant, PTL
=============================================================================
