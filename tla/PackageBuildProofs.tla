-------------------------- MODULE PackageBuildProofs --------------------------
(***************************************************************************)
(* What holds of module PackageBuild for the rules of any package: type    *)
(* correctness, that up-to-date stamps tell the truth as long as the whole *)
(* of obj is never removed at once, and that it implements PackageRelease  *)
(* as long as Ctrl-C is all that stops its runs.                           *)
(***************************************************************************)
EXTENDS PackageBuild, SequenceTheorems, TLAPS

\* Wherever one of the two assumptions is cited, what it says is visible.
USE DEF GraphOK, RecipeOK

-----------------------------------------------------------------------------
(* Names.                                                                  *)

LEMMA GoalsAreNoFiles == Goals \cap Files = {}
BY GraphAssumption DEF Goals, Files, BuildFiles, TestFiles

LEMMA SourceIsNoStage == "source" \notin Stages
BY GraphAssumption

LEMMA BelowAreFiles == \A t \in Files \cup Goals : Below[t] \subseteq Files
BY GraphAssumption

-----------------------------------------------------------------------------
(* Types: one lemma per building block of the actions.                     *)

LEMMA TouchOK == ASSUME FilesOK, NEW f \in Files, Touch(f) PROVE FilesOK'
BY DEF FilesOK, Touch

LEMMA RemoveOK == ASSUME FilesOK, NEW S, Remove(S) PROVE FilesOK'
BY DEF FilesOK, Remove

LEMMA TopOK ==
    ASSUME RunOK, Running
    PROVE  /\ Len(stack) \in Nat \ {0}
           /\ Top \in Files \cup Goals
           /\ Top \in Files => Len(stack) > 1
<1>1. stack \in Seq(Files \cup Goals) /\ stack # <<>> /\ stack[1] \in Goals
  BY DEF RunOK, Running
<1>2. Len(stack) \in Nat \ {0}
  BY <1>1, EmptySeq
<1>3. stack[Len(stack)] \in Files \cup Goals
  BY <1>1, <1>2, ElementOfSeq
<1> QED
  BY <1>1, <1>2, <1>3, GoalsAreNoFiles DEF Top

LEMMA PopOK ==
    ASSUME RunOK, Running, Top \in Files
    PROVE  LET shorter == SubSeq(stack, 1, Len(stack) - 1) IN
             /\ shorter \in Seq(Files \cup Goals)
             /\ Len(shorter) = Len(stack) - 1
             /\ \A i \in 1..Len(shorter) : shorter[i] = stack[i]
             /\ shorter # <<>> /\ shorter[1] = job
<1>1. stack \in Seq(Files \cup Goals) /\ stack[1] = job
  BY DEF RunOK, Running
<1>2. Len(stack) \in Nat /\ Len(stack) > 1
  BY TopOK
<1>3. \A i \in 1..(Len(stack) - 1) : stack[i] \in Files \cup Goals
  BY <1>1, <1>2, ElementOfSeq
<1> DEFINE shorter == SubSeq(stack, 1, Len(stack) - 1)
<1>4. /\ shorter \in Seq(Files \cup Goals)
      /\ Len(shorter) = Len(stack) - 1
      /\ \A i \in 1..(Len(stack) - 1) : shorter[i] = stack[i]
  <2>1. /\ SubSeq(stack, 1, Len(stack) - 1) \in Seq(Files \cup Goals)
        /\ Len(SubSeq(stack, 1, Len(stack) - 1))
             = IF 1 <= Len(stack) - 1 THEN Len(stack) - 1 - 1 + 1 ELSE 0
        /\ \A i \in 1..(Len(stack) - 1 - 1 + 1) :
              SubSeq(stack, 1, Len(stack) - 1)[i] = stack[1 + i - 1]
    BY <1>2, <1>3, SubSeqProperties
  <2> QED
    BY <1>2, <2>1
<1> HIDE DEF shorter
<1>5. shorter # <<>>
  <2>1. Len(shorter) > 0
    BY <1>2, <1>4
  <2> QED
    BY <2>1, EmptySeq
<1>6. 1 \in 1..(Len(stack) - 1)
  BY <1>2
<1>7. shorter[1] = job
  BY <1>1, <1>4, <1>6
<1>8. \A i \in 1..Len(shorter) : shorter[i] = stack[i]
  BY <1>4
<1> QED
  BY <1>4, <1>5, <1>7, <1>8 DEF shorter

LEMMA MadeOK == ASSUME RunOK, Running, Top \in Files, Made PROVE RunOK'
<1>1. /\ stack' \in Seq(Files \cup Goals)
      /\ stack' # <<>> /\ stack'[1] = job
  BY PopOK DEF Made
<1> QED
  BY <1>1 DEF RunOK, Made, Running, Steps

LEMMA GoToOK == ASSUME RunOK, NEW s \in Steps, GoTo(s) PROVE RunOK'
BY DEF RunOK, GoTo

LEMMA StopOK ==
    ASSUME RunOK, job # "idle", NEW how \in {"ok", "error"}, Stop(how),
           faults' \in 0..MaxFaults
    PROVE  RunOK'
<1>1. <<>> \in Seq(Files \cup Goals)
  BY EmptySeq
<1>2. "idle" \notin Goals
  BY DEF Goals
<1> QED
  BY <1>1, <1>2 DEF RunOK, Stop, Steps

LEMMA DisturbedOK ==
    ASSUME RunOK, faults < MaxFaults, faults' = faults + 1
    PROVE  faults' \in 0..MaxFaults
BY RecipeAssumption DEF RunOK

LEMMA TargetsAreFiles ==
    /\ "source" \in Files /\ "launch" \in Files /\ "test" \in Files
    /\ Stages \subseteq Files /\ Arts \subseteq Files /\ Archives \subseteq Files
    /\ Tar \in Archives
    /\ RangeOf(Prereqs["package"]) \subseteq Files
<1>1. "package" \in Files \cup Goals
  BY DEF Goals
<1> QED
  BY <1>1, GraphAssumption
     DEF Files, BuildFiles, TestFiles, Archives

LEMMA PrereqsAreFiles ==
    ASSUME RunOK, Running
    PROVE  \A i \in Unknown : PrereqsOf(Top)[i] \in Files
<1>1. PrereqsOf(Top) \in Seq(Files)
  BY TopOK, GraphAssumption, EmptySeq DEF PrereqsOf
<1> QED
  BY <1>1, ElementOfSeq, LenProperties DEF Unknown

LEMMA ConsiderOK == ASSUME RunOK, Consider PROVE RunOK'
<1>1. stack \in Seq(Files \cup Goals) /\ stack # <<>> /\ stack[1] = job /\ Running
  BY DEF RunOK, Consider, Running
<1>2. PICK i \in Unknown :
        LET t == PrereqsOf(Top)[i] IN
        IF MustMake(t)
        THEN stack' = Append(stack, t) /\ UNCHANGED known
        ELSE known' = known \cup {t} /\ UNCHANGED stack
  BY DEF Consider, FirstUnknown
<1>3. PrereqsOf(Top)[i] \in Files
  BY <1>1, PrereqsAreFiles
<1>4. CASE stack' = Append(stack, PrereqsOf(Top)[i]) /\ UNCHANGED known
  <2>1. Len(stack) \in Nat /\ Len(stack) > 0
    BY <1>1, TopOK
  <2>2. /\ stack' \in Seq(Files \cup Goals) /\ Len(stack') = Len(stack) + 1
        /\ stack'[1] = stack[1]
    BY <1>1, <1>3, <1>4, <2>1, AppendProperties
  <2>3. stack' # <<>>
    BY <2>1, <2>2, EmptySeq
  <2> QED
    BY <1>1, <1>4, <2>2, <2>3 DEF RunOK, Consider, Running
<1>5. CASE known' = known \cup {PrereqsOf(Top)[i]} /\ UNCHANGED stack
  BY <1>1, <1>3, <1>5 DEF RunOK, Consider, Running
<1> QED
  BY <1>2, <1>4, <1>5

\* The targets being updated descend along prerequisites: one more, one less.
LEMMA PushDescends ==
    ASSUME RunOK, Running, Descends, NEW i \in Unknown,
           stack' = Append(stack, PrereqsOf(Top)[i])
    PROVE  /\ Descends'
           /\ Len(stack') = Len(stack) + 1
           /\ stack'[Len(stack) + 1] = PrereqsOf(Top)[i]
           /\ DOMAIN stack = 1..Len(stack)
           /\ DOMAIN stack' = 1..(Len(stack) + 1)
           /\ \A j \in 1..Len(stack) : stack'[j] = stack[j]
<1> DEFINE t == PrereqsOf(Top)[i]
<1>0. Len(stack) \in Nat /\ Len(stack) > 0
  BY TopOK
<1>1. /\ Top \in Files \cup Goals
      /\ stack \in Seq(Files \cup Goals) /\ DOMAIN stack = 1..Len(stack)
  BY TopOK, LenProperties DEF RunOK
<1>2. t \in Files
  BY PrereqsAreFiles
<1>3. t \in Below[Top]
  <2>1. i \in DOMAIN Prereqs[Top] /\ t = Prereqs[Top][i]
    BY EmptySeq DEF Unknown, PrereqsOf
  <2> QED
    BY <1>1, <2>1, GraphAssumption DEF RangeOf
<1> HIDE DEF t
<1>4. /\ DOMAIN stack' = 1..(Len(stack) + 1) /\ Len(stack') = Len(stack) + 1
      /\ stack'[Len(stack) + 1] = t
      /\ \A j \in 1..Len(stack) : stack'[j] = stack[j]
  <2>1. /\ stack' \in Seq(Files \cup Goals) /\ Len(stack') = Len(stack) + 1
        /\ stack'[Len(stack) + 1] = t
        /\ \A j \in 1..Len(stack) : stack'[j] = stack[j]
    BY <1>1, <1>2, AppendProperties DEF t
  <2> QED
    BY <2>1, LenProperties
<1>5. \A j \in 1..Len(stack) : t \in Below[stack[j]]
  <2> SUFFICES ASSUME NEW j \in 1..Len(stack), j # Len(stack)
               PROVE  t \in Below[stack[j]]
    BY <1>1, <1>3 DEF Top
  <2>1. j < Len(stack)
    BY <1>0
  <2>2. Len(stack) \in DOMAIN stack /\ j \in DOMAIN stack
    <3>1. Len(stack) \in 1..Len(stack)
      BY <1>0
    <3> QED
      BY <1>1, <3>1
  <2>3. Top \in Below[stack[j]]
    BY <2>1, <2>2 DEF Descends, Top
  <2>4. stack[j] \in Files \cup Goals
    BY <1>1, ElementOfSeq
  <2> QED
    BY <1>3, <2>3, <2>4, GraphAssumption
<1>6. Descends'
  <2> SUFFICES ASSUME NEW j \in DOMAIN stack', NEW k \in DOMAIN stack', j < k
               PROVE  stack'[k] \in Below[stack'[j]]
    BY DEF Descends
  <2>1. CASE k = Len(stack) + 1
    BY <1>1, <1>4, <1>5, <1>0, <2>1
  <2>2. CASE k # Len(stack) + 1
    <3>1. j \in DOMAIN stack /\ k \in DOMAIN stack
      BY <1>0, <1>1, <1>4, <2>2
    <3>2. stack[k] \in Below[stack[j]]
      BY <3>1 DEF Descends
    <3> QED
      BY <1>1, <1>4, <3>1, <3>2
  <2> QED
    BY <2>1, <2>2
<1> QED
  BY <1>1, <1>4, <1>6 DEF t

LEMMA PopDescends ==
    ASSUME RunOK, Running, Top \in Files, Descends,
           stack' = SubSeq(stack, 1, Len(stack) - 1)
    PROVE  /\ Descends'
           /\ Len(stack) \in Nat /\ Len(stack) > 1
           /\ DOMAIN stack = 1..Len(stack)
           /\ Len(stack') = Len(stack) - 1
           /\ DOMAIN stack' = 1..(Len(stack) - 1)
           /\ \A i \in DOMAIN stack' : i \in DOMAIN stack /\ stack'[i] = stack[i] /\ i < Len(stack)
<1>1. /\ Len(stack) \in Nat /\ Len(stack) > 1
      /\ stack \in Seq(Files \cup Goals) /\ DOMAIN stack = 1..Len(stack)
  BY TopOK, LenProperties DEF RunOK
<1>2. /\ stack' \in Seq(Files \cup Goals)
      /\ Len(stack') = Len(stack) - 1
      /\ \A i \in 1..Len(stack') : stack'[i] = stack[i]
  BY PopOK
<1>3. DOMAIN stack' = 1..(Len(stack) - 1)
  BY <1>2, LenProperties
<1>4. \A i \in DOMAIN stack' : i \in DOMAIN stack /\ stack'[i] = stack[i] /\ i < Len(stack)
  BY <1>1, <1>2, <1>3
<1>5. Descends'
  BY <1>4 DEF Descends
<1> QED
  BY <1>1, <1>2, <1>3, <1>4, <1>5

LEMMA StartOK ==
    ASSUME RunOK, job = "idle", NEW g \in Goals \cup Cleanings, job' = g,
           stack' = (IF g \in Goals THEN <<g>> ELSE <<>>), known' = {},
           NEW s \in Steps, step' = s, tarSeen' \in BOOLEAN,
           outcome' = <<"none", "none">>, Charge(g)
    PROVE  RunOK'
<1>1. faults' \in 0..MaxFaults
  BY RecipeAssumption DEF RunOK, Charge
<1>2. stack' \in Seq(Files \cup Goals)
  BY EmptySeq
<1>3. IF job' \in Goals THEN stack' # <<>> /\ stack'[1] = job' ELSE stack' = <<>>
  BY EmptySeq
<1> QED
  BY <1>1, <1>2, <1>3 DEF RunOK

-----------------------------------------------------------------------------
(* Type correctness.                                                       *)

LEMMA InitTypeOK == Init => TypeOK
<1> SUFFICES ASSUME Init PROVE TypeOK
  OBVIOUS
<1>1. FilesOK
  BY DEF Init, FilesOK
<1>2. ContentsOK
  BY DEF Init, ContentsOK, Holding
<1>3. RunOK
  <2>1. faults \in 0..MaxFaults
    BY RecipeAssumption DEF Init
  <2>2. stack \in Seq(Files \cup Goals) /\ "idle" \notin Goals
    BY EmptySeq DEF Init, Goals
  <2> QED
    BY <2>1, <2>2 DEF Init, RunOK, Steps
<1> QED
  BY <1>1, <1>2, <1>3 DEF TypeOK

LEMMA NextTypeOK == TypeOK /\ [Next]_vars => TypeOK'
<1> SUFFICES ASSUME TypeOK, [Next]_vars PROVE TypeOK'
  OBVIOUS
<1>0. FilesOK /\ ContentsOK /\ RunOK
  BY DEF TypeOK
<1>f. ASSUME UNCHANGED files PROVE FilesOK'
  BY <1>0, <1>f DEF FilesOK, files
<1>c. ASSUME UNCHANGED contents PROVE ContentsOK'
  BY <1>0, <1>c DEF ContentsOK, contents, shelves
<1>1. ASSUME NEW g \in Goals, StartGoal(g) PROVE TypeOK'
  <2>1. RunOK'
    BY <1>0, <1>1, StartOK DEF StartGoal, Steps
  <2> QED
    BY <1>1, <1>f, <1>c, <2>1 DEF TypeOK, StartGoal
<1>2. ASSUME NEW g \in Cleanings, StartCleaning(g) PROVE TypeOK'
  <2>1. g \notin Goals
    BY DEF Goals, Cleanings, Wholesale
  <2>2. tarSeen' \in BOOLEAN
    BY <1>0, <1>2 DEF RunOK, StartCleaning
  <2>3. RunOK'
    BY <1>0, <1>2, <2>1, <2>2, StartOK DEF StartCleaning, Steps
  <2> QED
    BY <1>2, <1>f, <1>c, <2>3 DEF TypeOK, StartCleaning
<1>3. CASE Consider
  BY <1>0, <1>3, <1>f, <1>c, ConsiderOK DEF TypeOK, Consider
<1>4. CASE Settle
  <2>1. CASE (Stop("ok") \/ Stop("error")) /\ UNCHANGED faults
    <3>1. job # "idle" /\ faults' \in 0..MaxFaults
      BY <1>0, <1>4, <2>1 DEF Settle, Running, Goals, RunOK
    <3>2. RunOK'
      BY <1>0, <2>1, <3>1, StopOK
    <3> QED
      BY <1>4, <1>f, <1>c, <3>2 DEF TypeOK, Settle
  <2>2. CASE GoTo("begin")
    <3>1. RunOK'
      BY <1>0, <2>2, GoToOK DEF Steps
    <3> QED
      BY <1>4, <1>f, <1>c, <3>1 DEF TypeOK, Settle
  <2> QED
    BY <1>4, <2>1, <2>2 DEF Settle
<1>5. CASE WipeInstall
  <2>1. RunOK'
    BY <1>0, <1>5, GoToOK DEF WipeInstall, Steps
  <2>2. ContentsOK'
    BY <1>0, <1>5 DEF WipeInstall, ContentsOK, shelves
  <2> QED
    BY <1>5, <1>f, <2>1, <2>2 DEF TypeOK, WipeInstall
<1>w. CASE WipeLogs
  <2>1. RunOK'
    BY <1>0, <1>w, GoToOK DEF WipeLogs, Steps
  <2>2. ContentsOK'
    BY <1>0, <1>w DEF WipeLogs, ContentsOK
  <2> QED
    BY <1>w, <1>f, <2>1, <2>2 DEF TypeOK, WipeLogs
<1>d. ASSUME DropBuild \/ UNCHANGED <<files, trees>>, UNCHANGED <<installed, shelves, art, launched>>
      PROVE  FilesOK' /\ ContentsOK'
  <2>1. FilesOK'
    BY <1>0, <1>d, <1>f, RemoveOK DEF DropBuild
  <2>2. ContentsOK'
    BY <1>0, <1>d DEF DropBuild, ContentsOK, shelves
  <2> QED
    BY <2>1, <2>2
<1>6. CASE WipeBuild
  <2>1. RunOK'
    BY <1>0, <1>6, GoToOK DEF WipeBuild, Steps
  <2> QED
    BY <1>6, <1>d, <2>1 DEF TypeOK, WipeBuild
<1>7. CASE Fetch
  <2>1. RunOK'
    BY <1>0, <1>7, MadeOK, TargetsAreFiles DEF Fetch
  <2>2. FilesOK'
    BY <1>0, <1>7, TouchOK, TargetsAreFiles DEF Fetch
  <2>3. ContentsOK'
    BY <1>0, <1>7 DEF Fetch, ContentsOK, shelves, Trees
  <2> QED
    BY <2>1, <2>2, <2>3 DEF TypeOK
<1>8. CASE StageBegin
  <2>1. RunOK'
    BY <1>0, <1>8, GoToOK DEF StageBegin, Steps
  <2>2. FilesOK'
    BY <1>0, <1>8, RemoveOK DEF StageBegin
  <2>3. ContentsOK'
    BY <1>0, <1>8 DEF StageBegin, ContentsOK, shelves
  <2> QED
    BY <2>1, <2>2, <2>3 DEF TypeOK
<1>9. CASE StageInstall
  <2>1. RunOK'
    BY <1>0, <1>9, GoToOK DEF StageInstall, Steps
  <2>2. ContentsOK'
    BY <1>0, <1>9 DEF StageInstall, ContentsOK
  <2> QED
    BY <1>9, <1>f, <2>1, <2>2 DEF TypeOK, StageInstall
<1>10. CASE StageFinish
  <2>1. RunOK'
    BY <1>0, <1>10, MadeOK, TargetsAreFiles DEF StageFinish
  <2>2. FilesOK'
    BY <1>0, <1>10, TouchOK, TargetsAreFiles DEF StageFinish
  <2>3. installed' \subseteq Fills
    BY <1>0, <1>10 DEF StageFinish, ContentsOK
  <2>4. ContentsOK'
    BY <1>0, <1>10, <2>3 DEF StageFinish, ContentsOK, Trees
  <2> QED
    BY <2>1, <2>2, <2>4 DEF TypeOK
<1>h. \A w \in BOOLEAN, h \in SUBSET Fills : [whole |-> w, has |-> h] \in Holding
  BY DEF Holding
<1>11. CASE PackBegin
  <2>1. RunOK'
    BY <1>0, <1>11, GoToOK DEF PackBegin, Steps
  <2>2. FilesOK'
    BY <1>0, <1>11, TouchOK, TargetsAreFiles DEF PackBegin, Archives
  <2>3. ContentsOK'
    BY <1>0, <1>11, <1>h DEF PackBegin, ContentsOK, shelves, Archives
  <2> QED
    BY <2>1, <2>2, <2>3 DEF TypeOK
<1>12. CASE PackFinish
  <2>1. RunOK'
    BY <1>0, <1>12, MadeOK, TargetsAreFiles DEF PackFinish, Archives
  <2>2. ContentsOK'
    BY <1>0, <1>12, <1>h DEF PackFinish, ContentsOK, shelves, Archives
  <2> QED
    BY <1>12, <1>f, <2>1, <2>2 DEF TypeOK, PackFinish
<1>13. CASE Merge
  <2>1. RunOK'
    BY <1>0, <1>13, MadeOK, TargetsAreFiles DEF Merge, Archives
  <2>2. FilesOK'
    BY <1>0, <1>13, TouchOK, TargetsAreFiles DEF Merge, Archives
  <2>3. art[Top].has \subseteq Fills
    BY <1>0, <1>13 DEF Merge, ContentsOK, shelves, Archives, Holding
  <2>4. ContentsOK'
    BY <1>0, <1>13, <1>h, <2>3 DEF Merge, ContentsOK, shelves, Archives
  <2> QED
    BY <2>1, <2>2, <2>4 DEF TypeOK
<1>14. CASE Copy
  <2>1. Top \in Files
    BY <1>14, TargetsAreFiles DEF Copy
  <2>2. CASE Touch(Top) /\ Made
    <3>1. RunOK' /\ FilesOK'
      BY <1>0, <1>14, <2>1, <2>2, MadeOK, TouchOK DEF Copy
    <3> QED
      BY <1>14, <1>c, <3>1 DEF TypeOK, Copy
  <2>3. CASE GoTo("doomed") /\ UNCHANGED files
    <3>1. RunOK'
      BY <1>0, <2>3, GoToOK DEF Steps
    <3> QED
      BY <1>14, <1>c, <1>f, <2>3, <3>1 DEF TypeOK, Copy
  <2> QED
    BY <1>14, <2>2, <2>3 DEF Copy
<1>15. CASE LaunchBegin
  <2>1. RunOK'
    BY <1>0, <1>15, GoToOK DEF LaunchBegin, Steps
  <2>2. ContentsOK'
    BY <1>0, <1>15 DEF LaunchBegin, ContentsOK, shelves
  <2> QED
    BY <1>15, <1>f, <2>1, <2>2 DEF TypeOK, LaunchBegin
<1>16. CASE LaunchFinish
  <2>1. RunOK'
    BY <1>0, <1>16, MadeOK, TargetsAreFiles DEF LaunchFinish
  <2>2. FilesOK'
    BY <1>0, <1>16, TouchOK, TargetsAreFiles DEF LaunchFinish
  <2>3. art[Tar].has \subseteq Fills
    BY <1>0, TargetsAreFiles DEF ContentsOK, Holding
  <2>4. ContentsOK'
    BY <1>0, <1>16, <2>3 DEF LaunchFinish, ContentsOK, shelves
  <2> QED
    BY <2>1, <2>2, <2>4 DEF TypeOK
<1>17. CASE TestRun
  <2>1. CASE Touch("test") /\ Made
    <3>1. RunOK' /\ FilesOK'
      BY <1>0, <1>17, <2>1, TargetsAreFiles, MadeOK, TouchOK DEF TestRun
    <3> QED
      BY <1>17, <1>c, <3>1 DEF TypeOK, TestRun
  <2>2. CASE GoTo("doomed") /\ UNCHANGED files
    <3>1. RunOK'
      BY <1>0, <2>2, GoToOK DEF Steps
    <3> QED
      BY <1>17, <1>c, <1>f, <2>2, <3>1 DEF TypeOK, TestRun
  <2> QED
    BY <1>17, <2>1, <2>2 DEF TestRun
<1>18. CASE Doomed
  <2>1. job # "idle" /\ faults' \in 0..MaxFaults
    BY <1>0, <1>18 DEF Doomed, Running, Goals, RunOK
  <2>2. RunOK'
    BY <1>0, <1>18, <2>1, StopOK DEF Doomed
  <2> QED
    BY <1>18, <1>f, <1>c, <2>2 DEF TypeOK, Doomed
<1>g. ASSUME NEW s \in Steps, GoOn(s) PROVE RunOK'
  BY <1>0, <1>g, GoToOK DEF GoOn, Steps
<1>s. ASSUME job \in Cleanings, Stop("ok"), UNCHANGED faults PROVE RunOK'
  <2>1. job # "idle" /\ faults' \in 0..MaxFaults
    BY <1>0, <1>s DEF Cleanings, RunOK, Wholesale
  <2> QED
    BY <1>0, <1>s, <2>1, StopOK
<1>19. CASE RmTest
  <2>1. RunOK'
    BY <1>0, <1>19, <1>g, GoToOK DEF RmTest, Steps
  <2>2. FilesOK'
    BY <1>0, <1>19, <1>f, RemoveOK DEF RmTest
  <2> QED
    BY <1>19, <1>c, <2>1, <2>2 DEF TypeOK, RmTest
<1>20. CASE RmBuild
  <2>1. RunOK'
    BY <1>0, <1>20, <1>g, GoToOK DEF RmBuild, Steps
  <2> QED
    BY <1>20, <1>d, <2>1 DEF TypeOK, RmBuild
<1>21. CASE RmLaunch
  <2>1. RunOK'
    BY <1>0, <1>21, <1>g, GoToOK DEF RmLaunch, Steps
  <2>2. ContentsOK'
    BY <1>0, <1>21 DEF RmLaunch, ContentsOK, shelves
  <2> QED
    BY <1>21, <1>f, <2>1, <2>2 DEF TypeOK, RmLaunch
<1>22. CASE RmInstall
  <2>1. GoTo("rminstall") \/ GoOn("rmlogs")
    BY <1>22 DEF RmInstall
  <2>2. RunOK'
    BY <1>0, <1>22, <1>g, <2>1, GoToOK DEF Steps
  <2>3. ContentsOK'
    BY <1>0, <1>22 DEF RmInstall, ContentsOK
  <2> QED
    BY <1>22, <1>f, <2>2, <2>3 DEF TypeOK, RmInstall
<1>r. CASE RmLogs
  <2>1. GoTo("rmlogs") \/ GoOn("rmbin") \/ (Stop("ok") /\ UNCHANGED faults)
    BY <1>r DEF RmLogs
  <2>2. RunOK'
    BY <1>0, <1>r, <1>g, <1>s, <2>1, GoToOK DEF RmLogs, Steps
  <2>3. ContentsOK'
    BY <1>0, <1>r DEF RmLogs, ContentsOK
  <2> QED
    BY <1>r, <1>f, <2>2, <2>3 DEF TypeOK, RmLogs
<1>23. CASE RmBin
  <2>1. GoTo("rmbin") \/ (Stop("ok") /\ UNCHANGED faults)
    BY <1>23 DEF RmBin
  <2>2. RunOK'
    BY <1>0, <1>23, <1>s, <2>1, GoToOK DEF RmBin, Steps, Cleanings, Wholesale
  <2>3. FilesOK'
    BY <1>0, <1>23, <1>f, RemoveOK DEF RmBin
  <2> QED
    BY <1>23, <1>c, <2>2, <2>3 DEF TypeOK, RmBin
<1>24. CASE RmAll
  <2>1. (\E d \in {"rmtest", "rmbuild", "rmlaunch", "rminstall", "rmlogs", "rmbin"} : GoTo(d))
          \/ (Stop("ok") /\ UNCHANGED faults)
    BY <1>24 DEF RmAll
  <2>2. RunOK'
    BY <1>0, <1>24, <1>s, <2>1, GoToOK DEF RmAll, Steps, Cleanings, Wholesale
  <2> QED
    BY <1>24, <1>f, <1>c, <2>2 DEF TypeOK, RmAll
<1>25. CASE PackShort
  <2>1. Top \in Files
    BY <1>25, TargetsAreFiles DEF PackShort, Archives
  <2>2. faults' \in 0..MaxFaults
    BY <1>0, <1>25, DisturbedOK DEF PackShort
  <2>3. /\ stack' \in Seq(Files \cup Goals)
        /\ stack' # <<>> /\ stack'[1] = job
    BY <1>0, <1>25, <2>1, PopOK DEF PackShort
  <2>4. RunOK'
    BY <1>0, <1>25, <2>1, <2>2, <2>3 DEF RunOK, PackShort, Running, Steps
  <2>5. PICK S \in SUBSET installed :
          art' = [art EXCEPT ![Top] = [whole |-> TRUE, has |-> S]]
    BY <1>25 DEF PackShort
  <2>6. ContentsOK'
    BY <1>0, <1>25, <1>h, <2>5 DEF PackShort, ContentsOK, shelves, Archives
  <2> QED
    BY <1>25, <1>f, <2>4, <2>6 DEF TypeOK, PackShort
<1>e. ASSUME job # "idle", faults < MaxFaults, faults' = faults + 1, Stop("error")
      PROVE  RunOK'
  BY <1>0, <1>e, DisturbedOK, StopOK
<1>26. CASE RecipeError
  BY <1>26, <1>e, <1>f, <1>c DEF TypeOK, RecipeError, InRecipe, Running, Goals
<1>27. CASE Interrupt
  <2>1. FilesOK'
    BY <1>0, <1>27, RemoveOK DEF Interrupt
  <2> QED
    BY <1>27, <1>e, <1>c, <2>1 DEF TypeOK, Interrupt
<1>28. CASE Crash
  BY <1>28, <1>e, <1>f, <1>c DEF TypeOK, Crash
<1>29. CASE UNCHANGED vars
  <2>1. RunOK'
    BY <1>0, <1>29 DEF RunOK, vars, run
  <2> QED
    BY <1>29, <1>f, <1>c, <2>1 DEF TypeOK, vars
<1> QED
  BY <1>1, <1>2, <1>3, <1>4, <1>5, <1>6, <1>7, <1>8, <1>9, <1>10, <1>11, <1>12,
     <1>13, <1>14, <1>15, <1>16, <1>17, <1>18, <1>19, <1>20, <1>21, <1>22,
     <1>23, <1>24, <1>25, <1>26, <1>27, <1>28, <1>29, <1>w, <1>r
     DEF Next, Make, Clean, Disturb

(***************************************************************************)
(* Whatever the rules of the package are and however its runs are cut      *)
(* short, every variable keeps its type: files have ages only while they   *)
(* exist, and the targets being updated start with the goal of the run.    *)
(***************************************************************************)
THEOREM TypeCorrect == Spec => []TypeOK
BY InitTypeOK, NextTypeOK, PTL DEF Spec

-----------------------------------------------------------------------------
(* What keeps a stage from becoming current behind make's back.            *)

\* Not even a missing tarball changes what a build file is made from.
LEMMA BuildFileFacts ==
    ASSUME NEW s \in BuildFiles
    PROVE  /\ s \in Files /\ s \notin TestFiles /\ s \notin Goals
           /\ s \notin Arts
           /\ Below[s] \subseteq BuildFiles /\ s \notin Below[s]
           /\ s # "source" => "source" \in Below[s]
           /\ s \in Stages \/ s = "source"
<1>1. s \in Files /\ s \in Files \cup Goals
  BY DEF Files
<1>2. s \notin TestFiles /\ s \notin Goals /\ s \notin Arts
  BY GraphAssumption DEF BuildFiles, TestFiles, Goals
<1>3. s \notin Below[s]
  BY <1>1, GraphAssumption
<1>4. Below[s] \subseteq BuildFiles /\ (s # "source" => "source" \in Below[s])
  BY GraphAssumption DEF BuildFiles
<1> QED
  BY <1>1, <1>2, <1>3, <1>4 DEF BuildFiles

LEMMA CurrentMeans ==
    ASSUME NEW s \in BuildFiles
    PROVE  /\ Current(s) <=> /\ s \in present /\ Below[s] \subseteq present
                             /\ \A q \in Below[s] : <<q, s>> \notin newer
           /\ Current(s)' <=> /\ s \in present' /\ Below[s] \subseteq present'
                              /\ \A q \in Below[s] : <<q, s>> \notin newer'
BY BuildFileFacts DEF Current, Outdated, Reach

\* Writing another file never brings a stage up to date.
LEMMA TouchKeepsStale ==
    ASSUME NEW f, Touch(f), NEW s \in BuildFiles, s # f, Current(s)'
    PROVE  Current(s)
<1>1. /\ s \in present' /\ Below[s] \subseteq present'
      /\ \A q \in Below[s] : <<q, s>> \notin newer'
  BY CurrentMeans
<1>2. s \in present
  BY <1>1 DEF Touch
<1>3. f \notin Below[s]
  BY <1>1, <1>2 DEF Touch
<1>4. Below[s] \subseteq present
  BY <1>1, <1>3 DEF Touch
<1>5. \A q \in Below[s] : <<q, s>> \notin newer
  BY <1>1, <1>3 DEF Touch
<1> QED
  BY <1>2, <1>4, <1>5, CurrentMeans

\* Nor does deleting files.
LEMMA RemoveKeepsStale ==
    ASSUME NEW S, Remove(S), NEW s \in BuildFiles, Current(s)'
    PROVE  Current(s)
<1>1. /\ s \in present' /\ Below[s] \subseteq present'
      /\ \A q \in Below[s] : <<q, s>> \notin newer'
  BY CurrentMeans
<1>2. /\ s \in present /\ Below[s] \subseteq present
      /\ s \notin S /\ Below[s] \cap S = {}
  BY <1>1 DEF Remove
<1>3. \A q \in Below[s] : <<q, s>> \notin newer
  BY <1>1, <1>2 DEF Remove
<1> QED
  BY <1>2, <1>3, CurrentMeans

LEMMA SameKeepsStale ==
    ASSUME UNCHANGED files, NEW s \in BuildFiles, Current(s)'
    PROVE  Current(s)
BY CurrentMeans DEF files

\* A file that make takes up is not current.
LEMMA MustMakeIsStale ==
    ASSUME NEW s \in BuildFiles, MustMake(s)
    PROVE  ~Current(s)
BY DEF MustMake, Current

\* Nothing is current when no build file is left, or when source.stamp is not.
LEMMA NoneCurrent ==
    ASSUME present \cap BuildFiles = {} \/ ~Current("source")
    PROVE  \A s \in BuildFiles : ~Current(s)
<1> SUFFICES ASSUME NEW s \in BuildFiles, Current(s) PROVE FALSE
  OBVIOUS
<1>1. s \in present /\ Below[s] \subseteq present
  BY CurrentMeans
<1>2. "source" \in BuildFiles /\ Below["source"] = {}
  BY GraphAssumption DEF BuildFiles
<1>3. "source" \in present
  BY <1>1, BuildFileFacts
<1>4. Current("source")
  BY <1>2, <1>3, CurrentMeans
<1> QED
  BY <1>1, <1>4

-----------------------------------------------------------------------------
(* Stamps tell the truth.                                                  *)

\* A step that takes nothing out of INSTALL and leaves make where it is, or
\* stops it, while no build file becomes current.
LEMMA QuietStep ==
    ASSUME TruthInv, TypeOK', job' \notin Wholesale, Emptied',
           \A s \in BuildFiles : Current(s)' => Current(s),
           stack' = stack \/ stack' = <<>>,
           installed \subseteq installed'
    PROVE  TruthInv'
<1>1. Descends'
  BY DEF TruthInv, Descends
<1>2. StackStale'
  BY DEF TruthInv, StackStale
<1>3. StampsTruthful'
  BY RecipeAssumption DEF TruthInv, StampsTruthful, Shipped
<1> QED
  BY <1>1, <1>2, <1>3 DEF TruthInv

LEMMA StackStaleNext ==
    ASSUME \A i \in DOMAIN stack' : \A s \in BuildFiles : stack'[i] = s => ~(Current(s)')
    PROVE  StackStale'
BY DEF StackStale, Current, Outdated, Reach

\* The targets left on the stack when the top one is finished with.
LEMMA PopStep ==
    ASSUME TruthInv, Running, Top \in Files,
           stack' = SubSeq(stack, 1, Len(stack) - 1),
           \A s \in BuildFiles \ {Top} : Current(s)' => Current(s)
    PROVE  Descends' /\ StackStale'
<1>0. RunOK
  BY DEF TruthInv, TypeOK
<1>4. /\ Len(stack) \in Nat /\ Len(stack) > 1 /\ DOMAIN stack = 1..Len(stack)
      /\ \A i \in DOMAIN stack' : i \in DOMAIN stack /\ stack'[i] = stack[i] /\ i < Len(stack)
      /\ Descends'
  BY <1>0, PopDescends DEF TruthInv
<1>6. \A i \in DOMAIN stack' : \A s \in BuildFiles : stack'[i] = s => ~(Current(s)')
  <2> SUFFICES ASSUME NEW i \in DOMAIN stack', NEW s \in BuildFiles, stack'[i] = s
               PROVE  ~(Current(s)')
    OBVIOUS
  <2>1. i \in DOMAIN stack /\ s = stack[i] /\ i < Len(stack)
    BY <1>4
  <2>2. Top \in Below[s]
    BY <1>4, <2>1 DEF TruthInv, Descends, Top
  <2>3. s # Top
    BY <2>2, BuildFileFacts
  <2>4. ~Current(s)
    BY <2>1 DEF TruthInv, StackStale
  <2> QED
    BY <2>3, <2>4
<1>7. StackStale'
  BY <1>6, StackStaleNext
<1> QED
  BY <1>4, <1>7

\* A recipe that makes something other than a build file.
LEMMA OtherMade ==
    ASSUME TruthInv, TypeOK', Running, Top \in Files \ BuildFiles,
           stack' = SubSeq(stack, 1, Len(stack) - 1), step' = "scan",
           job' = job, installed' = installed,
           Touch(Top) \/ UNCHANGED files
    PROVE  TruthInv'
<1>1. \A s \in BuildFiles : Current(s)' => Current(s)
  BY TouchKeepsStale, SameKeepsStale
<1>2. Descends' /\ StackStale'
  BY <1>1, PopStep
<1>3. StampsTruthful'
  BY <1>1, RecipeAssumption DEF TruthInv, StampsTruthful, Shipped
<1> QED
  BY <1>2, <1>3 DEF TruthInv, Emptied

\* A recipe or a clean-up that takes things out of INSTALL when none of the
\* stages it takes them from is current.
LEMMA Uninstall ==
    ASSUME TruthInv, TypeOK', UNCHANGED files, job' \notin Wholesale,
           stack' = stack \/ stack' = <<>>,
           \A s \in installed \ installed' : ~Current(s),
           Emptied'
    PROVE  TruthInv'
<1>1. \A s \in BuildFiles : Current(s)' => Current(s)
  BY SameKeepsStale
<1>2. Descends'
  BY DEF TruthInv, Descends
<1>3. StackStale'
  BY <1>1 DEF TruthInv, StackStale
<1>4. StampsTruthful'
  BY <1>1, RecipeAssumption DEF TruthInv, StampsTruthful, Shipped
<1> QED
  BY <1>2, <1>3, <1>4 DEF TruthInv

LEMMA TopIsStale ==
    ASSUME TruthInv, Running, Top \in BuildFiles
    PROVE  ~Current(Top)
<1>1. Len(stack) \in DOMAIN stack
  <2>1. RunOK
    BY DEF TruthInv, TypeOK
  <2>2. Len(stack) \in Nat \ {0} /\ DOMAIN stack = 1..Len(stack)
    BY <2>1, TopOK, LenProperties DEF RunOK
  <2> QED
    BY <2>2
<1> QED
  BY <1>1 DEF TruthInv, StackStale, Top

LEMMA ConsiderTruth ==
    ASSUME TruthInv, TypeOK', Consider
    PROVE  TruthInv'
<1>0. RunOK /\ Running
  BY DEF TruthInv, TypeOK, Consider
<1>1. \A s \in BuildFiles : Current(s)' => Current(s)
  BY SameKeepsStale DEF Consider
<1>2. /\ job' \notin Wholesale /\ Emptied' /\ installed' = installed
      /\ UNCHANGED files
  BY DEF Consider, TruthInv, Emptied, contents
<1>3. PICK i \in Unknown :
        LET t == PrereqsOf(Top)[i] IN
        IF MustMake(t)
        THEN stack' = Append(stack, t) /\ UNCHANGED known
        ELSE known' = known \cup {t} /\ UNCHANGED stack
  BY DEF Consider, FirstUnknown
<1> DEFINE t == PrereqsOf(Top)[i]
<1>4. CASE stack' = stack
  BY <1>1, <1>2, <1>4, QuietStep
<1>5. CASE stack' = Append(stack, t) /\ MustMake(t)
  <2>1. /\ Descends' /\ DOMAIN stack = 1..Len(stack)
        /\ DOMAIN stack' = 1..(Len(stack) + 1)
        /\ stack'[Len(stack) + 1] = t
        /\ \A j \in 1..Len(stack) : stack'[j] = stack[j]
    BY <1>0, <1>5, PushDescends DEF TruthInv
  <2>2. Len(stack) \in Nat
    BY <1>0, TopOK
  <2> HIDE DEF t
  <2>7. \A j \in DOMAIN stack' : \A s \in BuildFiles : stack'[j] = s => ~(Current(s)')
    <3> SUFFICES ASSUME NEW j \in DOMAIN stack', NEW s \in BuildFiles, stack'[j] = s,
                        Current(s)
                 PROVE  FALSE
      BY <1>1
    <3>1. CASE j = Len(stack) + 1
      BY <1>5, <2>1, <3>1, MustMakeIsStale
    <3>2. CASE j # Len(stack) + 1
      <4>1. j \in DOMAIN stack /\ s = stack[j]
        BY <2>1, <2>2, <3>2
      <4> QED
        BY <4>1 DEF TruthInv, StackStale
    <3> QED
      BY <3>1, <3>2
  <2>9. StackStale'
    BY <2>7, StackStaleNext
  <2>8. StampsTruthful'
    BY <1>1, <1>2, RecipeAssumption DEF TruthInv, StampsTruthful, Shipped
  <2> QED
    BY <1>2, <2>1, <2>8, <2>9 DEF TruthInv
<1> QED
  BY <1>3, <1>4, <1>5

LEMMA NextTruth ==
    ASSUME TruthInv, [Next]_vars, Jobs \cap Wholesale = {}, Lax = {}, Listers = {}
    PROVE  TruthInv'
<1>0. FilesOK /\ ContentsOK /\ RunOK /\ TypeOK'
  BY NextTypeOK DEF TruthInv, TypeOK
<1>1. ASSUME NEW g \in Goals, StartGoal(g) PROVE TruthInv'
  <2>1. DOMAIN stack' = {1} /\ stack'[1] = g /\ g \notin BuildFiles
    BY <1>1, BuildFileFacts DEF StartGoal
  <2>2. Descends'
    BY <2>1 DEF Descends
  <2>3. StackStale'
    BY <2>1, StackStaleNext
  <2>4. StampsTruthful'
    BY <1>1, SameKeepsStale, RecipeAssumption DEF StartGoal, TruthInv, StampsTruthful, Shipped, contents
  <2>5. job' \notin Wholesale /\ Emptied'
    BY <1>1 DEF StartGoal, Goals, Emptied
  <2> QED
    BY <1>0, <2>2, <2>3, <2>4, <2>5 DEF TruthInv
<1>u. ASSUME UNCHANGED files PROVE \A s \in BuildFiles : Current(s)' => Current(s)
  BY <1>u, SameKeepsStale
<1>2. ASSUME NEW g \in Cleanings, StartCleaning(g) PROVE TruthInv'
  <2>1. job' \notin Wholesale /\ Emptied' /\ stack' = <<>> /\ installed' = installed
    BY <1>2 DEF StartCleaning, Emptied, contents
  <2> QED
    BY <1>0, <1>2, <1>u, <2>1, QuietStep DEF StartCleaning
<1>3. CASE Consider
  BY <1>0, <1>3, ConsiderTruth
<1>4. CASE Settle
  <2>1. /\ job' \notin Wholesale /\ Emptied' /\ installed' = installed
        /\ stack' = stack \/ stack' = <<>>
    BY <1>4 DEF Settle, Stop, GoTo, TruthInv, Emptied, contents, Wholesale
  <2> QED
    BY <1>0, <1>4, <1>u, <2>1, QuietStep DEF Settle
<1>5. CASE WipeInstall
  <2>1. "source" \in BuildFiles
    BY DEF BuildFiles
  <2>2. \A s \in BuildFiles : ~Current(s)
    BY <1>5, <2>1, TopIsStale, NoneCurrent DEF WipeInstall
  <2>3. installed \subseteq BuildFiles
    BY <1>0, RecipeAssumption DEF ContentsOK
  <2>4. job' \notin Wholesale /\ stack' = stack /\ Emptied' /\ UNCHANGED files
    BY <1>5 DEF WipeInstall, GoTo, TruthInv, Emptied
  <2> QED
    BY <1>0, <2>2, <2>3, <2>4, Uninstall
<1>d. ASSUME DropBuild \/ UNCHANGED <<files, trees>>
      PROVE  \A s \in BuildFiles : Current(s)' => Current(s)
  BY <1>d, <1>u, RemoveKeepsStale DEF DropBuild
<1>6. CASE WipeBuild
  <2>1. job' \notin Wholesale /\ stack' = stack /\ installed' = installed
    BY <1>6 DEF WipeBuild, GoTo, TruthInv
  <2>2. Emptied'
    BY <1>6 DEF WipeBuild, GoTo, Emptied, BuildLeft, files
  <2>3. \A s \in BuildFiles : Current(s)' => Current(s)
    BY <1>6, <1>d DEF WipeBuild
  <2> QED
    BY <1>0, <2>1, <2>2, <2>3, QuietStep
<1>7. CASE Fetch
  <2>1. \A s \in BuildFiles \ {"source"} : Current(s)' => Current(s)
    BY <1>7, TouchKeepsStale DEF Fetch
  <2>2. Descends' /\ StackStale'
    BY <1>7, <2>1, TargetsAreFiles, PopStep DEF Fetch, Made
  <2>3. \A s \in BuildFiles : ~Current(s)
    BY <1>7, NoneCurrent DEF TruthInv, Emptied, Fetch
  <2>4. StampsTruthful'
    BY <1>7, <2>1, <2>3, RecipeAssumption DEF Fetch, StampsTruthful, Shipped
  <2>5. job' \notin Wholesale /\ Emptied'
    BY <1>7 DEF Fetch, Made, TruthInv, Emptied
  <2> QED
    BY <1>0, <2>2, <2>4, <2>5 DEF TruthInv
<1>8. CASE StageBegin
  <2>1. job' \notin Wholesale /\ stack' = stack /\ installed' = installed /\ Emptied'
    BY <1>8 DEF StageBegin, GoTo, TruthInv, Emptied
  <2>2. \A s \in BuildFiles : Current(s)' => Current(s)
    BY <1>8, RemoveKeepsStale DEF StageBegin
  <2> QED
    BY <1>0, <2>1, <2>2, QuietStep
<1>9. CASE StageInstall
  <2>1. Top \in BuildFiles /\ ~Current(Top)
    BY <1>9, TopIsStale DEF StageInstall, BuildFiles
  <2>4. Discards = {}
    BY DEF Discards
  <2>2. \A s \in installed \ installed' : ~Current(s)
    BY <1>9, <2>1, <2>4 DEF StageInstall
  <2>3. job' \notin Wholesale /\ stack' = stack /\ Emptied' /\ UNCHANGED files
    BY <1>9 DEF StageInstall, GoTo, TruthInv, Emptied
  <2> QED
    BY <1>0, <2>2, <2>3, Uninstall
<1>g. ASSUME NEW s \in Steps,
             s \notin {"fetch", "rmlaunch", "rminstall", "rmlogs", "rmbin"},
             GoTo(s), UNCHANGED files, installed' = installed
      PROVE  TruthInv'
  <2>1. job' \notin Wholesale /\ stack' = stack /\ Emptied'
    BY <1>g DEF GoTo, TruthInv, Emptied
  <2> QED
    BY <1>0, <1>g, <1>u, <2>1, QuietStep
<1>w. CASE WipeLogs
  BY <1>w, <1>g DEF WipeLogs, Steps
<1>10. CASE StageFinish
  <2>1. \A s \in BuildFiles \ {Top} : Current(s)' => Current(s)
    BY <1>10, TouchKeepsStale DEF StageFinish
  <2>2. Descends' /\ StackStale'
    BY <1>10, <2>1, TargetsAreFiles, PopStep DEF StageFinish, Made
  <2>5. installed' = installed \cup ({Top} \cap Fills)
    BY <1>10 DEF StageFinish, Idle, Discards
  <2>3. StampsTruthful'
    BY <1>10, <2>1, <2>5, RecipeAssumption DEF StageFinish, TruthInv, StampsTruthful, Shipped
  <2>4. job' \notin Wholesale /\ Emptied'
    BY <1>10 DEF StageFinish, Made, TruthInv, Emptied
  <2> QED
    BY <1>0, <2>2, <2>3, <2>4 DEF TruthInv
<1>o. \A f \in Arts \cup TestFiles : f \in Files \ BuildFiles
  BY BuildFileFacts DEF Files
<1>a. Archives \subseteq Arts
  BY GraphAssumption
<1>11. CASE PackBegin
  <2>1. job' \notin Wholesale /\ stack' = stack /\ installed' = installed /\ Emptied'
    BY <1>11 DEF PackBegin, GoTo, TruthInv, Emptied
  <2>2. Top \notin BuildFiles /\ Touch(Top)
    BY <1>11, <1>o, <1>a DEF PackBegin, Archives
  <2>3. \A s \in BuildFiles : Current(s)' => Current(s)
    BY <2>2, TouchKeepsStale
  <2> QED
    BY <1>0, <2>1, <2>3, QuietStep
<1>12. CASE PackFinish
  <2>1. Top \in Files \ BuildFiles
    BY <1>12, <1>o, <1>a DEF PackFinish, Archives
  <2> QED
    BY <1>0, <1>12, <2>1, OtherMade DEF PackFinish, Made
<1>13. CASE Merge
  <2>1. Top \in Files \ BuildFiles
    BY <1>13, <1>o, <1>a DEF Merge, Archives
  <2> QED
    BY <1>0, <1>13, <2>1, OtherMade DEF Merge, Made
<1>14. CASE Copy
  <2>1. Top \in Files \ BuildFiles /\ Running
    BY <1>14, <1>o DEF Copy
  <2>2. CASE Touch(Top) /\ Made
    BY <1>0, <1>14, <2>1, <2>2, OtherMade DEF Copy, Made, contents
  <2>3. CASE GoTo("doomed") /\ UNCHANGED files
    BY <1>14, <1>g, <2>3 DEF Copy, contents, Steps
  <2> QED
    BY <1>14, <2>2, <2>3 DEF Copy
<1>15. CASE LaunchBegin
  BY <1>15, <1>g DEF LaunchBegin, Steps
<1>16. CASE LaunchFinish
  <2>1. Top \in Files \ BuildFiles
    BY <1>16, <1>o DEF LaunchFinish, TestFiles
  <2> QED
    BY <1>0, <1>16, <2>1, OtherMade DEF LaunchFinish, Made
<1>17. CASE TestRun
  <2>1. Top \in Files \ BuildFiles /\ Running
    BY <1>17, <1>o DEF TestRun, TestFiles
  <2>2. CASE Touch("test") /\ Made
    BY <1>0, <1>17, <2>1, <2>2, OtherMade DEF TestRun, Made, contents
  <2>3. CASE GoTo("doomed") /\ UNCHANGED files
    BY <1>17, <1>g, <2>3 DEF TestRun, contents, Steps
  <2> QED
    BY <1>17, <2>2, <2>3 DEF TestRun
<1>s. ASSUME NEW how, Stop(how), \A s \in BuildFiles : Current(s)' => Current(s),
             installed' = installed
      PROVE  TruthInv'
  <2>1. job' \notin Wholesale /\ stack' = <<>> /\ Emptied'
    BY <1>s DEF Stop, Emptied, Wholesale
  <2> QED
    BY <1>0, <1>s, <2>1, QuietStep
<1>18. CASE Doomed
  BY <1>18, <1>s, <1>u DEF Doomed, contents
<1>c. ASSUME job \in Cleanings PROVE job \notin Wholesale /\ \A s : GoOn(s) => GoTo(s)
  BY DEF TruthInv, GoOn
<1>19. CASE RmTest
  <2>0. GoTo("rmtest") \/ GoTo("rmbuild")
    BY <1>19, <1>c DEF RmTest
  <2>1. job' \notin Wholesale /\ stack' = stack /\ installed' = installed /\ Emptied'
    BY <1>19, <2>0 DEF RmTest, GoTo, TruthInv, Emptied, contents
  <2>2. \A s \in BuildFiles : Current(s)' => Current(s)
    BY <1>19, <1>u, RemoveKeepsStale DEF RmTest
  <2> QED
    BY <1>0, <2>1, <2>2, QuietStep
<1>20. CASE RmBuild
  <2>1. job' \notin Wholesale /\ stack' = stack /\ installed' = installed
    BY <1>20, <1>c DEF RmBuild, GoTo, TruthInv
  <2>2. Emptied'
    BY <1>20, <1>c DEF RmBuild, GoTo, Emptied, BuildLeft, files
  <2>3. \A s \in BuildFiles : Current(s)' => Current(s)
    BY <1>20, <1>d DEF RmBuild
  <2> QED
    BY <1>0, <2>1, <2>2, <2>3, QuietStep
<1>21. CASE RmLaunch
  <2>1. job' \notin Wholesale /\ stack' = stack /\ installed' = installed /\ Emptied'
    BY <1>21, <1>c DEF RmLaunch, GoTo, TruthInv, Emptied, files
  <2> QED
    BY <1>0, <1>21, <1>u, <2>1, QuietStep DEF RmLaunch
<1>22. CASE RmInstall
  <2>1. \A s \in BuildFiles : ~Current(s)
    BY <1>22, NoneCurrent DEF RmInstall, TruthInv, Emptied
  <2>2. installed \subseteq BuildFiles
    BY <1>0, RecipeAssumption DEF ContentsOK
  <2>3. UNCHANGED files /\ (GoTo("rminstall") \/ GoTo("rmlogs"))
    BY <1>22, <1>c DEF RmInstall
  <2>4. job' \notin Wholesale /\ Emptied' /\ stack' = stack
    BY <1>22, <2>3 DEF RmInstall, GoTo, TruthInv, Emptied, files
  <2> QED
    BY <1>0, <2>1, <2>2, <2>3, <2>4, Uninstall
<1>r. CASE RmLogs
  <2>1. GoTo("rmlogs") \/ GoTo("rmbin") \/ Stop("ok")
    BY <1>r, <1>c DEF RmLogs
  <2>2. /\ job' \notin Wholesale /\ Emptied' /\ installed' = installed
        /\ stack' = stack \/ stack' = <<>>
    BY <1>r, <2>1 DEF RmLogs, GoTo, Stop, TruthInv, Emptied, files, Wholesale
  <2> QED
    BY <1>0, <1>r, <1>u, <2>2, QuietStep DEF RmLogs
<1>23. CASE RmBin
  <2>1. GoTo("rmbin") \/ Stop("ok")
    BY <1>23 DEF RmBin
  <2>2. \A s \in BuildFiles : Current(s)' => Current(s)
    BY <1>23, <1>u, RemoveKeepsStale DEF RmBin
  <2>3. installed' = installed
    BY <1>23 DEF RmBin, contents
  <2>4. CASE GoTo("rmbin")
    <3>1. present' \subseteq present
      BY <1>23 DEF RmBin, Remove, files
    <3>2. job' \notin Wholesale /\ stack' = stack /\ Emptied'
      BY <1>23, <2>4, <3>1 DEF RmBin, GoTo, TruthInv, Emptied
    <3> QED
      BY <1>0, <2>2, <2>3, <3>2, QuietStep
  <2> QED
    BY <1>s, <2>1, <2>2, <2>3, <2>4
<1>24. CASE RmAll
  BY <1>24 DEF RmAll, TruthInv
<1>25. CASE PackShort
  <2>1. Top \in Files \ BuildFiles
    BY <1>25, <1>o, <1>a DEF PackShort, Archives
  <2> QED
    BY <1>0, <1>25, <2>1, OtherMade DEF PackShort
<1>26. CASE RecipeError
  BY <1>26, <1>s, <1>u DEF RecipeError, contents
<1>27. CASE Interrupt
  BY <1>27, <1>s, RemoveKeepsStale DEF Interrupt, contents
<1>28. CASE Crash
  BY <1>28, <1>s, <1>u DEF Crash, contents
<1>29. CASE UNCHANGED vars
  <2>1. UNCHANGED files /\ UNCHANGED <<job, stack, step, installed>>
    BY <1>29 DEF vars, files, contents, run
  <2> QED
    BY <1>0, <1>u, <2>1, QuietStep DEF TruthInv, Emptied, files
<1> QED
  BY <1>1, <1>2, <1>3, <1>4, <1>5, <1>6, <1>7, <1>8, <1>9, <1>10, <1>11, <1>12,
     <1>13, <1>14, <1>15, <1>16, <1>17, <1>18, <1>19, <1>20, <1>21, <1>22,
     <1>23, <1>24, <1>25, <1>26, <1>27, <1>28, <1>29, <1>w, <1>r
     DEF Next, Make, Clean, Disturb

LEMMA InitTruth == Init => TruthInv
<1> SUFFICES ASSUME Init PROVE TruthInv
  OBVIOUS
<1>1. Descends /\ StackStale
  BY DEF Init, Descends, StackStale
<1>2. \A s \in BuildFiles : ~Current(s)
  BY NoneCurrent DEF Init
<1> QED
  BY <1>1, <1>2, InitTypeOK, RecipeAssumption
     DEF Init, TruthInv, Emptied, StampsTruthful, Shipped, Wholesale

(***************************************************************************)
(* TruthInv is inductive for the rules of every package whose stages do    *)
(* what their stamps say (not gcc's nano-install and its list of files):   *)
(* make only ever holds targets that are not current, whatever stops it.   *)
(***************************************************************************)
THEOREM TruthIsInvariant ==
    ASSUME Jobs \cap Wholesale = {}, Lax = {}, Listers = {}
    PROVE  Spec => []TruthInv
<1>1. Init => TruthInv
  BY InitTruth
<1>2. TruthInv /\ [Next]_vars => TruthInv'
  BY NextTruth
<1> QED
  BY <1>1, <1>2, PTL DEF Spec

(***************************************************************************)
(* Whatever the rules of the package are (gcc's own two excepted: a stage  *)
(* that lists INSTALL, a stage that may copy nothing), wherever its runs,  *)
(* regress runs and clean-ups are cut short, and however often they are    *)
(* repeated: as long as nobody runs make flush or clean, a stamp that make *)
(* takes as up to date stands for output that is complete in INSTALL.      *)
(***************************************************************************)
THEOREM StampsAreTruthful ==
    ASSUME Jobs \cap Wholesale = {}, Lax = {}, Listers = {}
    PROVE  Spec => []StampsTruthful
<1>1. TruthInv => StampsTruthful
  BY DEF TruthInv
<1> QED
  BY <1>1, TruthIsInvariant, PTL

-----------------------------------------------------------------------------
(* Stages find a buildlog directory.                                       *)

\* A step that leaves buildlog alone, brings back no source.stamp, and is not
\* one of source.stamp's recipe.
LEMMA QuietLogs ==
    ASSUME SourceLogs, logs' = logs, "source" \in present' => "source" \in present,
           step' \notin {"wipebuild", "fetch"}
    PROVE  SourceLogs'
BY DEF SourceLogs

LEMMA NextLogs ==
    ASSUME TruthInv, SourceLogs, [Next]_vars, Jobs \cap Wholesale = {}
    PROVE  SourceLogs'
<1>0. "source" \in BuildFiles /\ "source" \notin Stages \cup Arts \cup TestFiles
  BY GraphAssumption DEF BuildFiles, TestFiles
<1>a. Archives \subseteq Arts
  BY GraphAssumption
<1>t. ASSUME NEW f, Touch(f), f # "source"
      PROVE  "source" \in present' => "source" \in present
  BY <1>t DEF Touch
<1>r. ASSUME NEW S, Remove(S)
      PROVE  "source" \in present' => "source" \in present
  BY <1>r DEF Remove
<1>1. ASSUME NEW g \in Goals, StartGoal(g) PROVE SourceLogs'
  BY <1>1, QuietLogs DEF StartGoal, files, contents, shelves
<1>2. ASSUME NEW g \in Cleanings, StartCleaning(g) PROVE SourceLogs'
  BY <1>2, QuietLogs DEF StartCleaning, files, contents, shelves
<1>3. CASE Consider
  BY <1>3, QuietLogs DEF Consider, files, contents, shelves
<1>4. CASE Settle
  BY <1>4, QuietLogs DEF Settle, Stop, GoTo, files, contents, shelves
<1>5. CASE WipeInstall
  BY <1>5, QuietLogs DEF WipeInstall, GoTo, files, shelves
<1>w. CASE WipeLogs
  <2>1. "source" \notin present
    <3>1. ~Current("source")
      BY <1>0, <1>w, TopIsStale DEF WipeLogs
    <3>2. Below["source"] = {}
      BY GraphAssumption
    <3> QED
      BY <1>0, <3>1, <3>2, CurrentMeans
  <2>2. "source" \notin present' /\ (step' \in {"wipebuild", "fetch"} => logs')
    BY <1>w, <2>1 DEF WipeLogs, GoTo, files
  <2> QED
    BY <2>2 DEF SourceLogs
<1>6. CASE WipeBuild
  <2>1. logs /\ logs' = logs
    BY <1>6 DEF WipeBuild, SourceLogs, shelves
  <2> QED
    BY <2>1 DEF SourceLogs
<1>7. CASE Fetch
  <2>1. logs /\ logs' = logs
    BY <1>7 DEF Fetch, SourceLogs, shelves
  <2> QED
    BY <2>1 DEF SourceLogs
<1>8. CASE StageBegin
  BY <1>8, <1>r, QuietLogs DEF StageBegin, GoTo, shelves
<1>9. CASE StageInstall
  BY <1>9, QuietLogs DEF StageInstall, GoTo, files
<1>10. CASE StageFinish
  BY <1>10, <1>0, <1>t, QuietLogs DEF StageFinish, Made
<1>11. CASE PackBegin
  BY <1>11, <1>0, <1>a, <1>t, QuietLogs DEF PackBegin, GoTo, Archives, shelves
<1>12. CASE PackFinish
  BY <1>12, QuietLogs DEF PackFinish, Made, files, shelves
<1>13. CASE Merge
  BY <1>13, <1>0, <1>a, <1>t, QuietLogs DEF Merge, Made, Archives, shelves
<1>14. CASE Copy
  BY <1>14, <1>0, <1>t, QuietLogs DEF Copy, Made, GoTo, files, contents, shelves
<1>15. CASE LaunchBegin
  BY <1>15, QuietLogs DEF LaunchBegin, GoTo, files, shelves
<1>16. CASE LaunchFinish
  BY <1>16, <1>t, QuietLogs DEF LaunchFinish, Made, shelves
<1>17. CASE TestRun
  BY <1>17, <1>t, QuietLogs DEF TestRun, Made, GoTo, files, contents, shelves
<1>18. CASE Doomed
  BY <1>18, QuietLogs DEF Doomed, Stop, files, contents, shelves
<1>c. ASSUME job \in Cleanings PROVE job \notin Wholesale /\ \A s : GoOn(s) => GoTo(s)
  BY DEF TruthInv, GoOn
<1>19. CASE RmTest
  <2>1. GoTo("rmtest") \/ GoTo("rmbuild")
    BY <1>19, <1>c DEF RmTest
  <2>2. "source" \in present' => "source" \in present
    BY <1>19, <1>r DEF RmTest, files
  <2> QED
    BY <1>19, <2>1, <2>2, QuietLogs DEF RmTest, GoTo, contents, shelves
<1>20. CASE RmBuild
  <2>1. GoTo("rmbuild") \/ GoTo("rmlaunch")
    BY <1>20, <1>c DEF RmBuild
  <2>2. "source" \in present' => "source" \in present
    BY <1>20, <1>r DEF RmBuild, DropBuild, files
  <2> QED
    BY <1>20, <2>1, <2>2, QuietLogs DEF RmBuild, GoTo, shelves
<1>21. CASE RmLaunch
  BY <1>21, <1>c, QuietLogs DEF RmLaunch, GoTo, files, shelves
<1>22. CASE RmInstall
  BY <1>22, <1>c, QuietLogs DEF RmInstall, GoTo, files
<1>23. CASE RmLogs
  <2>1. "source" \notin present
    BY <1>0, <1>23 DEF RmLogs, TruthInv, Emptied
  <2>2. GoTo("rmlogs") \/ GoTo("rmbin") \/ Stop("ok")
    BY <1>23, <1>c DEF RmLogs
  <2>3. "source" \notin present' /\ step' \notin {"wipebuild", "fetch"}
    BY <1>23, <2>1, <2>2 DEF RmLogs, GoTo, Stop, files
  <2> QED
    BY <2>3 DEF SourceLogs
<1>24. CASE RmBin
  BY <1>24, <1>r, QuietLogs DEF RmBin, GoTo, Stop, files, contents, shelves
<1>25. CASE RmAll
  BY <1>25 DEF RmAll, TruthInv
<1>26. CASE PackShort
  BY <1>26, QuietLogs DEF PackShort, files, shelves
<1>27. CASE RecipeError
  BY <1>27, QuietLogs DEF RecipeError, Stop, files, contents, shelves
<1>28. CASE Interrupt
  BY <1>28, <1>r, QuietLogs DEF Interrupt, Stop, contents, shelves
<1>29. CASE Crash
  BY <1>29, QuietLogs DEF Crash, Stop, files, contents, shelves
<1>30. CASE UNCHANGED vars
  BY <1>30 DEF SourceLogs, vars, files, contents, shelves, run
<1> QED
  BY <1>1, <1>2, <1>3, <1>4, <1>5, <1>w, <1>6, <1>7, <1>8, <1>9, <1>10,
     <1>11, <1>12, <1>13, <1>14, <1>15, <1>16, <1>17, <1>18, <1>19, <1>20,
     <1>21, <1>22, <1>23, <1>24, <1>25, <1>26, <1>27, <1>28, <1>29, <1>30
     DEF Next, Make, Clean, Disturb

(***************************************************************************)
(* As long as nobody removes obj as a whole, no crash and no clean-up of   *)
(* the package leaves it with sources and without a buildlog directory, in *)
(* which every further run would fail at its first stage.                  *)
(***************************************************************************)
THEOREM SourcesCanLog ==
    ASSUME Jobs \cap Wholesale = {}, Lax = {}, Listers = {}
    PROVE  Spec => []SourceLogs
<1>1. Init => SourceLogs
  BY DEF Init, SourceLogs
<1>2. TruthInv /\ TruthInv' /\ SourceLogs /\ [Next]_vars => SourceLogs'
  BY NextLogs
<1> QED
  BY <1>1, <1>2, TruthIsInvariant, PTL DEF Spec

-----------------------------------------------------------------------------
(* Ctrl-C leaves no fragment.                                              *)

\* A step that writes no archive: it may take archives away, and while the
\* run goes on it finishes only with files that are there.
LEMMA QuietWhole ==
    ASSUME WholeInv, TypeOK', job # "idle", art' = art,
           step # "packing", step' # "packing",
           \A a \in Archives : a \in present' => a \in present,
           job' \in Goals => known' \cap Archives \subseteq present',
           outcome' = outcome \/ outcome' # <<"package", "ok">>
    PROVE  WholeInv'
BY DEF WholeInv, ArchivesWhole, Running

\* A step that finishes with the top target, which is there, and whose
\* archive, if it is one, is whole; the other archives stay as they are.
LEMMA MadeWhole ==
    ASSUME WholeInv, TypeOK', Running, job' = job, outcome' = outcome,
           step' # "packing", known' = known \cup {Top},
           present' = present \cup {Top},
           \A a \in Archives : a # Top => art'[a] = art[a],
           Top \in Archives => art'[Top].whole
    PROVE  WholeInv'
<1>1. \A a \in Archives \cap present' : art'[a].whole
  BY DEF WholeInv
<1>2. outcome # <<"package", "ok">>
  BY DEF WholeInv, Running, Goals
<1> QED
  BY <1>1, <1>2 DEF WholeInv, ArchivesWhole, Running

LEMMA NextWhole ==
    ASSUME WholeInv, [Next]_vars, Faults \cap {"error", "kill"} = {}
    PROVE  WholeInv'
<1>0. FilesOK /\ ContentsOK /\ RunOK /\ TypeOK'
  BY NextTypeOK DEF WholeInv, TypeOK
<1>n. "idle" \notin Goals \cup Cleanings /\ Goals \cap Cleanings = {}
  BY DEF Goals, Cleanings, Wholesale
<1>a. /\ Archives \cap (BuildFiles \cup TestFiles) = {}
      /\ Archives \subseteq Arts /\ Tar \in Archives
  BY GraphAssumption DEF BuildFiles, Archives
<1>s. ASSUME job = "idle", job' # "idle", UNCHANGED <<files, contents>>, known' = {},
             step' # "packing", outcome' = <<"none", "none">>
      PROVE  WholeInv'
  <2>1. step # "packing"
    BY <1>n, <1>s DEF WholeInv, Running
  <2> QED
    BY <1>0, <1>s, <2>1 DEF WholeInv, ArchivesWhole, Running, files, contents
<1>1. ASSUME NEW g \in Goals, StartGoal(g) PROVE WholeInv'
  BY <1>1, <1>n, <1>s DEF StartGoal
<1>2. ASSUME NEW g \in Cleanings, StartCleaning(g) PROVE WholeInv'
  BY <1>2, <1>n, <1>s DEF StartCleaning
<1>3. CASE Consider
  <2>1. \/ known' = known
        \/ \E t : known' = known \cup {t} /\ ~MustMake(t)
    BY <1>3 DEF Consider
  <2>2. known' \cap Archives \subseteq present
    BY <1>3, <2>1 DEF Consider, MustMake, WholeInv
  <2> QED
    BY <1>0, <1>3, <1>n, <2>2, QuietWhole DEF Consider, Running, files, contents
<1>g. ASSUME job # "idle", NEW st, st # "packing", step # "packing", GoTo(st),
             UNCHANGED art, UNCHANGED files \/ \E S : Remove(S) /\ S \cap Archives = {}
      PROVE  WholeInv'
  <2>1. \A a \in Archives : a \in present' <=> a \in present
    BY <1>g DEF Remove, files
  <2>2. job' \in Goals => known' \cap Archives \subseteq present'
    BY <1>g, <2>1 DEF GoTo, WholeInv, Running
  <2> QED
    BY <1>0, <1>g, <2>1, <2>2, QuietWhole DEF GoTo
<1>e. ASSUME job # "idle", step # "packing", NEW how, Stop(how),
             how # "ok" \/ job # "package",
             UNCHANGED art, present' \subseteq present
      PROVE  WholeInv'
  <2>1. job' \notin Goals /\ outcome' # <<"package", "ok">> /\ step' # "packing"
    BY <1>e, <1>n DEF Stop
  <2> QED
    BY <1>0, <1>e, <2>1, QuietWhole
<1>4. CASE Settle
  <2>0. job # "idle" /\ step = "scan" /\ art' = art /\ UNCHANGED files
    BY <1>4, <1>n DEF Settle, Running, contents
  <2>1. CASE GoTo("begin")
    BY <1>g, <2>0, <2>1
  <2>2. CASE Stop("error")
    BY <1>e, <2>0, <2>2 DEF files
  <2>3. CASE Stop("ok") /\ Top = job /\ job # "package"
    BY <1>e, <2>0, <2>3 DEF files
  <2>4. CASE Stop("ok") /\ Top = "package"
    <3>1. Unknown = {} /\ Running
      BY <1>4 DEF Settle
    <3>2. PrereqsOf(Top) = Prereqs["package"]
      BY <2>4 DEF PrereqsOf
    <3>3. RangeOf(Prereqs["package"]) \subseteq known
      BY <3>1, <3>2 DEF Unknown, RangeOf
    <3>4. Archives \subseteq known
      BY <3>3, GraphAssumption
    <3>5. \A a \in Archives : art[a].whole
      BY <2>0, <3>1, <3>4 DEF WholeInv
    <3>6. job' = "idle" /\ step' = "scan"
      BY <2>4 DEF Stop
    <3> QED
      BY <1>0, <1>n, <2>0, <3>5, <3>6 DEF WholeInv, ArchivesWhole, Running
  <2> QED
    BY <1>4, <2>1, <2>2, <2>3, <2>4 DEF Settle
<1>5. CASE WipeInstall
  BY <1>5, <1>g, <1>n DEF WipeInstall, Running
<1>d. ASSUME DropBuild \/ UNCHANGED <<files, trees>>
      PROVE  UNCHANGED files \/ \E S : Remove(S) /\ S \cap Archives = {}
  <2>1. CASE UNCHANGED files
    BY <2>1
  <2>2. ASSUME NEW f \in present \cap BuildFiles, Remove({f})
        PROVE  \E S : Remove(S) /\ S \cap Archives = {}
    <3>1. {f} \cap Archives = {}
      BY <1>a
    <3> QED
      BY <2>2, <3>1
  <2> QED
    BY <1>d, <2>1, <2>2 DEF DropBuild, files
<1>6. CASE WipeBuild
  <2>1. UNCHANGED files \/ \E S : Remove(S) /\ S \cap Archives = {}
    BY <1>6, <1>d DEF WipeBuild
  <2> QED
    BY <1>6, <1>g, <1>n, <2>1 DEF WipeBuild, Running
<1>t. ASSUME Running, Touch(Top), Made, \A a \in Archives : a # Top => art'[a] = art[a],
             Top \in Archives => art'[Top].whole
      PROVE  WholeInv'
  <2>1. present' = present \cup {Top} /\ known' = known \cup {Top} /\ step' # "packing"
    BY <1>t DEF Touch, Made
  <2> QED
    BY <1>0, <1>t, <2>1, MadeWhole DEF Made
<1>7. CASE Fetch
  BY <1>7, <1>t, <1>a DEF Fetch, BuildFiles
<1>8. CASE StageBegin
  <2>1. SameDir[Top] \cap Archives = {}
    BY <1>8, <1>a, GraphAssumption DEF StageBegin, BuildFiles
  <2> QED
    BY <1>8, <1>g, <1>n, <2>1 DEF StageBegin, Running
<1>9. CASE StageInstall
  BY <1>9, <1>g, <1>n DEF StageInstall, Running
<1>w. CASE WipeLogs
  BY <1>w, <1>g, <1>n DEF WipeLogs, Running
<1>10. CASE StageFinish
  BY <1>10, <1>t, <1>a DEF StageFinish, BuildFiles
<1>11. CASE PackBegin
  <2>1. Top \in Archives /\ Top' = Top /\ Running' /\ step' = "packing"
    BY <1>11 DEF PackBegin, GoTo, Top, Running, Archives
  <2>2. /\ present' = present \cup {Top}
        /\ ~art'[Top].whole
        /\ \A a \in Archives : a # Top => art'[a] = art[a]
    BY <1>0, <1>11, <2>1 DEF PackBegin, Touch, ContentsOK
  <2>3. known' = known /\ outcome' = outcome
    BY <1>11 DEF PackBegin, GoTo
  <2>4. \A a \in Archives \cap present' : a # Top => art'[a].whole
    BY <1>11, <2>2 DEF PackBegin, WholeInv
  <2>5. outcome # <<"package", "ok">> /\ Running
    BY <1>11, <1>n DEF PackBegin, WholeInv, Running
  <2> QED
    BY <1>0, <2>1, <2>2, <2>3, <2>4, <2>5 DEF WholeInv, ArchivesWhole
<1>12. CASE PackFinish
  <2>1. Top \in Archives /\ Top \in present /\ Running
    BY <1>12 DEF PackFinish, WholeInv, Archives
  <2>2. present' = present \cup {Top} /\ known' = known \cup {Top} /\ step' # "packing"
    BY <1>12, <2>1 DEF PackFinish, Made, files
  <2>3. art'[Top].whole /\ \A a \in Archives : a # Top => art'[a] = art[a]
    BY <1>0, <1>12, <2>1 DEF PackFinish, ContentsOK, shelves
  <2> QED
    BY <1>0, <1>12, <2>1, <2>2, <2>3, MadeWhole DEF PackFinish, Made
<1>13. CASE Merge
  <2>1. Top \in Archives
    BY <1>13 DEF Merge, Archives
  <2>2. art'[Top].whole /\ \A a \in Archives : a # Top => art'[a] = art[a]
    BY <1>0, <1>13, <2>1 DEF Merge, ContentsOK, shelves
  <2> QED
    BY <1>13, <1>t, <2>2 DEF Merge
<1>14. CASE Copy
  <2>1. CASE Touch(Top) /\ Made
    BY <1>14, <1>t, <2>1 DEF Copy, contents
  <2>2. CASE GoTo("doomed") /\ UNCHANGED files
    BY <1>14, <1>g, <1>n, <2>2 DEF Copy, contents, Running
  <2> QED
    BY <1>14, <2>1, <2>2 DEF Copy
<1>15. CASE LaunchBegin
  BY <1>15, <1>g, <1>n DEF LaunchBegin, Running
<1>16. CASE LaunchFinish
  BY <1>16, <1>t, <1>a DEF LaunchFinish, TestFiles
<1>17. CASE TestRun
  <2>1. CASE Touch("test") /\ Made
    BY <1>17, <1>t, <1>a, <2>1 DEF TestRun, contents, TestFiles
  <2>2. CASE GoTo("doomed") /\ UNCHANGED files
    BY <1>17, <1>g, <1>n, <2>2 DEF TestRun, contents, Running
  <2> QED
    BY <1>17, <2>1, <2>2 DEF TestRun
<1>18. CASE Doomed
  BY <1>18, <1>e, <1>n DEF Doomed, Running, files, contents
<1>c. ASSUME job \in Cleanings, step # "packing", NEW st, st # "packing",
             GoTo(st) \/ GoOn(st) \/ Stop("ok"),
             UNCHANGED art, present' \subseteq present
      PROVE  WholeInv'
  <2>1. job # "idle" /\ job # "package"
    BY <1>c, <1>n DEF Goals
  <2>2. CASE Stop("ok")
    BY <1>c, <1>e, <2>1, <2>2
  <2>3. CASE GoTo(st) \/ GoOn(st)
    BY <1>0, <1>c, <1>n, <2>1, <2>3, QuietWhole DEF GoTo, GoOn
  <2> QED
    BY <1>c, <2>2, <2>3
<1>19. CASE RmTest
  <2>1. GoTo("rmtest") \/ GoOn("rmbuild")
    BY <1>19 DEF RmTest
  <2>2. present' \subseteq present /\ UNCHANGED art
    BY <1>19 DEF RmTest, Remove, files, contents
  <2> QED
    BY <1>19, <1>c, <2>1, <2>2 DEF RmTest, GoOn
<1>20. CASE RmBuild
  <2>1. GoTo("rmbuild") \/ GoOn("rmlaunch")
    BY <1>20 DEF RmBuild
  <2>2. present' \subseteq present /\ UNCHANGED art
    BY <1>20 DEF RmBuild, DropBuild, Remove, files
  <2> QED
    BY <1>20, <1>c, <2>1, <2>2 DEF RmBuild, GoOn
<1>21. CASE RmLaunch
  <2>1. GoTo("rmlaunch") \/ GoOn("rminstall")
    BY <1>21 DEF RmLaunch
  <2> QED
    BY <1>21, <1>c, <2>1 DEF RmLaunch, GoOn, files
<1>22. CASE RmInstall
  <2>1. GoTo("rminstall") \/ GoOn("rmlogs")
    BY <1>22 DEF RmInstall
  <2> QED
    BY <1>22, <1>c, <2>1 DEF RmInstall, GoOn, files
<1>r. CASE RmLogs
  <2>1. GoTo("rmlogs") \/ GoOn("rmbin") \/ Stop("ok")
    BY <1>r DEF RmLogs
  <2> QED
    BY <1>r, <1>c, <2>1 DEF RmLogs, GoOn, files
<1>23. CASE RmBin
  <2>1. GoTo("rmbin") \/ Stop("ok")
    BY <1>23 DEF RmBin
  <2>2. present' \subseteq present /\ UNCHANGED art
    BY <1>23 DEF RmBin, Remove, files, contents
  <2> QED
    BY <1>23, <1>c, <2>1, <2>2 DEF RmBin, Cleanings, Wholesale
<1>24. CASE RmAll
  <2>1. \/ \E d \in {"rmtest", "rmbuild", "rmlaunch", "rminstall", "rmlogs", "rmbin"} : GoTo(d)
        \/ Stop("ok")
    BY <1>24 DEF RmAll
  <2> QED
    BY <1>24, <1>c, <2>1 DEF RmAll, Cleanings, Wholesale, files, contents
<1>25. CASE PackShort
  <2>1. Top \in Archives /\ Top \in present /\ Running
    BY <1>25 DEF PackShort, WholeInv, Archives
  <2>2. present' = present \cup {Top} /\ known' = known \cup {Top} /\ step' # "packing"
    BY <1>25, <2>1 DEF PackShort, files
  <2>3. art'[Top].whole /\ \A a \in Archives : a # Top => art'[a] = art[a]
    BY <1>0, <1>25, <2>1 DEF PackShort, ContentsOK, shelves
  <2> QED
    BY <1>0, <1>25, <2>1, <2>2, <2>3, MadeWhole DEF PackShort
<1>26. CASE RecipeError
  BY <1>26 DEF RecipeError
<1>27. CASE Interrupt
  <2>1. \A a \in Archives \cap present' : art'[a].whole
    <3>1. CASE step = "packing"
      <4>1. present' = present \ {Top}
        BY <1>27, <3>1 DEF Interrupt, Remove, WholeInv
      <4> QED
        BY <1>27, <3>1, <4>1 DEF Interrupt, WholeInv, contents
    <3>2. CASE step # "packing"
      BY <1>27, <3>2 DEF Interrupt, Remove, WholeInv, contents
    <3> QED
      BY <3>1, <3>2
  <2>2. job' = "idle" /\ step' = "scan" /\ outcome' # <<"package", "ok">>
    BY <1>27 DEF Interrupt, Stop
  <2> QED
    BY <1>0, <1>n, <2>1, <2>2 DEF WholeInv, ArchivesWhole, Running
<1>28. CASE Crash
  BY <1>28 DEF Crash
<1>29. CASE UNCHANGED vars
  BY <1>0, <1>29 DEF WholeInv, ArchivesWhole, Running, Top, vars, files, contents, run
<1> QED
  BY <1>1, <1>2, <1>3, <1>4, <1>5, <1>6, <1>7, <1>8, <1>9, <1>10, <1>11, <1>12,
     <1>13, <1>14, <1>15, <1>16, <1>17, <1>18, <1>19, <1>20, <1>21, <1>22,
     <1>23, <1>24, <1>25, <1>26, <1>27, <1>28, <1>29, <1>w, <1>r
     DEF Next, Make, Clean, Disturb

LEMMA InitWhole == Init => WholeInv
BY InitTypeOK DEF Init, WholeInv, ArchivesWhole, Running, Goals

(***************************************************************************)
(* WholeInv is inductive as long as no command fails and nothing is killed *)
(* outright: a fragment is in bin only while its own recipe writes it.     *)
(***************************************************************************)
THEOREM WholeIsInvariant ==
    ASSUME Faults \cap {"error", "kill"} = {}
    PROVE  Spec => []WholeInv
<1>1. Init => WholeInv
  BY InitWhole
<1>2. WholeInv /\ [Next]_vars => WholeInv'
  BY NextWhole
<1> QED
  BY <1>1, <1>2, PTL DEF Spec

(***************************************************************************)
(* If runs are only ever stopped by Ctrl-C (and tar may fall short), no    *)
(* package run that ends well leaves a fragment of an archive in bin: make *)
(* deletes the archive it was writing, and an archive that it is finished  *)
(* with stays.  GdbFragment shows what one failing command changes.        *)
(***************************************************************************)
THEOREM SignalsLeaveNoFragment ==
    ASSUME Faults \cap {"error", "kill"} = {}
    PROVE  Spec => []ArchivesWhole
<1>1. WholeInv => ArchivesWhole
  BY DEF WholeInv
<1> QED
  BY <1>1, WholeIsInvariant, PTL

-----------------------------------------------------------------------------
(* The shelf of a state and of the next.                                   *)

LEMMA ShelfSame ==
    ASSUME \A a \in Archives : a \in present' <=> a \in present, art' = art
    PROVE  Shelf' = Shelf
BY DEF Shelf

LEMMA ShelfPut ==
    ASSUME NEW t \in Archives, NEW what \in {"none", "fragment", "whole"},
           \A a \in Archives \ {t} : (a \in present' <=> a \in present) /\ art'[a] = art[a],
           Shelf'[t] = what
    PROVE  Shelf' = [Shelf EXCEPT ![t] = what]
<1>1. \A a \in Archives \ {t} : Shelf'[a] = Shelf[a]
  BY DEF Shelf
<1>2. DOMAIN Shelf' = Archives /\ DOMAIN Shelf = Archives
  BY DEF Shelf
<1> QED
  BY <1>1, <1>2 DEF Shelf

LEMMA ShelfAt ==
    \A a \in Archives :
        /\ Shelf[a] = IF a \notin present THEN "none"
                      ELSE IF art[a].whole THEN "whole" ELSE "fragment"
        /\ Shelf'[a] = IF a \notin present' THEN "none"
                       ELSE IF art'[a].whole THEN "whole" ELSE "fragment"
BY DEF Shelf

\* No fragment is on the shelf unless its own recipe writes it.
LEMMA ShelfQuiet ==
    ASSUME WholeInv
    PROVE  \A a \in Archives : Shelf[a] = "fragment" => step = "packing" /\ a = Top
BY DEF WholeInv, Shelf

-----------------------------------------------------------------------------
(* Steps.                                                                  *)

\* A step that goes on with what was asked and leaves the archives alone.
LEMMA Stutters ==
    ASSUME job' = job, outcome' = outcome, art' = art,
           \A a \in Archives : a \in present' <=> a \in present
    PROVE  UNCHANGED Release!vars
BY ShelfSame DEF Release!vars

\* The end of a run that leaves the archives alone and was not writing one.
LEMMA Ends ==
    ASSUME WholeInv, job # "idle", step # "packing", NEW how, Stop(how), art' = art,
           UNCHANGED files, how = "error" \/ how = "ok",
           job = "package" /\ how = "ok" => \A a \in Archives : Shelf[a] = "whole"
    PROVE  Release!Next
<1>1. Shelf' = Shelf /\ \A a \in Archives : Shelf[a] # "fragment"
  BY ShelfSame, ShelfQuiet DEF files
<1>2. job' = "idle" /\ outcome'[2] = how
  BY DEF Stop
<1>3. CASE how = "ok"
  <2>1. Release!Succeed
    BY <1>1, <1>2, <1>3 DEF Release!Succeed, Release!NoFragment
  <2> QED
    BY <2>1 DEF Release!Next
<1>4. CASE how = "error"
  <2>1. Shelf = [a \in Archives |-> IF Shelf[a] = "fragment" THEN "none" ELSE Shelf[a]]
    BY <1>1 DEF Shelf
  <2>2. Release!GiveUp
    BY <1>1, <1>2, <1>4, <2>1 DEF Release!GiveUp
  <2> QED
    BY <2>2 DEF Release!Next
<1> QED
  BY <1>3, <1>4

\* A build puts one archive on the shelf.
LEMMA Publishes ==
    ASSUME WholeInv, Running, NEW t \in Archives, t = Top, job' = job, outcome' = outcome,
           t \in present', art'[t].whole,
           \A a \in Archives \ {t} : (a \in present' <=> a \in present) /\ art'[a] = art[a]
    PROVE  Release!Next
<1>1. Shelf' = [Shelf EXCEPT ![t] = "whole"]
  BY ShelfAt, ShelfPut
<1>2. \A b \in Archives \ {t} : Shelf[b] # "fragment"
  BY ShelfQuiet
<1>3. Release!Publish(t)
  BY <1>1, <1>2 DEF Release!Publish, Release!Put, Running
<1> QED
  BY <1>3 DEF Release!Next

LEMMA StepRefines ==
    ASSUME WholeInv, [Next]_vars, Faults \cap {"error", "kill"} = {}
    PROVE  [Release!Next]_(Release!vars)
<1>0. FilesOK /\ ContentsOK /\ RunOK
  BY DEF WholeInv, TypeOK
<1>a. /\ Archives \cap (BuildFiles \cup TestFiles) = {}
      /\ Archives \subseteq Arts
  BY GraphAssumption DEF BuildFiles, Archives
<1>n. "idle" \notin Goals \cup Cleanings /\ "package" \notin Cleanings
  BY DEF Goals, Cleanings, Wholesale
<1>1. ASSUME NEW g \in Goals, StartGoal(g) PROVE Release!Next
  <2>1. Shelf' = Shelf
    BY <1>1, ShelfSame DEF StartGoal, files, contents
  <2>2. Release!Ask(g)
    BY <1>1, <2>1 DEF StartGoal, Release!Ask
  <2> QED
    BY <2>2 DEF Release!Next
<1>2. ASSUME NEW g \in Cleanings, StartCleaning(g) PROVE Release!Next
  <2>1. Shelf' = Shelf
    BY <1>2, ShelfSame DEF StartCleaning, files, contents
  <2>2. Release!Ask(g)
    BY <1>2, <2>1 DEF StartCleaning, Release!Ask
  <2>3. g \in {"cleanup", "clean"} \cup {"flushup", "flush"}
    BY DEF Cleanings, Wholesale
  <2> QED
    BY <2>2, <2>3 DEF Release!Next
<1>3. CASE Consider
  BY <1>3, Stutters DEF Consider, files, contents
<1>4. CASE Settle
  <2>1. /\ job # "idle" /\ step # "packing" /\ art' = art /\ UNCHANGED files /\ Running
    BY <1>4, <1>n DEF Settle, Running, contents
  <2>2. CASE GoTo("begin")
    BY <2>1, <2>2, Stutters DEF GoTo, files
  <2>3. CASE Stop("error")
    BY <2>1, <2>3, Ends
  <2>4. CASE Stop("ok") /\ Top = job
    <3>1. ASSUME job = "package" PROVE \A a \in Archives : Shelf[a] = "whole"
      <4>1. Unknown = {} /\ PrereqsOf(Top) = Prereqs["package"]
        BY <1>4, <2>1, <2>4, <3>1 DEF Settle, PrereqsOf
      <4>2. RangeOf(Prereqs["package"]) \subseteq known
        BY <4>1 DEF Unknown, RangeOf
      <4>3. Archives \subseteq present
        BY <2>1, <4>2, GraphAssumption DEF WholeInv
      <4> QED
        BY <2>1, <4>3, ShelfAt DEF WholeInv
    <3> QED
      BY <2>1, <2>4, <3>1, Ends
  <2> QED
    BY <1>4, <2>2, <2>3, <2>4 DEF Settle
<1>5. CASE WipeInstall
  BY <1>5, Stutters DEF WipeInstall, GoTo, files
<1>w. CASE WipeLogs
  BY <1>w, Stutters DEF WipeLogs, GoTo, files
<1>d. ASSUME DropBuild \/ UNCHANGED <<files, trees>>
      PROVE  \A a \in Archives : a \in present' <=> a \in present
  BY <1>a, <1>d DEF DropBuild, Remove, files
<1>6. CASE WipeBuild
  BY <1>6, <1>d, Stutters DEF WipeBuild, GoTo
<1>t. ASSUME NEW f, f \notin Archives, Touch(f)
      PROVE  \A a \in Archives : a \in present' <=> a \in present
  BY <1>t DEF Touch
<1>7. CASE Fetch
  BY <1>7, <1>a, <1>t, Stutters DEF Fetch, Made, BuildFiles
<1>8. CASE StageBegin
  <2>1. SameDir[Top] \cap Archives = {}
    BY <1>8, <1>a, GraphAssumption DEF StageBegin, BuildFiles
  <2>2. \A a \in Archives : a \in present' <=> a \in present
    BY <1>8, <2>1 DEF StageBegin, Remove
  <2> QED
    BY <1>8, <2>2, Stutters DEF StageBegin, GoTo
<1>9. CASE StageInstall
  BY <1>9, Stutters DEF StageInstall, GoTo, files
<1>10. CASE StageFinish
  BY <1>10, <1>a, <1>t, Stutters DEF StageFinish, Made, BuildFiles
<1>11. CASE PackBegin
  <2>1. Top \in Archives /\ job \in Goals
    BY <1>11 DEF PackBegin, Archives, Running
  <2>2. /\ Top \in present' /\ ~art'[Top].whole
        /\ \A a \in Archives \ {Top} : (a \in present' <=> a \in present) /\ art'[a] = art[a]
    BY <1>0, <1>11, <2>1 DEF PackBegin, Touch, ContentsOK
  <2>3. Shelf' = [Shelf EXCEPT ![Top] = "fragment"]
    BY <2>1, <2>2, ShelfAt, ShelfPut
  <2>4. Release!Begin(Top)
    BY <1>11, <2>1, <2>3, ShelfQuiet
       DEF PackBegin, GoTo, Release!Begin, Release!Put, Release!NoFragment
  <2> QED
    BY <2>1, <2>4 DEF Release!Next
<1>12. CASE PackFinish
  <2>1. Top \in Archives /\ Top \in present /\ Running
    BY <1>12 DEF PackFinish, WholeInv, Archives
  <2>2. art'[Top].whole /\ \A a \in Archives : a # Top => art'[a] = art[a]
    BY <1>0, <1>12, <2>1 DEF PackFinish, ContentsOK
  <2> QED
    BY <1>12, <2>1, <2>2, Publishes DEF PackFinish, Made, files
<1>13. CASE Merge
  <2>1. Top \in Archives /\ Running
    BY <1>13 DEF Merge, Archives
  <2>2. art'[Top].whole /\ \A a \in Archives : a # Top => art'[a] = art[a]
    BY <1>0, <1>13, <2>1 DEF Merge, ContentsOK
  <2>3. Top \in present' /\ \A a \in Archives \ {Top} : a \in present' <=> a \in present
    BY <1>13 DEF Merge, Touch
  <2> QED
    BY <1>13, <2>1, <2>2, <2>3, Publishes DEF Merge, Made
<1>14. CASE Copy
  <2>1. \A a \in Archives : a \in present' <=> a \in present
    BY <1>14, <1>t DEF Copy, files
  <2> QED
    BY <1>14, <2>1, Stutters DEF Copy, Made, GoTo, contents
<1>15. CASE LaunchBegin
  BY <1>15, Stutters DEF LaunchBegin, GoTo, files
<1>16. CASE LaunchFinish
  BY <1>16, <1>a, <1>t, Stutters DEF LaunchFinish, Made, TestFiles
<1>17. CASE TestRun
  <2>1. \A a \in Archives : a \in present' <=> a \in present
    BY <1>17, <1>a, <1>t DEF TestRun, files, TestFiles
  <2> QED
    BY <1>17, <2>1, Stutters DEF TestRun, Made, GoTo, contents
<1>18. CASE Doomed
  BY <1>18, <1>n, Ends DEF Doomed, Running, contents
<1>r. ASSUME job \in Cleanings, NEW st, GoTo(st) \/ GoOn(st), UNCHANGED art,
             \A a \in Archives : a \in present' <=> a \in present
      PROVE  UNCHANGED Release!vars
  BY <1>r, Stutters DEF GoTo, GoOn
<1>s. ASSUME job \in Cleanings, step # "packing", Stop("ok"), UNCHANGED <<files, art>>
      PROVE  Release!Next
  BY <1>s, <1>n, Ends
<1>19. CASE RmTest
  <2>1. \A a \in Archives : a \in present' <=> a \in present
    BY <1>19, <1>a DEF RmTest, Remove, files
  <2> QED
    BY <1>19, <1>r, <2>1 DEF RmTest, contents
<1>20. CASE RmBuild
  BY <1>20, <1>d, <1>r DEF RmBuild
<1>21. CASE RmLaunch
  BY <1>21, <1>r DEF RmLaunch, files
<1>22. CASE RmInstall
  BY <1>22, <1>r DEF RmInstall, files
<1>23. CASE RmLogs
  BY <1>23, <1>r, <1>s DEF RmLogs, files
<1>24. CASE RmBin
  <2>1. CASE Stop("ok") /\ UNCHANGED files
    BY <1>24, <1>s, <2>1 DEF RmBin, contents, Cleanings, Wholesale
  <2>2. ASSUME NEW f, Remove({f}), GoTo("rmbin")
        PROVE  [Release!Next]_(Release!vars)
    <3>1. \A a \in Archives \ {f} : a \in present' <=> a \in present
      BY <2>2 DEF Remove
    <3>2. CASE f \in Archives
      <4>1. Shelf'[f] = "none"
        BY <2>2, <3>2, ShelfAt DEF Remove
      <4>2. Shelf' = [Shelf EXCEPT ![f] = "none"]
        BY <1>24, <3>1, <3>2, <4>1, ShelfPut DEF RmBin, contents
      <4>3. Release!Withdraw(f)
        BY <1>24, <2>2, <4>2 DEF RmBin, GoTo, Release!Withdraw, Release!Put
      <4> QED
        BY <3>2, <4>3 DEF Release!Next
    <3>3. CASE f \notin Archives
      BY <1>24, <2>2, <3>1, <3>3, Stutters DEF RmBin, GoTo, contents
    <3> QED
      BY <3>2, <3>3
  <2> QED
    BY <1>24, <2>1, <2>2 DEF RmBin
<1>25. CASE RmAll
  BY <1>25, <1>r, <1>s DEF RmAll, files, contents, Cleanings
<1>26. CASE PackShort
  <2>1. Top \in Archives /\ Top \in present /\ Running
    BY <1>26 DEF PackShort, WholeInv, Archives
  <2>2. art'[Top].whole /\ \A a \in Archives : a # Top => art'[a] = art[a]
    BY <1>0, <1>26, <2>1 DEF PackShort, ContentsOK
  <2> QED
    BY <1>26, <2>1, <2>2, Publishes DEF PackShort, files
<1>27. CASE RecipeError
  BY <1>27 DEF RecipeError
<1>28. CASE Interrupt
  <2>1. job # "idle" /\ job' = "idle" /\ outcome'[2] = "error" /\ art' = art
    BY <1>28 DEF Interrupt, Stop, contents
  <2>2. Shelf' = [a \in Archives |-> IF Shelf[a] = "fragment" THEN "none" ELSE Shelf[a]]
    <3>1. CASE step = "packing"
      <4>1. present' = present \ {Top}
        BY <1>28, <3>1 DEF Interrupt, Remove, WholeInv
      <4>2. ASSUME NEW a \in Archives
            PROVE  Shelf'[a] = IF Shelf[a] = "fragment" THEN "none" ELSE Shelf[a]
        <5>1. Top \in present /\ (a # Top => Shelf[a] # "fragment")
          BY <3>1, ShelfQuiet DEF WholeInv
        <5>2. CASE a = Top
          BY <3>1, <4>1, <5>2, ShelfAt DEF WholeInv
        <5>3. CASE a # Top
          BY <2>1, <4>1, <5>1, <5>3, ShelfAt
        <5> QED
          BY <5>2, <5>3
      <4> QED
        BY <4>2 DEF Shelf
    <3>2. CASE step # "packing"
      BY <1>28, <2>1, <3>2, ShelfQuiet DEF Interrupt, Remove, Shelf
    <3> QED
      BY <3>1, <3>2
  <2>3. Release!GiveUp
    BY <2>1, <2>2 DEF Release!GiveUp
  <2> QED
    BY <2>3 DEF Release!Next
<1>29. CASE Crash
  BY <1>29 DEF Crash
<1>30. CASE UNCHANGED vars
  BY <1>30, Stutters DEF vars, files, contents, run
<1> QED
  BY <1>1, <1>2, <1>3, <1>4, <1>5, <1>w, <1>6, <1>7, <1>8, <1>9, <1>10,
     <1>11, <1>12, <1>13, <1>14, <1>15, <1>16, <1>17, <1>18, <1>19, <1>20,
     <1>21, <1>22, <1>23, <1>24, <1>25, <1>26, <1>27, <1>28, <1>29, <1>30
     DEF Next, Make, Clean, Disturb

(***************************************************************************)
(* Whatever the rules of the package are: while nothing but Ctrl-C stops   *)
(* runs of make, bin is kept as PackageRelease promises its user.  An      *)
(* archive that was whole is never lost to a run that gives up, and only   *)
(* the goals that say so take one away.                                    *)
(***************************************************************************)
THEOREM BuildsAsPromised ==
    ASSUME Faults \cap {"error", "kill"} = {}
    PROVE  Spec => ImplementsRelease
<1>1. Init => Release!Init
  BY DEF Init, Release!Init, Shelf
<1>2. WholeInv /\ [Next]_vars => [Release!Next]_(Release!vars)
  BY StepRefines
<1> QED
  BY <1>1, <1>2, WholeIsInvariant, PTL DEF Spec, ImplementsRelease, Release!Spec
=============================================================================
