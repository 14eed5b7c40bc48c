------------------------ MODULE PackageRegressProofs ------------------------
(***************************************************************************)
(* What regress trusts it has unpacked from the tarball in bin, for the    *)
(* rules of any package and whatever goes wrong in its runs.               *)
(***************************************************************************)
EXTENDS PackageBuildProofs

\* Wherever the assumption is cited, what it says is visible.
USE DEF GraphOK

-----------------------------------------------------------------------------
(* The ages of files.                                                      *)

LEMMA TouchAges == ASSUME FilesOK, Ages, NEW f, Touch(f) PROVE Ages'
<1>1. \A a, b \in present' :
        <<a, b>> \in newer' <=> \/ a = f /\ b # f
                                \/ a # f /\ b # f /\ <<a, b>> \in newer
  BY DEF Touch, FilesOK
<1>2. \A a \in present' \ {f} : a \in present
  BY DEF Touch
<1>3. \A a \in present' : <<a, a>> \notin newer'
  BY <1>1, <1>2 DEF Ages
<1>4. \A a, b \in present' : a # b => <<a, b>> \in newer' \/ <<b, a>> \in newer'
  BY <1>1, <1>2 DEF Ages
<1>5. \A a, b, c \in present' :
        <<a, b>> \in newer' /\ <<b, c>> \in newer' => <<a, c>> \in newer'
  BY <1>1, <1>2 DEF Ages
<1> QED
  BY <1>3, <1>4, <1>5 DEF Ages

LEMMA RemoveAges == ASSUME Ages, NEW S, Remove(S) PROVE Ages'
<1>1. \A a, b \in present' : <<a, b>> \in newer' <=> <<a, b>> \in newer
  BY DEF Remove
<1>2. present' \subseteq present
  BY DEF Remove
<1> QED
  BY <1>1, <1>2 DEF Ages

\* A step that writes no launch.stamp.
Quietly ==
    \/ UNCHANGED files
    \/ \E S : Remove(S)
    \/ \E f \in Files \ {"launch"} : Touch(f)

LEMMA QuietFiles ==
    ASSUME FilesOK, Ages, Quietly
    PROVE  Ages' /\ (Repacked => Repacked')
<1>1. CASE UNCHANGED files
  BY <1>1 DEF files, Ages, Repacked
<1>2. ASSUME NEW S, Remove(S) PROVE Ages' /\ (Repacked => Repacked')
  BY <1>2, RemoveAges DEF Remove, Repacked
<1>3. ASSUME NEW f \in Files \ {"launch"}, Touch(f) PROVE Ages' /\ (Repacked => Repacked')
  <2>1. Repacked => Repacked'
    BY <1>3 DEF Touch, Repacked
  <2> QED
    BY <1>3, <2>1, TouchAges
<1> QED
  BY <1>1, <1>2, <1>3 DEF Quietly

LEMMA TouchTar == ASSUME Touch(Tar), Tar # "launch" PROVE Repacked'
BY DEF Touch, Repacked

-----------------------------------------------------------------------------
(* Which targets launch.stamp and the tarball are made for.                *)

LEMMA ChainFacts ==
    /\ Tar \in Files /\ Tar \in Arts /\ Tar \in Archives /\ Tar \notin Merged
    /\ Tar \notin TestFiles /\ Tar \notin BuildFiles /\ Tar # "launch"
    /\ "launch" \in TestFiles /\ "launch" \in Files /\ "launch" \notin Goals
    /\ "launch" \notin BuildFiles /\ "launch" \notin Arts
    /\ "idle" \notin Goals /\ "idle" \notin Cleanings /\ Goals \cap Cleanings = {}
<1>1. Tar \in Arts /\ Tar \in Archives /\ Tar \notin Merged
  BY GraphAssumption DEF Archives
<1>2. Arts \cap TestFiles = {} /\ Arts \cap BuildFiles = {} /\ TestFiles \cap BuildFiles = {}
  BY GraphAssumption DEF BuildFiles, TestFiles
<1>3. Arts \subseteq Files /\ TestFiles \subseteq Files
  BY DEF Files
<1> QED
  BY <1>1, <1>2, <1>3 DEF TestFiles, Goals, Cleanings, Wholesale

LEMMA WantsTar ==
    ASSUME RegressChain, NEW t \in Files \cup Goals, Tar \in RangeOf(Prereqs[t])
    PROVE  t = "launch" \/ t = "package"
<1>1. Tar \in Below[t]
  BY GraphAssumption
<1>2. t \notin BuildFiles /\ t \notin Arts
  <2>1. \A s \in BuildFiles : Below[s] \subseteq BuildFiles
    BY BuildFileFacts
  <2>2. \A a \in Arts : Below[a] \subseteq BuildFiles
    BY GraphAssumption
  <2> QED
    BY <1>1, <2>1, <2>2, ChainFacts
<1>3. t # "test" /\ t # "regress"
  BY ChainFacts, GraphAssumption DEF RegressChain, RangeOf, TestFiles, Goals, Files
<1> QED
  BY <1>2, <1>3 DEF Files, TestFiles, Goals

\* What is being updated under the goal is made for it.
LEMMA UnderGoal ==
    ASSUME RunOK, Running, Descends
    PROVE  /\ \A i \in DOMAIN stack : i # 1 => stack[i] \in Below[job] /\ stack[i] \in Files
           /\ Len(stack) \in DOMAIN stack /\ 1 \in DOMAIN stack
           /\ DOMAIN stack = 1..Len(stack) /\ Len(stack) \in Nat
           /\ job = stack[1] /\ job \in Files \cup Goals
<1>1. /\ Len(stack) \in Nat \ {0} /\ DOMAIN stack = 1..Len(stack)
      /\ stack[1] = job /\ job \in Goals
  BY TopOK, LenProperties DEF RunOK, Running
<1>2. ASSUME NEW i \in DOMAIN stack, i # 1
      PROVE  stack[i] \in Below[job] /\ stack[i] \in Files
  <2>1. 1 \in DOMAIN stack /\ 1 < i
    BY <1>1, <1>2
  <2>2. stack[i] \in Below[job]
    BY <1>1, <2>1 DEF Descends
  <2> QED
    BY <1>1, <2>2, BelowAreFiles
<1>3. Len(stack) \in DOMAIN stack /\ 1 \in DOMAIN stack
  BY <1>1
<1> QED
  BY <1>1, <1>2, <1>3

LEMMA LaunchForRegress ==
    ASSUME RunOK, Running, Descends, RegressChain, "launch" \in RangeOf(stack)
    PROVE  job # "package"
<1>1. PICK i \in DOMAIN stack : stack[i] = "launch"
  BY DEF RangeOf
<1>2. i # 1
  BY <1>1, UnderGoal, ChainFacts DEF Running
<1> QED
  BY <1>1, <1>2, UnderGoal DEF RegressChain

\* launch.stamp is not among the targets it is made for.
LEMMA LaunchOnce ==
    ASSUME RunOK, Running, Descends, NEW i \in DOMAIN stack, NEW j \in DOMAIN stack, i < j
    PROVE  ~(stack[i] = "launch" /\ stack[j] = "launch")
<1>1. stack[j] \in Below[stack[i]]
  BY DEF Descends
<1>2. "launch" \notin Below["launch"]
  BY ChainFacts, GraphAssumption
<1> QED
  BY <1>1, <1>2

-----------------------------------------------------------------------------
(* Steps.                                                                  *)

\* A step within a recipe or a clean-up.
LEMMA GoOnTested ==
    ASSUME TestedInv, TypeOK', NEW s, GoTo(s), Quietly,
           Repacked' \/ launched' = art'[Tar].has,
           Running /\ Top = "launch" => Tar \in known,
           Running /\ Top = Tar /\ s = "packing" => Repacked',
           job \in Cleanings /\ s # "rmtest" => present' \cap TestFiles = {}
    PROVE  TestedInv'
<1>1. Ages' /\ (Repacked => Repacked')
  BY QuietFiles DEF TestedInv, TypeOK
<1>2. /\ job' = job /\ stack' = stack /\ known' = known /\ step' = s
      /\ Top' = Top /\ (Running' <=> Running)
  BY DEF GoTo, Top, Running
<1>3. Descends' /\ Follows'
  BY <1>2 DEF TestedInv, Descends, Follows
<1>4. TarFirst'
  <2>1. Tar \in known' => job' = "package" \/ "launch" \in known' \cup RangeOf(stack')
    BY <1>2 DEF TestedInv, TarFirst
  <2>2. "launch" \in RangeOf(stack') /\ Tar \in known' => Repacked'
    BY <1>1, <1>2 DEF TestedInv, TarFirst
  <2>3. ~(Running' /\ Top' = "launch" /\ Tar \notin known')
    BY <1>2
  <2>4. Running' /\ Top' = Tar /\ step' = "packing" => Repacked'
    BY <1>2
  <2> QED
    BY <2>1, <2>2, <2>3, <2>4 DEF TarFirst
<1> QED
  BY <1>1, <1>2, <1>3, <1>4 DEF TestedInv

\* A step that ends a run or a clean-up.
LEMMA StopTested ==
    ASSUME TestedInv, TypeOK', NEW how, Stop(how), Quietly,
           UNCHANGED <<launched, art>>
    PROVE  TestedInv'
<1>1. Ages' /\ (Repacked => Repacked')
  BY QuietFiles DEF TestedInv, TypeOK
<1>2. job' = "idle" /\ stack' = <<>> /\ known' = {}
  BY DEF Stop
<1>3. ~Running' /\ job' \notin Cleanings /\ job' \notin Wholesale
  BY <1>2, ChainFacts DEF Running, Cleanings
<1>4. DOMAIN stack' = {} /\ Len(stack') = 0
  BY <1>2, EmptySeq
<1>5. Descends' /\ Follows'
  BY <1>4 DEF Descends, Follows
<1>6. TarFirst'
  BY <1>2, <1>3, <1>4 DEF TarFirst, RangeOf
<1> QED
  BY <1>1, <1>3, <1>5, <1>6 DEF TestedInv

\* A step with which a recipe ends well.
LEMMA MadeTested ==
    ASSUME TestedInv, TypeOK', RegressChain, Running, Top \in Files,
           job' = job, known' = known \cup {Top}, step' = "scan",
           stack' = SubSeq(stack, 1, Len(stack) - 1),
           Ages', Top # "launch" => (Repacked => Repacked'),
           Top = Tar => Repacked',
           Repacked' \/ launched' = art'[Tar].has
    PROVE  TestedInv'
<1>0. RunOK /\ Descends
  BY DEF TestedInv, TypeOK
<1>1. /\ Descends'
      /\ Len(stack) \in Nat /\ Len(stack) > 1
      /\ DOMAIN stack = 1..Len(stack)
      /\ Len(stack') = Len(stack) - 1
      /\ DOMAIN stack' = 1..(Len(stack) - 1)
      /\ \A i \in DOMAIN stack' : i \in DOMAIN stack /\ stack'[i] = stack[i] /\ i < Len(stack)
  BY <1>0, PopDescends
<1>2. Running' /\ job' \notin Cleanings /\ Top' = stack[Len(stack) - 1]
  <2>1. Len(stack) - 1 \in DOMAIN stack'
    BY <1>1
  <2> QED
    BY <1>1, <2>1, ChainFacts DEF Top, Running
<1>3. Top \in RangeOf(Prereqs[Top']) /\ Top' \in Files \cup Goals
  <2>1. /\ Len(stack) - 1 \in 1..(Len(stack) - 1) /\ Len(stack) - 1 + 1 = Len(stack)
        /\ Len(stack) - 1 \in DOMAIN stack
    BY <1>1
  <2>2. stack[Len(stack) - 1] \in Files \cup Goals
    BY <1>0, <2>1, <1>1, ElementOfSeq DEF RunOK
  <2> QED
    BY <1>2, <2>1, <2>2 DEF TestedInv, Follows, Top
<1>4. Follows'
  BY <1>1 DEF TestedInv, Follows
<1>5. RangeOf(stack) \subseteq RangeOf(stack') \cup {Top} /\ RangeOf(stack') \subseteq RangeOf(stack)
  <2>1. \A i \in DOMAIN stack : i = Len(stack) \/ i \in DOMAIN stack'
    BY <1>1
  <2> QED
    BY <1>1, <2>1 DEF RangeOf, Top
<1>6. Top' \in RangeOf(stack')
  <2>1. Len(stack) - 1 \in DOMAIN stack'
    BY <1>1
  <2> QED
    BY <1>1, <1>2, <2>1 DEF RangeOf
<1>7. Top = "launch" => "launch" \notin RangeOf(stack')
  <2>1. Len(stack) \in DOMAIN stack
    BY <1>1
  <2> QED
    BY <1>0, <1>1, <2>1, LaunchOnce DEF RangeOf, Top
<1>8. Top' = "package" => job' = "package"
  <2>1. CASE Len(stack) - 1 = 1
    BY <1>0, <1>2, <2>1, UnderGoal
  <2>2. CASE Len(stack) - 1 # 1
    <3>1. Len(stack) - 1 \in DOMAIN stack
      BY <1>1
    <3>2. Top' \in Files
      BY <1>0, <1>2, <2>2, <3>1, UnderGoal
    <3> QED
      BY <3>2, GoalsAreNoFiles DEF Goals
  <2> QED
    BY <2>1, <2>2
<1>9. TarFirst'
  <2>1. Tar \in known' => job' = "package" \/ "launch" \in known' \cup RangeOf(stack')
    <3>1. CASE Top = Tar
      BY <1>3, <1>6, <1>8, <3>1, WantsTar
    <3>2. CASE Top # Tar
      BY <1>5, <3>2 DEF TestedInv, TarFirst
    <3> QED
      BY <3>1, <3>2
  <2>2. "launch" \in RangeOf(stack') /\ Tar \in known' => Repacked'
    BY <1>5, <1>7 DEF TestedInv, TarFirst
  <2>3. ~(Running' /\ Top' = "launch" /\ Tar \notin known')
    <3>1. RangeOf(Prereqs["launch"]) = {Tar}
      BY DEF RegressChain, RangeOf
    <3> QED
      BY <1>3, <3>1
  <2> QED
    BY <2>1, <2>2, <2>3 DEF TarFirst
<1> QED
  BY <1>1, <1>2, <1>4, <1>9 DEF TestedInv

\* make takes up launch.stamp with cause: either the tarball has to be made
\* again, or it is the tarball that launch.stamp is older than.
LEMMA TarIsNewer ==
    ASSUME FilesOK, Ages, RegressChain, tarSeen, MustMake("launch"), ~MustMake(Tar)
    PROVE  Repacked
<1>1. Reach("launch") = {Tar} \cup Below[Tar] /\ Reach(Tar) = Below[Tar]
  BY ChainFacts DEF Reach, RegressChain
<1> SUFFICES ASSUME "launch" \in present, Tar \in present PROVE <<Tar, "launch">> \in newer
  BY DEF Repacked
<1>2. PICK q \in {Tar} \cup Below[Tar] : <<q, "launch">> \in newer
  BY <1>1 DEF MustMake, Outdated
<1>3. q \in present
  BY <1>2 DEF FilesOK
<1>4. CASE q # Tar
  <2>1. <<q, Tar>> \notin newer
    BY <1>1, <1>2, <1>4 DEF MustMake, Outdated
  <2>2. <<Tar, q>> \in newer
    BY <1>3, <1>4, <2>1 DEF Ages
  <2> QED
    BY <1>2, <1>3, <2>2 DEF Ages
<1> QED
  BY <1>2, <1>4

LEMMA ConsiderTested ==
    ASSUME TestedInv, TypeOK', RegressChain, Consider
    PROVE  TestedInv'
<1>0. FilesOK /\ RunOK /\ Running /\ Descends /\ step = "scan"
  BY DEF TestedInv, TypeOK, Consider
<1>1. PICK i \in Unknown :
        LET t == PrereqsOf(Top)[i] IN
        IF MustMake(t)
        THEN stack' = Append(stack, t) /\ UNCHANGED known
        ELSE known' = known \cup {t} /\ UNCHANGED stack
  BY DEF Consider, FirstUnknown
<1> DEFINE t == PrereqsOf(Top)[i]
<1>2. /\ UNCHANGED <<present, newer, job, step, tarSeen, launched, art>>
      /\ Ages' /\ (Repacked' <=> Repacked) /\ (Running' <=> Running)
      /\ \A f : MustMake(f)' <=> MustMake(f)
  BY DEF Consider, files, contents, TestedInv, Ages, Repacked, Running,
         MustMake, Outdated, Reach
<1>3. /\ t \in RangeOf(Prereqs[Top]) /\ t \notin known /\ Top \in Files \cup Goals
      /\ Top = "launch" => tarSeen
  BY <1>0, TopOK, EmptySeq DEF Unknown, PrereqsOf, RangeOf
<1>4. /\ \A k \in DOMAIN stack : k # 1 => stack[k] \in Below[job] /\ stack[k] \in Files
      /\ Len(stack) \in DOMAIN stack /\ 1 \in DOMAIN stack
      /\ DOMAIN stack = 1..Len(stack) /\ Len(stack) \in Nat
      /\ job = stack[1] /\ job \in Files \cup Goals
  BY <1>0, UnderGoal
<1>c. job' \notin Cleanings /\ job' \notin Wholesale
  BY <1>0, <1>2, ChainFacts DEF Running, Cleanings
<1>p. Top = "package" => job = "package"
  BY <1>4, GoalsAreNoFiles DEF Top, Goals
<1>l. RangeOf(Prereqs["launch"]) = {Tar}
  BY DEF RegressChain, RangeOf
<1>5. CASE known' = known \cup {t} /\ UNCHANGED stack /\ ~MustMake(t)
  <2> HIDE DEF t
  <2>1. Descends' /\ Follows' /\ Top' = Top
    BY <1>5 DEF TestedInv, Descends, Follows, Top
  <2>2. CASE t = Tar
    <3>1. Top = "launch" \/ job = "package"
      BY <1>3, <1>p, <2>2, WantsTar
    <3>2. Top \in RangeOf(stack)
      BY <1>4 DEF RangeOf, Top
    <3>3. "launch" \in RangeOf(stack) => Repacked
      <4> SUFFICES ASSUME "launch" \in RangeOf(stack) PROVE Repacked
        OBVIOUS
      <4>1. Top = "launch"
        BY <1>0, <3>1, LaunchForRegress
      <4>2. MustMake("launch")
        BY <1>0, <1>3, <2>2, <4>1 DEF TestedInv, TarFirst
      <4> QED
        BY <1>0, <1>3, <1>5, <2>2, <4>1, <4>2, TarIsNewer DEF TestedInv
    <3>4. TarFirst'
      BY <1>0, <1>2, <1>5, <2>1, <2>2, <3>1, <3>2, <3>3 DEF TarFirst
    <3> QED
      BY <1>2, <1>c, <2>1, <3>4 DEF TestedInv
  <2>3. CASE t # Tar
    <3>1. TarFirst'
      BY <1>0, <1>2, <1>5, <2>1, <2>3 DEF TestedInv, TarFirst
    <3> QED
      BY <1>2, <1>c, <2>1, <3>1 DEF TestedInv
  <2> QED
    BY <2>2, <2>3
<1>6. CASE stack' = Append(stack, t) /\ UNCHANGED known /\ MustMake(t)
  <2>1. /\ Descends' /\ Len(stack') = Len(stack) + 1
        /\ DOMAIN stack' = 1..(Len(stack) + 1)
        /\ stack'[Len(stack) + 1] = t
        /\ \A j \in 1..Len(stack) : stack'[j] = stack[j]
    BY <1>0, <1>6, PushDescends
  <2> HIDE DEF t
  <2>2. Top' = t
    BY <2>1 DEF Top
  <2>3. RangeOf(stack') = RangeOf(stack) \cup {t}
    <3>1. \A j \in DOMAIN stack' : j \in DOMAIN stack \/ j = Len(stack) + 1
      BY <1>4, <2>1
    <3>2. DOMAIN stack \subseteq DOMAIN stack' /\ Len(stack) + 1 \in DOMAIN stack'
      BY <1>4, <2>1
    <3> QED
      BY <1>4, <2>1, <3>1, <3>2 DEF RangeOf
  <2>4. Follows'
    <3> SUFFICES ASSUME NEW j \in 1..(Len(stack') - 1)
                 PROVE  stack'[j + 1] \in RangeOf(Prereqs[stack'[j]])
      BY DEF Follows
    <3>1. CASE j = Len(stack)
      BY <1>3, <1>4, <2>1, <3>1 DEF Top
    <3>2. CASE j # Len(stack)
      <4>0. Len(stack') - 1 = Len(stack) /\ Len(stack) \in Nat
        BY <1>4, <2>1
      <4>1. j \in 1..(Len(stack) - 1) /\ j \in 1..Len(stack) /\ j + 1 \in 1..Len(stack)
        BY <3>2, <4>0
      <4> QED
        BY <2>1, <4>1 DEF TestedInv, Follows
    <3> QED
      BY <3>1, <3>2
  <2>5. t = "launch" => Tar \notin known
    <3> SUFFICES ASSUME t = "launch", Tar \in known PROVE FALSE
      OBVIOUS
    <3>1. "launch" \in Below[Top]
      BY <1>3, GraphAssumption
    <3>2. job # "package"
      <4>1. CASE Len(stack) = 1
        BY <1>4, <3>1, <4>1 DEF Top, RegressChain
      <4>2. CASE Len(stack) # 1
        <5>1. Top \in Below[job]
          BY <1>4, <4>2 DEF Top
        <5>2. "launch" \in Below[job]
          BY <1>4, <3>1, <5>1, GraphAssumption
        <5> QED
          BY <5>2 DEF RegressChain
      <4> QED
        BY <4>1, <4>2
    <3>3. PICK k \in DOMAIN stack : stack[k] = "launch"
      BY <1>3, <3>2 DEF TestedInv, TarFirst, RangeOf
    <3>4. Top \in Below["launch"] \/ Top = "launch"
      <4>1. CASE k = Len(stack)
        BY <3>3, <4>1 DEF Top
      <4>2. CASE k # Len(stack)
        <5>1. k < Len(stack)
          BY <1>4, <4>2
        <5> QED
          BY <1>0, <1>4, <3>3, <5>1 DEF Descends, Top
      <4> QED
        BY <4>1, <4>2
    <3> QED
      BY <3>1, <3>4, ChainFacts, GraphAssumption
  <2>6. TarFirst'
    <3>1. Tar \in known' => job' = "package" \/ "launch" \in known' \cup RangeOf(stack')
      BY <1>2, <1>6, <2>3 DEF TestedInv, TarFirst
    <3>2. "launch" \in RangeOf(stack') /\ Tar \in known' => Repacked'
      BY <1>2, <1>6, <2>3, <2>5 DEF TestedInv, TarFirst
    <3>3. Top' = "launch" => step' = "scan" /\ MustMake("launch")'
      <4>1. MustMake("launch")' <=> MustMake("launch")
        BY <1>2
      <4> QED
        BY <1>0, <1>2, <1>6, <2>2, <4>1
    <3>4. step' # "packing"
      BY <1>0, <1>2
    <3> QED
      BY <3>1, <3>2, <3>3, <3>4 DEF TarFirst
  <2> QED
    BY <1>2, <1>c, <2>1, <2>4, <2>6 DEF TestedInv
<1> QED
  BY <1>1, <1>5, <1>6

LEMMA NextTested ==
    ASSUME TestedInv, [Next]_vars, Jobs \cap Wholesale = {}, RegressChain
    PROVE  TestedInv'
<1>0. FilesOK /\ ContentsOK /\ RunOK /\ TypeOK' /\ TarFirst /\ Ages
  BY NextTypeOK DEF TestedInv, TypeOK
<1>n. /\ "idle" \notin Goals \cup Cleanings /\ Goals \cap Cleanings = {}
      /\ Archives \subseteq Files \ ({"launch"} \cup BuildFiles \cup TestFiles)
      /\ Arts \subseteq Files \ {"launch"} /\ BuildFiles \subseteq Files \ {"launch"}
      /\ Tar \in Archives \ (Merged \cup BuildFiles \cup TestFiles)
  <2>1. Archives \subseteq Arts /\ Arts \cap BuildFiles = {} /\ Arts \cap TestFiles = {}
    BY GraphAssumption DEF BuildFiles
  <2> QED
    BY <2>1, ChainFacts DEF Files
<1>r. Repacked \/ launched = art[Tar].has
  BY DEF TestedInv
<1>1. ASSUME NEW g \in Goals, StartGoal(g) PROVE TestedInv'
  <2>1. /\ job' = g /\ stack' = <<g>> /\ known' = {} /\ step' = "scan"
        /\ UNCHANGED <<present, newer, launched, art>>
    BY <1>1 DEF StartGoal, files, contents
  <2>2. Len(stack') = 1 /\ DOMAIN stack' = {1} /\ stack'[1] = g
    BY <2>1
  <2>3. Descends' /\ Follows'
    BY <2>2 DEF Descends, Follows
  <2>4. TarFirst'
    BY <2>1, <2>2, ChainFacts DEF TarFirst, RangeOf, Top
  <2>5. Ages' /\ (Repacked' <=> Repacked) /\ g \notin Cleanings /\ g \notin Wholesale
    BY <1>0, <1>n, <2>1 DEF Ages, Repacked, Cleanings
  <2> QED
    BY <1>0, <1>r, <2>1, <2>3, <2>4, <2>5 DEF TestedInv
<1>2. ASSUME NEW g \in Cleanings, StartCleaning(g) PROVE TestedInv'
  <2>1. /\ g \notin Wholesale /\ job' = g /\ stack' = <<>> /\ known' = {}
        /\ step' = "rmtest" /\ UNCHANGED <<present, newer, launched, art>>
    BY <1>2 DEF StartCleaning, files, contents
  <2>2. Len(stack') = 0 /\ DOMAIN stack' = {} /\ ~Running'
    BY <1>n, <2>1 DEF Running
  <2>3. Descends' /\ Follows'
    BY <2>2 DEF Descends, Follows
  <2>4. TarFirst'
    BY <2>1, <2>2 DEF TarFirst, RangeOf
  <2>5. Ages' /\ (Repacked' <=> Repacked)
    BY <1>0, <2>1 DEF Ages, Repacked
  <2> QED
    BY <1>0, <1>r, <2>1, <2>3, <2>4, <2>5 DEF TestedInv
<1>3. CASE Consider
  BY <1>0, <1>3, ConsiderTested
<1>l. Running /\ Top = "launch" /\ step # "scan" => Tar \in known
  BY <1>0 DEF TarFirst
<1>q. ASSUME Quietly, UNCHANGED <<launched, art>>
      PROVE  Repacked' \/ launched' = art'[Tar].has
  BY <1>0, <1>q, <1>r, QuietFiles
\* A step within a recipe that leaves the tarball and the launch tree alone.
<1>g. ASSUME Running, step # "scan", NEW s, s # "packing", GoTo(s), Quietly,
             UNCHANGED <<launched, art>>
      PROVE  TestedInv'
  BY <1>0, <1>g, <1>l, <1>n, <1>q, GoOnTested DEF Running
\* The end of a recipe that leaves them alone.
<1>m. ASSUME Running, Top \in Files \ {"launch", Tar}, Touch(Top), Made,
             UNCHANGED launched, art'[Tar] = art[Tar]
      PROVE  TestedInv'
  <2>1. Quietly
    BY <1>m DEF Quietly
  <2>2. Ages' /\ (Repacked => Repacked')
    BY <1>0, <2>1, QuietFiles
  <2> QED
    BY <1>0, <1>m, <1>r, <2>2, MadeTested DEF Made
<1>4. CASE Settle
  <2>0. Quietly /\ UNCHANGED <<launched, art>>
    BY <1>4 DEF Settle, Quietly, contents
  <2>1. CASE Stop("ok") \/ Stop("error")
    BY <1>0, <2>0, <2>1, StopTested
  <2>2. CASE GoTo("begin") /\ (Top = "launch" => tarSeen)
    <3>1. Running /\ Unknown = {}
      BY <1>4 DEF Settle
    <3>2. Top = "launch" => Tar \in known
      <4> SUFFICES ASSUME Top = "launch" PROVE Tar \in known
        OBVIOUS
      <4>1. PrereqsOf(Top) = <<Tar>>
        BY <2>2 DEF PrereqsOf, RegressChain
      <4> QED
        BY <3>1, <4>1 DEF Unknown
    <3> QED
      BY <1>0, <1>n, <1>q, <2>0, <2>2, <3>1, <3>2, GoOnTested DEF Running
  <2> QED
    BY <1>4, <2>1, <2>2 DEF Settle
<1>5. CASE WipeInstall
  BY <1>5, <1>g DEF WipeInstall, Quietly
<1>w. CASE WipeLogs
  BY <1>w, <1>g DEF WipeLogs, Quietly
<1>d. DropBuild \/ UNCHANGED <<files, trees>> => Quietly
  BY DEF DropBuild, Quietly
<1>6. CASE WipeBuild
  BY <1>6, <1>d, <1>g DEF WipeBuild
<1>7. CASE Fetch
  BY <1>7, <1>m, <1>n DEF Fetch, BuildFiles
<1>8. CASE StageBegin
  BY <1>8, <1>g DEF StageBegin, Quietly
<1>9. CASE StageInstall
  BY <1>9, <1>g DEF StageInstall, Quietly
<1>10. CASE StageFinish
  BY <1>10, <1>m, <1>n DEF StageFinish, BuildFiles
<1>11. CASE PackBegin
  <2>1. Running /\ Top \in Archives /\ Touch(Top) /\ GoTo("packing") /\ UNCHANGED launched
    BY <1>11 DEF PackBegin, Archives
  <2>2. Quietly
    BY <1>n, <2>1 DEF Quietly
  <2>3. Repacked => Repacked'
    BY <1>0, <2>2, QuietFiles
  <2>4. Top = Tar => Repacked'
    BY <2>1, TouchTar, ChainFacts
  <2>5. Top # Tar => art'[Tar] = art[Tar]
    BY <1>0, <1>11 DEF PackBegin, ContentsOK
  <2>6. Top # "launch" /\ job \notin Cleanings
    BY <1>n, <2>1 DEF Running
  <2> QED
    BY <1>0, <1>r, <2>1, <2>2, <2>3, <2>4, <2>5, <2>6, GoOnTested
<1>p. ASSUME Running, Top \in Piped, step = "packing", UNCHANGED <<files, launched>>,
             \A a \in Archives \ {Top} : art'[a] = art[a],
             job' = job, known' = known \cup {Top}, step' = "scan",
             stack' = SubSeq(stack, 1, Len(stack) - 1)
      PROVE  TestedInv'
  <2>1. Top \in Files \ {"launch"}
    BY <1>n, <1>p DEF Archives
  <2>2. Ages' /\ (Repacked => Repacked')
    BY <1>0, <1>p, QuietFiles DEF Quietly
  <2>3. Top = Tar => Repacked'
    BY <1>0, <1>p, <2>2 DEF TarFirst
  <2> QED
    BY <1>0, <1>n, <1>p, <1>r, <2>1, <2>2, <2>3, MadeTested
<1>12. CASE PackFinish
  <2>1. \A a \in Archives \ {Top} : art'[a] = art[a]
    BY <1>0, <1>12 DEF PackFinish, ContentsOK
  <2> QED
    BY <1>12, <1>p, <2>1 DEF PackFinish, Made
<1>25. CASE PackShort
  <2>1. \A a \in Archives \ {Top} : art'[a] = art[a]
    BY <1>0, <1>25 DEF PackShort, ContentsOK
  <2> QED
    BY <1>25, <1>p, <2>1 DEF PackShort
<1>13. CASE Merge
  <2>1. Top \in Files \ {"launch", Tar} /\ art'[Tar] = art[Tar]
    BY <1>0, <1>13, <1>n DEF Merge, ContentsOK, Archives
  <2> QED
    BY <1>13, <1>m, <2>1 DEF Merge
<1>14. CASE Copy
  <2>0. Running /\ step # "scan" /\ UNCHANGED <<launched, art>>
    BY <1>14 DEF Copy, contents
  <2>1. CASE Touch(Top) /\ Made
    <3>1. Top \in Files \ {"launch", Tar}
      BY <1>14, <1>n DEF Copy
    <3> QED
      BY <1>m, <2>0, <2>1, <3>1
  <2>2. CASE GoTo("doomed") /\ UNCHANGED files
    BY <1>g, <2>0, <2>2 DEF Quietly
  <2> QED
    BY <1>14, <2>1, <2>2 DEF Copy
<1>15. CASE LaunchBegin
  <2>1. Running /\ Top = "launch" /\ Tar \in known /\ UNCHANGED files
    BY <1>15, <1>l DEF LaunchBegin
  <2>2. "launch" \in RangeOf(stack)
    BY <1>0, <2>1, UnderGoal DEF RangeOf, Top, TestedInv
  <2>3. Quietly /\ Repacked'
    BY <1>0, <2>1, <2>2, QuietFiles DEF Quietly, TarFirst
  <2>4. \E s \in {"unpacking", "doomed"} : GoTo(s)
    BY <1>15 DEF LaunchBegin
  <2> QED
    BY <1>0, <1>n, <2>1, <2>3, <2>4, GoOnTested DEF Running
<1>16. CASE LaunchFinish
  <2>1. /\ Running /\ Top = "launch" /\ Top \in Files /\ Touch(Top) /\ Made
        /\ launched' = art'[Tar].has
    BY <1>16, ChainFacts DEF LaunchFinish
  <2>2. Ages'
    BY <1>0, <2>1, TouchAges
  <2> QED
    BY <1>0, <2>1, <2>2, MadeTested, ChainFacts DEF Made
<1>17. CASE TestRun
  <2>0. Running /\ Top = "test" /\ step # "scan" /\ UNCHANGED <<launched, art>>
    BY <1>17 DEF TestRun, contents
  <2>1. CASE Touch("test") /\ Made
    <3>1. Top \in Files \ {"launch", Tar}
      BY <2>0, TargetsAreFiles, ChainFacts DEF TestFiles
    <3> QED
      BY <1>m, <2>0, <2>1, <3>1
  <2>2. CASE GoTo("doomed") /\ UNCHANGED files
    BY <1>g, <2>0, <2>2 DEF Quietly
  <2> QED
    BY <1>17, <2>1, <2>2 DEF TestRun
<1>18. CASE Doomed
  BY <1>0, <1>18, StopTested DEF Doomed, Quietly, contents
<1>26. CASE RecipeError
  BY <1>0, <1>26, StopTested DEF RecipeError, Quietly, contents
<1>27. CASE Interrupt
  BY <1>0, <1>27, StopTested DEF Interrupt, Quietly, contents
<1>28. CASE Crash
  BY <1>0, <1>28, StopTested DEF Crash, Quietly, contents
<1>c. ASSUME job \in Cleanings, NEW s, s # "packing", GoTo(s) \/ GoOn(s) \/ Stop("ok"),
             Quietly, UNCHANGED <<launched, art>>, present' \subseteq present,
             GoTo(s) \/ GoOn(s) => s = "rmtest" \/ step # "rmtest" \/ present' \cap TestFiles = {}
      PROVE  TestedInv'
  <2>1. job \notin Wholesale /\ ~Running
    BY <1>c, <1>n DEF TestedInv, Running
  <2>2. CASE Stop("ok")
    BY <1>0, <1>c, <2>2, StopTested
  <2>3. CASE GoTo(s)
    <3>1. s # "rmtest" => present' \cap TestFiles = {}
      BY <1>c, <2>3 DEF TestedInv
    <3> QED
      BY <1>0, <1>c, <1>q, <2>1, <2>3, <3>1, GoOnTested
  <2> QED
    BY <1>c, <2>1, <2>2, <2>3 DEF GoOn
<1>19. CASE RmTest
  <2>1. CASE \E f \in present \cap TestFiles : Remove({f}) /\ GoTo("rmtest")
    <3>1. present' \subseteq present /\ Quietly
      BY <2>1 DEF Remove, Quietly
    <3> QED
      BY <1>19, <1>c, <2>1, <3>1 DEF RmTest, contents
  <2>2. CASE present \cap TestFiles = {} /\ UNCHANGED files /\ GoOn("rmbuild")
    <3>1. present' = present /\ Quietly
      BY <2>2 DEF files, Quietly
    <3> QED
      BY <1>19, <1>c, <2>2, <3>1 DEF RmTest, contents
  <2> QED
    BY <1>19, <2>1, <2>2 DEF RmTest
<1>20. CASE RmBuild
  <2>1. GoTo("rmbuild") \/ GoOn("rmlaunch")
    BY <1>20 DEF RmBuild
  <2>2. present' \subseteq present /\ Quietly
    BY <1>20, <1>d DEF RmBuild, DropBuild, Remove, files
  <2> QED
    BY <1>20, <1>c, <2>1, <2>2 DEF RmBuild
<1>21. CASE RmLaunch
  <2>1. /\ job \in Cleanings /\ job \notin Wholesale /\ step # "rmtest" /\ UNCHANGED files
        /\ \E s \in {"rmlaunch", "rminstall"} : GoTo(s)
    BY <1>21 DEF RmLaunch, GoOn, TestedInv
  <2>2. present' \cap TestFiles = {} /\ Quietly
    BY <2>1 DEF TestedInv, files, Quietly
  <2>3. Repacked'
    BY <2>2, ChainFacts DEF Repacked
  <2>4. ~Running
    BY <1>n, <2>1 DEF Running
  <2> QED
    BY <1>0, <2>1, <2>2, <2>3, <2>4, GoOnTested
<1>f. UNCHANGED files => Quietly /\ present' = present
  BY DEF files, Quietly
<1>22. CASE RmInstall
  <2>1. GoTo("rminstall") \/ GoOn("rmlogs")
    BY <1>22 DEF RmInstall
  <2> QED
    BY <1>22, <1>c, <1>f, <2>1 DEF RmInstall
<1>r1. CASE RmLogs
  <2>1. GoTo("rmlogs") \/ GoOn("rmbin") \/ Stop("ok")
    BY <1>r1 DEF RmLogs
  <2> QED
    BY <1>r1, <1>c, <1>f, <2>1 DEF RmLogs
<1>23. CASE RmBin
  <2>1. GoTo("rmbin") \/ Stop("ok")
    BY <1>23 DEF RmBin
  <2>2. present' \subseteq present /\ Quietly
    BY <1>23, <1>f DEF RmBin, Remove, Quietly
  <2>3. job \in Cleanings /\ step # "rmtest" /\ UNCHANGED <<launched, art>>
    BY <1>23 DEF RmBin, Cleanings, Wholesale, contents
  <2> QED
    BY <1>c, <2>1, <2>2, <2>3
<1>24. CASE RmAll
  BY <1>24 DEF RmAll, TestedInv
<1>29. CASE UNCHANGED vars
  <2>1. /\ UNCHANGED <<files, contents, job, stack, known, step, tarSeen>>
    BY <1>29 DEF vars, run
  <2>2. /\ UNCHANGED <<present, newer, launched, art>>
        /\ Ages' /\ (Repacked' <=> Repacked) /\ (Running' <=> Running) /\ Top' = Top
        /\ \A f : MustMake(f)' <=> MustMake(f)
    BY <1>0, <2>1 DEF files, contents, Ages, Repacked, Running, Top, MustMake, Outdated, Reach
  <2>3. Descends' /\ Follows'
    BY <2>1 DEF TestedInv, Descends, Follows
  <2>4. TarFirst'
    <3>1. MustMake("launch")' <=> MustMake("launch")
      BY <2>2
    <3> QED
      BY <1>0, <2>1, <2>2, <3>1 DEF TarFirst
  <2> QED
    BY <1>0, <1>r, <2>1, <2>2, <2>3, <2>4 DEF TestedInv
<1> QED
  BY <1>1, <1>2, <1>3, <1>4, <1>5, <1>w, <1>6, <1>7, <1>8, <1>9, <1>10, <1>11,
     <1>12, <1>13, <1>14, <1>15, <1>16, <1>17, <1>18, <1>19, <1>20, <1>21, <1>22,
     <1>r1, <1>23, <1>24, <1>25, <1>26, <1>27, <1>28, <1>29
     DEF Next, Make, Clean, Disturb

LEMMA InitTested == Init => TestedInv
<1> SUFFICES ASSUME Init PROVE TestedInv
  OBVIOUS
<1>1. TypeOK
  BY InitTypeOK
<1>2. /\ job = "idle" /\ known = {} /\ stack = <<>> /\ present = {} /\ newer = {}
  BY DEF Init
<1>3. Len(stack) = 0 /\ DOMAIN stack = {} /\ ~Running
  BY <1>2, ChainFacts DEF Running
<1>4. Ages /\ Descends /\ Follows /\ Repacked
  BY <1>2, <1>3 DEF Ages, Descends, Follows, Repacked
<1>5. TarFirst
  BY <1>2, <1>3 DEF TarFirst, RangeOf
<1>6. job \notin Cleanings /\ job \notin Wholesale
  BY <1>2, ChainFacts DEF Cleanings
<1> QED
  BY <1>1, <1>4, <1>5, <1>6 DEF TestedInv

(***************************************************************************)
(* TestedInv, the reason why regress is about the tarball in bin, is an    *)
(* invariant of every package whose test.stamp is made from launch.stamp   *)
(* and that from the tarball, as Package.mk has them, while flush and      *)
(* clean, which delete in no order, are not among the goals.  Runs and     *)
(* clean-ups may fail, be stopped and be killed anywhere.                  *)
(***************************************************************************)
THEOREM TestedIsInvariant ==
    ASSUME Jobs \cap Wholesale = {}, RegressChain
    PROVE  Spec => []TestedInv
<1>1. TestedInv /\ [Next]_vars => TestedInv'
  BY NextTested
<1> QED
  BY <1>1, InitTested, PTL DEF Spec

(***************************************************************************)
(* A test.stamp that regress would trust was earned by the tarball that is *)
(* in bin: under the same assumptions the launch tree holds what it holds. *)
(***************************************************************************)
THEOREM TestsAreOfTheTarball ==
    ASSUME Jobs \cap Wholesale = {}, RegressChain
    PROVE  Spec => []TestedIsPublished
<1>1. TestedInv => TestedIsPublished
  <2> SUFFICES ASSUME TestedInv, TestFiles \cup {Tar} \subseteq present,
                      \A t \in TestFiles, q \in {"launch", Tar} :
                          q \in Below[t] => <<q, t>> \notin newer
               PROVE  launched = art[Tar].has
    BY DEF TestedIsPublished
  <2>1. "launch" \in TestFiles /\ Tar \in Below["launch"]
    BY ChainFacts DEF RegressChain
  <2>2. ~Repacked
    BY <2>1 DEF Repacked
  <2> QED
    BY <2>2 DEF TestedInv
<1> QED
  BY <1>1, TestedIsInvariant, PTL
=============================================================================
