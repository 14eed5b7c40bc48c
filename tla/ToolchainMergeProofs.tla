------------------------ MODULE ToolchainMergeProofs ------------------------
(***************************************************************************)
(* What holds of module ToolchainMerge for any number of parts: MergeInv   *)
(* is inductive, so that no toolchain tarball lacks a part and the work of *)
(* building a part is never lost.                                          *)
(***************************************************************************)
EXTENDS ToolchainMerge, TLAPS

USE MergeAssumption

LEMMA Numbers ==
    /\ Own \in Nat /\ Own > 1 /\ Own \in Makes /\ 1 \in Makes /\ Own \in Stamps
    /\ 0 \in Stamps
    /\ \A p \in Parts : p \in Makes /\ p \in Stamps /\ p # Own /\ p - 1 \in Stamps /\ p \in Int
    /\ \A m \in Makes : m = Own \/ (m \in Parts /\ m + 1 \in Makes)
    /\ \A s \in Stamps : s \in Int /\ s >= 0 /\ s <= Own
BY DEF Own, Makes, Stamps, Parts

\* Two stamps cannot both be due.
LEMMA OneIsDue ==
    ASSUME MergeTypeOK, NEW s \in Stamps, NEW t \in Stamps, Due(s), Due(t)
    PROVE  s = t
BY Numbers DEF MergeTypeOK, Due, Stamps, Own

LEMMA InitMerge == Init => MergeInv
<1> SUFFICES ASSUME Init PROVE MergeInv
  OBVIOUS
<1>1. MergeTypeOK
  <2>1. tree \in [Parts -> Amounts] /\ shelf \in [Parts -> Amounts]
    BY DEF Init, Amounts
  <2>2. outcome \in ({"none"} \cup Goals) \X Makes \X {"none", "ok", "error"}
    BY Numbers DEF Init
  <2>3. cuts \in 0..MaxCuts /\ step \in Steps /\ at \in Makes /\ last \in Makes
    BY Numbers DEF Init, Steps
  <2> QED
    BY <2>1, <2>2, <2>3 DEF Init, MergeTypeOK
<1>2. StampsMerged /\ OffersStand /\ TreesComplete /\ CleanedFirst
  BY DEF Init, StampsMerged, OffersStand, TreesComplete, CleanedFirst
<1>3. NothingLost /\ ToolchainHasAll /\ at = last
  BY DEF Init, NothingLost, ToolchainHasAll
<1> QED
  BY <1>1, <1>2, <1>3 DEF Init, MergeInv

-----------------------------------------------------------------------------
(* Types.                                                                  *)

LEMMA StopOK ==
    ASSUME MergeTypeOK, goal # "idle", NEW how \in {"ok", "error"}, Stop(how),
           cuts' \in 0..MaxCuts
    PROVE  /\ goal' \in {"idle"} \cup Goals /\ at' \in Makes /\ last' \in Makes
           /\ step' \in Steps /\ seen' \subseteq Parts
           /\ outcome' \in ({"none"} \cup Goals) \X Makes \X {"none", "ok", "error"}
           /\ cuts' \in 0..MaxCuts
BY DEF MergeTypeOK, Stop, Steps

RunTypeOK ==
    /\ goal \in {"idle"} \cup Goals /\ at \in Makes /\ last \in Makes
    /\ step \in Steps /\ seen \subseteq Parts
    /\ outcome \in ({"none"} \cup Goals) \X Makes \X {"none", "ok", "error"}
    /\ cuts \in 0..MaxCuts

LEMMA GoToOK == ASSUME MergeTypeOK, NEW s \in Steps, GoTo(s) PROVE RunTypeOK'
BY DEF MergeTypeOK, RunTypeOK, GoTo

LEMMA NextMakeOK ==
    ASSUME MergeTypeOK, goal # "idle", last = Own \/ at = last, NextMake
    PROVE  RunTypeOK' /\ (last' = Own \/ at' = last')
<1>1. CASE at = last /\ Stop("ok") /\ UNCHANGED cuts
  BY <1>1, StopOK DEF MergeTypeOK, RunTypeOK, Stop
<1>2. CASE at # last /\ at' = at + 1 /\ step' = "read" /\ UNCHANGED <<goal, last, seen, outcome, cuts>>
  BY <1>2, Numbers DEF MergeTypeOK, RunTypeOK, Steps
<1> QED
  BY <1>1, <1>2 DEF NextMake

-----------------------------------------------------------------------------
(* The invariant.                                                          *)

StepsFit ==
    /\ last = Own \/ at = last
    /\ step \in {"rminstall", "rmbin"} => Cleaning
    /\ step \in {"building", "packing"} => OfPart("package")
    /\ step \in {"rmtree", "untar", "properties", "copy", "drop", "stamp"} => OwnRun

\* Between recipes only the stamps, the offers and the trees matter.
LEMMA RunEnds ==
    ASSUME MergeInv, goal # "idle", NEW how \in {"ok", "error"}, Stop(how),
           cuts' \in 0..MaxCuts, UNCHANGED <<parts, own, tested>>
    PROVE  MergeInv'
<1>1. MergeTypeOK'
  BY StopOK DEF MergeInv, MergeTypeOK, parts, own
<1>2. StampsMerged' /\ OffersStand' /\ TreesComplete' /\ CleanedFirst'
  BY DEF MergeInv, Stop, parts, own, StampsMerged, OffersStand, TreesComplete, CleanedFirst,
     MergeTypeOK
<1>3. NothingLost' /\ ToolchainHasAll'
  BY DEF MergeInv, parts, own, NothingLost, ToolchainHasAll
<1> QED
  BY <1>1, <1>2, <1>3 DEF MergeInv, Stop

LEMMA NextMerge == MergeInv /\ [Next]_vars => MergeInv'
<1> SUFFICES ASSUME MergeInv, [Next]_vars PROVE MergeInv'
  OBVIOUS
<1>0. MergeTypeOK /\ StepsFit /\ StampsMerged /\ OffersStand /\ TreesComplete
      /\ CleanedFirst /\ NothingLost /\ ToolchainHasAll
  BY DEF MergeInv, StepsFit
<1>i. ASSUME MergeTypeOK', StepsFit', StampsMerged', OffersStand', TreesComplete',
             CleanedFirst', NothingLost', ToolchainHasAll'
      PROVE  MergeInv'
  BY <1>i DEF MergeInv, StepsFit
<1>1. ASSUME NEW g \in Goals, NEW from \in Makes, NEW to \in Makes,
             (from = 1 /\ to = Own) \/ (from \in Parts /\ to = from), Start(g, from, to)
      PROVE  MergeInv'
  <2>1. MergeTypeOK'
    BY <1>0, <1>1, Numbers DEF MergeTypeOK, Start, Steps, parts, own
  <2>2. StepsFit'
    BY <1>0, <1>1 DEF StepsFit, Start
  <2>3. StampsMerged' /\ TreesComplete' /\ CleanedFirst' /\ NothingLost' /\ ToolchainHasAll'
    BY <1>0, <1>1 DEF StampsMerged, TreesComplete, CleanedFirst, NothingLost, ToolchainHasAll,
       Start, parts, own
  <2>4. OffersStand'
    BY <1>0, <1>1, Numbers DEF OffersStand, Start, Parts
  <2> QED
    BY <1>i, <2>1, <2>2, <2>3, <2>4
<1>2. CASE CutShort
  <2>1. cuts' \in 0..MaxCuts
    BY <1>0, <1>2 DEF CutShort, MergeTypeOK
  <2> QED
    BY <1>2, <2>1, RunEnds DEF CutShort
<1>3. CASE Stuck
  <2>1. cuts' \in 0..MaxCuts /\ goal # "idle"
    BY <1>0, <1>3 DEF Stuck, OwnRun, MergeTypeOK
  <2> QED
    BY <1>3, <2>1, RunEnds DEF Stuck
<1>4. CASE Read
  <2>1. MergeTypeOK'
    BY <1>0, <1>4 DEF MergeTypeOK, Read, Steps, parts, own
  <2>2. StepsFit'
    BY <1>0, <1>4 DEF StepsFit, Read
  <2>3. StampsMerged' /\ TreesComplete' /\ CleanedFirst' /\ NothingLost' /\ ToolchainHasAll'
    BY <1>0, <1>4 DEF StampsMerged, TreesComplete, CleanedFirst, NothingLost, ToolchainHasAll,
       Read, parts, own
  <2>4. OffersStand'
    BY <1>0, <1>4, Numbers DEF OffersStand, Offered, Settled, Read, parts, own
  <2> QED
    BY <1>i, <2>1, <2>2, <2>3, <2>4
\* The next make of the goal: what the last one offered, it offers.
<1>n. ASSUME NextMake, goal # "idle", UNCHANGED <<stamps, merged, holds>>,
             (UNCHANGED packed \/ packed' = FALSE), stamped' \subseteq Parts, tested' \subseteq Makes,
             tree' \in [Parts -> Amounts], shelf' \in [Parts -> {"none"} \cup Complete],
             NothingLost',
             goal = "package" /\ at # Own =>
                /\ shelf'[at] # "none"
                /\ \A p \in Parts : p < at => shelf'[p] = shelf[p]
      PROVE  MergeInv'
  <2>1. RunTypeOK' /\ (last' = Own \/ at' = last')
    BY <1>0, <1>n, NextMakeOK DEF StepsFit
  <2>2. MergeTypeOK'
    <3>1. packed' \in BOOLEAN
      BY <1>0, <1>n DEF MergeTypeOK
    <3>2. shelf' \in [Parts -> Amounts]
      BY <1>n DEF Amounts, Complete
    <3> QED
      BY <1>0, <1>n, <2>1, <3>1, <3>2 DEF MergeTypeOK, RunTypeOK
  <2>3. step' \in {"begin", "read"}
    BY <1>n DEF NextMake, Stop
  <2>4. StampsMerged' /\ TreesComplete' /\ CleanedFirst' /\ ToolchainHasAll' /\ StepsFit'
    BY <1>0, <1>n, <2>1, <2>3 DEF StampsMerged, TreesComplete, CleanedFirst, ToolchainHasAll,
       StepsFit, own, Complete
  <2>5. OffersStand'
    <3>1. CASE goal' = "idle"
      BY <1>0, <3>1 DEF OffersStand, MergeTypeOK
    <3>2. CASE at # last /\ at' = at + 1 /\ step' = "read" /\ UNCHANGED <<goal, last, seen>>
      <4> SUFFICES ASSUME goal = "package", last = Own, NEW p \in Parts, p < at'
                   PROVE  Offered(p)'
        BY <3>2 DEF OffersStand
      <4>1. at # Own /\ (p = at \/ p < at)
        BY <1>0, <3>2, Numbers DEF MergeTypeOK
      <4>2. shelf'[p] # "none"
        BY <1>0, <1>n, <4>1 DEF OffersStand, Offered, Settled
      <4> QED
        BY <3>2, <4>2 DEF Offered
    <3> QED
      BY <1>n, <3>1, <3>2 DEF NextMake, Stop
  <2> QED
    BY <1>i, <1>n, <2>2, <2>4, <2>5
<1>5. CASE PartBegin
  <2>0. goal = "package" /\ at \in Parts /\ at # Own
    BY <1>5, Numbers DEF PartBegin, OfPart
  <2>1. CASE shelf[at] # "none" /\ NextMake /\ UNCHANGED tree
    <3>1. shelf' \in [Parts -> {"none"} \cup Complete] /\ NothingLost'
      BY <1>0, <1>5 DEF PartBegin, MergeTypeOK, TreesComplete, Amounts, Complete, NothingLost
    <3> QED
      BY <1>0, <1>5, <1>n, <2>0, <2>1, <3>1 DEF PartBegin, MergeTypeOK, own
  <2>2. CASE shelf[at] = "none" /\ at \in stamped /\ GoTo("packing") /\ UNCHANGED tree
    <3>1. MergeTypeOK'
      BY <1>0, <1>5, <2>2, GoToOK DEF PartBegin, MergeTypeOK, RunTypeOK, Steps, own
    <3>2. StepsFit'
      BY <1>0, <1>5, <2>2 DEF PartBegin, StepsFit, OfPart, GoTo
    <3>3. OffersStand' /\ NothingLost' /\ ToolchainHasAll' /\ CleanedFirst'
      BY <1>0, <1>5, <2>0, <2>2 DEF PartBegin, OffersStand, Offered, Settled, NothingLost,
         ToolchainHasAll, CleanedFirst, GoTo, own
    <3>4. StampsMerged' /\ TreesComplete'
      BY <1>0, <1>5, <2>0, <2>2 DEF PartBegin, StampsMerged, TreesComplete, NothingLost,
         Complete, GoTo, own
    <3> QED
      BY <1>i, <3>1, <3>2, <3>3, <3>4
  <2>3. CASE at \notin stamped /\ GoTo("building") /\ tree' = [tree EXCEPT ![at] = "some"]
    <3>1. MergeTypeOK'
      BY <1>0, <1>5, <2>3, GoToOK DEF PartBegin, MergeTypeOK, RunTypeOK, Steps, own, Amounts
    <3>2. StepsFit'
      BY <1>0, <1>5, <2>3 DEF PartBegin, StepsFit, OfPart, GoTo
    <3>3. OffersStand' /\ ToolchainHasAll' /\ CleanedFirst'
      BY <1>0, <1>5, <2>0, <2>3 DEF PartBegin, OffersStand, Offered, Settled,
         ToolchainHasAll, CleanedFirst, GoTo, own
    <3>4. StampsMerged' /\ TreesComplete' /\ NothingLost'
      BY <1>0, <1>5, <2>0, <2>3 DEF PartBegin, StampsMerged, TreesComplete, NothingLost,
         MergeTypeOK, GoTo, own
    <3> QED
      BY <1>i, <3>1, <3>2, <3>3, <3>4
  <2> QED
    BY <1>5, <2>1, <2>2, <2>3 DEF PartBegin
<1>6. CASE PartBuild
  <2>0. goal = "package" /\ at \in Parts /\ at # Own
    BY <1>6, Numbers DEF PartBuild, OfPart
  <2>1. MergeTypeOK'
    BY <1>0, <1>6, <2>0, GoToOK DEF PartBuild, MergeTypeOK, RunTypeOK, Steps, own, Amounts
  <2>2. StepsFit'
    BY <1>0, <1>6 DEF PartBuild, StepsFit, OfPart, GoTo
  <2>3. OffersStand' /\ ToolchainHasAll' /\ CleanedFirst'
    BY <1>0, <1>6, <2>0 DEF PartBuild, OffersStand, Offered, Settled,
       ToolchainHasAll, CleanedFirst, GoTo, own
  <2>4. StampsMerged' /\ TreesComplete' /\ NothingLost'
    BY <1>0, <1>6, <2>0 DEF PartBuild, StampsMerged, TreesComplete, NothingLost,
       MergeTypeOK, GoTo, own, Complete
  <2> QED
    BY <1>i, <2>1, <2>2, <2>3, <2>4
<1>7. CASE PartPack
  <2>0. goal = "package" /\ at \in Parts /\ at # Own /\ tree[at] \in Complete
    BY <1>0, <1>7, Numbers DEF PartPack, OfPart, TreesComplete
  <2>1. shelf \in [Parts -> {"none"} \cup Complete]
    BY <1>0 DEF MergeTypeOK, TreesComplete, Amounts, Complete
  <2>2. shelf' \in [Parts -> {"none"} \cup Complete] /\ shelf'[at] # "none"
        /\ \A p \in Parts : p # at => shelf'[p] = shelf[p]
    BY <1>7, <2>0, <2>1 DEF PartPack, Complete
  <2>3. NothingLost'
    BY <1>0, <1>7, <2>0, <2>2 DEF PartPack, NothingLost, MergeTypeOK
  <2> QED
    <3>1. /\ NextMake /\ goal # "idle" /\ UNCHANGED <<stamps, merged, holds, packed>>
          /\ stamped' \subseteq Parts /\ tested' \subseteq Makes /\ tree' \in [Parts -> Amounts]
      BY <1>0, <1>7, <2>0 DEF PartPack, MergeTypeOK, own
    <3>2. \A p \in Parts : p < at => shelf'[p] = shelf[p]
      BY <2>0, <2>2, Numbers
    <3> QED
      BY <1>n, <2>2, <2>3, <3>1, <3>2
<1>p. shelf \in [Parts -> {"none"} \cup Complete]
  BY <1>0 DEF MergeTypeOK, TreesComplete, Amounts, Complete
<1>8. CASE OwnPacked
  BY <1>0, <1>8, <1>n, <1>p DEF OwnPacked, OwnRun, MergeTypeOK, NothingLost, parts, own
<1>9. CASE Regress
  <2>1. CASE tested' = tested \cup {at} /\ NextMake
    BY <1>0, <1>9, <1>n, <1>p, <2>1 DEF Regress, MergeTypeOK, NothingLost, parts, own
  <2>2. CASE Stop("error") /\ UNCHANGED <<tested, cuts>>
    <3>1. cuts' \in 0..MaxCuts /\ goal # "idle"
      BY <1>0, <1>9, <2>2 DEF Regress, MergeTypeOK
    <3> QED
      BY <1>9, <2>2, <3>1, RunEnds DEF Regress
  <2> QED
    BY <1>9, <2>1, <2>2 DEF Regress
\* While a part's recipe runs, what the part offered stands.
<1>o. ASSUME NEW p \in Parts, Due(p), OwnRun, step \notin {"read", "stamp"}
      PROVE  shelf[p] \in Complete /\ p \in seen
  <2>1. last = Own /\ p < at /\ ~Settled(p)
    BY <1>0, <1>o, Numbers DEF OwnRun, StepsFit, Settled, Due, Parts, Own, MergeTypeOK, Stamps
  <2> QED
    BY <1>0, <1>o, <1>p, <2>1 DEF OwnRun, OffersStand, Offered
\* One step of the own make that leaves the stamps alone.
<1>s. ASSUME NEW s \in Steps \ {"read", "stamp", "building", "packing", "rminstall", "rmbin"},
             OwnRun, step \notin {"read", "stamp"}, GoTo(s),
             UNCHANGED <<stamped, shelf, stamps, packed, holds, tested>>,
             tree' \in [Parts -> Amounts], merged' \subseteq Parts,
             merged \subseteq merged' \/ stamps = {}
      PROVE  /\ MergeTypeOK' /\ StepsFit' /\ OffersStand' /\ CleanedFirst' /\ ToolchainHasAll'
             /\ s # "drop" => StampsMerged'
  <2>1. MergeTypeOK'
    BY <1>0, <1>s, GoToOK DEF MergeTypeOK, RunTypeOK
  <2>2. StepsFit' /\ CleanedFirst' /\ ToolchainHasAll'
    BY <1>0, <1>s DEF StepsFit, CleanedFirst, ToolchainHasAll, GoTo, OwnRun
  <2>3. OffersStand'
    BY <1>0, <1>s DEF OffersStand, Offered, Settled, GoTo
  <2>4. s # "drop" => StampsMerged'
    BY <1>0, <1>s DEF StampsMerged, GoTo
  <2> QED
    BY <2>1, <2>2, <2>3, <2>4
<1>a. CASE OwnSource
  <2>0. stamps = {} /\ OwnRun /\ step = "begin"
    BY <1>0, <1>a DEF OwnSource, Due, MergeTypeOK, Stamps
  <2>1. CASE \E p \in merged : merged' = merged \ {p} /\ GoTo("begin") /\ UNCHANGED stamps
    <3>1. MergeTypeOK' /\ StepsFit' /\ OffersStand' /\ CleanedFirst' /\ ToolchainHasAll'
          /\ StampsMerged'
      <4>1. tree' \in [Parts -> Amounts] /\ merged' \subseteq Parts
            /\ UNCHANGED <<stamped, shelf, packed, holds, tested, stamps>> /\ GoTo("begin")
        BY <1>0, <1>a, <2>1 DEF OwnSource, MergeTypeOK, parts
      <4> QED
        BY <1>s, <2>0, <4>1 DEF Steps
    <3>2. TreesComplete' /\ NothingLost'
      BY <1>0, <1>a, <2>0, <2>1 DEF OwnSource, TreesComplete, NothingLost, parts, GoTo
    <3> QED
      BY <1>i, <3>1, <3>2
  <2>2. CASE merged = {} /\ Stamp(0) /\ UNCHANGED merged
    <3>1. MergeTypeOK'
      BY <1>0, <1>a, <2>2, GoToOK, Numbers DEF OwnSource, Stamp, MergeTypeOK, RunTypeOK, parts,
         Steps
    <3>2. StepsFit' /\ CleanedFirst' /\ TreesComplete' /\ NothingLost' /\ ToolchainHasAll'
      BY <1>0, <1>a, <2>0, <2>2 DEF OwnSource, Stamp, StepsFit, CleanedFirst, TreesComplete,
         NothingLost, ToolchainHasAll, GoTo, parts
    <3>3. StampsMerged'
      BY <2>0, <2>2, Numbers DEF Stamp, StampsMerged, GoTo, Parts
    <3>4. OffersStand'
      BY <1>0, <1>a, <2>0, <2>2 DEF OwnSource, Stamp, OffersStand, Offered, Settled, GoTo, parts
    <3> QED
      BY <1>i, <3>1, <3>2, <3>3, <3>4
  <2> QED
    BY <1>a, <2>1, <2>2 DEF OwnSource
<1>b. ASSUME NEW p \in Parts, MergeBegin(p) PROVE MergeInv'
  <2>1. GoTo("rmtree") /\ OwnRun /\ step = "begin"
    BY <1>b, <1>o DEF MergeBegin
  <2>2. MergeTypeOK' /\ StepsFit' /\ OffersStand' /\ CleanedFirst' /\ ToolchainHasAll'
        /\ StampsMerged'
    <3>1. tree' \in [Parts -> Amounts] /\ merged' \subseteq Parts /\ merged \subseteq merged'
          /\ UNCHANGED <<stamped, shelf, stamps, packed, holds, tested>>
      BY <1>0, <1>b DEF MergeBegin, MergeTypeOK, parts, own
    <3> QED
      BY <1>s, <2>1, <3>1 DEF Steps
  <2>3. TreesComplete' /\ NothingLost'
    BY <1>0, <1>b, <2>1 DEF MergeBegin, TreesComplete, NothingLost, GoTo, parts, own
  <2> QED
    BY <1>i, <2>2, <2>3
<1>q. \A p, q \in Parts : Due(p) /\ Due(q) => p = q
  BY <1>0, OneIsDue, Numbers
<1>c. ASSUME NEW p \in Parts, RmTree(p) PROVE MergeInv'
  <2>1. OwnRun /\ step = "rmtree" /\ shelf[p] \in Complete
        /\ UNCHANGED <<stamped, shelf, own, tested>>
    BY <1>0, <1>c, <1>o DEF RmTree
  <2>2. PICK s \in {"rmtree", "untar"} :
           GoTo(s) /\ \E a \in {"some", "none"} : tree' = [tree EXCEPT ![p] = a]
    BY <1>c DEF RmTree
  <2>3. tree' \in [Parts -> Amounts] /\ \A q \in Parts : q # p => tree'[q] = tree[q]
    BY <1>0, <2>2 DEF MergeTypeOK, Amounts
  <2>4. MergeTypeOK' /\ StepsFit' /\ OffersStand' /\ CleanedFirst' /\ ToolchainHasAll'
        /\ StampsMerged'
    BY <1>0, <1>s, <2>1, <2>2, <2>3 DEF MergeTypeOK, own, Steps
  <2>5. TreesComplete' /\ NothingLost'
    BY <1>0, <2>1, <2>2, <2>3 DEF TreesComplete, NothingLost, GoTo
  <2> QED
    BY <1>i, <2>4, <2>5
<1>d. ASSUME NEW p \in Parts, Untar(p) PROVE MergeInv'
  <2>1. OwnRun /\ step = "untar" /\ shelf[p] \in Complete /\ Due(p)
        /\ UNCHANGED <<stamped, shelf, own, tested>>
    BY <1>0, <1>d, <1>o DEF Untar
  <2>2. CASE GoTo("untar") /\ tree' = [tree EXCEPT ![p] = "some"]
    <3>1. tree' \in [Parts -> Amounts] /\ \A q \in Parts : q # p => tree'[q] = tree[q]
      BY <1>0, <2>2 DEF MergeTypeOK, Amounts
    <3>2. MergeTypeOK' /\ StepsFit' /\ OffersStand' /\ CleanedFirst' /\ ToolchainHasAll'
          /\ StampsMerged'
      BY <1>0, <1>s, <2>1, <2>2, <3>1 DEF MergeTypeOK, own, Steps
    <3>3. TreesComplete' /\ NothingLost'
      BY <1>0, <2>1, <2>2, <3>1 DEF TreesComplete, NothingLost, GoTo
    <3> QED
      BY <1>i, <3>2, <3>3
  <2>3. CASE GoTo("properties") /\ tree' = [tree EXCEPT ![p] = shelf[p]]
    <3>1. tree' \in [Parts -> Amounts] /\ tree'[p] \in Complete
          /\ \A q \in Parts : q # p => tree'[q] = tree[q]
      BY <1>0, <2>1, <2>3 DEF MergeTypeOK, Amounts, Complete
    <3>2. MergeTypeOK' /\ StepsFit' /\ OffersStand' /\ CleanedFirst' /\ ToolchainHasAll'
          /\ StampsMerged'
      BY <1>0, <1>s, <2>1, <2>3, <3>1 DEF MergeTypeOK, own, Steps
    <3>3. \A q \in Parts : Due(q)' => q = p
      BY <1>q, <2>1 DEF Due, own
    <3>4. TreesComplete' /\ NothingLost'
      BY <1>0, <2>1, <2>3, <3>1, <3>3 DEF TreesComplete, NothingLost, GoTo
    <3> QED
      BY <1>i, <3>2, <3>4
  <2> QED
    BY <1>d, <2>2, <2>3 DEF Untar
<1>e. ASSUME NEW p \in Parts, TakeProperties(p) PROVE MergeInv'
  <2>1. OwnRun /\ step = "properties" /\ tree[p] \in Complete /\ Due(p)
        /\ UNCHANGED <<stamped, shelf, own, tested>>
    BY <1>0, <1>e DEF TakeProperties, TreesComplete
  <2>2. PICK s \in {"copy", "stuck"} :
           GoTo(s) /\ \E a \in Complete : tree' = [tree EXCEPT ![p] = a]
    <3>1. CASE tree[p] = "full"
      BY <1>e, <3>1 DEF TakeProperties, Complete
    <3>2. CASE tree[p] # "full"
      <4>1. GoTo("stuck") /\ tree' = [tree EXCEPT ![p] = tree[p]]
        BY <1>0, <1>e, <3>2 DEF TakeProperties, MergeTypeOK
      <4> QED
        BY <2>1, <4>1
    <3> QED
      BY <3>1, <3>2
  <2>3. tree' \in [Parts -> Amounts] /\ tree'[p] \in Complete
        /\ \A q \in Parts : q # p => tree'[q] = tree[q]
    BY <1>0, <2>2 DEF MergeTypeOK, Amounts, Complete
  <2>4. MergeTypeOK' /\ StepsFit' /\ OffersStand' /\ CleanedFirst' /\ ToolchainHasAll'
        /\ StampsMerged'
    BY <1>0, <1>s, <2>1, <2>2, <2>3 DEF MergeTypeOK, own, Steps
  <2>5. \A q \in Parts : Due(q)' => q = p
    BY <1>q, <2>1 DEF Due, own
  <2>6. TreesComplete' /\ NothingLost'
    BY <1>0, <2>1, <2>2, <2>3, <2>5 DEF TreesComplete, NothingLost, GoTo
  <2> QED
    BY <1>i, <2>4, <2>6
<1>f. ASSUME NEW p \in Parts, CopyTree(p) PROVE MergeInv'
  <2>1. OwnRun /\ step = "copy" /\ Due(p) /\ GoTo("drop")
        /\ merged' = merged \cup {p} /\ UNCHANGED <<parts, stamps, packed, holds, tested>>
    BY <1>0, <1>f DEF CopyTree
  <2>2. MergeTypeOK' /\ StepsFit' /\ OffersStand' /\ CleanedFirst' /\ ToolchainHasAll'
    <3>1. tree' \in [Parts -> Amounts] /\ merged' \subseteq Parts /\ merged \subseteq merged'
      BY <1>0, <2>1 DEF MergeTypeOK, parts
    <3> QED
      BY <1>s, <2>1, <3>1 DEF parts, Steps
  <2>3. \A q \in Parts : Due(q)' => q = p
    BY <1>q, <2>1 DEF Due
  <2>4. StampsMerged'
    BY <1>0, <2>1, <2>3 DEF StampsMerged
  <2>5. TreesComplete' /\ NothingLost'
    <3>1. tree[p] \in Complete
      BY <1>0, <2>1 DEF TreesComplete
    <3> QED
      BY <1>0, <2>1, <2>3, <3>1 DEF TreesComplete, NothingLost, GoTo, parts
  <2> QED
    BY <1>i, <2>2, <2>4, <2>5
<1>g. ASSUME NEW p \in Parts, DropTarball(p) PROVE MergeInv'
  <2>1. OwnRun /\ step = "drop" /\ Due(p) /\ GoTo("stamp")
        /\ shelf' = [shelf EXCEPT ![p] = "none"] /\ UNCHANGED <<stamped, tree, own, tested>>
    BY <1>0, <1>g DEF DropTarball
  <2>2. tree[p] \in Complete /\ p \in merged
    BY <1>0, <2>1 DEF TreesComplete, StampsMerged
  <2>3. \A q \in Parts : (Due(q)' <=> Due(q)) /\ (Due(q) => q = p)
    BY <1>q, <2>1 DEF Due, own
  <2>4. shelf'[p] = "none" /\ \A q \in Parts : q # p => shelf'[q] = shelf[q]
    BY <1>0, <2>1 DEF MergeTypeOK
  <2>5. MergeTypeOK'
    BY <1>0, <2>1, GoToOK DEF MergeTypeOK, RunTypeOK, Steps, own, Amounts
  <2>6. StepsFit' /\ StampsMerged' /\ CleanedFirst' /\ ToolchainHasAll'
    BY <1>0, <2>1, <2>2, <2>3 DEF StepsFit, OwnRun, StampsMerged, CleanedFirst, ToolchainHasAll,
       GoTo, own
  <2>7. TreesComplete' /\ NothingLost'
    BY <1>0, <2>1, <2>2, <2>4 DEF TreesComplete, NothingLost, GoTo
  <2>8. OffersStand'
    <3>1. \A q \in Parts : q # p => (Offered(q) => Offered(q)') /\ (Settled(q) => Settled(q)')
      BY <2>1, <2>3, <2>4 DEF Offered, Settled, GoTo, own
    <3>2. Settled(p)'
      BY <2>1, <2>3 DEF Settled, GoTo, OwnRun
    <3> QED
      BY <1>0, <2>1, <3>1, <3>2 DEF OffersStand, GoTo
  <2> QED
    BY <1>i, <2>5, <2>6, <2>7, <2>8
<1>h. ASSUME NEW p \in Parts, StampPart(p) PROVE MergeInv'
  <2>1. OwnRun /\ step = "stamp" /\ Due(p) /\ GoTo("begin")
        /\ stamps' = stamps \cup {p} /\ UNCHANGED <<parts, merged, packed, holds, tested>>
    BY <1>0, <1>h DEF StampPart, Stamp
  <2>2. p \in merged /\ p - 1 \in stamps
    BY <1>0, <2>1, Numbers DEF StampsMerged, Due, Parts
  <2>3. MergeTypeOK'
    BY <1>0, <2>1, GoToOK, Numbers DEF MergeTypeOK, RunTypeOK, Steps, parts
  <2>4. StampsMerged'
    <3>1. \A q \in Parts : q <= p => q = p \/ q <= p - 1
      BY Numbers
    <3> QED
      BY <1>0, <2>1, <2>2, <3>1 DEF StampsMerged, GoTo
  <2>5. StepsFit' /\ CleanedFirst' /\ ToolchainHasAll' /\ TreesComplete' /\ NothingLost'
    BY <1>0, <2>1 DEF StepsFit, CleanedFirst, ToolchainHasAll, TreesComplete, NothingLost, GoTo,
       OwnRun, parts
  <2>6. OffersStand'
    <3>1. \A q \in Parts : Offered(q) => Offered(q)'
      BY <2>1 DEF Offered, GoTo, OwnRun, parts
    <3>2. \A q \in Parts : Settled(q) => Settled(q)'
      <4> SUFFICES ASSUME NEW q \in Parts, Settled(q)
                   PROVE  \E s \in stamps' : q <= s
        BY <2>1 DEF Settled, GoTo, OwnRun
      <4>1. CASE Due(q)
        <5>1. q = p /\ p <= p
          BY <1>q, <2>1, <4>1, Numbers
        <5> QED
          BY <2>1, <5>1
      <4>2. CASE \E s \in stamps : q <= s
        BY <2>1, <4>2
      <4> QED
        BY <4>1, <4>2 DEF Settled
    <3> QED
      BY <1>0, <2>1, <3>1, <3>2 DEF OffersStand, GoTo
  <2> QED
    BY <1>i, <2>3, <2>4, <2>5, <2>6
<1>j. CASE OwnInstall
  <2>1. OwnRun /\ step = "begin" /\ Own - 1 \in stamps /\ GoTo("begin")
        /\ stamps' = stamps \cup {Own} /\ UNCHANGED <<parts, merged, packed, holds, tested>>
    BY <1>j, Numbers DEF OwnInstall, Due, Stamp
  <2>2. MergeTypeOK'
    BY <1>0, <2>1, GoToOK, Numbers DEF MergeTypeOK, RunTypeOK, Steps, parts
  <2>3. StampsMerged'
    <3>1. \A q \in Parts : q <= Own - 1
      BY DEF Own, Parts
    <3> QED
      BY <1>0, <2>1, <3>1 DEF StampsMerged, GoTo
  <2>4. StepsFit' /\ CleanedFirst' /\ ToolchainHasAll' /\ TreesComplete' /\ NothingLost'
    BY <1>0, <2>1 DEF StepsFit, CleanedFirst, ToolchainHasAll, TreesComplete, NothingLost, GoTo,
       parts
  <2>5. OffersStand'
    BY <1>0, <2>1 DEF OffersStand, Offered, Settled, GoTo, parts
  <2> QED
    BY <1>i, <2>2, <2>3, <2>4, <2>5
<1>k. CASE OwnPack
  <2>1. OwnRun /\ step = "begin" /\ Own \in stamps /\ GoTo("begin")
        /\ holds' = merged /\ packed' = TRUE /\ UNCHANGED <<parts, stamps, merged, tested>>
    BY <1>k DEF OwnPack
  <2>2. merged = Parts
    <3>1. \A q \in Parts : q <= Own
      BY DEF Own, Parts
    <3> QED
      BY <1>0, <2>1, <3>1 DEF StampsMerged, MergeTypeOK
  <2>3. MergeTypeOK'
    BY <1>0, <2>1, GoToOK DEF MergeTypeOK, RunTypeOK, Steps, parts
  <2>4. StampsMerged' /\ StepsFit' /\ CleanedFirst' /\ ToolchainHasAll' /\ TreesComplete'
        /\ NothingLost'
    BY <1>0, <2>1, <2>2 DEF StampsMerged, StepsFit, CleanedFirst, ToolchainHasAll,
       TreesComplete, NothingLost, GoTo, parts
  <2>5. OffersStand'
    BY <1>0, <2>1 DEF OffersStand, Offered, Settled, GoTo, parts
  <2> QED
    BY <1>i, <2>3, <2>4, <2>5
<1>l. CASE RmBuild
  <2>1. MergeTypeOK'
    <3>1. PICK s \in {"begin", "rminstall"} : GoTo(s)
      BY <1>l DEF RmBuild
    <3>2. RunTypeOK'
      BY <1>0, <3>1, GoToOK DEF Steps
    <3> QED
      BY <1>0, <1>l, <3>2 DEF RmBuild, MergeTypeOK, RunTypeOK
  <2>2. StepsFit' /\ CleanedFirst'
    BY <1>0, <1>l, Numbers DEF RmBuild, StepsFit, CleanedFirst, GoTo, Cleaning
  <2>3. OffersStand' /\ ToolchainHasAll' /\ TreesComplete' /\ NothingLost' /\ StampsMerged'
    BY <1>0, <1>l DEF RmBuild, OffersStand, ToolchainHasAll, TreesComplete, NothingLost,
       StampsMerged, GoTo, Cleaning
  <2> QED
    BY <1>i, <2>1, <2>2, <2>3
<1>r. CASE RmInstall
  <2>0. /\ Cleaning /\ step = "rminstall" /\ goal # "package" /\ goal # "idle"
        /\ UNCHANGED <<stamped, shelf, stamps, packed, holds, tested>>
        /\ IF at = Own THEN stamps = {} ELSE at \notin stamped
    BY <1>0, <1>r DEF RmInstall, Cleaning, CleanedFirst
  <2>1. tree' \in [Parts -> Amounts] /\ merged' \subseteq Parts
        /\ (merged' = merged \/ stamps = {})
    BY <1>0, <1>r, <2>0 DEF RmInstall, MergeTypeOK, Amounts
  <2>2. NothingLost'
    <3>1. CASE at \in Parts /\ at # Own
      <4>1. \A q \in Parts : q # at => tree'[q] = tree[q]
        BY <1>0, <1>r, <3>1 DEF RmInstall, MergeTypeOK
      <4> QED
        BY <1>0, <2>0, <3>1, <4>1 DEF NothingLost, MergeTypeOK
    <3>2. CASE at = Own
      BY <1>0, <1>r, <2>0, <3>2, Numbers DEF RmInstall, NothingLost
    <3> QED
      BY <1>0, <3>1, <3>2, Numbers DEF MergeTypeOK
  <2>3. CASE NextMake
    <3>1. merged' = merged
      BY <1>r, <2>3, Numbers DEF RmInstall, NextMake, Stop, GoTo
    <3> QED
      BY <1>0, <1>n, <1>p, <2>0, <2>1, <2>2, <2>3, <3>1 DEF MergeTypeOK
  <2>4. ASSUME NEW s \in {"rminstall", "rmbin"}, GoTo(s) PROVE MergeInv'
    <3>1. MergeTypeOK'
      BY <1>0, <2>0, <2>1, <2>4, GoToOK DEF MergeTypeOK, RunTypeOK, Steps
    <3>2. StepsFit' /\ CleanedFirst' /\ OffersStand' /\ ToolchainHasAll'
      BY <1>0, <2>0, <2>4 DEF StepsFit, CleanedFirst, OffersStand, ToolchainHasAll, GoTo, Cleaning
    <3>3. TreesComplete' /\ StampsMerged'
      BY <1>0, <2>0, <2>1, <2>4 DEF TreesComplete, StampsMerged, GoTo
    <3> QED
      BY <1>i, <2>2, <3>1, <3>2, <3>3
  <2> QED
    BY <1>r, <2>3, <2>4 DEF RmInstall
<1>t. CASE RmBin
  <2>0. /\ goal = "cleanup" /\ step = "rmbin" /\ NextMake
        /\ UNCHANGED <<stamped, tree, stamps, merged, holds, tested>>
        /\ (UNCHANGED packed \/ packed' = FALSE)
    BY <1>t DEF RmBin
  <2>1. shelf' \in [Parts -> {"none"} \cup Complete]
    BY <1>p, <1>t DEF RmBin
  <2>2. NothingLost'
    <3>1. CASE at \in Parts /\ at # Own
      <4>1. at \notin stamped /\ \A q \in Parts : q # at => shelf'[q] = shelf[q]
        BY <1>0, <1>p, <1>t, <3>1 DEF RmBin, CleanedFirst
      <4> QED
        BY <1>0, <2>0, <4>1 DEF NothingLost, MergeTypeOK
    <3>2. CASE at = Own
      BY <1>0, <1>t, <3>2, Numbers DEF RmBin, NothingLost
    <3> QED
      BY <1>0, <3>1, <3>2, Numbers DEF MergeTypeOK
  <2> QED
    BY <1>0, <1>n, <2>0, <2>1, <2>2 DEF MergeTypeOK
<1>u. CASE UNCHANGED vars
  BY <1>0, <1>u DEF vars, parts, own, run, MergeInv, MergeTypeOK, StampsMerged, OffersStand,
     Offered, Settled, TreesComplete, CleanedFirst, NothingLost, ToolchainHasAll, Due, OwnRun,
     OfPart, Cleaning
<1>v. CASE Work
  <2>1. ASSUME NEW p \in Parts, MergePart(p) PROVE MergeInv'
    BY <1>b, <1>c, <1>d, <1>e, <1>f, <1>g, <1>h, <2>1 DEF MergePart
  <2> QED
    BY <1>3, <1>4, <1>5, <1>6, <1>7, <1>8, <1>9, <1>a, <1>j, <1>k, <1>l, <1>r, <1>t, <1>v, <2>1
    DEF Work
<1>w. ASSUME NEW g \in Goals, StartAll(g) \/ StartPart(g) PROVE MergeInv'
  BY <1>1, <1>w, Numbers DEF StartAll, StartPart, First
<1> QED
  BY <1>2, <1>u, <1>v, <1>w DEF Next

-----------------------------------------------------------------------------
(* What follows for every behavior.                                        *)

(***************************************************************************)
(* The invariant holds however the runs of the makes and the clean-ups of  *)
(* toolchain-metal are interleaved and cut short.                          *)
(***************************************************************************)
THEOREM MergeIsInvariant == Spec => []MergeInv
BY InitMerge, NextMerge, PTL DEF Spec

(***************************************************************************)
(* A toolchain tarball never lacks a part.                                 *)
(***************************************************************************)
THEOREM ToolchainIsWhole == Spec => []ToolchainHasAll
<1>1. MergeInv => ToolchainHasAll
  BY DEF MergeInv
<1> QED
  BY <1>1, MergeIsInvariant, PTL

(***************************************************************************)
(* Merging, packing and cleaning never lose what has been built of a part  *)
(* that is not being cleaned.                                              *)
(***************************************************************************)
THEOREM NothingIsLost == Spec => []NothingLost
<1>1. MergeInv => NothingLost
  BY DEF MergeInv
<1> QED
  BY <1>1, MergeIsInvariant, PTL
=============================================================================
