----------------------------- MODULE MCPackages -----------------------------
(***************************************************************************)
(* Every package of module PackageGraphs in one run: which of them is      *)
(* built is chosen at the start.                                           *)
(***************************************************************************)
EXTENDS PackageGraphs, Integers

CONSTANTS
    Tried,      \* the packages that are tried
    Chained,    \* those whose recipes need everything installed before them
    Uncleaned,  \* those of which nobody runs a clean-up
    Jobs, Faults,
    Large,      \* those with too many stages for all MaxFaults disturbances
                \* and both clean-ups
    MaxFaults, LargeMaxFaults

ASSUME TriedAssumption == Chained \cup Large \cup Uncleaned \subseteq Tried /\ Tried \subseteq Names

VARIABLES
    package,
    present, newer, installed, noted, logs, listed, trees, art, launched,
    job, stack, known, step, tarSeen, outcome, faults

\* cleanup is flushup, and then the files of bin.
JobsOf(p) ==
    CASE p \in Uncleaned -> {"package", "regress"}
      [] p \in Large -> Jobs \ {"cleanup"}
      [] OTHER -> Jobs

Build(p) ==
    INSTANCE PackageOrder WITH
        Stages <- DOMAIN Packages[p].stages, Arts <- ArtsOf[p],
        Tar <- "tar.gz", Piped <- {"tar.gz"}, Merged <- MergedOf[p],
        Prereqs <- RulesOf[p], Below <- BelowOf[p], SameDir <- DirsOf[p],
        Fills <- Packages[p].fills, Needs <- NeedsOf[p],
        Fetched <- Packages[p].trees, Makes <- MakesOf[p], Uses <- UsesOf[p],
        Once <- Packages[p].once, Quiet <- Packages[p].quiet,
        Lax <- Packages[p].lax, Listers <- Packages[p].listers,
        Tools <- Packages[p].tools, Jobs <- JobsOf(p),
        MaxFaults <- IF p \in Large THEN LargeMaxFaults ELSE MaxFaults

\* Every package of PackageGraphs is what PackageBuild assumes of one, and what
\* PackageRegressProofs, PackageOrderProofs and PackageUncutProofs do.
ASSUME RulesAssumption ==
    \A p \in Names :
        /\ Build(p)!GraphOK /\ Build(p)!RecipeOK
        /\ Build(p)!RegressChain /\ Build(p)!PackingRules /\ Build(p)!UncutRules

\* Most of those whose archives are complete whatever is cut short are what
\* PackageCompleteProofs assumes of one: in gcc two stages wait for the same one.
ASSUME LinkedAssumption ==
    \A p \in Chained \ {"gcc", "gccWin"} : Build(p)!LinkedRules

files    == <<present, newer>>
contents == <<installed, noted, logs, listed, trees, art, launched>>
run      == <<job, stack, known, step, tarSeen>>
everyVars == <<package, files, contents, run, outcome, faults>>

EveryInit == \E p \in Tried : package = p /\ Build(p)!Init

EveryNext == \E p \in Tried : package = p /\ Build(p)!Next /\ UNCHANGED package

EverySpec == EveryInit /\ [][EveryNext]_everyVars

(***************************************************************************)
(* PackageBuild's StampsTruthful, of every package: a stamp that is up to  *)
(* date stands for complete output in INSTALL.                             *)
(***************************************************************************)
EveryStampTruthful == \A p \in Tried : package = p => Build(p)!StampsTruthful

(***************************************************************************)
(* PackageBuild's PublishedComplete, of every package in which a stage     *)
(* cannot be built unless everything it links is in INSTALL: archives that *)
(* unpack hold the output of every stage.                                  *)
(***************************************************************************)
ChainedComplete == \A p \in Chained : package = p => Build(p)!PublishedComplete

(***************************************************************************)
(* PackageOrder's UncutInv, of gcc while nobody cleans: a stamp stands on  *)
(* all it is made from and is newer, INSTALL holds what the stamps stand   *)
(* for less what install.stamp gives back to binutils, and the newlib that *)
(* is copied is there.                                                     *)
(***************************************************************************)
UncleanedStands == \A p \in Uncleaned : package = p => Build(p)!UncutInv

(***************************************************************************)
(* PackageBuild's RegressProves, of gcc while nobody cleans: a regress run *)
(* that found a tarball and ended well has run every program out of it.    *)
(***************************************************************************)
UncleanedRegress == \A p \in Uncleaned : package = p => Build(p)!RegressProves

(***************************************************************************)
(* PackageOrder's StampsStay, of gcc while nobody cleans: no run of make,  *)
(* stopped or not, takes away a stamp that an earlier one has left.        *)
(***************************************************************************)
UncleanedStampsStay ==
    [][\A p \in Uncleaned : package = p /\ job \notin Build(p)!Cleanings
          => present \cap Build(p)!BuildFiles \subseteq present']_everyVars
=============================================================================
