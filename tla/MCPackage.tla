------------------------------ MODULE MCPackage ------------------------------
(***************************************************************************)
(* PackageBuild with the rules of one package of module PackageGraphs: each *)
(* configuration names the package and says which goals are invoked and    *)
(* what may go wrong.                                                      *)
(***************************************************************************)
EXTENDS PackageGraphs, PackageOrder

CONSTANT Package

MCStages == DOMAIN Packages[Package].stages
MCArts == ArtsOf[Package]
MCMerged == MergedOf[Package]
MCPrereqs == RulesOf[Package]
MCBelow == BelowOf[Package]
MCSameDir == DirsOf[Package]
MCFills == Packages[Package].fills
MCNeeds == NeedsOf[Package]
MCFetched == Packages[Package].trees
MCMakes == MakesOf[Package]
MCUses == UsesOf[Package]
MCOnce == Packages[Package].once
MCQuiet == Packages[Package].quiet
MCLax == Packages[Package].lax
MCListers == Packages[Package].listers
MCTools == Packages[Package].tools
=============================================================================
