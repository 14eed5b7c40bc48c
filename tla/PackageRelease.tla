--------------------------- MODULE PackageRelease ---------------------------
(***************************************************************************)
(* What a user of bin is promised of the archives of one package, with all *)
(* of make left out: somebody asks for something, archives are written and *)
(* taken away, and an answer is given.  Module PackageBuild implements it  *)
(* while nothing but Ctrl-C stops its runs.                                *)
(***************************************************************************)
CONSTANTS
    Archives,
    Builds,     \* the goals that may write archives, "package" among them
    Deletions,  \* the goals that may take them away
    Others      \* the goals that leave bin alone

VARIABLES
    shelf,      \* archive -> "none", "fragment" (it does not unpack), "whole"
    asked,      \* what is being done, or "idle"
    answer      \* of the last thing that was asked: "none", "ok", "error"

vars == <<shelf, asked, answer>>

Init == shelf = [a \in Archives |-> "none"] /\ asked = "idle" /\ answer = "none"

Ask(g) ==
    /\ asked = "idle" /\ asked' = g /\ answer' = "none"
    /\ UNCHANGED shelf

Put(a, what) == shelf' = [shelf EXCEPT ![a] = what] /\ UNCHANGED <<asked, answer>>

NoFragment == \A a \in Archives : shelf[a] # "fragment"

\* Only builds write archives, and one at a time.
Begin(a) == asked \in Builds /\ NoFragment /\ Put(a, "fragment")

Publish(a) ==
    /\ asked \in Builds
    /\ \A b \in Archives \ {a} : shelf[b] # "fragment"
    /\ Put(a, "whole")

\* Only the goals that say so take archives away.
Withdraw(a) == asked \in Deletions /\ Put(a, "none")

Succeed ==
    /\ asked # "idle" /\ NoFragment
    /\ asked = "package" => \A a \in Archives : shelf[a] = "whole"
    /\ asked' = "idle" /\ answer' = "ok"
    /\ UNCHANGED shelf

\* What was being written goes, what was complete stays.
GiveUp ==
    /\ asked # "idle"
    /\ shelf' = [a \in Archives |->
                    IF shelf[a] = "fragment" THEN "none" ELSE shelf[a]]
    /\ asked' = "idle" /\ answer' = "error"

Next ==
    \/ \E g \in Builds \cup Deletions \cup Others : Ask(g)
    \/ \E a \in Archives : Begin(a) \/ Publish(a) \/ Withdraw(a)
    \/ Succeed \/ GiveUp

Spec == Init /\ [][Next]_vars
=============================================================================
