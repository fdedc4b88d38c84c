------------------------------ MODULE PkgOrder ------------------------------
(***************************************************************************)
(* What the package infrastructure promises about the order of the steps,  *)
(* with no make in it: each package has a set of finished steps; a step is *)
(* finished only on top of the steps it needs, and, from configuration on, *)
(* only while every dependency is installed.  Steps may be forgotten at    *)
(* any time, in any number (rebuild, clean, dirclean, uninstall, a removal *)
(* cut short), and are then done again under the same conditions.          *)
(***************************************************************************)
CONSTANTS
  Pkg,        \* the packages
  Step,       \* the steps
  Before,     \* Before[p][s]: the steps of p that step s of p builds upon
  DependsOn,  \* DependsOn[p]: the packages p depends on
  AfterDeps,  \* the steps that use the files of the dependencies
  Installed   \* Installed[p]: the steps that make p available to others

VARIABLE have \* have[p]: the finished steps of p

Init == have = [p \in Pkg |-> {}]

Ready(p) == Installed[p] \subseteq have[p]

Finish(p, s) ==
  /\ Before[p][s] \subseteq have[p]
  /\ s \in AfterDeps => \A d \in DependsOn[p] : Ready(d)
  /\ have' = [have EXCEPT ![p] = @ \cup {s}]

Forget ==
  /\ have' \in [Pkg -> SUBSET Step]
  /\ \A p \in Pkg : have'[p] \subseteq have[p]

Next == Forget \/ \E p \in Pkg, s \in Step : Finish(p, s)

Spec == Init /\ [][Next]_have
=============================================================================
