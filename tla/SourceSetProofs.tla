-------------------------- MODULE SourceSetProofs ---------------------------
(***************************************************************************)
(* "make source" downloads nothing in vain, for every set of packages and  *)
(* every dependency graph.                                                 *)
(***************************************************************************)
EXTENDS SourceSet, TLAPS

\* What is downloaded is on the list, and the list is about packages.
OnlyListed ==
  /\ deps \in [Pkg -> SUBSET Pkg]
  /\ targets \subseteq TargetPkg
  /\ dl \subseteq SourceTargets

\* Whatever a build goes through is closed under dependencies: so it has the
\* packages, their host dependencies, and those of these.
LEMMA ListedIsNeeded ==
  ASSUME deps \in [Pkg -> SUBSET Pkg], targets \subseteq TargetPkg
  PROVE  SourceTargets \subseteq Needed
<1>1. ASSUME NEW S \in SUBSET Pkg, targets \subseteq S, DepsOf(S) \subseteq S
      PROVE  SourceTargets \subseteq S
  <2>1. TargetsHostDeps \subseteq S
    BY <1>1 DEF TargetsHostDeps, DepsOf
  <2>2. HostDeps \subseteq S
    BY <1>1, <2>1 DEF HostDeps, DepsOf
  <2> QED BY <1>1, <2>1, <2>2 DEF SourceTargets
<1>2. SourceTargets \subseteq Pkg
  BY <1>1 DEF Pkg, DepsOf
<1> QED BY <1>1, <1>2 DEF Needed

\* NothingSpurious holds of every reachable state, whatever the packages and
\* their dependencies.
THEOREM Spurious == Spec => []NothingSpurious
<1>1. Init => OnlyListed
  BY DEF Init, OnlyListed
<1>2. OnlyListed /\ [Next]_vars => OnlyListed'
  <2> SUFFICES ASSUME OnlyListed, [Next]_vars PROVE OnlyListed'
    OBVIOUS
  <2>1. deps' = deps /\ targets' = targets
    BY DEF Next, Fetch, Build, Disconnect, vars
  <2>2. dl' \subseteq SourceTargets
    BY DEF OnlyListed, Next, Fetch, Build, Disconnect, vars
  <2>3. SourceTargets' = SourceTargets
    BY <2>1 DEF SourceTargets, TargetsHostDeps, HostDeps, DepsOf
  <2> QED BY <2>1, <2>2, <2>3 DEF OnlyListed
<1>3. OnlyListed => NothingSpurious
  BY ListedIsNeeded DEF OnlyListed, NothingSpurious
<1> QED BY <1>1, <1>2, <1>3, PTL DEF Spec
=============================================================================
