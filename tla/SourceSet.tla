----------------------------- MODULE SourceSet -----------------------------
(***************************************************************************)
(* "make source" and the offline build after it (Makefile:361-385, 568):   *)
(* which packages have their sources downloaded, against which packages a  *)
(* build goes through.  The dependency graph is chosen freely at the start.*)
(***************************************************************************)
EXTENDS Naturals, FiniteSets

CONSTANTS
  TargetPkg, \* packages the configuration can enable
  HostPkg,   \* host-* packages, which it cannot: they come as dependencies
  Rank       \* the graphs tried are those where dependencies rank higher

Pkg == TargetPkg \cup HostPkg

ASSUME SourceAssumption ==
  TargetPkg \cap HostPkg = {} /\ Rank \in [Pkg -> Nat]

VARIABLES
  deps,     \* deps[p]: <PKG>_DEPENDENCIES
  targets,  \* TARGETS
  dl,       \* packages whose sources are in the download directory
  online,   \* the network is there
  built     \* packages built offline

vars == <<deps, targets, dl, online, built>>

\* Kconfig enables what an enabled package depends on; host packages depend on
\* host packages.
Init ==
  /\ deps \in [Pkg -> SUBSET Pkg]
  /\ \A p \in Pkg : \A q \in deps[p] : Rank[p] < Rank[q]
  /\ \A p \in HostPkg : deps[p] \subseteq HostPkg
  /\ targets \in SUBSET TargetPkg
  /\ \A p \in targets : deps[p] \cap TargetPkg \subseteq targets
  /\ dl = {}
  /\ online = TRUE
  /\ built = {}

DepsOf(packages) == UNION {deps[p] : p \in packages}

TargetsHostDeps == DepsOf(targets) \cap HostPkg

HostDepsNone == {}

HostDeps == DepsOf(TargetsHostDeps)

SourceAnyHost == targets \cup HostPkg

SourceTargets == targets \cup TargetsHostDeps \cup HostDeps

\* <pkg>-source of one of the packages "make source" lists.
Fetch(p) ==
  /\ online
  /\ p \in SourceTargets \ dl
  /\ dl' = dl \cup {p}
  /\ UNCHANGED <<deps, targets, online, built>>

\* "make source" has succeeded and the host is disconnected.
Disconnect ==
  /\ online
  /\ SourceTargets \subseteq dl
  /\ online' = FALSE
  /\ UNCHANGED <<deps, targets, dl, built>>

\* Every package a build of the configuration goes through: those selected, and
\* their dependencies with them.
Needed ==
  {p \in Pkg : \A S \in SUBSET Pkg :
                 targets \subseteq S /\ DepsOf(S) \subseteq S => p \in S}

\* The build goes through every dependency: <pkg>-depends, see PkgGeneric.
Build(p) ==
  /\ ~online
  /\ p \in Needed \ built
  /\ p \in dl /\ deps[p] \subseteq built
  /\ built' = built \cup {p}
  /\ UNCHANGED <<deps, targets, dl, online>>

Next == Disconnect \/ \E p \in Pkg : Fetch(p) \/ Build(p)

Spec == Init /\ [][Next]_vars /\ WF_vars(Next)

-----------------------------------------------------------------------------
\* docs/manual/common-usage.txt:12-21: after "make source" the host can be
\* disconnected, and the build then goes through.  It does where no host tool is
\* more than one host tool away from the packages of the configuration
\* (Makefile:374-384, "limit to 1 level for now").
OneLevelBuildSucceeds ==
  DepsOf(HostDeps) \subseteq SourceTargets => <>(targets \subseteq built)

\* Makefile:371-384.  Nothing is downloaded, whatever the graph, that the build
\* does not use.
NothingSpurious == dl \subseteq Needed
=============================================================================
