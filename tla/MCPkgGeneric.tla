---------------------------- MODULE MCPkgGeneric ----------------------------
(***************************************************************************)
(* Small configurations of PkgGeneric for TLC.                             *)
(***************************************************************************)
EXTENDS PkgGeneric

HalfDone    == {"rsync", "install", "uninstall", "wipe"}
HalfRemoved == {"extract", "apply-patch", "configure", "build", "clean", "rm-tree", "wipe-trees"}

On(goals, packages) == goals \X packages

\* A package built from the user's own directory, which the user edits, with a
\* tool made for the host.
PairDeps     == [p \in Pkg |-> IF p = "app" THEN <<"host-tool">> ELSE <<>>]
PairSelected == <<"app">>
PairPatches  == [p \in Pkg |-> 0]
PairVersions == [p \in Pkg |-> IF p = "app" THEN 2 ELSE 1]
PairGoals    == {World, MakeClean} \cup On({"rebuild", "clean"}, {"app"})

\* One package among the images, edited, cleaned and removed.
OneDeps     == [p \in Pkg |-> <<>>]
OneSelected == <<"app">>
OnePatches  == [p \in Pkg |-> 2]
OneVersions == [p \in Pkg |-> 2]
OneGoals    == {World, MakeClean} \cup On({"reconfigure", "clean", "dirclean"}, Pkg)
=============================================================================
