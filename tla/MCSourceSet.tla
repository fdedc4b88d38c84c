---------------------------- MODULE MCSourceSet ----------------------------
EXTENDS SourceSet

\* A package of the configuration above three host tools.
SmallRank ==
  [p \in Pkg |-> CASE p = "app" -> 1 [] p = "host-a" -> 2
                   [] p = "host-b" -> 3 [] OTHER -> 4]
=============================================================================
