------------------------- MODULE PkgGenericOrdering -------------------------
(***************************************************************************)
(* Theorems about PkgGeneric, for every set of packages, every dependency  *)
(* graph, every goal and any number of failures:                           *)
(*   Typing    the type invariant;                                         *)
(*   Walk      the invariant of make's walk (WalkInvariant);               *)
(*   Ordering  the steps are done in order: PkgGeneric implements PkgOrder.*)
(* Before them the facts about the rules of PkgGeneric, its prerequisites  *)
(* and recipes, and about its state, that all proofs rest on.              *)
(***************************************************************************)
EXTENDS PkgGeneric, SequenceTheorems, TLAPS

Kinds == Stamps \cup NeverStamped \cup BuildPhonies \cup OtherPhonies

\* A target is a kind and a package, or one of the two without a package.
LEMMA TargetKinds ==
  ASSUME NEW t \in MakeTarget
  PROVE  \/ t = World \/ t = MakeClean
         \/ \E k \in Kinds, p \in Pkg : t = <<k, p>>
BY DEF MakeTarget, Kinds

\* The stamps by name: pkg-generic.mk:314-325.
LEMMA StampKinds ==
  Stamps = {"downloaded", "extracted", "rsynced", "patched", "configured",
            "built", "staging_installed", "target_installed",
            "images_installed", "host_installed"}
BY DEF Stamps, InstallStamps

-----------------------------------------------------------------------------
(* The rules of pkg-generic.mk:350-445, one equation each.                 *)

\* What <pkg>, <pkg>-build and <pkg>-rsync wait for.
LEMMA BuildRules ==
  ASSUME NEW p \in Pkg
  PROVE  /\ Prereqs(<<"pkg", p>>) = <<<<"install", p>>>>
         /\ Prereqs(<<"build", p>>) = <<<<"configure", p>>, <<"built", p>>>>
         /\ Prereqs(<<"rsync", p>>) = <<<<"rsynced", p>>>>
<1>1. Prereqs(<<"pkg", p>>) = <<<<"install", p>>>>
  BY DEF Prereqs, World
<1>2. Prereqs(<<"build", p>>) = <<<<"configure", p>>, <<"built", p>>>>
  BY DEF Prereqs, World
<1>3. Prereqs(<<"rsync", p>>) = <<<<"rsynced", p>>>>
  BY DEF Prereqs, World
<1> QED BY <1>1, <1>2, <1>3

\* What the <pkg>-install targets wait for.
LEMMA InstallRules ==
  ASSUME NEW p \in Pkg
  PROVE  /\ Prereqs(<<"install", p>>) = InstallPrereqs(p)
         /\ Prereqs(<<"install-target", p>>) =
              InstallRule(Target, p, "target_installed")
         /\ Prereqs(<<"install-staging", p>>) =
              InstallRule(Staging, p, "staging_installed")
         /\ Prereqs(<<"install-images", p>>) =
              InstallRule(Images, p, "images_installed")
         /\ Prereqs(<<"install-host", p>>) =
              InstallRule(Pkg, p, "host_installed")
<1>1. Prereqs(<<"install", p>>) = InstallPrereqs(p)
  BY DEF Prereqs, World
<1>2. Prereqs(<<"install-target", p>>) =
        InstallRule(Target, p, "target_installed")
  BY DEF Prereqs, World
<1>3. Prereqs(<<"install-staging", p>>) =
        InstallRule(Staging, p, "staging_installed")
  BY DEF Prereqs, World
<1>4. Prereqs(<<"install-images", p>>) =
        InstallRule(Images, p, "images_installed")
  BY DEF Prereqs, World
<1>5. Prereqs(<<"install-host", p>>) = InstallRule(Pkg, p, "host_installed")
  BY DEF Prereqs, World
<1> QED BY <1>1, <1>2, <1>3, <1>4, <1>5

\* What the targets from <pkg>-source to <pkg>-configure wait for.
LEMMA SourceRules ==
  ASSUME NEW p \in Pkg
  PROVE  /\ Prereqs(<<"configure", p>>) = ConfigurePrereqs(p)
         /\ Prereqs(<<"patch", p>>) =
              IF p \in Override THEN <<<<"rsync", p>>>>
              ELSE <<<<"extract", p>>, <<"patched", p>>>>
         /\ Prereqs(<<"extract", p>>) =
              IF p \in Override THEN <<<<"rsync", p>>>>
              ELSE <<<<"source", p>>, <<"extracted", p>>>>
         /\ Prereqs(<<"source", p>>) =
              IF p \in Override THEN <<>> ELSE <<<<"downloaded", p>>>>
<1>1. Prereqs(<<"configure", p>>) = ConfigurePrereqs(p)
  BY DEF Prereqs, World
<1>2. Prereqs(<<"patch", p>>) =
        IF p \in Override THEN <<<<"rsync", p>>>>
        ELSE <<<<"extract", p>>, <<"patched", p>>>>
  BY DEF Prereqs, World
<1>3. Prereqs(<<"extract", p>>) =
        IF p \in Override THEN <<<<"rsync", p>>>>
        ELSE <<<<"source", p>>, <<"extracted", p>>>>
  BY DEF Prereqs, World
<1>4. Prereqs(<<"source", p>>) =
        IF p \in Override THEN <<>> ELSE <<<<"downloaded", p>>>>
  BY DEF Prereqs, World
<1> QED BY <1>1, <1>2, <1>3, <1>4

\* What the targets that remove wait for.
LEMMA RemovalRules ==
  ASSUME NEW p \in Pkg
  PROVE  /\ Prereqs(<<"uninstall", p>>) =
              <<<<"configure", p>>, <<"uninstalled", p>>>>
         /\ Prereqs(<<"clean", p>>) = <<<<"uninstall", p>>, <<"cleaned", p>>>>
         /\ Prereqs(<<"dirclean", p>>) = <<<<"dircleaned", p>>>>
         /\ Prereqs(<<"clean-for-rebuild", p>>) = <<>>
         /\ Prereqs(<<"rebuild", p>>) = <<<<"clean-for-rebuild", p>>, World>>
         /\ Prereqs(<<"clean-for-reconfigure", p>>) =
              <<<<"clean-for-rebuild", p>>>>
         /\ Prereqs(<<"reconfigure", p>>) =
              <<<<"clean-for-reconfigure", p>>, World>>
<1>1. Prereqs(<<"uninstall", p>>) = <<<<"configure", p>>, <<"uninstalled", p>>>>
  BY DEF Prereqs, World
<1>2. Prereqs(<<"clean", p>>) = <<<<"uninstall", p>>, <<"cleaned", p>>>>
  BY DEF Prereqs, World
<1>3. Prereqs(<<"dirclean", p>>) = <<<<"dircleaned", p>>>>
  BY DEF Prereqs, World
<1>4. Prereqs(<<"clean-for-rebuild", p>>) = <<>>
  BY DEF Prereqs, World
<1>5. Prereqs(<<"rebuild", p>>) = <<<<"clean-for-rebuild", p>>, World>>
  BY DEF Prereqs, World
<1>6. Prereqs(<<"clean-for-reconfigure", p>>) = <<<<"clean-for-rebuild", p>>>>
  BY DEF Prereqs, World
<1>7. Prereqs(<<"reconfigure", p>>) = <<<<"clean-for-reconfigure", p>>, World>>
  BY DEF Prereqs, World
<1> QED BY <1>1, <1>2, <1>3, <1>4, <1>5, <1>6, <1>7

\* Stamps have no prerequisites, nor do the targets that never are stamped.
LEMMA StampRules ==
  ASSUME NEW k \in Stamps \cup NeverStamped, NEW p \in Pkg
  PROVE  Prereqs(<<k, p>>) = <<>>
<1>1. k \in {"downloaded", "extracted", "rsynced", "patched", "configured",
             "built", "staging_installed", "target_installed",
             "images_installed", "host_installed", "uninstalled", "cleaned",
             "dircleaned"}
  BY StampKinds DEF NeverStamped
<1>2. <<k, p>> # World /\ <<k, p>>[1] = k /\ <<k, p>>[2] = p
  BY <1>1 DEF World
<1> QED BY <1>1, <1>2 DEF Prereqs

\* What "make" and "make clean" wait for.
LEMMA WorldRules ==
  /\ Prereqs(World) = [i \in 1..Len(Selected) |-> <<"pkg", Selected[i]>>]
  /\ Prereqs(MakeClean) = <<>>
<1>1. Prereqs(World) = [i \in 1..Len(Selected) |-> <<"pkg", Selected[i]>>]
  BY DEF Prereqs, World
<1>2. Prereqs(MakeClean) = <<>>
  BY DEF Prereqs, World, MakeClean
<1> QED BY <1>1, <1>2

DepPart(p)  == [i \in 1..Len(Deps[p]) |-> <<"pkg", Deps[p][i]>>]
SyncPart(p) == IF p \in Override THEN <<<<"rsync", p>>>> ELSE <<>>

\* <pkg>-depends: the rsync of an overridden package, then its dependencies.
LEMMA DependsRule ==
  ASSUME NEW p \in Pkg
  PROVE  /\ Prereqs(<<"depends", p>>) \in Seq({<<"rsync", p>>} \cup ({"pkg"} \X Pkg))
         /\ \A i \in DOMAIN Deps[p] : \E j \in 1..Len(Prereqs(<<"depends", p>>)) :
              Prereqs(<<"depends", p>>)[j] = <<"pkg", Deps[p][i]>>
         /\ p \in Override => \E j \in 1..Len(Prereqs(<<"depends", p>>)) :
              Prereqs(<<"depends", p>>)[j] = <<"rsync", p>>
<1> DEFINE X == {<<"rsync", p>>} \cup ({"pkg"} \X Pkg)
           D == SyncPart(p) \o DepPart(p)
<1>1. Prereqs(<<"depends", p>>) = D
  <2>1. <<"depends", p>> # World /\ <<"depends", p>>[1] = "depends"
          /\ <<"depends", p>>[2] = p
    BY DEF World
  <2> QED BY <2>1, Zenon DEF Prereqs, DepPart, SyncPart
<1>2. SyncPart(p) \in Seq(X)
  <2>1. CASE p \in Override
    <3>1. <<"rsync", p>> \in X
      OBVIOUS
    <3> HIDE DEF X
    <3> QED BY <2>1, <3>1 DEF SyncPart
  <2>2. CASE p \notin Override
    <3> HIDE DEF X
    <3> QED BY <2>2 DEF SyncPart
  <2> QED BY <2>1, <2>2
<1>3. DepPart(p) \in Seq(X) /\ Len(DepPart(p)) = Len(Deps[p])
  BY ConfigAssumption DEF DepPart
<1> HIDE DEF X
<1>4. /\ D \in Seq(X) /\ Len(D) = Len(SyncPart(p)) + Len(DepPart(p))
      /\ \A i \in 1 .. Len(SyncPart(p)) + Len(DepPart(p)) :
           D[i] = IF i <= Len(SyncPart(p)) THEN SyncPart(p)[i]
                  ELSE DepPart(p)[i - Len(SyncPart(p))]
  BY <1>2, <1>3, ConcatProperties
<1>5. /\ Len(SyncPart(p)) \in Nat /\ Len(Deps[p]) \in Nat
      /\ DOMAIN Deps[p] = 1..Len(Deps[p])
  BY <1>2, ConfigAssumption, LenProperties
<1> HIDE DEF D
<1>6. \A i \in DOMAIN Deps[p] :
        /\ i + Len(SyncPart(p)) \in 1..Len(D)
        /\ D[i + Len(SyncPart(p))] = <<"pkg", Deps[p][i]>>
  <2> SUFFICES ASSUME NEW i \in DOMAIN Deps[p]
               PROVE  /\ i + Len(SyncPart(p)) \in 1..Len(D)
                      /\ D[i + Len(SyncPart(p))] = <<"pkg", Deps[p][i]>>
    OBVIOUS
  <2>1. DepPart(p)[i] = <<"pkg", Deps[p][i]>>
    BY <1>5 DEF DepPart
  <2> DEFINE j == i + Len(SyncPart(p))
  <2>2. /\ j \in 1 .. Len(SyncPart(p)) + Len(DepPart(p))
        /\ ~(j <= Len(SyncPart(p))) /\ j - Len(SyncPart(p)) = i
    BY <1>3, <1>5
  <2> HIDE DEF j
  <2>3. j \in 1..Len(D) /\ D[j] = DepPart(p)[i]
    BY <2>2, <1>4
  <2> QED BY <2>1, <2>3 DEF j
<1>7. p \in Override => 1 \in 1..Len(D) /\ D[1] = <<"rsync", p>>
  <2> SUFFICES ASSUME p \in Override
               PROVE  1 \in 1..Len(D) /\ D[1] = <<"rsync", p>>
    OBVIOUS
  <2>1. Len(SyncPart(p)) = 1 /\ SyncPart(p)[1] = <<"rsync", p>>
    BY DEF SyncPart
  <2>2. 1 \in 1 .. Len(SyncPart(p)) + Len(DepPart(p)) /\ 1 <= Len(SyncPart(p))
    BY <2>1, <1>3, <1>5
  <2> QED BY <2>1, <2>2, <1>4
<1>8. D \in Seq({<<"rsync", p>>} \cup ({"pkg"} \X Pkg))
  BY <1>4 DEF X
<1> QED BY <1>1, <1>8, <1>6, <1>7

-----------------------------------------------------------------------------
(* Which targets a target leads to.                                        *)

\* Every target of a kind that builds is one.
LEMMA BuildTargets ==
  ASSUME NEW p \in Pkg
  PROVE  \A k \in {"downloaded", "extracted", "rsynced", "patched",
                   "configured", "built", "staging_installed",
                   "target_installed", "images_installed", "host_installed",
                   "pkg", "install", "install-staging", "install-target",
                   "install-images", "install-host", "build", "configure",
                   "patch", "extract", "depends", "source", "rsync"} :
           <<k, p>> \in BuildTarget
BY StampKinds DEF BuildTarget, BuildPhonies

\* An install rule lists targets that build.
LEMMA InstallRuleType ==
  ASSUME NEW p \in Pkg, NEW Q, NEW stamp \in InstallStamps
  PROVE  InstallRule(Q, p, stamp) \in Seq(BuildTarget)
<1>1. <<"build", p>> \in BuildTarget /\ <<stamp, p>> \in BuildTarget
  BY BuildTargets DEF InstallStamps
<1> QED BY <1>1, EmptySeq DEF InstallRule

\* Targets that build have only prerequisites that build.
LEMMA BuildPrereqs ==
  ASSUME NEW t \in BuildTarget
  PROVE  Prereqs(t) \in Seq(BuildTarget)
<1>2. CASE t = World
  <2>1. Selected \in Seq(Pkg)
    BY ConfigAssumption
  <2>2. \A i \in 1..Len(Selected) : <<"pkg", Selected[i]>> \in BuildTarget
    <3> TAKE i \in 1..Len(Selected)
    <3>1. Selected[i] \in Pkg
      BY <2>1
    <3> QED BY <3>1, BuildTargets
  <2> QED BY <1>2, <2>1, <2>2, WorldRules
<1>3. ASSUME NEW k \in Stamps, NEW p \in Pkg, t = <<k, p>>
      PROVE  Prereqs(t) \in Seq(BuildTarget)
  BY <1>3, StampRules, EmptySeq
<1>4. ASSUME NEW k \in BuildPhonies, NEW p \in Pkg, t = <<k, p>>
      PROVE  Prereqs(t) \in Seq(BuildTarget)
  <2>1. CASE k = "depends"
    <3>1. \A q \in Pkg : <<"pkg", q>> \in BuildTarget
      BY BuildTargets
    <3>2. <<"rsync", p>> \in BuildTarget
      BY BuildTargets
    <3>3. {<<"rsync", p>>} \cup ({"pkg"} \X Pkg) \subseteq BuildTarget
      BY <3>1, <3>2
    <3>4. Prereqs(t) \in Seq({<<"rsync", p>>} \cup ({"pkg"} \X Pkg))
      BY <1>4, <2>1, DependsRule
    <3> QED BY <3>3, <3>4
  <2>2. CASE k \in {"pkg", "build", "rsync"}
    <3>1. \A l \in {"install", "configure", "built", "rsynced"} :
            <<l, p>> \in BuildTarget
      BY BuildTargets
    <3>2. <<<<"install", p>>>> \in Seq(BuildTarget)
      BY <3>1
    <3>3. <<<<"configure", p>>, <<"built", p>>>> \in Seq(BuildTarget)
      BY <3>1
    <3>4. <<<<"rsynced", p>>>> \in Seq(BuildTarget)
      BY <3>1
    <3> QED BY <1>4, <2>2, <3>2, <3>3, <3>4, BuildRules
  <2>3. CASE k = "install"
    <3>1. \A l \in {"install-host", "install-staging", "install-target",
                    "install-images"} : <<l, p>> \in BuildTarget
      BY BuildTargets
    <3>2. InstallPrereqs(p) \in Seq(BuildTarget)
      BY <3>1 DEF InstallPrereqs
    <3> QED BY <1>4, <2>3, <3>2, InstallRules
  <2>4. CASE k \in {"install-target", "install-staging", "install-images",
                    "install-host"}
    <3>1. \A Q : \A l \in {"target_installed", "staging_installed",
                           "images_installed", "host_installed"} :
            InstallRule(Q, p, l) \in Seq(BuildTarget)
      BY InstallRuleType DEF InstallStamps
    <3>2. \E Q : \E l \in {"target_installed", "staging_installed",
                           "images_installed", "host_installed"} :
            Prereqs(t) = InstallRule(Q, p, l)
      BY <1>4, <2>4, InstallRules
    <3> QED BY <3>1, <3>2
  <2>5. CASE k = "configure"
    <3>1. \A l \in {"patch", "depends", "configured"} : <<l, p>> \in BuildTarget
      BY BuildTargets
    <3>2. ConfigurePrereqs(p) \in Seq(BuildTarget)
      BY <3>1 DEF ConfigurePrereqs
    <3> QED BY <1>4, <2>5, <3>2, SourceRules
  <2>6. CASE k = "patch"
    <3>1. \A l \in {"rsync", "extract", "patched"} : <<l, p>> \in BuildTarget
      BY BuildTargets
    <3>2. Prereqs(t) = IF p \in Override THEN <<<<"rsync", p>>>>
                       ELSE <<<<"extract", p>>, <<"patched", p>>>>
      BY <1>4, <2>6, SourceRules
    <3> QED BY <3>1, <3>2
  <2>7. CASE k = "extract"
    <3>1. \A l \in {"rsync", "source", "extracted"} : <<l, p>> \in BuildTarget
      BY BuildTargets
    <3>2. Prereqs(t) = IF p \in Override THEN <<<<"rsync", p>>>>
                       ELSE <<<<"source", p>>, <<"extracted", p>>>>
      BY <1>4, <2>7, SourceRules
    <3> QED BY <3>1, <3>2
  <2>8. CASE k = "source"
    <3>1. <<"downloaded", p>> \in BuildTarget
      BY BuildTargets
    <3>2. Prereqs(t) = IF p \in Override THEN <<>> ELSE <<<<"downloaded", p>>>>
      BY <1>4, <2>8, SourceRules
    <3> QED BY <3>1, <3>2, EmptySeq
  <2> QED BY <1>4, <2>1, <2>2, <2>3, <2>4, <2>5, <2>6, <2>7, <2>8
          DEF BuildPhonies
<1> QED BY <1>2, <1>3, <1>4 DEF BuildTarget

PlainKinds == NeverStamped \cup {"dirclean", "clean-for-rebuild",
                                 "clean-for-reconfigure"}

\* The targets that only remove, by name.
LEMMA PlainTargets ==
  /\ \A k \in PlainKinds, p \in Pkg : <<k, p>> \in PlainTarget
  /\ \A t \in PlainTarget :
       t = MakeClean \/ \E k \in PlainKinds, p \in Pkg : t = <<k, p>>
<1>1. ASSUME NEW k \in PlainKinds, NEW p \in Pkg
      PROVE  <<k, p>> \in PlainTarget
  <2>1. k \in {"uninstalled", "cleaned", "dircleaned", "dirclean",
               "clean-for-rebuild", "clean-for-reconfigure"}
    BY DEF PlainKinds, NeverStamped
  <2>2. k \in NeverStamped \cup OtherPhonies
    BY <2>1 DEF NeverStamped, OtherPhonies
  <2>3. <<k, p>> \in MakeTarget
    BY <2>2 DEF MakeTarget
  <2>4. k \notin Stamps \cup BuildPhonies /\ k # "all"
    BY <2>1, StampKinds DEF BuildPhonies
  <2>5. k \notin {"uninstall", "clean", "rebuild", "reconfigure"}
    BY <2>1
  <2> QED BY <2>3, <2>4, <2>5 DEF PlainTarget, BuildTarget, MixedTarget, World
<1>2. ASSUME NEW t \in PlainTarget, t # MakeClean
      PROVE  \E k \in PlainKinds, p \in Pkg : t = <<k, p>>
  <2>1. t \in MakeTarget /\ t \notin BuildTarget /\ t \notin MixedTarget
    BY DEF PlainTarget
  <2>2. PICK k \in Kinds, p \in Pkg : t = <<k, p>>
    BY <1>2, <2>1, TargetKinds DEF BuildTarget
  <2>3. k \notin Stamps /\ k \notin BuildPhonies
    BY <2>1, <2>2 DEF BuildTarget
  <2>4. k \notin {"uninstall", "clean", "rebuild", "reconfigure"}
    BY <2>1, <2>2 DEF MixedTarget
  <2>5. k \in PlainKinds
    BY <2>3, <2>4 DEF Kinds, PlainKinds, OtherPhonies
  <2> QED BY <2>2, <2>5
<1> QED BY <1>1, <1>2

\* Targets that only remove have only prerequisites that only remove.
LEMMA PlainPrereqs ==
  ASSUME NEW t \in PlainTarget
  PROVE  Prereqs(t) \in Seq(PlainTarget)
<1>1. CASE t = MakeClean
  BY <1>1, WorldRules, EmptySeq
<1>2. ASSUME NEW k \in PlainKinds, NEW p \in Pkg, t = <<k, p>>
      PROVE  Prereqs(t) \in Seq(PlainTarget)
  <2>1. /\ <<"dircleaned", p>> \in PlainTarget
        /\ <<"clean-for-rebuild", p>> \in PlainTarget
    BY PlainTargets DEF PlainKinds, NeverStamped
  <2>2. /\ <<<<"dircleaned", p>>>> \in Seq(PlainTarget)
        /\ <<<<"clean-for-rebuild", p>>>> \in Seq(PlainTarget)
    BY <2>1
  <2>3. CASE k \in NeverStamped
    BY <1>2, <2>3, StampRules, EmptySeq
  <2>4. CASE k \in {"dirclean", "clean-for-rebuild", "clean-for-reconfigure"}
    BY <1>2, <2>2, <2>4, RemovalRules, EmptySeq
  <2> QED BY <2>3, <2>4 DEF PlainKinds
<1> QED BY <1>1, <1>2, PlainTargets

\* In the rest, what follows a prerequisite that builds only removes.
LEMMA MixedPrereqs ==
  ASSUME NEW t \in MixedTarget
  PROVE  /\ Prereqs(t) \in Seq(MakeTarget)
         /\ \A i, j \in 1..Len(Prereqs(t)) :
              i < j /\ Prereqs(t)[i] \notin PlainTarget
                => Prereqs(t)[j] \in PlainTarget
<1>1. PICK k \in {"uninstall", "clean", "rebuild", "reconfigure"}, p \in Pkg :
        t = <<k, p>>
  BY DEF MixedTarget
<1>2. \A l \in PlainKinds : <<l, p>> \in PlainTarget
  BY PlainTargets
<1>3. \A l \in {"uninstalled", "cleaned", "clean-for-rebuild",
                "clean-for-reconfigure"} : <<l, p>> \in PlainTarget
  BY <1>2 DEF PlainKinds, NeverStamped
<1>4. PlainTarget \subseteq MakeTarget /\ World \in MakeTarget
  BY DEF PlainTarget, MakeTarget
<1>5. \A l \in {"configure", "uninstall"} : <<l, p>> \in MakeTarget
  BY DEF MakeTarget, BuildPhonies, OtherPhonies
<1>6. \E u, v \in MakeTarget :
        /\ Prereqs(t) = <<u, v>>
        /\ u \in PlainTarget \/ v \in PlainTarget
  <2>1. CASE k = "uninstall"
    <3>1. Prereqs(t) = <<<<"configure", p>>, <<"uninstalled", p>>>>
      BY <1>1, <2>1, RemovalRules
    <3> QED BY <3>1, <1>3, <1>4, <1>5
  <2>2. CASE k = "clean"
    <3>1. Prereqs(t) = <<<<"uninstall", p>>, <<"cleaned", p>>>>
      BY <1>1, <2>2, RemovalRules
    <3> QED BY <3>1, <1>3, <1>4, <1>5
  <2>3. CASE k = "rebuild"
    <3>1. Prereqs(t) = <<<<"clean-for-rebuild", p>>, World>>
      BY <1>1, <2>3, RemovalRules
    <3> QED BY <3>1, <1>3, <1>4
  <2>4. CASE k = "reconfigure"
    <3>1. Prereqs(t) = <<<<"clean-for-reconfigure", p>>, World>>
      BY <1>1, <2>4, RemovalRules
    <3> QED BY <3>1, <1>3, <1>4
  <2> QED BY <2>1, <2>2, <2>3, <2>4
<1> QED BY <1>6

\* The prerequisites of a target are targets.
LEMMA PrereqsType ==
  ASSUME NEW t \in MakeTarget
  PROVE  Prereqs(t) \in Seq(MakeTarget)
<1>1. BuildTarget \subseteq MakeTarget /\ PlainTarget \subseteq MakeTarget
  BY DEF BuildTarget, PlainTarget, MakeTarget
<1>2. CASE t \in BuildTarget
  BY <1>1, <1>2, BuildPrereqs
<1>3. CASE t \in PlainTarget
  BY <1>1, <1>3, PlainPrereqs
<1>4. CASE t \in MixedTarget
  BY <1>4, MixedPrereqs
<1> QED BY <1>2, <1>3, <1>4 DEF PlainTarget

-----------------------------------------------------------------------------
(* What comes before a stamp in the one rule that lists it.                *)

Earlier(u, i) == {Prereqs(u)[j] : j \in 1 .. i - 1}

\* A rule that lists a stamp lists before it what the stamp builds upon: no
\* prerequisite of the stamp says so, only the place in the list.
LEMMA BeforeStamp ==
  ASSUME NEW u \in MakeTarget, NEW i \in 1..Len(Prereqs(u)),
         NEW k \in Stamps, NEW p \in Pkg, Prereqs(u)[i] = <<k, p>>
  PROVE  /\ k = "extracted" =>
              p \notin Override /\ <<"source", p>> \in Earlier(u, i)
         /\ k = "patched" =>
              p \notin Override /\ <<"extract", p>> \in Earlier(u, i)
         /\ k = "configured" =>
              /\ <<"depends", p>> \in Earlier(u, i)
              /\ p \notin Override => <<"patch", p>> \in Earlier(u, i)
         /\ k = "built" => <<"configure", p>> \in Earlier(u, i)
         /\ k \in InstallStamps => <<"build", p>> \in Earlier(u, i)
<1>1. k \in {"downloaded", "extracted", "rsynced", "patched", "configured",
            "built", "staging_installed", "target_installed",
            "images_installed", "host_installed"}
  BY StampKinds
<1>2. u # World /\ u # MakeClean
  <2>1. ASSUME u = World PROVE k = "pkg"
    <3>1. Prereqs(u)[i] = <<"pkg", Selected[i]>>
      BY <2>1, WorldRules, ConfigAssumption
    <3> QED BY <3>1
  <2>2. Len(Prereqs(MakeClean)) = 0
    BY WorldRules, EmptySeq
  <2> QED BY <1>1, <2>1, <2>2
<1>3. PICK l \in Kinds, q \in Pkg : u = <<l, q>>
  BY <1>2, TargetKinds
<1>4. ASSUME NEW v, Prereqs(u) = <<v>>
      PROVE  <<k, p>> = v
  BY <1>4
<1>5. ASSUME NEW v, NEW w, Prereqs(u) = <<v, w>>
      PROVE  <<k, p>> = v \/ (<<k, p>> = w /\ v \in Earlier(u, i))
  BY <1>5 DEF Earlier
<1>6. ASSUME NEW v, NEW w, NEW x, Prereqs(u) = <<v, w, x>>
      PROVE  \/ <<k, p>> = v \/ <<k, p>> = w
             \/ <<k, p>> = x /\ v \in Earlier(u, i) /\ w \in Earlier(u, i)
  BY <1>6 DEF Earlier
<1>7. Len(Prereqs(u)) # 0
  OBVIOUS
<1>8. <<k, p>> # World
  BY <1>1 DEF World
<1>9. CASE l \in Stamps \cup NeverStamped
  BY <1>3, <1>7, <1>9, StampRules, EmptySeq
<1>10. CASE l \in OtherPhonies
  <2>1. CASE l = "clean-for-rebuild"
    BY <1>3, <1>7, <2>1, RemovalRules, EmptySeq
  <2>2. CASE l \in {"dirclean", "clean-for-reconfigure"}
    BY <1>1, <1>3, <1>4, <2>2, RemovalRules, ZenonT(60)
  <2>3. CASE l \in {"uninstall", "clean", "rebuild", "reconfigure"}
    <3>1. CASE l = "uninstall"
      <4>1. Prereqs(u) = <<<<"configure", q>>, <<"uninstalled", q>>>>
        BY <1>3, <3>1, RemovalRules
      <4> QED BY <1>1, <1>5, <4>1
    <3>2. CASE l = "clean"
      <4>1. Prereqs(u) = <<<<"uninstall", q>>, <<"cleaned", q>>>>
        BY <1>3, <3>2, RemovalRules
      <4> QED BY <1>1, <1>5, <4>1
    <3>3. CASE l = "rebuild"
      <4>1. Prereqs(u) = <<<<"clean-for-rebuild", q>>, World>>
        BY <1>3, <3>3, RemovalRules
      <4> QED BY <1>1, <1>5, <1>8, <4>1
    <3>4. CASE l = "reconfigure"
      <4>1. Prereqs(u) = <<<<"clean-for-reconfigure", q>>, World>>
        BY <1>3, <3>4, RemovalRules
      <4> QED BY <1>1, <1>5, <1>8, <4>1
    <3> QED BY <2>3, <3>1, <3>2, <3>3, <3>4
  <2> QED BY <1>10, <2>1, <2>2, <2>3 DEF OtherPhonies
<1>11. CASE l \in BuildPhonies
  <2>1. CASE l = "pkg"
    BY <1>1, <1>3, <1>4, <2>1, BuildRules
  <2>2. CASE l = "install"
    <3>1. \/ Prereqs(u) = <<<<"install-host", q>>>>
          \/ Prereqs(u) = <<<<"install-staging", q>>, <<"install-target", q>>,
                            <<"install-images", q>>>>
      BY <1>3, <2>2, InstallRules DEF InstallPrereqs
    <3> QED BY <1>1, <1>4, <1>6, <3>1
  <2>3. CASE l \in {"install-staging", "install-target", "install-images",
                    "install-host"}
    <3>1. \E s \in InstallStamps :
            \/ Prereqs(u) = <<>>
            \/ Prereqs(u) = <<<<"build", q>>, <<s, q>>>>
      BY <1>3, <2>3, InstallRules DEF InstallRule, InstallStamps
    <3>2. PICK s \in InstallStamps : Prereqs(u) = <<<<"build", q>>, <<s, q>>>>
      BY <1>7, <3>1, EmptySeq
    <3>3. <<k, p>> = <<s, q>> /\ <<"build", q>> \in Earlier(u, i)
      BY <1>1, <1>5, <3>2
    <3> QED BY <3>3 DEF InstallStamps
  <2>4. CASE l = "build"
    <3>1. Prereqs(u) = <<<<"configure", q>>, <<"built", q>>>>
      BY <1>3, <2>4, BuildRules
    <3> QED BY <1>1, <1>5, <3>1 DEF InstallStamps
  <2>5. CASE l = "configure"
    <3>1. CASE q \in Override
      <4>1. Prereqs(u) = <<<<"depends", q>>, <<"configured", q>>>>
        BY <1>3, <2>5, <3>1, SourceRules DEF ConfigurePrereqs
      <4> QED BY <1>1, <1>5, <3>1, <4>1 DEF InstallStamps
    <3>2. CASE q \notin Override
      <4>1. Prereqs(u) =
              <<<<"patch", q>>, <<"depends", q>>, <<"configured", q>>>>
        BY <1>3, <2>5, <3>2, SourceRules DEF ConfigurePrereqs
      <4> QED BY <1>1, <1>6, <3>2, <4>1 DEF InstallStamps
    <3> QED BY <3>1, <3>2
  <2>6. CASE l = "patch"
    <3>1. CASE q \in Override
      BY <1>1, <1>3, <1>4, <2>6, <3>1, SourceRules
    <3>2. CASE q \notin Override
      <4>1. Prereqs(u) = <<<<"extract", q>>, <<"patched", q>>>>
        BY <1>3, <2>6, <3>2, SourceRules
      <4> QED BY <1>1, <1>5, <3>2, <4>1 DEF InstallStamps
    <3> QED BY <3>1, <3>2
  <2>7. CASE l = "extract"
    <3>1. CASE q \in Override
      BY <1>1, <1>3, <1>4, <2>7, <3>1, SourceRules
    <3>2. CASE q \notin Override
      <4>1. Prereqs(u) = <<<<"source", q>>, <<"extracted", q>>>>
        BY <1>3, <2>7, <3>2, SourceRules
      <4> QED BY <1>1, <1>5, <3>2, <4>1 DEF InstallStamps
    <3> QED BY <3>1, <3>2
  <2>8. CASE l = "depends"
    <3>1. Prereqs(u)[i] \in {<<"rsync", q>>} \cup ({"pkg"} \X Pkg)
      BY <1>3, <2>8, DependsRule, ElementOfSeq
    <3> QED BY <1>1, <3>1
  <2>9. CASE l = "source"
    <3>1. <<k, p>> = <<"downloaded", q>>
      BY <1>3, <1>4, <1>7, <2>9, SourceRules, EmptySeq
    <3> QED BY <3>1 DEF InstallStamps
  <2>10. CASE l = "rsync"
    <3>1. <<k, p>> = <<"rsynced", q>>
      BY <1>3, <1>4, <2>10, BuildRules
    <3> QED BY <3>1 DEF InstallStamps
  <2> QED BY <1>11, <2>1, <2>2, <2>3, <2>4, <2>5, <2>6, <2>7, <2>8, <2>9, <2>10
          DEF BuildPhonies
<1> QED BY <1>3, <1>9, <1>10, <1>11 DEF Kinds

-----------------------------------------------------------------------------
(* The recipes of pkg-generic.mk:27-184 and 430-443.                       *)

\* A stamp's recipe touches it last, after commands that create.
Making == {"download", "extract", "rsync", "apply-patch", "configure", "build",
           "install"}

\* The recipe of a stamp ends in its touch, and nothing before it removes.
LEMMA StampRecipe ==
  ASSUME NEW k \in Stamps, NEW p \in Pkg
  PROVE  /\ Len(Recipe(<<k, p>>)) \in Nat \ {0} /\ Recipe(<<k, p>>) # <<>>
         /\ Recipe(<<k, p>>)[Len(Recipe(<<k, p>>))] = <<"touch", k>>
         /\ \A i \in 1 .. Len(Recipe(<<k, p>>)) - 1 :
              Recipe(<<k, p>>)[i][1] \in Making
<1>1. k \in {"downloaded", "extracted", "rsynced", "patched", "configured",
            "built", "staging_installed", "target_installed",
            "images_installed", "host_installed"}
  BY StampKinds
<1>2. CASE k = "patched"
  <2> DEFINE s == [i \in 1..NPatches[p] |-> <<"apply-patch", i>>]
             e == <<"touch", k>>
             X == {<<"apply-patch", i>> : i \in Nat} \cup {e}
  <2>1. Recipe(<<k, p>>) = Append(s, e)
    BY <1>2 DEF Recipe, InstallStamps, MakeClean
  <2>2. NPatches[p] \in Nat
    BY ConfigAssumption
  <2>3. \A i \in 1..NPatches[p] : <<"apply-patch", i>> \in X
    BY <2>2
  <2>4. e \in X
    OBVIOUS
  <2> HIDE DEF e, X
  <2>5. s \in Seq(X) /\ Len(s) = NPatches[p]
    BY <2>2, <2>3
  <2>6. \A i \in 1..NPatches[p] : s[i] = <<"apply-patch", i>>
    OBVIOUS
  <2> HIDE DEF s
  <2>7. /\ Len(Append(s, e)) = Len(s) + 1 /\ Append(s, e)[Len(s) + 1] = e
        /\ \A i \in 1..Len(s) : Append(s, e)[i] = s[i]
    BY <2>4, <2>5, AppendProperties
  <2>8. Recipe(<<k, p>>) # <<>>
    BY <2>1, <2>2, <2>5, <2>7, EmptySeq
  <2>9. \A i \in 1..NPatches[p] : Recipe(<<k, p>>)[i][1] \in Making
    <3> TAKE i \in 1..NPatches[p]
    <3>1. Recipe(<<k, p>>)[i] = <<"apply-patch", i>>
      BY <2>1, <2>5, <2>6, <2>7
    <3> QED BY <3>1 DEF Making
  <2>10. /\ Len(Recipe(<<k, p>>)) = NPatches[p] + 1
         /\ Recipe(<<k, p>>)[NPatches[p] + 1] = e
    BY <2>1, <2>5, <2>7
  <2>11. e = <<"touch", k>>
    BY DEF e
  <2>12. Len(Recipe(<<k, p>>)) \in Nat \ {0}
    BY <2>2, <2>10
  <2>13. Recipe(<<k, p>>)[Len(Recipe(<<k, p>>))] = <<"touch", k>>
    BY <2>10, <2>11
  <2>14. 1 .. Len(Recipe(<<k, p>>)) - 1 = 1..NPatches[p]
    BY <2>2, <2>10
  <2> QED BY <2>8, <2>9, <2>12, <2>13, <2>14
<1>3. CASE k # "patched"
  <2>1. PICK c \in Making :
          Recipe(<<k, p>>) = <<<<c, k>>, <<"touch", k>>>>
    BY <1>1, <1>3 DEF Recipe, InstallStamps, Making, MakeClean
  <2>2. <<c, k>>[1] \in Making /\ <<"touch", k>> = <<"touch", k>>
    OBVIOUS
  <2>3. /\ Len(Recipe(<<k, p>>)) = 2 /\ Recipe(<<k, p>>) # <<>>
        /\ Recipe(<<k, p>>)[1] = <<c, k>>
        /\ Recipe(<<k, p>>)[2] = <<"touch", k>>
    BY <2>1
  <2>4. \A i \in 1 .. 2 - 1 : i = 1
    OBVIOUS
  <2> QED BY <2>2, <2>3, <2>4
<1> QED BY <1>2, <1>3

\* The phony targets that build have no recipe.
LEMMA PhonyRecipe ==
  ASSUME NEW t \in BuildTarget, t[1] \notin Stamps
  PROVE  Recipe(t) = <<>>
<1>1. CASE t = World
  BY <1>1 DEF Recipe, InstallStamps, MakeClean, World
<1>2. ASSUME NEW k \in BuildPhonies, NEW p \in Pkg, t = <<k, p>>
      PROVE  Recipe(t) = <<>>
  <2>1. k \in {"pkg", "install", "install-staging", "install-target",
               "install-images", "install-host", "build", "configure",
               "patch", "extract", "depends", "source", "rsync"}
    BY DEF BuildPhonies
  <2> QED BY <1>2, <2>1 DEF Recipe, InstallStamps, MakeClean
<1> QED BY <1>1, <1>2 DEF BuildTarget

\* Removals create nothing.
Unmaking == {"rm-stamp", "uninstall", "clean", "rm-tree", "wipe", "wipe-trees"}

\* The recipes of the targets that do not build only remove.
LEMMA OtherRecipe ==
  ASSUME NEW t \in MakeTarget \ BuildTarget
  PROVE  /\ Len(Recipe(t)) \in Nat
         /\ \A i \in 1..Len(Recipe(t)) : Recipe(t)[i][1] \in Unmaking
<1> DEFINE X == Unmaking \X (Stamps \cup PlainKinds \cup {"make-clean"})
<1>1. ASSUME Recipe(t) \in Seq(X)
      PROVE  /\ Len(Recipe(t)) \in Nat
             /\ \A i \in 1..Len(Recipe(t)) : Recipe(t)[i][1] \in Unmaking
  <2>1. \A x \in X : x[1] \in Unmaking
    OBVIOUS
  <2> HIDE DEF X
  <2> QED BY <1>1, <2>1, ElementOfSeq
<1>2. \A l \in {"rsynced", "configured", "built", "staging_installed",
                "target_installed", "images_installed", "host_installed"} :
        Rm(l) \in X
  BY StampKinds DEF Rm, Unmaking
<1>3. CASE t = MakeClean
  <2>1. Recipe(t) =
          <<<<"wipe", "staging_installed">>,
            <<"wipe", "target_installed">>,
            <<"wipe", "images_installed">>,
            <<"wipe", "host_installed">>,
            <<"wipe-trees", "make-clean">>>>
    BY <1>3 DEF Recipe, MakeClean, InstallStamps
  <2>2. /\ \A l \in InstallStamps : <<"wipe", l>> \in X
        /\ <<"wipe-trees", "make-clean">> \in X
    BY StampKinds DEF Unmaking, InstallStamps
  <2> HIDE DEF X
  <2>3. Recipe(t) \in Seq(X)
    BY <2>1, <2>2 DEF InstallStamps
  <2> QED BY <2>3, <1>1
<1>4. CASE t # MakeClean
  <2>1. PICK k \in Kinds, p \in Pkg : t = <<k, p>>
    BY <1>4, TargetKinds DEF BuildTarget
  <2>2. k \notin Stamps \cup BuildPhonies
    BY <2>1 DEF BuildTarget
  <2>3. k \in {"uninstalled", "cleaned", "dircleaned", "uninstall", "clean",
               "dirclean", "clean-for-rebuild", "rebuild",
               "clean-for-reconfigure", "reconfigure"}
    BY <2>2 DEF Kinds, NeverStamped, OtherPhonies
  <2>4. /\ <<"uninstall", "staging_installed">> \in X
        /\ <<"uninstall", "target_installed">> \in X
        /\ <<"clean", "cleaned">> \in X
        /\ <<"rm-tree", "dircleaned">> \in X
    BY StampKinds DEF Unmaking, PlainKinds, NeverStamped
  <2> HIDE DEF X
  <2>5. CASE k = "clean-for-rebuild"
    <3> DEFINE r == <<Rm("rsynced")>>
               s == <<Rm("built"), Rm("staging_installed"),
                      Rm("target_installed"), Rm("images_installed"),
                      Rm("host_installed")>>
    <3>1. Recipe(t) = RebuildCommands(p)
      BY <2>1, <2>5 DEF Recipe, InstallStamps, MakeClean
    <3>2. r \in Seq(X) /\ s \in Seq(X)
      BY <1>2
    <3>3. RebuildCommands(p) = r \o s \/ RebuildCommands(p) = <<>> \o s
      BY DEF RebuildCommands
    <3> HIDE DEF r, s
    <3>4. r \o s \in Seq(X) /\ <<>> \o s \in Seq(X)
      BY <3>2, ConcatProperties, EmptySeq
    <3>5. Recipe(t) \in Seq(X)
      BY <3>1, <3>3, <3>4
    <3> QED BY <3>5, <1>1
  <2>6. CASE k = "uninstalled"
    <3>1. Recipe(t) = UninstallCommands
      BY <2>1, <2>6 DEF Recipe, InstallStamps, MakeClean
    <3>2. UninstallCommands =
            <<Rm("staging_installed"), Rm("target_installed"),
              <<"uninstall", "staging_installed">>,
              <<"uninstall", "target_installed">>>>
      BY DEF UninstallCommands
    <3>3. UninstallCommands \in Seq(X)
      BY <3>2, <1>2, <2>4
    <3> QED BY <3>1, <3>3, <1>1
  <2>7. CASE k = "cleaned"
    <3>1. Recipe(t) = <<<<"clean", "cleaned">>, Rm("built")>>
      BY <2>1, <2>7 DEF Recipe, InstallStamps, MakeClean
    <3>2. Recipe(t) \in Seq(X)
      BY <3>1, <1>2, <2>4
    <3> QED BY <3>2, <1>1
  <2>8. CASE k = "dircleaned"
    <3>1. Recipe(t) = <<<<"rm-tree", "dircleaned">>>>
      BY <2>1, <2>8 DEF Recipe, InstallStamps, MakeClean
    <3>2. Recipe(t) \in Seq(X)
      BY <3>1, <2>4
    <3> QED BY <3>2, <1>1
  <2>9. CASE k = "clean-for-reconfigure"
    <3>1. Recipe(t) = <<Rm("configured")>>
      BY <2>1, <2>9 DEF Recipe, InstallStamps, MakeClean
    <3>2. Recipe(t) \in Seq(X)
      BY <3>1, <1>2
    <3> QED BY <3>2, <1>1
  <2>10. CASE k \in {"uninstall", "clean", "dirclean", "rebuild",
                     "reconfigure"}
    <3>1. Recipe(t) = <<>>
      BY <2>1, <2>10 DEF Recipe, InstallStamps, MakeClean
    <3>2. Recipe(t) \in Seq(X)
      BY <3>1, EmptySeq
    <3> QED BY <3>2, <1>1
  <2> QED BY <2>3, <2>5, <2>6, <2>7, <2>8, <2>9, <2>10
<1> QED BY <1>3, <1>4

\* A target that is a stamp is the stamp of a package.
LEMMA StampTarget ==
  ASSUME NEW t \in MakeTarget, t[1] \in Stamps
  PROVE  t[2] \in Pkg /\ t = <<t[1], t[2]>> /\ t \in BuildTarget
<1>1. World[1] = "all" /\ MakeClean[1] = "make-clean"
  BY DEF World, MakeClean
<1>2. "all" \notin Stamps /\ "make-clean" \notin Stamps
  BY StampKinds
<1>3. t # World /\ t # MakeClean
  BY <1>1, <1>2
<1>4. PICK k \in Kinds, p \in Pkg : t = <<k, p>>
  BY <1>3, TargetKinds
<1> QED BY <1>4 DEF BuildTarget

\* Every recipe is finite.
LEMMA RecipeLength ==
  ASSUME NEW t \in MakeTarget
  PROVE  Len(Recipe(t)) \in Nat
<1>1. CASE t \notin BuildTarget
  BY <1>1, OtherRecipe
<1>2. CASE t \in BuildTarget /\ t[1] \notin Stamps
  BY <1>2, PhonyRecipe, EmptySeq
<1>3. CASE t \in BuildTarget /\ t[1] \in Stamps
  <2>1. t[2] \in Pkg /\ t = <<t[1], t[2]>>
    BY <1>3, StampTarget
  <2> QED BY <1>3, <2>1, StampRecipe
<1> QED BY <1>1, <1>2, <1>3

-----------------------------------------------------------------------------
(* Facts about the state used everywhere.                                  *)

\* The frame on top of make's stack, while make runs.
LEMMA TopFrame ==
  ASSUME TypeOK, ~Idle
  PROVE  /\ Len(stack) \in Nat \ {0} /\ Top \in Frame /\ Top.target \in MakeTarget
         /\ Top.next \in Nat \ {0} /\ Top = stack[Len(stack)]
         /\ \A n \in 1..Len(stack) : stack[n] \in Frame
<1>1. stack \in Seq(Frame) /\ stack # <<>>
  BY DEF TypeOK, Idle
<1>2. Len(stack) \in Nat \ {0}
  BY <1>1, EmptySeq
<1>3. \A n \in 1..Len(stack) : stack[n] \in Frame
  BY <1>1, ElementOfSeq
<1>4. Len(stack) \in 1..Len(stack)
  BY <1>2
<1>5. Top \in Frame
  BY <1>3, <1>4 DEF Top
<1> QED BY <1>2, <1>3, <1>5 DEF Top, Frame

\* A command that runs is one of the recipe of the target on top.
LEMMA Running ==
  ASSUME TypeOK, Current # NoCommand
  PROVE  /\ ~Idle /\ ~PrereqsLeft /\ ~UpToDate(Top.target)
         /\ pc \in 1..Len(Recipe(Top.target))
         /\ Current = Recipe(Top.target)[pc]
<1>1. /\ ~Idle /\ ~PrereqsLeft /\ ~UpToDate(Top.target)
      /\ ~(pc > Len(Recipe(Top.target)))
      /\ Current = Recipe(Top.target)[pc]
  BY DEF Current
<1>2. Top.target \in MakeTarget /\ pc \in Nat \ {0}
  BY <1>1, TopFrame DEF TypeOK
<1>3. Len(Recipe(Top.target)) \in Nat
  BY <1>2, RecipeLength
<1>4. pc \in 1..Len(Recipe(Top.target))
  BY <1>1, <1>2, <1>3
<1> QED BY <1>1, <1>4

\* While make builds, no command removes.
LEMMA BuildingCommands ==
  ASSUME TypeOK, Current # NoCommand, Top.target \in BuildTarget
  PROVE  /\ S \in Stamps /\ P \in Pkg /\ Top.target = <<S, P>>
         /\ pc < Len(Recipe(Top.target)) => Current[1] \in Making
         /\ pc = Len(Recipe(Top.target)) => Current = <<"touch", S>>
<1>1. /\ pc \in 1..Len(Recipe(Top.target)) /\ Top.target \in MakeTarget
      /\ Current = Recipe(Top.target)[pc]
  BY Running, TopFrame
<1>2. Recipe(Top.target) # <<>>
  BY <1>1, EmptySeq
<1>3. S \in Stamps
  BY <1>2, PhonyRecipe DEF S
<1>4. P \in Pkg /\ Top.target = <<S, P>>
  BY <1>1, <1>3, StampTarget DEF S, P
<1>5. /\ Len(Recipe(<<S, P>>)) \in Nat \ {0}
      /\ Recipe(<<S, P>>)[Len(Recipe(<<S, P>>))] = <<"touch", S>>
      /\ \A i \in 1 .. Len(Recipe(<<S, P>>)) - 1 :
           Recipe(<<S, P>>)[i][1] \in Making
  BY <1>3, <1>4, StampRecipe
<1> QED BY <1>1, <1>3, <1>4, <1>5

\* A touch is the last command of a stamp's recipe.
LEMMA Touching ==
  ASSUME TypeOK, Runs("touch")
  PROVE  /\ S \in Stamps /\ P \in Pkg /\ Top.target = <<S, P>>
         /\ Top.target \in BuildTarget /\ pc = Len(Recipe(Top.target))
<1>1. Current # NoCommand /\ Current[1] = "touch"
  BY DEF Runs, NoCommand
<1>2. /\ pc \in 1..Len(Recipe(Top.target)) /\ Top.target \in MakeTarget
      /\ Current = Recipe(Top.target)[pc]
  BY <1>1, Running, TopFrame
<1>3. Top.target \in BuildTarget
  BY <1>1, <1>2, OtherRecipe DEF Unmaking
<1> QED BY <1>1, <1>2, <1>3, BuildingCommands DEF Making

-----------------------------------------------------------------------------
(* The type invariant.                                                     *)

MakeTypeOK ==
  /\ stack \in Seq(Frame)
  /\ done \subseteq MakeTarget
  /\ pc \in Nat \ {0}
  /\ result \in {"running", "ok", "failed"}

PackageTypeOK ==
  /\ stamps \in [Pkg -> SUBSET Stamps]
  /\ srcdir \in [Pkg -> Nat \ {0}]
  /\ tree \in [Pkg -> Version]
  /\ applied \in [Pkg -> Nat \cup {Broken}]
  /\ conf \in [Pkg -> Version]
  /\ obj \in [Pkg -> [src : Version, cfg : Version]]
  /\ inst \in [Pkg -> [InstallStamps -> Version]]
  /\ skewed \subseteq Pkg

\* The type invariant in two parts: the files, and make.
LEMMA TypeParts == TypeOK <=> PackageTypeOK /\ MakeTypeOK
BY DEF TypeOK, PackageTypeOK, MakeTypeOK

\* A function changed at one argument, which need not be in its domain.
LEMMA Update ==
  ASSUME NEW A, NEW B, NEW f \in [A -> B], NEW a, NEW b, a \in A => b \in B
  PROVE  [f EXCEPT ![a] = b] \in [A -> B]
OBVIOUS

\* Leaving a target keeps the types of make's state.
LEMMA ReturnType ==
  ASSUME TypeOK, ~Idle, Return
  PROVE  MakeTypeOK'
<1>1. Len(stack) \in Nat \ {0} /\ Top.target \in MakeTarget
  BY TopFrame
<1>2. SubSeq(stack, 1, Len(stack) - 1) \in Seq(Frame)
  BY <1>1, SubSeqProperties DEF TypeOK
<1> QED BY <1>1, <1>2 DEF Return, TypeOK, MakeTypeOK

\* So does a command that succeeds.
LEMMA SucceedType ==
  ASSUME TypeOK, Current # NoCommand, Succeed
  PROVE  MakeTypeOK'
<1>1. ~Idle
  BY Running
<1> QED BY <1>1, ReturnType DEF Succeed, TypeOK, MakeTypeOK

\* So does the end of an invocation.
LEMMA StopType == Stop => MakeTypeOK'
BY EmptySeq DEF Stop, MakeTypeOK

\* A command that runs is a command.
LEMMA RunningCommand ==
  ASSUME NEW c, Runs(c), c # "none"
  PROVE  Current # NoCommand
BY DEF Runs, NoCommand

\* Files that do not change keep their types.
LEMMA PackageSame ==
  ASSUME PackageTypeOK, UNCHANGED package
  PROVE  PackageTypeOK'
BY DEF PackageTypeOK, package

\* The user's "make <goal>" keeps the types.
LEMMA InvokeType ==
  ASSUME TypeOK, NEW g \in Goals, Invoke(g)
  PROVE  TypeOK'
<1>1. g \in MakeTarget
  BY ConfigAssumption DEF MakeTarget
<1>2. [target |-> g, next |-> 1] \in Frame
  BY <1>1 DEF Frame
<1>3. MakeTypeOK'
  BY <1>2 DEF Invoke, MakeTypeOK
<1>4. PackageTypeOK'
  BY PackageSame DEF Invoke, TypeOK, PackageTypeOK
<1> QED BY <1>3, <1>4 DEF TypeOK, MakeTypeOK, PackageTypeOK

\* So does make's step to a prerequisite.
LEMMA ConsiderType ==
  ASSUME TypeOK, Consider
  PROVE  TypeOK'
<1> DEFINE u == Prereqs(Top.target)[Top.next]
<1>1. ~Idle /\ PrereqsLeft
  BY DEF Consider
<1>2. /\ Len(stack) \in 1..Len(stack) /\ Top = stack[Len(stack)]
      /\ Top.target \in MakeTarget /\ Top.next \in Nat \ {0} /\ Top \in Frame
  BY <1>1, TopFrame
<1>3. Prereqs(Top.target) \in Seq(MakeTarget)
  BY <1>2, PrereqsType
<1>4. Top.next \in 1..Len(Prereqs(Top.target))
  BY <1>1, <1>2, <1>3 DEF PrereqsLeft
<1>5. u \in MakeTarget
  BY <1>3, <1>4, ElementOfSeq
<1>6. [target |-> u, next |-> 1] \in Frame
  BY <1>5 DEF Frame
<1>7. [Top EXCEPT !.next = @ + 1] \in Frame
  BY <1>2 DEF Frame
<1>8. CASE u \in done
  <2>1. stack' = [stack EXCEPT ![Len(stack)] = [Top EXCEPT !.next = @ + 1]]
    BY <1>2, <1>8 DEF Consider
  <2>2. stack' \in Seq(Frame)
    BY <2>1, <1>2, <1>7, ExceptSeq DEF TypeOK
  <2> QED BY <2>2 DEF Consider, package, TypeOK
<1>9. CASE u \notin done
  <2>1. stack' = Append(stack, [target |-> u, next |-> 1])
    BY <1>9 DEF Consider
  <2>2. stack' \in Seq(Frame)
    BY <2>1, <1>6, AppendProperties DEF TypeOK
  <2> QED BY <2>2 DEF Consider, package, TypeOK
<1> QED BY <1>8, <1>9

\* A command changes the package well, and make as Succeed or Stop says.
LEMMA CommandType ==
  ASSUME TypeOK, PackageTypeOK',
         (Current # NoCommand /\ Succeed) \/ (~Idle /\ Return) \/ Stop
  PROVE  TypeOK'
<1>1. MakeTypeOK'
  BY SucceedType, ReturnType, StopType
<1> QED BY <1>1 DEF TypeOK, MakeTypeOK, PackageTypeOK

\* So do the commands that fetch and unpack, and the touch.
LEMMA StepTypes ==
  ASSUME TypeOK, NothingToDo \/ Touch \/ Download \/ Extract \/ Rsync
  PROVE  TypeOK'
<1>1. PackageTypeOK
  BY TypeParts
<1>2. CASE NothingToDo
  <2>1. PackageTypeOK'
    BY <1>1, <1>2, PackageSame DEF NothingToDo
  <2> QED BY <1>2, <2>1, CommandType DEF NothingToDo
<1>3. CASE Touch
  <2>1. Runs("touch") /\ Succeed
    BY <1>3 DEF Touch
  <2>2. S \in Stamps
    BY <2>1, Touching
  <2>3. stamps' \in [Pkg -> SUBSET Stamps]
    <3>1. P \in Pkg => stamps[P] \cup {S} \in SUBSET Stamps
      BY <1>1, <2>2 DEF PackageTypeOK
    <3>2. stamps' = [stamps EXCEPT ![P] = stamps[P] \cup {S}]
      BY <1>3 DEF Touch
    <3> QED BY <1>1, <3>1, <3>2, Update DEF PackageTypeOK
  <2>4. PackageTypeOK'
    BY <1>1, <1>3, <2>3 DEF Touch, PackageTypeOK
  <2> QED BY <2>1, <2>4, CommandType, RunningCommand
<1>4. CASE Download
  <2>1. PackageTypeOK'
    BY <1>1, <1>4, PackageSame DEF Download
  <2> QED BY <1>4, <2>1, CommandType, RunningCommand DEF Download
<1>5. CASE Extract
  <2>1. tree' \in [Pkg -> Version]
    BY <1>1, <1>5 DEF Extract, PackageTypeOK, Version
  <2>2. applied' \in [Pkg -> Nat \cup {Broken}]
    BY <1>1, <1>5 DEF Extract, PackageTypeOK
  <2>3. PackageTypeOK'
    BY <1>1, <1>5, <2>1, <2>2 DEF Extract, PackageTypeOK
  <2> QED BY <1>5, <2>3, CommandType, RunningCommand DEF Extract
<1>6. CASE Rsync
  <2>1. P \in Pkg => srcdir[P] \in Version
    BY <1>1 DEF PackageTypeOK, Version
  <2>2. tree' \in [Pkg -> Version]
    BY <1>1, <1>6, <2>1 DEF Rsync, PackageTypeOK
  <2>3. PackageTypeOK'
    BY <1>1, <1>6, <2>2 DEF Rsync, PackageTypeOK
  <2> QED BY <1>6, <2>3, CommandType, RunningCommand DEF Rsync
<1> QED BY <1>2, <1>3, <1>4, <1>5, <1>6

\* So do the commands that patch, configure, compile and install.
LEMMA MakingTypes ==
  ASSUME TypeOK, ApplyPatch \/ Configure \/ Build \/ Install
  PROVE  TypeOK'
<1>1. PackageTypeOK
  BY TypeParts
<1>2. CASE ApplyPatch
  <2>1. P \in Pkg => applied[P] + 1 \in Nat \cup {Broken}
    BY <1>1 DEF PackageTypeOK, Broken
  <2>2. applied' = [applied EXCEPT ![P] = applied[P] + 1]
    BY <1>2 DEF ApplyPatch
  <2>3. applied' \in [Pkg -> Nat \cup {Broken}]
    BY <1>1, <2>1, <2>2, Update DEF PackageTypeOK
  <2>4. PackageTypeOK'
    BY <1>1, <1>2, <2>3 DEF ApplyPatch, PackageTypeOK
  <2> QED BY <1>2, <2>4, CommandType, RunningCommand DEF ApplyPatch
<1>3. CASE Configure
  <2>1. P \in Pkg => (IF Sound(P) THEN tree[P] ELSE Broken) \in Version
    BY <1>1 DEF PackageTypeOK, Version
  <2>2. conf' \in [Pkg -> Version]
    BY <1>1, <1>3, <2>1, Update DEF Configure, PackageTypeOK
  <2>3. PackageTypeOK'
    BY <1>1, <1>3, <2>2 DEF Configure, PackageTypeOK
  <2> QED BY <1>3, <2>3, CommandType, RunningCommand DEF Configure
<1>4. CASE Build
  <2> DEFINE o == IF Sound(P) /\ Whole(conf[P])
                  THEN [src |-> tree[P], cfg |-> conf[P]]
                  ELSE [src |-> Broken, cfg |-> Broken]
  <2>1. P \in Pkg => o \in [src : Version, cfg : Version]
    <3>1. Broken \in Version
      BY DEF Version
    <3>2. P \in Pkg => tree[P] \in Version /\ conf[P] \in Version
      BY <1>1 DEF PackageTypeOK
    <3> QED BY <3>1, <3>2
  <2>2. obj' = [obj EXCEPT ![P] = o]
    BY <1>4 DEF Build
  <2> HIDE DEF o
  <2>3. obj' \in [Pkg -> [src : Version, cfg : Version]]
    BY <1>1, <2>1, <2>2, Update DEF PackageTypeOK
  <2>4. PackageTypeOK'
    BY <1>1, <1>4, <2>3 DEF Build, PackageTypeOK
  <2> QED BY <1>4, <2>4, CommandType, RunningCommand DEF Build
<1>5. CASE Install
  <2> DEFINE v == IF Whole(obj[P].src) THEN obj[P].src ELSE Broken
  <2>1. P \in Pkg => v \in Version
    BY <1>1 DEF PackageTypeOK, Version
  <2>2. inst' = [inst EXCEPT ![P] = [inst[P] EXCEPT ![S] = v]]
    BY <1>5 DEF Install
  <2> HIDE DEF v
  <2>3. P \in Pkg => [inst[P] EXCEPT ![S] = v] \in [InstallStamps -> Version]
    BY <1>1, <2>1, Update DEF PackageTypeOK
  <2>4. inst' \in [Pkg -> [InstallStamps -> Version]]
    BY <1>1, <2>2, <2>3, Update DEF PackageTypeOK
  <2>5. PackageTypeOK'
    BY <1>1, <1>5, <2>4 DEF Install, PackageTypeOK
  <2> QED BY <1>5, <2>5, CommandType, RunningCommand DEF Install
<1> QED BY <1>2, <1>3, <1>4, <1>5

\* Only "make clean" has commands that belong to no package.
LEMMA RunsOnPackage ==
  ASSUME TypeOK, Current # NoCommand, Current[1] \notin {"wipe", "wipe-trees"}
  PROVE  P \in Pkg
<1>1. /\ pc \in 1..Len(Recipe(Top.target)) /\ Top.target \in MakeTarget
      /\ Current = Recipe(Top.target)[pc]
  BY Running, TopFrame
<1>2. Top.target # MakeClean
  <2>1. SUFFICES ASSUME Top.target = MakeClean PROVE FALSE
    OBVIOUS
  <2> DEFINE X == {"wipe", "wipe-trees"} \X (InstallStamps \cup {"make-clean"})
  <2>2. Recipe(MakeClean) =
          <<<<"wipe", "staging_installed">>, <<"wipe", "target_installed">>,
            <<"wipe", "images_installed">>, <<"wipe", "host_installed">>,
            <<"wipe-trees", "make-clean">>>>
    BY DEF Recipe, MakeClean, InstallStamps
  <2>3. /\ \A l \in InstallStamps : <<"wipe", l>> \in X
        /\ <<"wipe-trees", "make-clean">> \in X
    OBVIOUS
  <2>4. \A x \in X : x[1] \in {"wipe", "wipe-trees"}
    OBVIOUS
  <2> HIDE DEF X
  <2>5. Recipe(MakeClean) \in Seq(X)
    BY <2>2, <2>3 DEF InstallStamps
  <2>6. Current \in X
    BY <1>1, <2>1, <2>5, ElementOfSeq
  <2> QED BY <2>4, <2>6
<1>3. Top.target # World
  <2>1. World[1] = "all" /\ "all" \notin Stamps /\ World \in BuildTarget
    BY StampKinds DEF World, BuildTarget
  <2>2. Recipe(World) = <<>>
    BY <2>1, PhonyRecipe
  <2> QED BY <1>1, <2>2, EmptySeq
<1> QED BY <1>1, <1>2, <1>3, TargetKinds DEF P

\* Removing build directories keeps the types of the files.
LEMMA RemoveTreesType ==
  ASSUME PackageTypeOK, NEW Q, RemoveTrees(Q)
  PROVE  /\ stamps' \in [Pkg -> SUBSET Stamps]
         /\ tree' \in [Pkg -> Version]
         /\ applied' \in [Pkg -> Nat \cup {Broken}]
         /\ conf' \in [Pkg -> Version]
         /\ obj' \in [Pkg -> [src : Version, cfg : Version]]
<1>1. Absent \in Version
  BY DEF Absent, Version
<1> QED BY <1>1 DEF RemoveTrees, PackageTypeOK

\* So do the commands that remove.
LEMMA UnmakingTypes ==
  ASSUME TypeOK,
         RmStamp \/ Uninstall \/ CleanObjects \/ RmTree \/ Wipe \/ WipeTrees
  PROVE  TypeOK'
<1>1. PackageTypeOK /\ Absent \in Version
  BY TypeParts DEF Absent, Version
<1>2. CASE RmStamp
  <2>1. stamps' \in [Pkg -> SUBSET Stamps]
    <3>1. P \in Pkg => stamps[P] \ {Current[2]} \in SUBSET Stamps
      BY <1>1 DEF PackageTypeOK
    <3>2. stamps' = [stamps EXCEPT ![P] = stamps[P] \ {Current[2]}]
      BY <1>2 DEF RmStamp
    <3> QED BY <1>1, <3>1, <3>2, Update DEF PackageTypeOK
  <2>2. skewed' \subseteq Pkg
    <3>1. P \in Pkg
      BY <1>2, RunningCommand, RunsOnPackage DEF RmStamp, Runs
    <3> QED BY <1>1, <1>2, <3>1 DEF RmStamp, PackageTypeOK
  <2>3. PackageTypeOK'
    BY <1>1, <1>2, <2>1, <2>2 DEF RmStamp, PackageTypeOK
  <2> QED BY <1>2, <2>3, CommandType, RunningCommand DEF RmStamp
<1>3. CASE Uninstall
  <2>1. inst' = [inst EXCEPT ![P] = [inst[P] EXCEPT ![Current[2]] = Absent]]
    BY <1>3 DEF Uninstall
  <2>2. P \in Pkg =>
          [inst[P] EXCEPT ![Current[2]] = Absent] \in [InstallStamps -> Version]
    BY <1>1, Update DEF PackageTypeOK
  <2>3. inst' \in [Pkg -> [InstallStamps -> Version]]
    BY <1>1, <2>1, <2>2, Update DEF PackageTypeOK
  <2>4. PackageTypeOK'
    BY <1>1, <1>3, <2>3 DEF Uninstall, PackageTypeOK
  <2> QED BY <1>3, <2>4, CommandType, RunningCommand DEF Uninstall
<1>4. CASE CleanObjects
  <2>1. obj' \in [Pkg -> [src : Version, cfg : Version]]
    BY <1>1, <1>4, Update DEF CleanObjects, PackageTypeOK
  <2>2. PackageTypeOK'
    BY <1>1, <1>4, <2>1 DEF CleanObjects, PackageTypeOK
  <2> QED BY <1>4, <2>2, CommandType, RunningCommand DEF CleanObjects
<1>5. CASE RmTree
  <2>1. PackageTypeOK'
    BY <1>1, <1>5, RemoveTreesType DEF RmTree, PackageTypeOK
  <2> QED BY <1>5, <2>1, CommandType, RunningCommand DEF RmTree
<1>6. CASE Wipe
  <2>1. \A p \in Pkg :
          [inst[p] EXCEPT ![Current[2]] = Absent] \in [InstallStamps -> Version]
    BY <1>1, Update DEF PackageTypeOK
  <2>2. inst' = [p \in Pkg |-> [inst[p] EXCEPT ![Current[2]] = Absent]]
    BY <1>6 DEF Wipe
  <2>3. inst' \in [Pkg -> [InstallStamps -> Version]]
    BY <2>1, <2>2
  <2>4. PackageTypeOK'
    BY <1>1, <1>6, <2>3 DEF Wipe, PackageTypeOK
  <2> QED BY <1>6, <2>4, CommandType, RunningCommand DEF Wipe
<1>7. CASE WipeTrees
  <2>1. PackageTypeOK'
    BY <1>1, <1>7, RemoveTreesType DEF WipeTrees, PackageTypeOK
  <2> QED BY <1>7, <2>1, CommandType, RunningCommand DEF WipeTrees
<1> QED BY <1>2, <1>3, <1>4, <1>5, <1>6, <1>7

\* A broken version is a version.
LEMMA BrokeType ==
  ASSUME NEW B, Broken \in B, NEW f \in [Pkg -> B], NEW p, NEW hit
  PROVE  Broke(f, p, hit) \in [Pkg -> B]
BY DEF Broke

\* Failures and interruptions keep the types.
LEMMA FaultTypes ==
  ASSUME TypeOK, PatchRefused \/ Fault
  PROVE  TypeOK'
<1>1. /\ PackageTypeOK /\ Absent \in Version /\ Broken \in Version
      /\ Broken \in Nat \cup {Broken}
  BY TypeParts DEF Absent, Version
<1>2. CASE PatchRefused
  <2>1. PackageTypeOK'
    BY <1>1, <1>2 DEF PatchRefused, PackageTypeOK
  <2> QED BY <1>2, <2>1, CommandType DEF PatchRefused
<1>3. CASE Interrupt
  <2>1. SkewedByStop \subseteq Pkg
    <3>1. CASE S \in Removal /\ Top.target # MakeClean
      <4>1. ~Idle
        BY <1>3 DEF Interrupt
      <4>2. Top.target \in MakeTarget /\ Top.target # World
        <5>1. World[1] = "all" /\ "all" \notin Removal
          BY DEF World, Removal
        <5> QED BY <3>1, <4>1, <5>1, TopFrame DEF S
      <4>3. P \in Pkg
        BY <3>1, <4>2, TargetKinds DEF P
      <4> QED BY <4>3 DEF SkewedByStop
    <3>2. CASE S \notin Removal \/ Top.target = MakeClean
      BY <3>2 DEF SkewedByStop
    <3> QED BY <3>1, <3>2
  <2>2. PackageTypeOK'
    BY <1>1, <1>3, <2>1 DEF Interrupt, PackageTypeOK
  <2> QED BY <1>3, <2>2, CommandType DEF Interrupt
<1>4. CASE BreakStep
  <2>1. /\ tree' = Broke(tree, P, Current[1] \in {"extract", "rsync"})
        /\ applied' = Broke(applied, P, Current[1] = "apply-patch")
        /\ conf' = Broke(conf, P, Current[1] = "configure")
    BY <1>4 DEF BreakStep
  <2>2. /\ tree' \in [Pkg -> Version] /\ conf' \in [Pkg -> Version]
        /\ applied' \in [Pkg -> Nat \cup {Broken}]
    BY <1>1, <2>1, BrokeType DEF PackageTypeOK
  <2>3. obj' \in [Pkg -> [src : Version, cfg : Version]]
    <3>1. PICK o : /\ obj' = [obj EXCEPT ![P] = o]
                   /\ \/ o = [src |-> Broken, cfg |-> Broken]
                      \/ o = obj[P]
      BY <1>4 DEF BreakStep
    <3>2. [src |-> Broken, cfg |-> Broken] \in [src : Version, cfg : Version]
      BY <1>1
    <3>3. P \in Pkg => obj[P] \in [src : Version, cfg : Version]
      BY <1>1, Zenon DEF PackageTypeOK
    <3>4. P \in Pkg => o \in [src : Version, cfg : Version]
      BY <3>1, <3>2, <3>3
    <3> QED BY <1>1, <3>1, <3>4, Update DEF PackageTypeOK
  <2>4. inst' \in [Pkg -> [InstallStamps -> Version]]
    <3>1. PICK i : /\ inst' = [inst EXCEPT ![P] = i]
                   /\ \/ i = [inst[P] EXCEPT ![S] = Broken]
                      \/ i = [inst[P] EXCEPT ![Current[2]] = Broken]
                      \/ i = inst[P]
      BY <1>4 DEF BreakStep
    <3>2. P \in Pkg => i \in [InstallStamps -> Version]
      <4>1. SUFFICES ASSUME P \in Pkg PROVE i \in [InstallStamps -> Version]
        OBVIOUS
      <4>2. inst[P] \in [InstallStamps -> Version]
        BY <1>1, <4>1 DEF PackageTypeOK
      <4> QED BY <1>1, <3>1, <4>2
    <3> QED BY <1>1, <3>1, <3>2, Update DEF PackageTypeOK
  <2>5. skewed' \subseteq Pkg
    <3>1. Current # NoCommand /\ Current[1] \notin {"wipe", "wipe-trees"}
      BY <1>4 DEF BreakStep, NoCommand
    <3>2. P \in Pkg
      BY <3>1, RunsOnPackage
    <3> QED BY <1>1, <1>4, <3>2 DEF BreakStep, PackageTypeOK
  <2>6. PackageTypeOK' /\ Stop
    BY <1>1, <1>4, <2>2, <2>3, <2>4, <2>5 DEF BreakStep, PackageTypeOK
  <2> QED BY <2>6, CommandType
<1>5. CASE BreakRmTree
  <2>1. P \in Pkg
    BY <1>5, RunsOnPackage, RunningCommand DEF BreakRmTree, Runs
  <2>2. stamps' \in [Pkg -> SUBSET Stamps]
    <3>1. PICK rest \in SUBSET stamps[P] : stamps' = [stamps EXCEPT ![P] = rest]
      BY <1>5 DEF BreakRmTree
    <3>2. rest \in SUBSET Stamps
      BY <1>1, <2>1, <3>1 DEF PackageTypeOK
    <3> QED BY <1>1, <3>1, <3>2, Update DEF PackageTypeOK
  <2>3. tree' \in [Pkg -> Version] /\ conf' \in [Pkg -> Version]
    BY <1>1, <1>5, BrokeType DEF BreakRmTree, PackageTypeOK
  <2>4. obj' \in [Pkg -> [src : Version, cfg : Version]]
    BY <1>1, <1>5, Update DEF BreakRmTree, PackageTypeOK
  <2>5. PackageTypeOK' /\ Stop
    BY <1>1, <1>5, <2>1, <2>2, <2>3, <2>4 DEF BreakRmTree, PackageTypeOK
  <2> QED BY <2>5, CommandType
<1>6. CASE BreakWipe
  <2> DEFINE f(p) == [inst[p] EXCEPT ![Current[2]] =
                        IF @ = Absent THEN Absent ELSE Broken]
  <2>1. \A p \in Pkg : f(p) \in [InstallStamps -> Version]
    BY <1>1 DEF PackageTypeOK
  <2>2. inst' = [p \in Pkg |-> f(p)]
    BY <1>6 DEF BreakWipe
  <2> HIDE DEF f
  <2>3. inst' \in [Pkg -> [InstallStamps -> Version]]
    BY <2>1, <2>2
  <2>4. PackageTypeOK' /\ Stop
    BY <1>1, <1>6, <2>3 DEF BreakWipe, PackageTypeOK
  <2> QED BY <2>4, CommandType
<1>7. CASE BreakWipeTrees
  <2>1. PICK Q \in SUBSET Pkg : RemoveTrees(Q) /\ skewed' = Pkg \ Q
    BY <1>7 DEF BreakWipeTrees
  <2>2. PackageTypeOK' /\ Stop
    BY <1>1, <1>7, <2>1, RemoveTreesType DEF BreakWipeTrees, PackageTypeOK
  <2> QED BY <2>2, CommandType
<1> QED BY <1>2, <1>3, <1>4, <1>5, <1>6, <1>7 DEF Fault

\* So do the user's edits and removals of stamps.
LEMMA UserTypes ==
  ASSUME TypeOK, NEW p \in Pkg,
         Edit(p) \/ \E s \in UserRemoves : RemoveStamp(p, s)
  PROVE  TypeOK'
<1>1. PackageTypeOK
  BY TypeParts
<1>2. CASE Edit(p)
  <2>1. srcdir' \in [Pkg -> Nat \ {0}]
    BY <1>1, <1>2 DEF Edit, PackageTypeOK
  <2>2. tree' \in [Pkg -> Version]
    <3>1. tree[p] + 1 \in Version
      BY <1>1 DEF PackageTypeOK, Version, Broken
    <3> QED BY <1>1, <1>2, <3>1 DEF Edit, PackageTypeOK
  <2> QED BY <1>2, <2>1, <2>2 DEF Edit, TypeOK, make
<1>3. ASSUME NEW s \in UserRemoves, RemoveStamp(p, s)
      PROVE  TypeOK'
  <2>1. stamps' \in [Pkg -> SUBSET Stamps]
    BY <1>1, <1>3 DEF RemoveStamp, PackageTypeOK
  <2> QED BY <1>3, <2>1 DEF RemoveStamp, TypeOK, make
<1> QED BY <1>2, <1>3

\* TypeOK holds of every reachable state.
THEOREM Typing == Spec => []TypeOK
<1>1. Init => TypeOK
  BY EmptySeq DEF Init, TypeOK, Version, Absent
<1>2. TypeOK /\ [Next]_vars => TypeOK'
  <2> SUFFICES ASSUME TypeOK, [Next]_vars PROVE TypeOK'
    OBVIOUS
  <2>1. ASSUME NEW g \in Goals, Invoke(g) PROVE TypeOK'
    BY <2>1, InvokeType
  <2>2. CASE Engine
    BY <2>2, ConsiderType, StepTypes, MakingTypes, UnmakingTypes, FaultTypes
       DEF Engine
  <2>3. CASE Fault
    BY <2>3, FaultTypes
  <2>4. ASSUME NEW p \in Pkg, Edit(p) \/ \E s \in UserRemoves : RemoveStamp(p, s)
        PROVE  TypeOK'
    BY <2>4, UserTypes
  <2>5. CASE UNCHANGED vars
    BY <2>5 DEF vars, package, make, TypeOK
  <2> QED BY <2>1, <2>2, <2>3, <2>4, <2>5 DEF Next
<1> QED BY <1>1, <1>2, PTL DEF Spec

-----------------------------------------------------------------------------
(* The invariant of make's walk.                                           *)

\* The target on top is made: its stamp, if it is one, is there.
LEMMA WalkReturns ==
  ASSUME TypeOK, WalkInvariant, ~Idle, ~PrereqsLeft, Return,
         Top.target \in BuildTarget =>
           /\ \A p \in Pkg : stamps[p] \subseteq stamps'[p]
           /\ S \in Stamps => S \in stamps'[P]
  PROVE  WalkInvariant'
<1> DEFINE T == Top.target
<1>0. PICK n \in Nat \ {0} : n = Len(stack)
  BY TopFrame
<1>1. /\ n = Len(stack) /\ Top = stack[n] /\ T \in MakeTarget
      /\ stack[n].next \in Nat \ {0}
      /\ \A m \in 1..n : stack[m] \in Frame
  BY <1>0, TopFrame
<1>2. Len(Prereqs(T)) \in Nat
  BY <1>1, PrereqsType
<1>3. /\ Len(stack') = n - 1 /\ \A m \in 1 .. n - 1 : stack'[m] = stack[m]
      /\ done' = done \cup {T}
  <2>1. stack' = SubSeq(stack, 1, n - 1) /\ done' = done \cup {T}
    BY <1>0 DEF Return
  <2>2. \A m \in 1 .. n - 1 : stack[m] \in Frame
    BY <1>0, <1>1
  <2>3. (IF 1 <= n - 1 THEN n - 1 - 1 + 1 ELSE 0) = n - 1 /\ n - 1 - 1 + 1 = n - 1
          /\ \A m \in 1 .. n - 1 : 1 + m - 1 = m
    BY <1>0
  <2>4. 1 \in Int /\ n - 1 \in Int
    BY <1>1
  <2> HIDE DEF T
  <2>5. /\ Len(SubSeq(stack, 1, n - 1)) = IF 1 <= n - 1 THEN n - 1 - 1 + 1 ELSE 0
        /\ \A m \in 1 .. n - 1 - 1 + 1 :
             SubSeq(stack, 1, n - 1)[m] = stack[1 + m - 1]
    BY <2>2, <2>4, SubSeqProperties
  <2> QED BY <2>1, <2>2, <2>3, <2>5
<1>4. \A j \in 1..Len(Prereqs(T)) : Prereqs(T)[j] \in done
  <2>1. \A j \in 1..Len(Prereqs(T)) : j \in 1 .. stack[n].next - 1
    BY <1>1, <1>2 DEF PrereqsLeft
  <2> QED BY <1>1, <2>1 DEF WalkInvariant, EarlierDone
<1> HIDE DEF T
<1>5. StackIsChain'
  <2>1. \A m \in 1 .. n - 1 - 1 : m \in 1 .. n - 1 /\ m + 1 \in 1 .. n - 1
    BY <1>1
  <2> QED BY <1>0, <1>3, <2>1 DEF WalkInvariant, StackIsChain
<1>6. EarlierDone'
  <2>1. \A m \in 1 .. n - 1 : m \in 1..n
    BY <1>1
  <2> QED BY <1>0, <1>3, <2>1 DEF WalkInvariant, EarlierDone
<1>7. DoneIsClosed'
  BY <1>3, <1>4 DEF WalkInvariant, DoneIsClosed
<1>8. BottomIsGoal'
  <2>1. CASE n = 1
    <3>1. stack' = <<>>
      BY <1>1, <2>1, SubSeqProperties DEF Return, TypeOK
    <3> QED BY <3>1 DEF BottomIsGoal, Idle
  <2>2. CASE n # 1
    <3>1. 1 \in 1 .. n - 1 /\ stack'[1] = stack[1]
      BY <1>1, <1>3, <2>2
    <3> QED BY <3>1 DEF WalkInvariant, BottomIsGoal, Idle, Goal
  <2> QED BY <2>1, <2>2
<1>9. KindsNest'
  <2>1. \A m \in 1 .. n - 1 : m \in 1..n /\ \A k \in m .. n - 1 : k \in m..n /\ k \in 1 .. n - 1
    BY <1>1
  <2> QED BY <1>0, <1>3, <2>1 DEF WalkInvariant, KindsNest
<1>10. (NothingBuilt \/ NothingToBuild)'
  <2>1. \A m \in 1 .. n - 1 : m \in 1..n
    BY <1>1
  <2>2. CASE NothingBuilt
    <3>1. T \notin BuildTarget
      BY <1>1, <2>2 DEF NothingBuilt, T
    <3>2. NothingBuilt'
      BY <1>0, <1>3, <2>1, <2>2, <3>1 DEF NothingBuilt
    <3> QED BY <3>2
  <2>3. CASE NothingToBuild
    <3> SUFFICES ASSUME NEW m \in 1 .. n - 1, NEW j \in Unvisited(m)',
                        stack[m].target \notin BuildTarget
                 PROVE  \/ Prereqs(stack[m].target)[j] \in done'
                        \/ Prereqs(stack[m].target)[j] \in PlainTarget
      BY <1>3 DEF NothingToBuild
    <3>1. /\ Len(Prereqs(stack[m].target)) \in Nat
          /\ stack[m].next \in Nat \ {0}
      BY <1>1, <2>1, PrereqsType DEF Frame
    <3>2. \/ j \in Unvisited(m)
          \/ m = n - 1 /\ j = stack[m].next
      BY <1>1, <1>3, <3>1 DEF Unvisited
    <3>3. CASE j \in Unvisited(m)
      BY <1>0, <1>3, <2>1, <2>3, <3>3 DEF NothingToBuild
    <3>4. CASE m = n - 1 /\ j = stack[m].next
      <4>1. Prereqs(stack[m].target)[j] = stack[m + 1].target
        BY <1>0, <3>4 DEF WalkInvariant, StackIsChain
      <4>2. Prereqs(stack[m].target)[j] = T
        BY <1>1, <3>4, <4>1 DEF T
      <4> QED BY <1>3, <4>2
    <3> QED BY <3>2, <3>3, <3>4
  <2> QED BY <2>2, <2>3 DEF WalkInvariant
<1>11. VisitedStampsKept'
  <2> SUFFICES ASSUME n - 1 # 0, stack[n - 1].target \in BuildTarget,
                      NEW t \in done', t[1] \in Stamps
               PROVE  t[1] \in stamps'[t[2]]
    <3>1. ~Idle' => n - 1 # 0
      BY <1>1, SubSeqProperties DEF Return, TypeOK, Idle
    <3>2. n - 1 # 0 => Top' = stack[n - 1]
      BY <1>1, <1>3 DEF Top
    <3> QED BY <3>1, <3>2 DEF VisitedStampsKept
  <2>1. T \in BuildTarget
    <3>1. n - 1 \in 1..n
      BY <1>0
    <3>2. n \in n - 1 .. n
      BY <1>0
    <3> QED BY <1>1, <3>1, <3>2 DEF WalkInvariant, KindsNest, T
  <2>2. CASE t = T
    BY <2>1, <2>2 DEF S, P, T
  <2>3. CASE t \in done
    <3>1. t[1] \in stamps[t[2]]
      BY <2>1, <2>3 DEF WalkInvariant, VisitedStampsKept, T
    <3>2. t[2] \in Pkg
      BY <2>3, StampTarget DEF TypeOK
    <3> QED BY <2>1, <3>1, <3>2 DEF T
  <2> QED BY <1>3, <2>2, <2>3
<1> QED BY <1>5, <1>6, <1>7, <1>8, <1>9, <1>10, <1>11 DEF WalkInvariant

\* The next prerequisite has been made already.
LEMMA WalkSkips ==
  ASSUME TypeOK, WalkInvariant, ~Idle, PrereqsLeft,
         Prereqs(Top.target)[Top.next] \in done,
         stack' = [stack EXCEPT ![Len(stack)].next = @ + 1],
         UNCHANGED <<done, stamps>>
  PROVE  WalkInvariant'
<1>0. PICK n \in Nat \ {0} : n = Len(stack)
  BY TopFrame
<1>1. Top = stack[n] /\ n \in 1..n /\ \A m \in 1..n : stack[m] \in Frame
  BY <1>0, TopFrame
<1>2. stack' = [stack EXCEPT ![n] = [stack[n] EXCEPT !.next = stack[n].next + 1]]
  BY <1>0
<1>3. [stack[n] EXCEPT !.next = stack[n].next + 1] \in Frame
  BY <1>1 DEF Frame
<1>4. /\ Len(stack') = n /\ \A m \in 1..n : m # n => stack'[m] = stack[m]
      /\ stack'[n] = [stack[n] EXCEPT !.next = stack[n].next + 1]
  BY <1>0, <1>1, <1>2, <1>3, ExceptSeq DEF TypeOK
<1>5. /\ \A m \in 1..n : stack'[m].target = stack[m].target
      /\ stack'[n].next = stack[n].next + 1
  BY <1>1, <1>4 DEF Frame
<1>6. /\ \A m \in 1..n : stack[m].next \in Nat \ {0}
      /\ \A m \in 1..n : Len(Prereqs(stack[m].target)) \in Nat
  BY <1>1, PrereqsType DEF Frame
<1>7. StackIsChain'
  <2>1. \A m \in 1 .. n - 1 : m \in 1..n /\ m # n /\ m + 1 \in 1..n
    OBVIOUS
  <2> QED BY <1>0, <1>4, <1>5, <2>1 DEF WalkInvariant, StackIsChain
<1>8. EarlierDone'
  <2> SUFFICES ASSUME NEW m \in 1..n, NEW j \in 1 .. stack'[m].next - 1
               PROVE  Prereqs(stack[m].target)[j] \in done
    BY <1>4, <1>5 DEF EarlierDone
  <2>1. CASE m # n
    BY <1>0, <1>4, <2>1 DEF WalkInvariant, EarlierDone
  <2>2. CASE m = n
    <3>1. j \in 1 .. stack[n].next - 1 \/ j = stack[n].next
      BY <1>5, <1>6, <2>2
    <3>2. CASE j \in 1 .. stack[n].next - 1
      BY <1>0, <2>2, <3>2 DEF WalkInvariant, EarlierDone
    <3>3. CASE j = stack[n].next
      BY <1>1, <2>2, <3>3
    <3> QED BY <3>1, <3>2, <3>3
  <2> QED BY <2>1, <2>2
<1>9. DoneIsClosed'
  BY DEF WalkInvariant, DoneIsClosed
<1>10. BottomIsGoal'
  <2>1. 1 \in 1..n /\ stack # <<>>
    BY <1>0, EmptySeq
  <2> QED BY <1>5, <2>1 DEF WalkInvariant, BottomIsGoal, Idle, Goal
<1>11. KindsNest'
  BY <1>0, <1>4, <1>5 DEF WalkInvariant, KindsNest
<1>12. (NothingBuilt \/ NothingToBuild)'
  <2>1. CASE NothingBuilt
    <3>1. NothingBuilt'
      BY <1>0, <1>4, <1>5, <2>1 DEF NothingBuilt
    <3> QED BY <3>1
  <2>2. CASE NothingToBuild
    <3>1. \A m \in 1..n : Unvisited(m)' \subseteq Unvisited(m)
      <4> TAKE m \in 1..n
      <4>1. CASE m # n
        BY <1>0, <1>4, <4>1 DEF Unvisited
      <4>2. CASE m = n
        BY <1>0, <1>4, <1>5, <1>6, <4>2 DEF Unvisited
      <4> QED BY <4>1, <4>2
    <3>2. NothingToBuild'
      BY <1>0, <1>4, <1>5, <2>2, <3>1 DEF NothingToBuild
    <3> QED BY <3>2
  <2> QED BY <2>1, <2>2 DEF WalkInvariant
<1>13. VisitedStampsKept'
  <2>1. Top'.target = Top.target
    BY <1>1, <1>4, <1>5 DEF Top
  <2> QED BY <2>1 DEF WalkInvariant, VisitedStampsKept
<1> QED BY <1>7, <1>8, <1>9, <1>10, <1>11, <1>12, <1>13 DEF WalkInvariant

\* A target that neither builds nor only removes has at most one prerequisite
\* left that may build.
LEMMA MixedFrame ==
  ASSUME NEW t \in MakeTarget \ (BuildTarget \cup PlainTarget),
         NEW i \in 1..Len(Prereqs(t)), Prereqs(t)[i] \notin PlainTarget,
         NEW j \in i + 1 .. Len(Prereqs(t))
  PROVE  Prereqs(t)[j] \in PlainTarget
<1>1. t \in MixedTarget
  BY DEF PlainTarget
<1>2. Len(Prereqs(t)) \in Nat
  BY PrereqsType
<1>3. j \in 1..Len(Prereqs(t)) /\ i < j
  BY <1>2
<1> QED BY <1>1, <1>3, MixedPrereqs

\* Make goes down to a prerequisite.
LEMMA WalkDescends ==
  ASSUME TypeOK, WalkInvariant, ~Idle, PrereqsLeft, NEW u,
         u = Prereqs(Top.target)[Top.next], u \notin done,
         stack' = Append(stack, [target |-> u, next |-> 1]),
         UNCHANGED <<done, stamps>>
  PROVE  WalkInvariant'
<1>0. PICK n \in Nat \ {0} : n = Len(stack)
  BY TopFrame
<1>1. /\ Top = stack[n] /\ n \in 1..n /\ \A m \in 1..n : stack[m] \in Frame
      /\ stack[n].target \in MakeTarget
  BY <1>0, TopFrame
<1>2. /\ \A m \in 1..n : stack[m].next \in Nat \ {0}
      /\ \A m \in 1..n : stack[m].target \in MakeTarget
      /\ \A m \in 1..n : Prereqs(stack[m].target) \in Seq(MakeTarget)
  BY <1>1, PrereqsType DEF Frame
<1>3. stack[n].next \in 1..Len(Prereqs(stack[n].target))
  BY <1>1, <1>2 DEF PrereqsLeft
<1>4. u \in MakeTarget
  BY <1>1, <1>2, <1>3, ElementOfSeq
<1>5. [target |-> u, next |-> 1] \in Frame
  BY <1>4 DEF Frame
<1>6. /\ Len(stack') = n + 1 /\ \A m \in 1..n : stack'[m] = stack[m]
      /\ stack'[n + 1] = [target |-> u, next |-> 1]
  BY <1>0, <1>5, AppendProperties DEF TypeOK
<1>7. stack'[n + 1].target = u /\ stack'[n + 1].next = 1
  BY <1>6
<1>8. 1 .. n + 1 = (1..n) \cup {n + 1}
  OBVIOUS
<1>9. /\ stack[n].target \in BuildTarget => u \in BuildTarget
      /\ stack[n].target \in PlainTarget => u \in PlainTarget
  BY <1>1, <1>3, BuildPrereqs, PlainPrereqs, ElementOfSeq
<1>10. StackIsChain'
  <2> SUFFICES ASSUME NEW m \in 1..n
               PROVE  /\ stack'[m].next <= Len(Prereqs(stack'[m].target))
                      /\ stack'[m + 1].target =
                           Prereqs(stack'[m].target)[stack'[m].next]
    BY <1>6 DEF StackIsChain
  <2>1. CASE m = n
    BY <1>1, <1>2, <1>3, <1>6, <1>7, <2>1
  <2>2. CASE m # n
    <3>1. m \in 1 .. n - 1 /\ m + 1 \in 1..n
      BY <2>2
    <3> QED BY <1>0, <1>6, <3>1 DEF WalkInvariant, StackIsChain
  <2> QED BY <2>1, <2>2
<1>11. EarlierDone'
  <2> SUFFICES ASSUME NEW m \in 1 .. n + 1, NEW j \in 1 .. stack'[m].next - 1
               PROVE  Prereqs(stack'[m].target)[j] \in done
    BY <1>6 DEF EarlierDone
  <2>1. CASE m = n + 1
    <3>1. stack'[m] = stack'[n + 1]
      BY <2>1
    <3>2. stack'[m].next = 1
      BY <1>7, <3>1
    <3>3. j \in 1 .. 1 - 1
      BY <3>2
    <3>4. 1 - 1 = 0 /\ j \notin 1..0
      OBVIOUS
    <3> QED BY <3>3, <3>4
  <2>2. CASE m \in 1..n
    BY <1>0, <1>6, <2>2 DEF WalkInvariant, EarlierDone
  <2> QED BY <1>8, <2>1, <2>2
<1>12. DoneIsClosed'
  BY DEF WalkInvariant, DoneIsClosed
<1>13. BottomIsGoal'
  <2>1. 1 \in 1..n /\ stack # <<>> /\ stack' # <<>>
    BY <1>0, <1>6, EmptySeq
  <2> QED BY <1>6, <2>1 DEF WalkInvariant, BottomIsGoal, Idle, Goal
<1>14. KindsNest'
  <2> SUFFICES ASSUME NEW m \in 1 .. n + 1, NEW k \in m .. n + 1
               PROVE  /\ stack'[m].target \in BuildTarget =>
                           stack'[k].target \in BuildTarget
                      /\ stack'[m].target \in PlainTarget =>
                           stack'[k].target \in PlainTarget
    BY <1>6 DEF KindsNest
  <2>1. CASE k \in m..n
    <3>1. m \in 1..n /\ k \in 1..n
      BY <2>1
    <3> QED BY <1>0, <1>6, <2>1, <3>1 DEF WalkInvariant, KindsNest
  <2>2. CASE k = n + 1 /\ m \in 1..n
    <3>1. n \in m..n
      BY <2>2
    <3>2. /\ stack[m].target \in BuildTarget => stack[n].target \in BuildTarget
          /\ stack[m].target \in PlainTarget => stack[n].target \in PlainTarget
      BY <1>0, <2>2, <3>1 DEF WalkInvariant, KindsNest
    <3> QED BY <1>6, <1>7, <1>9, <2>2, <3>2
  <2>3. CASE k = n + 1 /\ m = n + 1
    BY <2>3
  <2>4. \/ k \in m..n
        \/ k = n + 1 /\ m \in 1..n
        \/ k = n + 1 /\ m = n + 1
    <3>1. m \in 1..n \/ m = n + 1
      BY <1>8
    <3>2. CASE m = n + 1
      <4>1. k = n + 1
        BY <3>2
      <4> QED BY <3>2, <4>1
    <3>3. CASE m \in 1..n
      <4>1. k \in m..n \/ k = n + 1
        BY <1>0, <3>3
      <4> QED BY <3>3, <4>1
    <3> QED BY <3>1, <3>2, <3>3
  <2> QED BY <2>1, <2>2, <2>3, <2>4
<1>15. \A m \in 1..n : Unvisited(m)' = stack[m].next + 1 .. Len(Prereqs(stack[m].target))
  BY <1>6 DEF Unvisited
<1>16. (NothingBuilt \/ NothingToBuild)'
  <2>1. SUFFICES ASSUME ~NothingBuilt' PROVE NothingToBuild'
    OBVIOUS
  <2> SUFFICES ASSUME NEW m \in 1 .. n + 1, NEW j \in Unvisited(m)',
                      stack'[m].target \notin BuildTarget
               PROVE  \/ Prereqs(stack'[m].target)[j] \in done
                      \/ Prereqs(stack'[m].target)[j] \in PlainTarget
    BY <1>6 DEF NothingToBuild
  <2>2. CASE NothingToBuild
    <3>1. CASE m \in 1..n
      <4>1. j \in Unvisited(m)
        BY <1>0, <1>2, <1>15, <3>1 DEF Unvisited
      <4> QED BY <1>0, <1>6, <2>2, <3>1, <4>1 DEF NothingToBuild
    <3>2. CASE m = n + 1
      <4>1. stack[n].target \notin BuildTarget
        BY <1>7, <1>9, <3>2
      <4>2. stack[n].next \in Unvisited(n)
        BY <1>0, <1>3 DEF Unvisited
      <4>3. u \in PlainTarget
        BY <1>0, <1>1, <2>2, <4>1, <4>2 DEF NothingToBuild
      <4>4. Prereqs(u) \in Seq(PlainTarget)
        BY <4>3, PlainPrereqs
      <4>5. j \in 1..Len(Prereqs(u))
        BY <1>6, <1>7, <3>2 DEF Unvisited
      <4> QED BY <1>7, <3>2, <4>4, <4>5, ElementOfSeq
    <3> QED BY <1>8, <3>1, <3>2
  <2>3. CASE NothingBuilt
    <3>1. u \in BuildTarget
      <4>1. \A k \in 1..n : stack'[k].target \notin BuildTarget
        BY <1>0, <1>6, <2>3 DEF NothingBuilt
      <4>2. done \cap BuildTarget = {}
        BY <2>3 DEF NothingBuilt
      <4> QED BY <1>6, <1>7, <1>8, <2>1, <4>1, <4>2 DEF NothingBuilt
    <3>2. m \in 1..n
      BY <1>7, <1>8, <3>1
    <3>3. u \notin PlainTarget
      BY <3>1 DEF PlainTarget
    <3>4. stack[n].target \notin PlainTarget
      BY <1>9, <3>3
    <3>5. stack[m].target \notin PlainTarget
      <4>1. n \in m..n
        BY <3>2
      <4> QED BY <1>0, <3>2, <3>4, <4>1 DEF WalkInvariant, KindsNest
    <3>6. stack'[m + 1].target \notin PlainTarget
      <4>1. CASE m = n
        BY <1>7, <3>3, <4>1
      <4>2. CASE m # n
        <5>1. m + 1 \in 1..n /\ n \in m + 1 .. n
          BY <3>2, <4>2
        <5>2. stack[m + 1].target \notin PlainTarget
          BY <1>0, <3>4, <5>1 DEF WalkInvariant, KindsNest
        <5> QED BY <1>6, <5>1, <5>2
      <4> QED BY <4>1, <4>2
    <3>7. /\ stack[m].next <= Len(Prereqs(stack[m].target))
          /\ stack'[m + 1].target = Prereqs(stack[m].target)[stack[m].next]
      BY <1>6, <1>10, <3>2 DEF StackIsChain
    <3>8. stack[m].next \in 1..Len(Prereqs(stack[m].target))
      BY <1>2, <3>2, <3>7
    <3>9. stack[m].target \in MakeTarget \ (BuildTarget \cup PlainTarget)
      BY <1>2, <1>6, <3>2, <3>5
    <3>10. j \in stack[m].next + 1 .. Len(Prereqs(stack[m].target))
      BY <1>15, <3>2
    <3>11. Prereqs(stack[m].target)[j] \in PlainTarget
      BY <3>6, <3>7, <3>8, <3>9, <3>10, MixedFrame
    <3> QED BY <1>6, <3>2, <3>11
  <2> QED BY <2>2, <2>3 DEF WalkInvariant
<1>17. VisitedStampsKept'
  <2> SUFFICES ASSUME u \in BuildTarget, NEW t \in done, t[1] \in Stamps
               PROVE  t[1] \in stamps[t[2]]
    <3>1. Top'.target = u
      BY <1>6, <1>7 DEF Top
    <3> QED BY <3>1 DEF VisitedStampsKept
  <2>1. CASE stack[n].target \in BuildTarget
    BY <1>1, <2>1 DEF WalkInvariant, VisitedStampsKept
  <2>2. CASE stack[n].target \notin BuildTarget
    <3>1. t \in BuildTarget
      BY StampTarget DEF TypeOK
    <3>2. ~NothingBuilt
      BY <3>1 DEF NothingBuilt
    <3>3. stack[n].next \in Unvisited(n)
      BY <1>0, <1>3 DEF Unvisited
    <3>4. u \in PlainTarget
      BY <1>0, <1>1, <2>2, <3>2, <3>3 DEF WalkInvariant, NothingToBuild
    <3> QED BY <3>4 DEF PlainTarget
  <2> QED BY <2>1, <2>2
<1> QED BY <1>10, <1>11, <1>12, <1>13, <1>14, <1>16, <1>17 DEF WalkInvariant

\* An invocation that ended leaves nothing to walk.
LEMMA WalkStops ==
  ASSUME stack' = <<>>, done' = {}
  PROVE  WalkInvariant'
<1>1. Len(stack') = 0 /\ 1..0 = {} /\ 1 .. 0 - 1 = {}
  BY EmptySeq
<1>2. StackIsChain' /\ EarlierDone' /\ KindsNest'
  BY <1>1 DEF StackIsChain, EarlierDone, KindsNest
<1>3. DoneIsClosed' /\ BottomIsGoal' /\ VisitedStampsKept'
  BY DEF DoneIsClosed, BottomIsGoal, VisitedStampsKept, Idle
<1>4. NothingBuilt'
  BY <1>1 DEF NothingBuilt
<1> QED BY <1>2, <1>3, <1>4 DEF WalkInvariant

\* An invocation begins at a goal, with nothing made.
LEMMA WalkInvoke ==
  ASSUME NEW g \in Goals, Invoke(g)
  PROVE  WalkInvariant'
<1>1. /\ Len(stack') = 1 /\ stack'[1] = [target |-> g, next |-> 1]
      /\ done' = {}
  BY DEF Invoke
<1>2. stack'[1].target = g /\ stack'[1].next = 1
  BY <1>1
<1>3. 1 .. 1 - 1 = {}
  OBVIOUS
<1>4. 1..1 = {1}
  OBVIOUS
<1>5. StackIsChain'
  BY <1>1, <1>3 DEF StackIsChain
<1>6. EarlierDone'
  BY <1>1, <1>2, <1>3, <1>4 DEF EarlierDone
<1>7. DoneIsClosed' /\ VisitedStampsKept'
  BY <1>1 DEF DoneIsClosed, VisitedStampsKept
<1>8. BottomIsGoal'
  BY <1>2 DEF BottomIsGoal, Goal
<1>9. KindsNest'
  BY <1>1, <1>4 DEF KindsNest
<1>10. (NothingBuilt \/ NothingToBuild)'
  <2>1. CASE g \in BuildTarget
    BY <1>1, <1>2, <1>4, <2>1 DEF NothingToBuild
  <2>2. CASE g \notin BuildTarget
    BY <1>1, <1>2, <1>4, <2>2 DEF NothingBuilt
  <2> QED BY <2>1, <2>2
<1> QED BY <1>5, <1>6, <1>7, <1>8, <1>9, <1>10 DEF WalkInvariant

\* A step that does not move in the walk and, while make builds, loses no stamp.
LEMMA WalkSame ==
  ASSUME TypeOK, WalkInvariant, UNCHANGED <<stack, done>>,
         ~Idle /\ Top.target \in BuildTarget =>
           \A p \in Pkg : stamps[p] \subseteq stamps'[p]
  PROVE  WalkInvariant'
<1>1. VisitedStampsKept'
  <2> SUFFICES ASSUME ~Idle, Top.target \in BuildTarget,
                      NEW t \in done, t[1] \in Stamps
               PROVE  t[1] \in stamps'[t[2]]
    BY DEF VisitedStampsKept, Idle, Top
  <2>1. t[2] \in Pkg
    BY StampTarget DEF TypeOK
  <2>2. t[1] \in stamps[t[2]]
    BY DEF WalkInvariant, VisitedStampsKept
  <2> QED BY <2>1, <2>2
<1>2. /\ StackIsChain' /\ EarlierDone' /\ DoneIsClosed' /\ BottomIsGoal'
      /\ KindsNest'
  BY DEF WalkInvariant, StackIsChain, EarlierDone, DoneIsClosed, BottomIsGoal,
         KindsNest, Idle, Goal
<1>3. (NothingBuilt \/ NothingToBuild)'
  <2>1. NothingBuilt => NothingBuilt'
    BY DEF NothingBuilt
  <2>2. NothingToBuild => NothingToBuild'
    BY DEF NothingToBuild, Unvisited
  <2> QED BY <2>1, <2>2 DEF WalkInvariant
<1> QED BY <1>1, <1>2, <1>3 DEF WalkInvariant

\* A command that succeeds.
LEMMA WalkCommand ==
  ASSUME TypeOK, WalkInvariant, Current # NoCommand, Succeed,
         Top.target \in BuildTarget =>
           /\ \A p \in Pkg : stamps[p] \subseteq stamps'[p]
           /\ Current[1] = "touch" => S \in stamps'[P]
  PROVE  WalkInvariant'
<1>1. ~Idle /\ ~PrereqsLeft /\ pc \in 1..Len(Recipe(Top.target))
  BY Running
<1>2. CASE pc < Len(Recipe(Top.target))
  BY <1>2, WalkSame DEF Succeed
<1>3. CASE ~(pc < Len(Recipe(Top.target)))
  <2>1. Return
    BY <1>3 DEF Succeed
  <2>2. pc = Len(Recipe(Top.target))
    <3>1. Len(Recipe(Top.target)) \in Nat
      BY <1>1, RecipeLength, TopFrame
    <3> QED BY <1>1, <1>3, <3>1
  <2>3. Top.target \in BuildTarget => Current[1] = "touch"
    BY <2>2, BuildingCommands
  <2> QED BY <1>1, <2>1, <2>3, WalkReturns
<1> QED BY <1>2, <1>3

\* A removal never runs for a target that builds.
LEMMA RemovalsRemove ==
  ASSUME TypeOK, NEW c \in Unmaking, Runs(c)
  PROVE  Current # NoCommand /\ Top.target \notin BuildTarget
<1>1. Current # NoCommand /\ Current[1] = c
  BY DEF Runs, NoCommand, Unmaking
<1>2. c \notin Making /\ c # "touch"
  BY DEF Making, Unmaking
<1>3. pc \in 1..Len(Recipe(Top.target)) /\ Len(Recipe(Top.target)) \in Nat
  BY <1>1, Running, RecipeLength, TopFrame
<1>4. Top.target \in BuildTarget => FALSE
  <2>1. pc < Len(Recipe(Top.target)) \/ pc = Len(Recipe(Top.target))
    BY <1>3
  <2> QED BY <1>1, <1>2, <2>1, BuildingCommands
<1> QED BY <1>1, <1>4

\* Make considers a prerequisite.
LEMMA WalkConsider ==
  ASSUME TypeOK, WalkInvariant, Consider
  PROVE  WalkInvariant'
<1> DEFINE u == Prereqs(Top.target)[Top.next]
<1>1. ~Idle /\ PrereqsLeft /\ UNCHANGED <<done, stamps>>
  BY DEF Consider, package
<1>2. CASE u \in done
  <2>1. stack' = [stack EXCEPT ![Len(stack)].next = @ + 1]
    BY <1>2 DEF Consider
  <2> QED BY <1>1, <1>2, <2>1, WalkSkips
<1>3. CASE u \notin done
  <2>1. stack' = Append(stack, [target |-> u, next |-> 1])
    BY <1>3 DEF Consider
  <2> QED BY <1>1, <1>3, <2>1, WalkDescends
<1> QED BY <1>2, <1>3

\* A target that needs no command is made.
LEMMA WalkNothingToDo ==
  ASSUME TypeOK, WalkInvariant, NothingToDo
  PROVE  WalkInvariant'
<1>1. /\ ~Idle /\ ~PrereqsLeft /\ Return /\ stamps' = stamps
      /\ UpToDate(Top.target) \/ Recipe(Top.target) = <<>>
  BY DEF NothingToDo, package
<1>2. Top.target \in MakeTarget
  BY <1>1, TopFrame
<1>3. S \in Stamps => S \in stamps[P]
  <2> SUFFICES ASSUME S \in Stamps PROVE S \in stamps[P]
    OBVIOUS
  <2>1. P \in Pkg /\ Top.target = <<S, P>>
    BY <1>2, StampTarget DEF S, P
  <2>2. Recipe(Top.target) # <<>>
    BY <2>1, StampRecipe
  <2> QED BY <1>1, <2>2 DEF UpToDate, S, P
<1> QED BY <1>1, <1>3, WalkReturns

\* The commands that create: only the last, a touch, is about stamps.
LEMMA WalkMaking ==
  ASSUME TypeOK, WalkInvariant,
         Touch \/ Download \/ Extract \/ Rsync \/ ApplyPatch \/ Configure
           \/ Build \/ Install
  PROVE  WalkInvariant'
<1>1. CASE Touch
  <2>1. Runs("touch") /\ Succeed /\ stamps' = [stamps EXCEPT ![P] = @ \cup {S}]
    BY <1>1 DEF Touch
  <2>2. P \in Pkg
    BY <2>1, Touching
  <2>3. /\ \A p \in Pkg : stamps[p] \subseteq stamps'[p]
        /\ S \in stamps'[P]
    BY <2>1, <2>2 DEF TypeOK
  <2> QED BY <2>1, <2>3, WalkCommand, RunningCommand
<1>2. ASSUME NEW c \in Making, Runs(c), Succeed, stamps' = stamps
      PROVE  WalkInvariant'
  <2>1. Current # NoCommand /\ Current[1] # "touch"
    BY <1>2 DEF Runs, Making, NoCommand
  <2> QED BY <1>2, <2>1, WalkCommand
<1>3. CASE Download
  BY <1>2, <1>3 DEF Download, package, Making
<1>4. CASE Extract
  BY <1>2, <1>4 DEF Extract, Making
<1>5. CASE Rsync
  BY <1>2, <1>5 DEF Rsync, Making
<1>6. CASE ApplyPatch
  BY <1>2, <1>6 DEF ApplyPatch, Making
<1>7. CASE Configure
  BY <1>2, <1>7 DEF Configure, Making
<1>8. CASE Build
  BY <1>2, <1>8 DEF Build, Making
<1>9. CASE Install
  BY <1>2, <1>9 DEF Install, Making
<1> QED BY <1>1, <1>3, <1>4, <1>5, <1>6, <1>7, <1>8, <1>9

\* The commands that remove.
LEMMA WalkUnmaking ==
  ASSUME TypeOK, WalkInvariant,
         RmStamp \/ Uninstall \/ CleanObjects \/ RmTree \/ Wipe \/ WipeTrees
  PROVE  WalkInvariant'
<1>1. ASSUME NEW c \in Unmaking, Runs(c), Succeed
      PROVE  WalkInvariant'
  BY <1>1, RemovalsRemove, WalkCommand
<1>2. PICK c \in Unmaking : Runs(c) /\ Succeed
  <2>1. CASE RmStamp
    BY <2>1 DEF RmStamp, Unmaking
  <2>2. CASE Uninstall
    BY <2>2 DEF Uninstall, Unmaking
  <2>3. CASE CleanObjects
    BY <2>3 DEF CleanObjects, Unmaking
  <2>4. CASE RmTree
    BY <2>4 DEF RmTree, Unmaking
  <2>5. CASE Wipe
    BY <2>5 DEF Wipe, Unmaking
  <2>6. CASE WipeTrees
    BY <2>6 DEF WipeTrees, Unmaking
  <2> QED BY <2>1, <2>2, <2>3, <2>4, <2>5, <2>6
<1> QED BY <1>1, <1>2

\* What ends an invocation, and what the user does between two.
LEMMA WalkOutside ==
  ASSUME TypeOK, WalkInvariant,
         \/ PatchRefused \/ Fault
         \/ \E p \in Pkg : Edit(p)
         \/ \E p \in Pkg, s \in UserRemoves : RemoveStamp(p, s)
  PROVE  WalkInvariant'
<1>1. CASE PatchRefused \/ Fault
  <2>1. Stop
    BY <1>1 DEF PatchRefused, Fault, Interrupt, BreakStep, BreakRmTree,
                BreakWipe, BreakWipeTrees
  <2> QED BY <2>1, WalkStops DEF Stop
<1>2. ASSUME NEW p \in Pkg, Edit(p) \/ \E s \in UserRemoves : RemoveStamp(p, s)
      PROVE  WalkInvariant'
  <2>1. Idle /\ UNCHANGED <<stack, done>>
    BY <1>2 DEF Edit, RemoveStamp, make
  <2> QED BY <2>1, WalkSame
<1> QED BY <1>1, <1>2

\* make's walk keeps its invariant: the targets on the stack are a path of the
\* rules, all that a target waits for is made before it, and, while make
\* builds, no stamp that it has seen goes away.
THEOREM Walk == Spec => []WalkInvariant
<1>1. Init => WalkInvariant
  <2> SUFFICES ASSUME stack = <<>>, done = {} PROVE WalkInvariant
    BY DEF Init
  <2>1. Len(stack) = 0 /\ 1..0 = {} /\ 1 .. 0 - 1 = {}
    BY EmptySeq
  <2>2. StackIsChain /\ EarlierDone /\ KindsNest
    BY <2>1 DEF StackIsChain, EarlierDone, KindsNest
  <2>3. DoneIsClosed /\ BottomIsGoal /\ VisitedStampsKept
    BY DEF DoneIsClosed, BottomIsGoal, VisitedStampsKept, Idle
  <2>4. NothingBuilt
    BY <2>1 DEF NothingBuilt
  <2> QED BY <2>2, <2>3, <2>4 DEF WalkInvariant
<1>2. TypeOK /\ WalkInvariant /\ [Next]_vars => WalkInvariant'
  <2> SUFFICES ASSUME TypeOK, WalkInvariant, [Next]_vars PROVE WalkInvariant'
    OBVIOUS
  <2>1. ASSUME NEW g \in Goals, Invoke(g) PROVE WalkInvariant'
    BY <2>1, WalkInvoke
  <2>2. CASE Engine
    BY <2>2, WalkConsider, WalkNothingToDo, WalkMaking, WalkUnmaking,
       WalkOutside DEF Engine
  <2>3. CASE \/ Fault
             \/ \E p \in Pkg : Edit(p)
             \/ \E p \in Pkg, s \in UserRemoves : RemoveStamp(p, s)
    BY <2>3, WalkOutside
  <2>4. CASE UNCHANGED vars
    BY <2>4, WalkSame DEF vars, package, make
  <2> QED BY <2>1, <2>2, <2>3, <2>4 DEF Next
<1> QED BY <1>1, <1>2, Typing, PTL DEF Spec

-----------------------------------------------------------------------------
(* The order of the steps.                                                 *)

\* What is made has its prerequisites made.
LEMMA DoneStep ==
  ASSUME DoneIsClosed, NEW t \in done, NEW x,
         NEW j \in 1..Len(Prereqs(t)), Prereqs(t)[j] = x
  PROVE  x \in done
BY DEF DoneIsClosed

\* Both prerequisites of a target that is made are made.
LEMMA DonePair ==
  ASSUME DoneIsClosed, NEW t \in done, NEW a, NEW b, Prereqs(t) = <<a, b>>
  PROVE  a \in done /\ b \in done
<1>1. /\ 1 \in 1..Len(Prereqs(t)) /\ Prereqs(t)[1] = a
      /\ 2 \in 1..Len(Prereqs(t)) /\ Prereqs(t)[2] = b
  OBVIOUS
<1> QED BY <1>1, DoneStep

\* All three are.
LEMMA DoneTriple ==
  ASSUME DoneIsClosed, NEW t \in done, NEW a, NEW b, NEW c,
         Prereqs(t) = <<a, b, c>>
  PROVE  a \in done /\ b \in done /\ c \in done
<1>1. /\ 1 \in 1..Len(Prereqs(t)) /\ Prereqs(t)[1] = a
      /\ 2 \in 1..Len(Prereqs(t)) /\ Prereqs(t)[2] = b
      /\ 3 \in 1..Len(Prereqs(t)) /\ Prereqs(t)[3] = c
  OBVIOUS
<1> QED BY <1>1, DoneStep

\* The only one is.
LEMMA DoneSingle ==
  ASSUME DoneIsClosed, NEW t \in done, NEW a, Prereqs(t) = <<a>>
  PROVE  a \in done
<1>1. 1 \in 1..Len(Prereqs(t)) /\ Prereqs(t)[1] = a
  OBVIOUS
<1> QED BY <1>1, DoneStep

\* The sources of a package are made ready.
LEMMA DoneSources ==
  ASSUME DoneIsClosed, NEW p \in Pkg \ Override
  PROVE  /\ <<"source", p>> \in done => <<"downloaded", p>> \in done
         /\ <<"extract", p>> \in done =>
              \A s \in {"downloaded", "extracted"} : <<s, p>> \in done
         /\ <<"patch", p>> \in done => \A s \in SourceSteps(p) : <<s, p>> \in done
<1>1. /\ Prereqs(<<"source", p>>) = <<<<"downloaded", p>>>>
      /\ Prereqs(<<"extract", p>>) = <<<<"source", p>>, <<"extracted", p>>>>
      /\ Prereqs(<<"patch", p>>) = <<<<"extract", p>>, <<"patched", p>>>>
  BY SourceRules
<1>2. <<"source", p>> \in done => <<"downloaded", p>> \in done
  BY <1>1, DoneSingle
<1>3. <<"extract", p>> \in done =>
        <<"downloaded", p>> \in done /\ <<"extracted", p>> \in done
  BY <1>1, <1>2, DonePair
<1>4. <<"patch", p>> \in done =>
        <<"extract", p>> \in done /\ <<"patched", p>> \in done
  BY <1>1, DonePair
<1> QED BY <1>2, <1>3, <1>4 DEF SourceSteps

\* The dependencies of a package are made, and its override directory copied.
LEMMA DoneDepends ==
  ASSUME DoneIsClosed, NEW p \in Pkg, <<"depends", p>> \in done
  PROVE  /\ \A d \in DependsOn[p] : <<"pkg", d>> \in done
         /\ p \in Override => <<"rsynced", p>> \in done
<1>1. ASSUME NEW d \in DependsOn[p]
      PROVE  <<"pkg", d>> \in done
  <2>1. PICK i \in DOMAIN Deps[p] : d = Deps[p][i]
    BY DEF DependsOn
  <2>2. PICK j \in 1..Len(Prereqs(<<"depends", p>>)) :
          Prereqs(<<"depends", p>>)[j] = <<"pkg", d>>
    BY <2>1, DependsRule
  <2> QED BY <2>2, DoneStep
<1>2. ASSUME p \in Override
      PROVE  <<"rsynced", p>> \in done
  <2>1. PICK j \in 1..Len(Prereqs(<<"depends", p>>)) :
          Prereqs(<<"depends", p>>)[j] = <<"rsync", p>>
    BY <1>2, DependsRule
  <2>2. <<"rsync", p>> \in done
    BY <2>1, DoneStep
  <2>3. Prereqs(<<"rsync", p>>) = <<<<"rsynced", p>>>>
    BY BuildRules
  <2> QED BY <2>2, <2>3, DoneSingle
<1> QED BY <1>1, <1>2

\* All that configure waits for.
LEMMA DoneConfigure ==
  ASSUME DoneIsClosed, NEW p \in Pkg, <<"configure", p>> \in done
  PROVE  /\ <<"depends", p>> \in done
         /\ \A s \in SourceSteps(p) \cup {"configured"} : <<s, p>> \in done
<1>1. Prereqs(<<"configure", p>>) = ConfigurePrereqs(p)
  BY SourceRules
<1>2. CASE p \in Override
  <2>1. <<"depends", p>> \in done /\ <<"configured", p>> \in done
    BY <1>1, <1>2, DonePair DEF ConfigurePrereqs
  <2> QED BY <1>2, <2>1, DoneDepends DEF SourceSteps
<1>3. CASE p \notin Override
  <2>1. Prereqs(<<"configure", p>>) =
          <<<<"patch", p>>, <<"depends", p>>, <<"configured", p>>>>
    BY <1>1, <1>3 DEF ConfigurePrereqs
  <2>3. /\ <<"patch", p>> \in done /\ <<"depends", p>> \in done
        /\ <<"configured", p>> \in done
    BY <2>1, DoneTriple
  <2> QED BY <1>3, <2>3, DoneSources
<1> QED BY <1>2, <1>3

\* A package that is made has the stamps of all its installation steps.
LEMMA DonePackage ==
  ASSUME DoneIsClosed, NEW p \in Pkg, <<"pkg", p>> \in done
  PROVE  \A s \in Required(p) : <<s, p>> \in done
<1>1. <<"install", p>> \in done
  BY BuildRules, DoneSingle
<1>2. Prereqs(<<"install", p>>) = InstallPrereqs(p)
  BY InstallRules
<1>3. ASSUME NEW Q, p \in Q, NEW where, NEW s, <<where, p>> \in done,
             Prereqs(<<where, p>>) = InstallRule(Q, p, s)
      PROVE  <<s, p>> \in done
  BY <1>3, DonePair DEF InstallRule
<1>4. CASE p \in Host
  <2>1. Prereqs(<<"install", p>>) = <<<<"install-host", p>>>>
    BY <1>2, <1>4 DEF InstallPrereqs
  <2>2. <<"install-host", p>> \in done
    BY <1>1, <2>1, DoneSingle
  <2>3. <<"host_installed", p>> \in done
    BY <1>3, <2>2, InstallRules
  <2> QED BY <1>4, <2>3 DEF Required
<1>5. CASE p \notin Host
  <2>1. Prereqs(<<"install", p>>) =
          <<<<"install-staging", p>>, <<"install-target", p>>,
            <<"install-images", p>>>>
    BY <1>2, <1>5 DEF InstallPrereqs
  <2>3. /\ <<"install-staging", p>> \in done /\ <<"install-target", p>> \in done
        /\ <<"install-images", p>> \in done
    BY <1>1, <2>1, DoneTriple
  <2>4. /\ p \in Staging => <<"staging_installed", p>> \in done
        /\ p \in Target => <<"target_installed", p>> \in done
        /\ p \in Images => <<"images_installed", p>> \in done
    BY <1>3, <2>3, InstallRules
  <2> QED BY <1>5, <2>4 DEF Required
<1> QED BY <1>4, <1>5

\* Where make is at a stamp: the target below the stamp on make's stack lists
\* it, and what that target lists before it is made.
LEMMA ListedBelow ==
  ASSUME TypeOK, WalkInvariant, ~Idle, S \in Stamps
  PROVE  \E u \in MakeTarget : \E i \in 1..Len(Prereqs(u)) :
           Prereqs(u)[i] = <<S, P>> /\ Earlier(u, i) \subseteq done
<1>1. /\ S \in Stamps /\ P \in Pkg /\ Top.target = <<S, P>>
  BY TopFrame, StampTarget DEF S, P
<1>2. ~Idle
  OBVIOUS
<1>3. PICK n \in Nat \ {0} : n = Len(stack)
  BY <1>2, TopFrame
<1>4. /\ Top = stack[n] /\ \A m \in 1..n : stack[m] \in Frame
  BY <1>2, <1>3, TopFrame
<1>5. n # 1
  <2>1. SUFFICES ASSUME n = 1 PROVE FALSE
    OBVIOUS
  <2>2. <<S, P>> \in Goals
    BY <1>1, <1>2, <1>4, <2>1 DEF WalkInvariant, BottomIsGoal, Goal
  <2>3. \/ S \in BuildPhonies \cup OtherPhonies
        \/ <<S, P>> = World \/ <<S, P>> = MakeClean
    BY <2>2, ConfigAssumption
  <2>4. S \in BuildPhonies \cup OtherPhonies \cup {"all", "make-clean"}
    BY <2>3 DEF World, MakeClean
  <2> QED BY <1>1, <2>4, StampKinds DEF BuildPhonies, OtherPhonies
<1> DEFINE m == n - 1
           u == stack[m].target
           i == stack[m].next
<1>6. m \in 1 .. n - 1 /\ m \in 1..n /\ m + 1 = n
  BY <1>3, <1>5
<1> HIDE DEF m
<1>7. u \in MakeTarget /\ i \in Nat \ {0}
  BY <1>4, <1>6 DEF Frame
<1>8. Len(Prereqs(u)) \in Nat
  BY <1>7, PrereqsType
<1>9. i <= Len(Prereqs(u)) /\ Prereqs(u)[i] = <<S, P>>
  BY <1>1, <1>3, <1>4, <1>6 DEF WalkInvariant, StackIsChain
<1>10. i \in 1..Len(Prereqs(u))
  BY <1>7, <1>8, <1>9
<1>11. Earlier(u, i) \subseteq done
  BY <1>3, <1>6 DEF WalkInvariant, EarlierDone, Earlier
<1> QED BY <1>7, <1>9, <1>10, <1>11

\* What is made when make is at a stamp: the earlier steps of its package and,
\* from configuration on, the installation of the package's dependencies.
LEMMA MadeBefore ==
  ASSUME TypeOK, WalkInvariant, ~Idle, S \in Stamps
  PROVE  /\ \A s \in Before[P][S] : <<s, P>> \in done
         /\ S \in {"configured", "built"} \cup InstallStamps =>
              \A d \in DependsOn[P] : <<"pkg", d>> \in done
<1>1. S \in Stamps /\ P \in Pkg
  BY TopFrame, StampTarget DEF S, P
<1>u. PICK u \in MakeTarget : \E i \in 1..Len(Prereqs(u)) :
        Prereqs(u)[i] = <<S, P>> /\ Earlier(u, i) \subseteq done
  BY ListedBelow
<1>2. PICK i \in 1..Len(Prereqs(u)) :
        Prereqs(u)[i] = <<S, P>> /\ Earlier(u, i) \subseteq done
  BY <1>u
<1>3. DoneIsClosed
  BY DEF WalkInvariant
<1> DEFINE B(s) ==
     CASE s \in {"downloaded", "rsynced"} -> {}
       [] s = "extracted" -> {"downloaded"}
       [] s = "patched" -> {"downloaded", "extracted"}
       [] s = "configured" -> SourceSteps(P)
       [] s = "built" -> SourceSteps(P) \cup {"configured"}
       [] s \in InstallStamps -> SourceSteps(P) \cup {"configured", "built"}
<1>4. Before[P][S] = B(S)
  BY <1>1 DEF Before
<1>5. S \in {"downloaded", "extracted", "rsynced", "patched", "configured",
             "built", "staging_installed", "target_installed",
             "images_installed", "host_installed"}
  BY <1>1, StampKinds
<1>6. CASE S \in {"downloaded", "rsynced"}
  <2>1. B(S) = {}
    <3>1. S \notin InstallStamps
      BY <1>6 DEF InstallStamps
    <3> QED BY <1>6, <3>1
  <2>2. S \notin {"configured", "built"} \cup InstallStamps
    BY <1>6 DEF InstallStamps
  <2> QED BY <1>4, <2>1, <2>2
<1>7. CASE S = "extracted"
  <2>1. B(S) = {"downloaded"}
    <3>1. S \notin InstallStamps
      BY <1>7 DEF InstallStamps
    <3> QED BY <1>7, <3>1
  <2>2. S \notin {"configured", "built"} \cup InstallStamps
    BY <1>7 DEF InstallStamps
  <2>3. P \notin Override /\ <<"source", P>> \in done
    BY <1>1, <1>2, <1>7, BeforeStamp
  <2>4. <<"downloaded", P>> \in done
    BY <1>1, <1>3, <2>3, DoneSources
  <2> QED BY <1>4, <2>1, <2>2, <2>4
<1>8. CASE S = "patched"
  <2>1. B(S) = {"downloaded", "extracted"}
    <3>1. S \notin InstallStamps
      BY <1>8 DEF InstallStamps
    <3> QED BY <1>8, <3>1
  <2>2. S \notin {"configured", "built"} \cup InstallStamps
    BY <1>8 DEF InstallStamps
  <2>3. P \notin Override /\ <<"extract", P>> \in done
    BY <1>1, <1>2, <1>8, BeforeStamp
  <2>4. \A s \in {"downloaded", "extracted"} : <<s, P>> \in done
    BY <1>1, <1>3, <2>3, DoneSources
  <2> QED BY <1>4, <2>1, <2>2, <2>4
<1>9. CASE S = "configured"
  <2>1. B(S) = SourceSteps(P)
    <3>1. S \notin InstallStamps
      BY <1>9 DEF InstallStamps
    <3> QED BY <1>9, <3>1
  <2>2. /\ <<"depends", P>> \in done
        /\ P \notin Override => <<"patch", P>> \in done
    BY <1>1, <1>2, <1>9, BeforeStamp
  <2>3. \A s \in SourceSteps(P) : <<s, P>> \in done
    <3>1. CASE P \in Override
      BY <1>1, <1>3, <2>2, <3>1, DoneDepends DEF SourceSteps
    <3>2. CASE P \notin Override
      BY <1>1, <1>3, <2>2, <3>2, DoneSources
    <3> QED BY <3>1, <3>2
  <2> QED BY <1>1, <1>3, <1>4, <2>1, <2>2, <2>3, DoneDepends
<1>10. ASSUME <<"configure", P>> \in done
       PROVE  /\ \A d \in DependsOn[P] : <<"pkg", d>> \in done
              /\ \A s \in SourceSteps(P) \cup {"configured"} : <<s, P>> \in done
  BY <1>1, <1>3, <1>10, DoneConfigure, DoneDepends
<1>11. CASE S = "built"
  <2>1. B(S) = SourceSteps(P) \cup {"configured"}
    <3>1. S \notin InstallStamps
      BY <1>11 DEF InstallStamps
    <3> QED BY <1>11, <3>1
  <2>2. <<"configure", P>> \in done
    BY <1>1, <1>2, <1>11, BeforeStamp
  <2> QED BY <1>4, <1>10, <2>1, <2>2
<1>12. CASE S \in InstallStamps
  <2>1. B(S) = SourceSteps(P) \cup {"configured", "built"}
    <3>1. S \notin {"downloaded", "rsynced", "extracted", "patched",
                    "configured", "built"}
      BY <1>12 DEF InstallStamps
    <3> QED BY <1>12, <3>1
  <2>2. <<"build", P>> \in done
    BY <1>1, <1>2, <1>12, BeforeStamp
  <2>3. <<"configure", P>> \in done /\ <<"built", P>> \in done
    BY <1>1, <1>3, <2>2, BuildRules, DonePair
  <2> QED BY <1>4, <1>10, <2>1, <2>3
<1> QED BY <1>5, <1>6, <1>7, <1>8, <1>9, <1>11, <1>12 DEF InstallStamps

\* A stamp is touched on top of all that must stand before it.
LEMMA TouchFinishes ==
  ASSUME TypeOK, WalkInvariant, Touch
  PROVE  \E p \in Pkg, s \in Stamps : Order!Finish(p, s)
<1>1. Runs("touch") /\ stamps' = [stamps EXCEPT ![P] = @ \cup {S}]
  BY DEF Touch
<1>2. S \in Stamps /\ P \in Pkg /\ Top.target \in BuildTarget
  BY <1>1, Touching
<1>3. ~Idle /\ DoneIsClosed
  BY <1>1, Running, RunningCommand DEF WalkInvariant
<1>4. ASSUME NEW p \in Pkg, NEW s \in Stamps, <<s, p>> \in done
      PROVE  s \in stamps[p]
  BY <1>2, <1>3, <1>4 DEF WalkInvariant, VisitedStampsKept
<1>5. Before[P][S] \subseteq stamps[P]
  <2>1. Before[P][S] \subseteq Stamps
    BY <1>2, StampKinds DEF Before, SourceSteps, InstallStamps
  <2> QED BY <1>2, <1>3, <1>4, <2>1, MadeBefore
<1>6. S \in {"configured", "built"} \cup InstallStamps =>
        \A d \in DependsOn[P] : Required(d) \subseteq stamps[d]
  <2> SUFFICES ASSUME S \in {"configured", "built"} \cup InstallStamps,
                      NEW d \in DependsOn[P], NEW s \in Required(d)
               PROVE  s \in stamps[d]
    OBVIOUS
  <2>1. d \in Pkg
    BY <1>2, ConfigAssumption, ElementOfSeq DEF DependsOn
  <2>2. s \in Stamps
    BY DEF Required, Stamps, InstallStamps
  <2>3. <<s, d>> \in done
    BY <1>2, <1>3, <2>1, MadeBefore, DonePackage
  <2> QED BY <1>4, <2>1, <2>2, <2>3
<1>7. \A d \in DependsOn[P] :
        [p \in Pkg |-> Required(p)][d] = Required(d)
  BY <1>2, ConfigAssumption, ElementOfSeq DEF DependsOn
<1> QED BY <1>1, <1>2, <1>5, <1>6, <1>7 DEF Order!Finish, Order!Ready

\* Every other step only takes stamps away.
LEMMA OthersForget ==
  ASSUME TypeOK, [Next]_vars, ~Touch
  PROVE  \A p \in Pkg : stamps'[p] \subseteq stamps[p]
<1>1. CASE UNCHANGED stamps
  BY <1>1
<1>2. ASSUME NEW q, NEW rest, rest \subseteq stamps[q],
             stamps' = [stamps EXCEPT ![q] = rest]
      PROVE  \A p \in Pkg : stamps'[p] \subseteq stamps[p]
  BY <1>2 DEF TypeOK
<1>3. ASSUME NEW Q, RemoveTrees(Q)
      PROVE  \A p \in Pkg : stamps'[p] \subseteq stamps[p]
  BY <1>3 DEF RemoveTrees
<1>4. CASE \E g \in Goals : Invoke(g)
  BY <1>1, <1>4 DEF Invoke, package
<1>5. CASE Engine
  <2>1. CASE \/ Consider \/ NothingToDo \/ Download \/ Extract \/ Rsync
             \/ ApplyPatch \/ Configure \/ Build \/ Install \/ Uninstall
             \/ CleanObjects \/ Wipe \/ PatchRefused
    BY <1>1, <2>1 DEF Consider, NothingToDo, Download, Extract, Rsync,
         ApplyPatch, Configure, Build, Install, Uninstall, CleanObjects, Wipe,
         PatchRefused, package
  <2>2. CASE RmStamp
    BY <1>2, <2>2 DEF RmStamp
  <2>3. CASE RmTree \/ WipeTrees
    BY <1>3, <2>3 DEF RmTree, WipeTrees
  <2> QED BY <1>5, <2>1, <2>2, <2>3 DEF Engine
<1>6. CASE Fault
  <2>1. CASE Interrupt \/ BreakStep \/ BreakWipe
    BY <1>1, <2>1 DEF Interrupt, BreakStep, BreakWipe
  <2>2. CASE BreakRmTree
    BY <1>2, <2>2 DEF BreakRmTree
  <2>3. CASE BreakWipeTrees
    BY <1>3, <2>3 DEF BreakWipeTrees
  <2> QED BY <1>6, <2>1, <2>2, <2>3 DEF Fault
<1>7. ASSUME NEW p \in Pkg, Edit(p)
      PROVE  UNCHANGED stamps
  BY <1>7 DEF Edit
<1>8. ASSUME NEW p \in Pkg, NEW s \in UserRemoves, RemoveStamp(p, s)
      PROVE  \A r \in Pkg : stamps'[r] \subseteq stamps[r]
  BY <1>2, <1>8 DEF RemoveStamp
<1>9. CASE UNCHANGED vars
  BY <1>1, <1>9 DEF vars, package
<1> QED BY <1>1, <1>4, <1>5, <1>6, <1>7, <1>8, <1>9 DEF Next

\* PkgGeneric implements PkgOrder: whatever the goals, the dependencies, the
\* failures, the interruptions and the stamps removed by hand, no step of a
\* package is finished before the steps it builds upon and, from configuration
\* on, before every dependency is installed.
THEOREM Ordering == Spec => StepsInOrder
<1>1. Init => Order!Init
  BY DEF Init, Order!Init
<1>2. TypeOK /\ TypeOK' /\ WalkInvariant /\ [Next]_vars => [Order!Next]_stamps
  <2> SUFFICES ASSUME TypeOK, TypeOK', WalkInvariant, [Next]_vars
               PROVE  Order!Next
    OBVIOUS
  <2>1. CASE Touch
    BY <2>1, TouchFinishes DEF Order!Next
  <2>2. CASE ~Touch
    <3>1. \A p \in Pkg : stamps'[p] \subseteq stamps[p]
      BY <2>2, OthersForget
    <3>2. stamps' \in [Pkg -> SUBSET Stamps]
      BY DEF TypeOK
    <3> QED BY <3>1, <3>2 DEF Order!Next, Order!Forget
  <2> QED BY <2>1, <2>2
<1> QED BY <1>1, <1>2, Typing, Walk, PTL DEF Spec, StepsInOrder, Order!Spec

-----------------------------------------------------------------------------
(* When make succeeds.                                                     *)

\* A package whose installation is made, and that is installed anywhere, has
\* had its dependencies made: pkg-generic.mk:353-385.
LEMMA DoneBelow ==
  ASSUME DoneIsClosed, NEW p \in Pkg, <<"pkg", p>> \in done, Required(p) # {}
  PROVE  \A d \in DependsOn[p] : <<"pkg", d>> \in done
<1>1. SUFFICES <<"build", p>> \in done
  <2>1. ASSUME <<"build", p>> \in done
        PROVE  <<"configure", p>> \in done
    BY <2>1, BuildRules, DonePair
  <2> QED BY <1>1, <2>1, DoneConfigure, DoneDepends
<1>2. <<"install", p>> \in done /\ Prereqs(<<"install", p>>) = InstallPrereqs(p)
  BY BuildRules, InstallRules, DoneSingle
<1>3. ASSUME NEW Q, p \in Q, NEW where, NEW s, <<where, p>> \in done,
             Prereqs(<<where, p>>) = InstallRule(Q, p, s)
      PROVE  <<"build", p>> \in done
  BY <1>3, DonePair DEF InstallRule
<1>4. CASE p \in Host
  <2>1. Prereqs(<<"install", p>>) = <<<<"install-host", p>>>>
    BY <1>2, <1>4 DEF InstallPrereqs
  <2>2. <<"install-host", p>> \in done
    BY <1>2, <2>1, DoneSingle
  <2> QED BY <1>3, <2>2, InstallRules
<1>5. CASE p \notin Host
  <2>1. Prereqs(<<"install", p>>) =
          <<<<"install-staging", p>>, <<"install-target", p>>,
            <<"install-images", p>>>>
    BY <1>2, <1>5 DEF InstallPrereqs
  <2>2. /\ <<"install-staging", p>> \in done /\ <<"install-target", p>> \in done
        /\ <<"install-images", p>> \in done
    BY <1>2, <2>1, DoneTriple
  <2>3. p \in Staging \/ p \in Target \/ p \in Images
    BY <1>5 DEF Required
  <2> QED BY <1>3, <2>2, <2>3, InstallRules
<1> QED BY <1>4, <1>5

\* make succeeds by leaving its goal, having run no command for it if the goal
\* is the world.
LEMMA LeavesGoal ==
  ASSUME TypeOK, [Next]_vars, Succeeds, Goal = World
  PROVE  /\ ~Idle /\ ~PrereqsLeft /\ Top.target = World /\ Len(stack) = 1
         /\ stamps' = stamps
<1>1. ASSUME ~Idle, Return
      PROVE  Len(stack) = 1 /\ Top.target = World
  BY <1>1 DEF Return, Succeeds, Top, Goal
<1>2. CASE NothingToDo
  BY <1>1, <1>2 DEF NothingToDo, package
<1>3. ASSUME NEW c, c # "none", Runs(c), Succeed
      PROVE  FALSE
  <2>1. Current # NoCommand /\ ~Idle
    BY <1>3, RunningCommand, Running
  <2>2. Top.target = World
    BY <1>1, <1>3, <2>1 DEF Succeed, Succeeds
  <2>3. World \in BuildTarget /\ World[1] \notin Stamps
    BY StampKinds DEF BuildTarget, World
  <2> QED BY <2>1, <2>2, <2>3, BuildingCommands DEF S
<1>4. CASE \/ Touch \/ Download \/ Extract \/ Rsync \/ ApplyPatch \/ Configure
           \/ Build \/ Install \/ RmStamp \/ Uninstall \/ CleanObjects \/ RmTree
           \/ Wipe \/ WipeTrees
  BY <1>3, <1>4 DEF Touch, Download, Extract, Rsync, ApplyPatch, Configure,
       Build, Install, RmStamp, Uninstall, CleanObjects, RmTree, Wipe, WipeTrees
<1>5. CASE \/ \E g \in Goals : Invoke(g)
           \/ Consider \/ PatchRefused \/ Fault
           \/ \E p \in Pkg : Edit(p)
           \/ \E p \in Pkg, s \in UserRemoves : RemoveStamp(p, s)
           \/ UNCHANGED vars
  BY <1>5 DEF Invoke, Consider, PatchRefused, Fault, Interrupt, BreakStep,
       BreakRmTree, BreakWipe, BreakWipeTrees, Stop, Edit, RemoveStamp, vars, make,
       Succeeds
<1> QED BY <1>2, <1>4, <1>5 DEF Next, Engine

\* pkg-generic.mk:350-400, Makefile:402.  For every configuration whose packages
\* are all installed somewhere, and whatever happened before: when "make"
\* succeeds, every selected package and everything below it is installed.
THEOREM Completeness ==
  ASSUME \A p \in Pkg : Required(p) # {}
  PROVE  Spec => SuccessIsComplete
<1> DEFINE Asked ==
      {Selected[i] : i \in DOMAIN Selected}
        \cup UNION {DependsOn[q] : q \in {r \in Pkg : <<"pkg", r>> \in done}}
<1>1. ASSUME TypeOK, WalkInvariant, [Next]_vars, Succeeds, Goal = World,
             NEW p \in Pkg, p \in Asked
      PROVE  Required(p) \subseteq stamps'[p]
  <2>1. /\ ~Idle /\ ~PrereqsLeft /\ Top.target = World /\ Len(stack) = 1
        /\ stamps' = stamps
    BY <1>1, LeavesGoal
  <2>2. DoneIsClosed
    BY <1>1 DEF WalkInvariant
  <2>3. ASSUME NEW i \in DOMAIN Selected
        PROVE  <<"pkg", Selected[i]>> \in done
    <3>1. /\ Len(Selected) \in Nat /\ i \in 1..Len(Selected)
          /\ Len(Prereqs(World)) = Len(Selected)
          /\ Prereqs(World)[i] = <<"pkg", Selected[i]>>
      BY WorldRules, ConfigAssumption
    <3>2. Top = stack[1] /\ Top.next \in Nat /\ Top.next > Len(Prereqs(World))
      BY <1>1, <2>1, TopFrame, PrereqsType DEF PrereqsLeft
    <3>3. i \in 1 .. stack[1].next - 1
      BY <3>1, <3>2
    <3> QED BY <1>1, <2>1, <3>1, <3>2, <3>3 DEF WalkInvariant, EarlierDone
  <2>4. <<"pkg", p>> \in done
    BY <1>1, <2>2, <2>3, DoneBelow
  <2>5. ASSUME NEW s \in Required(p)
        PROVE  s \in stamps[p]
    <3>1. <<s, p>> \in done
      BY <2>2, <2>4, DonePackage
    <3>2. s \in Stamps /\ World \in BuildTarget
      BY DEF Required, Stamps, InstallStamps, BuildTarget
    <3> QED BY <1>1, <2>1, <3>1, <3>2 DEF WalkInvariant, VisitedStampsKept
  <2> QED BY <2>1, <2>5
<1>2. TypeOK /\ WalkInvariant /\ [Next]_vars =>
        (Succeeds /\ Goal = World =>
           \A p \in Pkg : p \in Asked => Required(p) \subseteq stamps'[p])
  BY <1>1
<1> QED BY <1>2, Typing, Walk, PTL DEF Spec, SuccessIsComplete
=============================================================================
