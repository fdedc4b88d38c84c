------------------------ MODULE PkgGenericInstalling ------------------------
(***************************************************************************)
(* What the stamps say.  Of a patched tree: theorem PatchingOnce, a tree   *)
(* stamped patched carries every patch exactly once; theorem BrokenSticks, *)
(* a tree that a patch broke is not stamped by a later run.  Of the files  *)
(* a package makes: theorem Installing, an install stamp means that the    *)
(* files are where the step puts them; theorem Configuring, a package is   *)
(* configured with its dependencies in place.                              *)
(***************************************************************************)
EXTENDS PkgGenericOrdering

\* What a patch count can be: a patch breaks a tree only if there is one.
CountInRange ==
  \A p \in Pkg : \/ applied[p] \in 0..NPatches[p]
                 \/ applied[p] = Broken /\ NPatches[p] > 0

\* A recipe half run has done what its first commands do.
Midway ==
  pc > 1 => /\ ~Idle /\ ~PrereqsLeft
            /\ S = "patched" => applied[P] = pc - 1
            /\ S = "extracted" => Whole(tree[P])

Counting == CountInRange /\ Midway

\* Only an overridden package is synchronised.
RsyncOverrides ==
  \A n \in 1..Len(stack) :
    stack[n].target \in {"rsync", "rsynced"} \X Pkg => stack[n].target[2] \in Override

OverrideUnpatched ==
  \A p \in Override : stamps[p] \cap {"extracted", "patched"} = {}

\* What the stamps of the sources say.
Stand(files, sources, count, patches) ==
  /\ "extracted" \in files => Whole(sources)
  /\ "patched" \in files => "extracted" \in files /\ count = patches

SourcesStand ==
  \A p \in Pkg \ skewed : Stand(stamps[p], tree[p], applied[p], NPatches[p])

PatchInvariant == RsyncOverrides /\ OverrideUnpatched /\ SourcesStand

-----------------------------------------------------------------------------
(* The recipes that change the sources.                                    *)

\* apply-patch 1, apply-patch 2, ..., touch: pkg-generic.mk:84-102.
LEMMA PatchRecipe ==
  ASSUME NEW p \in Pkg
  PROVE  /\ NPatches[p] \in Nat
         /\ Len(Recipe(<<"patched", p>>)) = NPatches[p] + 1
         /\ \A i \in 1..NPatches[p] :
              Recipe(<<"patched", p>>)[i] = <<"apply-patch", i>>
<1> DEFINE s == [i \in 1..NPatches[p] |-> <<"apply-patch", i>>]
           e == <<"touch", "patched">>
           X == {<<"apply-patch", i>> : i \in Nat} \cup {e}
<1>1. Recipe(<<"patched", p>>) = Append(s, e)
  BY DEF Recipe, InstallStamps, MakeClean
<1>2. NPatches[p] \in Nat
  BY ConfigAssumption
<1>3. \A i \in 1..NPatches[p] : <<"apply-patch", i>> \in X
  BY <1>2
<1>4. e \in X
  OBVIOUS
<1> HIDE DEF e, X
<1>5. s \in Seq(X) /\ Len(s) = NPatches[p]
  BY <1>2, <1>3
<1>6. \A i \in 1..NPatches[p] : s[i] = <<"apply-patch", i>>
  OBVIOUS
<1> HIDE DEF s
<1>7. /\ Len(Append(s, e)) = Len(s) + 1
      /\ \A i \in 1..Len(s) : Append(s, e)[i] = s[i]
  BY <1>4, <1>5, AppendProperties
<1> QED BY <1>1, <1>2, <1>5, <1>6, <1>7

\* The command of a stamp other than .stamp_patched.
StampCommand ==
  [k \in Stamps |->
     CASE k = "downloaded" -> "download"
       [] k = "extracted" -> "extract"
       [] k = "rsynced" -> "rsync"
       [] k = "configured" -> "configure"
       [] k = "built" -> "build"
       [] OTHER -> "install"]

\* A command that makes something is the one its target is for.
LEMMA CommandOfStamp ==
  ASSUME TypeOK, Current # NoCommand, Current[1] \in Making
  PROVE  /\ S \in Stamps /\ P \in Pkg /\ Top.target = <<S, P>>
         /\ S = "patched" => /\ Current = <<"apply-patch", pc>>
                             /\ pc \in 1..NPatches[P]
         /\ S # "patched" => Current[1] = StampCommand[S] /\ pc = 1
<1>1. /\ pc \in 1..Len(Recipe(Top.target)) /\ Top.target \in MakeTarget
      /\ Current = Recipe(Top.target)[pc]
  BY Running, TopFrame
<1>2. Top.target \in BuildTarget
  BY <1>1, OtherRecipe DEF Making, Unmaking
<1>3. S \in Stamps /\ P \in Pkg /\ Top.target = <<S, P>>
  BY <1>2, BuildingCommands
<1>4. pc # Len(Recipe(Top.target))
  BY <1>2, BuildingCommands DEF Making
<1>5. CASE S = "patched"
  <2>1. /\ NPatches[P] \in Nat /\ Len(Recipe(Top.target)) = NPatches[P] + 1
        /\ \A i \in 1..NPatches[P] :
             Recipe(Top.target)[i] = <<"apply-patch", i>>
    BY <1>3, <1>5, PatchRecipe
  <2>2. pc \in 1..NPatches[P]
    BY <1>1, <1>4, <2>1
  <2> QED BY <1>1, <1>3, <1>5, <2>1, <2>2
<1>6. CASE S # "patched"
  <2>1. S \in {"downloaded", "extracted", "rsynced", "configured", "built",
               "staging_installed", "target_installed", "images_installed",
               "host_installed"}
    BY <1>3, <1>6, StampKinds
  <2>2. Recipe(<<S, P>>) = <<<<StampCommand[S], S>>, <<"touch", S>>>>
    BY <1>3, <2>1 DEF Recipe, InstallStamps, MakeClean, StampCommand
  <2>3. Len(Recipe(Top.target)) = 2
    BY <1>3, <2>2
  <2>4. pc = 1
    BY <1>1, <1>4, <2>3
  <2> QED BY <1>1, <1>3, <1>6, <2>2, <2>4
<1> QED BY <1>3, <1>5, <1>6

\* Which target a command on the sources is for.
LEMMA SourceCommand ==
  ASSUME TypeOK
  PROVE  /\ Runs("apply-patch") => S = "patched"
         /\ Runs("extract") => S = "extracted"
         /\ Runs("rsync") => S = "rsynced"
<1>1. ASSUME NEW c \in {"apply-patch", "extract", "rsync"}, Runs(c)
      PROVE  /\ S \in Stamps
             /\ S = "patched" => c = "apply-patch"
             /\ S # "patched" => c = StampCommand[S]
  <2>1. Current # NoCommand /\ Current[1] = c
    BY <1>1, RunningCommand DEF Runs
  <2>2. Current[1] \in Making
    BY <2>1 DEF Making
  <2> QED BY <2>1, <2>2, CommandOfStamp
<1> QED BY <1>1, StampKinds DEF StampCommand

\* No recipe removes the stamps of the sources one by one.
LEMMA RemovalRecipe ==
  ASSUME NEW t \in MakeTarget \ BuildTarget, NEW i \in 1..Len(Recipe(t)),
         Recipe(t)[i][1] = "rm-stamp"
  PROVE  Recipe(t)[i][2] \notin {"extracted", "patched"}
<1> DEFINE L == {"rsynced", "configured", "built", "staging_installed",
                 "target_installed", "images_installed", "host_installed"}
           X == {c \in Unmaking \X (Stamps \cup PlainKinds \cup {"make-clean"}) :
                   c[1] = "rm-stamp" => c[2] \in L}
<1>1. \A c \in X : c[1] = "rm-stamp" => c[2] \notin {"extracted", "patched"}
  OBVIOUS
<1>2. SUFFICES Recipe(t) \in Seq(X)
  <2> HIDE DEF X
  <2>1. Recipe(t)[i] \in X
    BY <1>2, ElementOfSeq
  <2> QED BY <1>1, <2>1
<1>3. /\ \A l \in L : Rm(l) \in X
      /\ \A l \in InstallStamps : <<"wipe", l>> \in X
      /\ <<"wipe-trees", "make-clean">> \in X
      /\ <<"uninstall", "staging_installed">> \in X
      /\ <<"uninstall", "target_installed">> \in X
      /\ <<"clean", "cleaned">> \in X /\ <<"rm-tree", "dircleaned">> \in X
  BY StampKinds DEF Rm, Unmaking, PlainKinds, NeverStamped, InstallStamps
<1> HIDE DEF X
<1>4. CASE t = MakeClean
  <2>1. Recipe(t) =
          <<<<"wipe", "staging_installed">>, <<"wipe", "target_installed">>,
            <<"wipe", "images_installed">>, <<"wipe", "host_installed">>,
            <<"wipe-trees", "make-clean">>>>
    BY <1>4 DEF Recipe, MakeClean, InstallStamps
  <2> QED BY <1>3, <2>1 DEF InstallStamps
<1>5. CASE t # MakeClean
  <2>1. PICK k \in Kinds, p \in Pkg : t = <<k, p>>
    BY <1>5, TargetKinds DEF BuildTarget
  <2>2. k \in {"uninstalled", "cleaned", "dircleaned", "uninstall", "clean",
               "dirclean", "clean-for-rebuild", "rebuild",
               "clean-for-reconfigure", "reconfigure"}
    BY <2>1 DEF Kinds, NeverStamped, OtherPhonies, BuildTarget
  <2>3. CASE k = "clean-for-rebuild"
    <3> DEFINE r == <<Rm("rsynced")>>
               s == <<Rm("built"), Rm("staging_installed"),
                      Rm("target_installed"), Rm("images_installed"),
                      Rm("host_installed")>>
    <3>1. Recipe(t) = RebuildCommands(p)
      BY <2>1, <2>3 DEF Recipe, InstallStamps, MakeClean
    <3>2. r \in Seq(X) /\ s \in Seq(X)
      BY <1>3
    <3>3. RebuildCommands(p) = r \o s \/ RebuildCommands(p) = <<>> \o s
      BY DEF RebuildCommands
    <3> HIDE DEF r, s
    <3>4. r \o s \in Seq(X) /\ <<>> \o s \in Seq(X)
      BY <3>2, ConcatProperties, EmptySeq
    <3> QED BY <3>1, <3>3, <3>4
  <2>4. CASE k = "uninstalled"
    <3>1. Recipe(t) = UninstallCommands
      BY <2>1, <2>4 DEF Recipe, InstallStamps, MakeClean
    <3>2. UninstallCommands =
            <<Rm("staging_installed"), Rm("target_installed"),
              <<"uninstall", "staging_installed">>,
              <<"uninstall", "target_installed">>>>
      BY DEF UninstallCommands
    <3>3. UninstallCommands \in Seq(X)
      BY <1>3, <3>2
    <3> QED BY <3>1, <3>3
  <2>5. CASE k = "cleaned"
    <3>1. Recipe(t) = <<<<"clean", "cleaned">>, Rm("built")>>
      BY <2>1, <2>5 DEF Recipe, InstallStamps, MakeClean
    <3> QED BY <1>3, <3>1
  <2>6. CASE k = "dircleaned"
    <3>1. Recipe(t) = <<<<"rm-tree", "dircleaned">>>>
      BY <2>1, <2>6 DEF Recipe, InstallStamps, MakeClean
    <3> QED BY <1>3, <3>1
  <2>7. CASE k = "clean-for-reconfigure"
    <3>1. Recipe(t) = <<Rm("configured")>>
      BY <2>1, <2>7 DEF Recipe, InstallStamps, MakeClean
    <3> QED BY <1>3, <3>1
  <2>8. CASE k \in {"uninstall", "clean", "dirclean", "rebuild", "reconfigure"}
    <3>1. Recipe(t) = <<>>
      BY <2>1, <2>8 DEF Recipe, InstallStamps, MakeClean
    <3> QED BY <3>1, EmptySeq
  <2> QED BY <2>2, <2>3, <2>4, <2>5, <2>6, <2>7, <2>8
<1> QED BY <1>4, <1>5

\* So a removal of a stamp under way is of another one.
LEMMA RemovalsSpareSources ==
  ASSUME TypeOK, Runs("rm-stamp")
  PROVE  P \in Pkg /\ Current[2] \notin {"extracted", "patched"}
<1>1. Current # NoCommand /\ Current[1] = "rm-stamp"
  BY RunningCommand DEF Runs
<1>2. /\ pc \in 1..Len(Recipe(Top.target)) /\ Top.target \in MakeTarget
      /\ Current = Recipe(Top.target)[pc] /\ Top.target \notin BuildTarget
  BY <1>1, Running, TopFrame, RemovalsRemove DEF Unmaking
<1> QED BY <1>1, <1>2, RunsOnPackage, RemovalRecipe

-----------------------------------------------------------------------------
(* Which packages are synchronised.                                        *)

\* Rules list the rsync of overridden packages only: pkg-generic.mk:387-418.
LEMMA RsyncRules ==
  ASSUME NEW t \in MakeTarget, NEW i \in 1..Len(Prereqs(t)),
         NEW r \in {"rsync", "rsynced"}, NEW q \in Pkg,
         Prereqs(t)[i] = <<r, q>>,
         \A p \in Pkg \ Override : t # <<"rsync", p>>
  PROVE  q \in Override
<1>1. r \in {"rsync", "rsynced"}
  OBVIOUS
<1>2. t # World /\ t # MakeClean
  <2>1. ASSUME t = World PROVE <<r, q>> = <<"pkg", Selected[i]>>
    BY <2>1, WorldRules, ConfigAssumption
  <2>2. Len(Prereqs(MakeClean)) = 0
    BY WorldRules, EmptySeq
  <2> QED BY <1>1, <2>1, <2>2
<1>3. PICK k \in Kinds, p \in Pkg : t = <<k, p>>
  BY <1>2, TargetKinds
<1>4. ASSUME NEW v, Prereqs(t) = <<v>>
      PROVE  <<r, q>> = v
  BY <1>4
<1>5. ASSUME NEW v, NEW w, Prereqs(t) = <<v, w>>
      PROVE  <<r, q>> = v \/ <<r, q>> = w
  BY <1>5
<1>6. ASSUME NEW v, NEW w, NEW y, Prereqs(t) = <<v, w, y>>
      PROVE  <<r, q>> = v \/ <<r, q>> = w \/ <<r, q>> = y
  BY <1>6
<1>7. Len(Prereqs(t)) # 0
  OBVIOUS
<1>8. <<r, q>> # World
  BY <1>1 DEF World
<1>9. CASE k \in Stamps \cup NeverStamped
  BY <1>3, <1>7, <1>9, StampRules, EmptySeq
<1>10. CASE k \in OtherPhonies
  <2>1. CASE k = "clean-for-rebuild"
    BY <1>3, <1>7, <2>1, RemovalRules, EmptySeq
  <2>2. CASE k \in {"dirclean", "clean-for-reconfigure"}
    <3>1. \/ Prereqs(t) = <<<<"dircleaned", p>>>>
          \/ Prereqs(t) = <<<<"clean-for-rebuild", p>>>>
      BY <1>3, <2>2, RemovalRules
    <3> QED BY <1>1, <1>4, <3>1
  <2>3. CASE k \in {"uninstall", "clean", "rebuild", "reconfigure"}
    <3>1. CASE k \in {"uninstall", "clean"}
      <4>1. \/ Prereqs(t) = <<<<"configure", p>>, <<"uninstalled", p>>>>
            \/ Prereqs(t) = <<<<"uninstall", p>>, <<"cleaned", p>>>>
        BY <1>3, <3>1, RemovalRules
      <4> QED BY <1>1, <1>5, <4>1
    <3>2. CASE k \in {"rebuild", "reconfigure"}
      <4>1. \/ Prereqs(t) = <<<<"clean-for-rebuild", p>>, World>>
            \/ Prereqs(t) = <<<<"clean-for-reconfigure", p>>, World>>
        BY <1>3, <3>2, RemovalRules
      <4> QED BY <1>1, <1>5, <1>8, <4>1
    <3> QED BY <2>3, <3>1, <3>2
  <2> QED BY <1>10, <2>1, <2>2, <2>3 DEF OtherPhonies
<1>11. CASE k \in BuildPhonies
  <2>1. CASE k = "pkg"
    BY <1>1, <1>3, <1>4, <2>1, BuildRules
  <2>2. CASE k = "install"
    <3>1. \/ Prereqs(t) = <<<<"install-host", p>>>>
          \/ Prereqs(t) = <<<<"install-staging", p>>, <<"install-target", p>>,
                            <<"install-images", p>>>>
      BY <1>3, <2>2, InstallRules DEF InstallPrereqs
    <3> QED BY <1>1, <1>4, <1>6, <3>1
  <2>3. CASE k \in {"install-staging", "install-target", "install-images",
                    "install-host"}
    <3>1. \E s \in InstallStamps :
            \/ Prereqs(t) = <<>>
            \/ Prereqs(t) = <<<<"build", p>>, <<s, p>>>>
      BY <1>3, <2>3, InstallRules DEF InstallRule, InstallStamps
    <3>2. PICK s \in InstallStamps : Prereqs(t) = <<<<"build", p>>, <<s, p>>>>
      BY <1>7, <3>1, EmptySeq
    <3>3. <<r, q>> = <<"build", p>> \/ <<r, q>> = <<s, p>>
      BY <1>5, <3>2
    <3> QED BY <1>1, <3>3 DEF InstallStamps
  <2>4. CASE k = "build"
    <3>1. Prereqs(t) = <<<<"configure", p>>, <<"built", p>>>>
      BY <1>3, <2>4, BuildRules
    <3> QED BY <1>1, <1>5, <3>1
  <2>5. CASE k = "configure"
    <3>1. \/ Prereqs(t) = <<<<"depends", p>>, <<"configured", p>>>>
          \/ Prereqs(t) = <<<<"patch", p>>, <<"depends", p>>, <<"configured", p>>>>
          \/ Prereqs(t) = <<<<"configured", p>>, <<"depends", p>>>>
      BY <1>3, <2>5, SourceRules DEF ConfigurePrereqs
    <3> QED BY <1>1, <1>5, <1>6, <3>1
  <2>6. CASE k \in {"patch", "extract", "source"}
    <3>1. CASE p \in Override
      <4>1. Prereqs(t) = <<<<"rsync", p>>>> \/ Prereqs(t) = <<>>
        BY <1>3, <2>6, <3>1, SourceRules
      <4> QED BY <1>4, <1>7, <3>1, <4>1, EmptySeq
    <3>2. CASE p \notin Override
      <4>1. \/ Prereqs(t) = <<<<"extract", p>>, <<"patched", p>>>>
            \/ Prereqs(t) = <<<<"source", p>>, <<"extracted", p>>>>
            \/ Prereqs(t) = <<<<"downloaded", p>>>>
        BY <1>3, <2>6, <3>2, SourceRules
      <4> QED BY <1>1, <1>4, <1>5, <4>1
    <3> QED BY <3>1, <3>2
  <2>7. CASE k = "depends"
    <3>1. CASE p \in Override
      <4> DEFINE X == {<<"rsync", p>>} \cup ({"pkg"} \X Pkg)
      <4>1. Prereqs(t) \in Seq(X)
        BY <1>3, <2>7, DependsRule
      <4> HIDE DEF X
      <4>2. <<r, q>> \in X
        BY <4>1, ElementOfSeq
      <4> QED BY <1>1, <3>1, <4>2 DEF X
    <3>2. CASE p \notin Override
      <4>1. Prereqs(t) = SyncPart(p) \o DepPart(p)
        <5>1. t # World /\ t[1] = "depends" /\ t[2] = p
          BY <1>2, <1>3, <2>7
        <5> QED BY <5>1, Zenon DEF Prereqs, DepPart, SyncPart
      <4>2. r = "pkg"
        <5> DEFINE X == {"pkg"} \X Pkg
        <5>1. Deps[p] \in Seq(Pkg) /\ Len(Deps[p]) \in Nat
          BY ConfigAssumption
        <5>2. \A j \in 1..Len(Deps[p]) : <<"pkg", Deps[p][j]>> \in X
          BY <5>1, ElementOfSeq
        <5> HIDE DEF X
        <5>3. DepPart(p) \in Seq(X)
          BY <5>1, <5>2 DEF DepPart
        <5>4. SyncPart(p) = <<>> /\ <<>> \in Seq(X)
          BY <3>2, EmptySeq DEF SyncPart
        <5>5. Prereqs(t) \in Seq(X)
          BY <4>1, <5>3, <5>4, ConcatProperties
        <5>6. <<r, q>> \in X
          BY <5>5, ElementOfSeq
        <5> QED BY <5>6 DEF X
      <4> QED BY <1>1, <4>2
    <3> QED BY <3>1, <3>2
  <2>8. CASE k = "rsync"
    BY <1>3, <1>4, <2>8, BuildRules
  <2> QED BY <1>11, <2>1, <2>2, <2>3, <2>4, <2>5, <2>6, <2>7, <2>8
          DEF BuildPhonies
<1> QED BY <1>3, <1>9, <1>10, <1>11 DEF Kinds

-----------------------------------------------------------------------------
(* Counting patches.                                                       *)

\* A recipe that goes on after a command keeps the count.
LEMMA MidwayGoesOn ==
  ASSUME TypeOK, Current # NoCommand, Succeed,
         pc < Len(Recipe(Top.target)) =>
           /\ S = "patched" => applied'[P] = pc
           /\ S = "extracted" => Whole(tree'[P])
  PROVE  Midway'
<1>1. ~Idle /\ ~PrereqsLeft
  BY Running
<1>2. pc \in Nat
  BY DEF TypeOK
<1>3. CASE pc < Len(Recipe(Top.target))
  <2>1. pc' = pc + 1 /\ UNCHANGED stack
    BY <1>3 DEF Succeed
  <2>2. ~Idle' /\ ~PrereqsLeft' /\ S' = S /\ P' = P
    BY <1>1, <2>1 DEF Idle, PrereqsLeft, Top, S, P
  <2> QED BY <1>2, <1>3, <2>1, <2>2 DEF Midway, Whole
<1>4. CASE ~(pc < Len(Recipe(Top.target)))
  BY <1>4 DEF Succeed, Return, Midway
<1> QED BY <1>3, <1>4

\* Where the first command has not run yet there is nothing to keep.
LEMMA MidwayFirst == pc' = 1 => Midway'
BY DEF Midway

\* While make removes it makes no sources.
LEMMA RemovalIsOther ==
  ASSUME TypeOK, NEW c \in Unmaking, Runs(c)
  PROVE  Current # NoCommand /\ S \notin {"patched", "extracted"}
<1>1. Current # NoCommand /\ Top.target \notin BuildTarget
  BY RemovalsRemove
<1>2. Top.target \in MakeTarget
  BY <1>1, Running, TopFrame
<1> QED BY <1>1, <1>2, StampTarget, StampKinds DEF S

\* The patch under way is one of those there are.
LEMMA PatchUnderWay ==
  ASSUME TypeOK, Runs("apply-patch")
  PROVE  /\ P \in Pkg /\ S = "patched" /\ Current = <<"apply-patch", pc>>
         /\ pc \in 1..NPatches[P] /\ "patched" \notin stamps[P]
<1>1. Current # NoCommand /\ Current[1] = "apply-patch"
  BY RunningCommand DEF Runs
<1>2. S = "patched"
  BY SourceCommand
<1>3. /\ P \in Pkg /\ Top.target = <<S, P>> /\ Current = <<"apply-patch", pc>>
      /\ pc \in 1..NPatches[P]
  BY <1>1, <1>2, CommandOfStamp DEF Making
<1>4. ~UpToDate(Top.target)
  BY <1>1, Running
<1>5. "patched" \notin stamps[P]
  BY <1>2, <1>3, <1>4, StampKinds DEF UpToDate
<1> QED BY <1>2, <1>3, <1>5

\* The step that goes on counts right.
LEMMA MidwayStep ==
  ASSUME TypeOK, Midway, [Next]_vars
  PROVE  Midway'
<1>1. CASE UNCHANGED vars
  BY <1>1 DEF vars, package, make, Midway, Idle, PrereqsLeft, Top, S, P
<1>2. ASSUME NEW g \in Goals, Invoke(g)
      PROVE  Midway'
  BY <1>2, MidwayFirst DEF Invoke
<1>3. CASE Consider
  <2>1. pc' = pc /\ PrereqsLeft
    BY <1>3 DEF Consider
  <2> QED BY <2>1 DEF Midway
<1>4. CASE NothingToDo
  BY <1>4, MidwayFirst DEF NothingToDo, Return
<1>5. CASE Touch
  <2>1. Runs("touch") /\ Succeed /\ Current # NoCommand
    BY <1>5, RunningCommand DEF Touch
  <2>2. pc = Len(Recipe(Top.target)) /\ pc \in Nat
    BY <2>1, Touching DEF TypeOK
  <2> QED BY <2>1, <2>2, MidwayGoesOn
<1>6. CASE Download \/ Extract \/ Rsync \/ Configure \/ Build \/ Install
  <2>1. PICK c \in Making \ {"apply-patch"} : Runs(c) /\ Succeed
    BY <1>6 DEF Download, Extract, Rsync, Configure, Build, Install, Making
  <2>2. Current # NoCommand /\ Current[1] = c
    BY <2>1, RunningCommand DEF Runs, Making
  <2>3. S # "patched"
    BY <2>1, <2>2, CommandOfStamp
  <2>4. ASSUME S = "extracted" PROVE Whole(tree'[P])
    <3>1. P \in Pkg /\ Current[1] = "extract"
      BY <2>1, <2>2, <2>3, <2>4, CommandOfStamp, StampKinds DEF StampCommand
    <3>2. tree' = [tree EXCEPT ![P] = 1]
      BY <1>6, <3>1 DEF Download, Extract, Rsync, Configure, Build, Install, Runs
    <3> QED BY <3>1, <3>2 DEF TypeOK, Whole
  <2> QED BY <2>1, <2>2, <2>3, <2>4, MidwayGoesOn
<1>7. CASE ApplyPatch
  <2>1. Runs("apply-patch") /\ Succeed /\ Current # NoCommand
    BY <1>7, RunningCommand DEF ApplyPatch
  <2>2. P \in Pkg /\ S = "patched" /\ Current[2] = pc /\ pc \in Nat
    BY <2>1, PatchUnderWay DEF TypeOK
  <2>3. applied[P] = pc - 1 /\ applied' = [applied EXCEPT ![P] = applied[P] + 1]
    BY <1>7, <2>2 DEF ApplyPatch, PatchFits
  <2>4. applied'[P] = pc
    BY <2>2, <2>3 DEF TypeOK
  <2> QED BY <2>1, <2>2, <2>4, MidwayGoesOn
<1>8. CASE RmStamp \/ Uninstall \/ CleanObjects \/ RmTree \/ Wipe \/ WipeTrees
  <2>1. PICK c \in Unmaking : Runs(c) /\ Succeed
    BY <1>8 DEF RmStamp, Uninstall, CleanObjects, RmTree, Wipe, WipeTrees, Unmaking
  <2> QED BY <2>1, RemovalIsOther, MidwayGoesOn
<1>9. CASE PatchRefused \/ Fault
  <2>1. Stop
    BY <1>9 DEF PatchRefused, Fault, Interrupt, BreakStep, BreakRmTree,
         BreakWipe, BreakWipeTrees
  <2> QED BY <2>1, MidwayFirst DEF Stop
<1>10. ASSUME NEW p \in Pkg, Edit(p) \/ \E s \in UserRemoves : RemoveStamp(p, s)
       PROVE  Midway'
  <2>1. UNCHANGED make /\ Idle
    BY <1>10 DEF Edit, RemoveStamp
  <2> QED BY <2>1 DEF Midway, make
<1> QED BY <1>1, <1>2, <1>3, <1>4, <1>5, <1>6, <1>7, <1>8, <1>9, <1>10
        DEF Next, Engine

\* One package's count changes at most, to one in range.
LEMMA CountChanged ==
  ASSUME TypeOK, CountInRange, NEW q \in Pkg, NEW v,
         applied' = [applied EXCEPT ![q] = v],
         v \in 0..NPatches[q] \/ (v = Broken /\ NPatches[q] > 0)
  PROVE  CountInRange'
BY DEF CountInRange, TypeOK

\* No step makes a count that is no count of patches.
LEMMA CountStep ==
  ASSUME TypeOK, CountInRange, [Next]_vars
  PROVE  CountInRange'
<1>1. CASE UNCHANGED applied
  BY <1>1 DEF CountInRange
<1>2. \A p \in Pkg : NPatches[p] \in Nat
  BY ConfigAssumption
<1>3. ASSUME NEW Q, RemoveTrees(Q)
      PROVE  CountInRange'
  BY <1>2, <1>3 DEF RemoveTrees, CountInRange
<1>4. CASE Extract
  <2>1. Runs("extract") /\ applied' = [applied EXCEPT ![P] = 0]
    BY <1>4 DEF Extract
  <2>2. P \in Pkg
    BY <2>1, RunsOnPackage, RunningCommand DEF Runs
  <2>3. 0 \in 0..NPatches[P]
    BY <1>2, <2>2
  <2> QED BY <2>1, <2>2, <2>3, CountChanged
<1>5. CASE ApplyPatch
  <2>1. Runs("apply-patch")
    BY <1>5 DEF ApplyPatch
  <2>2. P \in Pkg /\ Current[2] = pc /\ pc \in 1..NPatches[P]
    BY <2>1, PatchUnderWay
  <2>3. applied[P] = pc - 1 /\ applied' = [applied EXCEPT ![P] = applied[P] + 1]
    BY <1>5, <2>2 DEF ApplyPatch, PatchFits
  <2>4. applied[P] + 1 \in 0..NPatches[P]
    BY <1>2, <2>2, <2>3
  <2> QED BY <2>2, <2>3, <2>4, CountChanged
<1>6. CASE PatchRefused \/ BreakStep
  <2>1. CASE Runs("apply-patch")
    <3>1. P \in Pkg /\ NPatches[P] > 0
      BY <1>2, <2>1, PatchUnderWay
    <3>2. applied' = [applied EXCEPT ![P] = Broken]
      BY <1>6, <2>1 DEF PatchRefused, BreakStep, Broke, Runs
    <3> QED BY <3>1, <3>2, CountChanged
  <2>2. CASE ~Runs("apply-patch")
    <3>1. applied' = [applied EXCEPT ![P] = applied[P]]
      BY <1>6, <2>2 DEF PatchRefused, BreakStep, Broke, Runs
    <3> QED BY <1>1, <3>1 DEF TypeOK
  <2> QED BY <2>1, <2>2
<1>7. CASE RmTree \/ WipeTrees \/ BreakWipeTrees
  BY <1>3, <1>7 DEF RmTree, WipeTrees, BreakWipeTrees
<1>8. CASE \/ \E g \in Goals : Invoke(g)
           \/ Consider \/ NothingToDo \/ Touch \/ Download \/ Rsync \/ Configure
           \/ Build \/ Install \/ RmStamp \/ Uninstall \/ CleanObjects \/ Wipe
           \/ Interrupt \/ BreakRmTree \/ BreakWipe
           \/ \E p \in Pkg : Edit(p)
           \/ \E p \in Pkg, s \in UserRemoves : RemoveStamp(p, s)
           \/ UNCHANGED vars
  BY <1>1, <1>8 DEF Invoke, Consider, NothingToDo, Touch, Download, Rsync,
       Configure, Build, Install, RmStamp, Uninstall, CleanObjects, Wipe,
       Interrupt, BreakRmTree, BreakWipe, Edit, RemoveStamp, vars, package
<1> QED BY <1>4, <1>5, <1>6, <1>7, <1>8 DEF Next, Engine, Fault

\* Every reachable state counts right: for any goals, and whoever removes what.
LEMMA Counts == Spec => []Counting
<1>1. Init => Counting
  <2> SUFFICES ASSUME Init PROVE Counting
    OBVIOUS
  <2>1. \A p \in Pkg : NPatches[p] \in Nat
    BY ConfigAssumption
  <2> QED BY <2>1 DEF Init, Counting, CountInRange, Midway
<1>2. TypeOK /\ Counting /\ [Next]_vars => Counting'
  BY CountStep, MidwayStep DEF Counting
<1> QED BY <1>1, <1>2, Typing, PTL DEF Spec

\* When a tree is stamped, its recipe has been run.
LEMMA TouchedSources ==
  ASSUME TypeOK, Counting, Runs("touch")
  PROVE  /\ S = "patched" => applied[P] = NPatches[P]
         /\ S = "extracted" => Whole(tree[P])
<1>1. /\ S \in Stamps /\ P \in Pkg /\ Top.target = <<S, P>>
      /\ pc = Len(Recipe(Top.target))
  BY Touching
<1>2. ASSUME S = "patched" PROVE applied[P] = NPatches[P]
  <2>1. NPatches[P] \in Nat /\ pc = NPatches[P] + 1
    BY <1>1, <1>2, PatchRecipe
  <2>2. CASE NPatches[P] = 0
    BY <1>1, <2>2 DEF Counting, CountInRange
  <2>3. CASE NPatches[P] > 0
    BY <1>2, <2>1, <2>3 DEF Counting, Midway
  <2> QED BY <2>1, <2>2, <2>3
<1>3. ASSUME S = "extracted" PROVE Whole(tree[P])
  <2>1. Recipe(<<"extracted", P>>) =
          <<<<"extract", "extracted">>, <<"touch", "extracted">>>>
    BY <1>1 DEF Recipe, InstallStamps, MakeClean
  <2>2. pc = 2
    BY <1>1, <1>3, <2>1
  <2> QED BY <1>3, <2>2 DEF Counting, Midway
<1> QED BY <1>2, <1>3

\* A tree that a patch broke: no step repairs or stamps it.
LEMMA BrokenStep ==
  ASSUME TypeOK, Counting, [Next]_vars, NEW p \in Pkg,
         applied[p] = Broken, "extracted" \in stamps[p]
  PROVE  \/ stamps'[p] = {}
         \/ /\ applied'[p] = Broken
            /\ "patched" \in stamps'[p] => "patched" \in stamps[p]
<1>1. CASE Touch
  <2>1. /\ Runs("touch") /\ stamps' = [stamps EXCEPT ![P] = @ \cup {S}]
        /\ UNCHANGED applied
    BY <1>1 DEF Touch
  <2>2. P = p => S # "patched"
    <3>1. NPatches[p] # Broken
      BY ConfigAssumption DEF Broken
    <3> QED BY <2>1, <3>1, TouchedSources
  <2> QED BY <2>1, <2>2 DEF TypeOK
<1>2. CASE ~Touch
  <2>1. stamps'[p] \subseteq stamps[p]
    BY <1>2, OthersForget
  <2>2. SUFFICES stamps'[p] = {} \/ applied'[p] = Broken
    BY <2>1
  <2>3. CASE UNCHANGED applied
    BY <2>3
  <2>4. ASSUME NEW Q, RemoveTrees(Q)
        PROVE  stamps'[p] = {} \/ applied'[p] = Broken
    BY <2>4 DEF RemoveTrees
  <2>5. CASE Extract
    <3>1. Runs("extract") /\ applied' = [applied EXCEPT ![P] = 0]
      BY <2>5 DEF Extract
    <3>2. S = "extracted" /\ ~UpToDate(Top.target) /\ ~Idle
      BY <3>1, SourceCommand, Running, RunningCommand
    <3>3. P # p
      BY <3>2, StampKinds DEF UpToDate, S, P
    <3> QED BY <3>1, <3>3 DEF TypeOK
  <2>6. CASE ApplyPatch
    <3>1. Runs("apply-patch") /\ PatchFits(P, Current[2])
      BY <2>6 DEF ApplyPatch
    <3>2. Current[2] \in Nat \ {0} /\ applied[P] = Current[2] - 1 /\ P \in Pkg
      BY <3>1, PatchUnderWay, ConfigAssumption DEF PatchFits
    <3>3. P # p
      BY <3>2 DEF Broken
    <3> QED BY <2>6, <3>2, <3>3 DEF ApplyPatch, TypeOK
  <2>7. CASE PatchRefused \/ BreakStep
    BY <2>7 DEF PatchRefused, BreakStep, Broke, TypeOK
  <2>8. CASE RmTree \/ WipeTrees \/ BreakWipeTrees
    BY <2>4, <2>8 DEF RmTree, WipeTrees, BreakWipeTrees
  <2>9. CASE \/ \E g \in Goals : Invoke(g)
             \/ Consider \/ NothingToDo \/ Download \/ Rsync \/ Configure
             \/ Build \/ Install \/ RmStamp \/ Uninstall \/ CleanObjects \/ Wipe
             \/ Interrupt \/ BreakRmTree \/ BreakWipe
             \/ \E q \in Pkg : Edit(q)
             \/ \E q \in Pkg, s \in UserRemoves : RemoveStamp(q, s)
             \/ UNCHANGED vars
    BY <2>3, <2>9 DEF Invoke, Consider, NothingToDo, Download, Rsync,
         Configure, Build, Install, RmStamp, Uninstall, CleanObjects, Wipe,
         Interrupt, BreakRmTree, BreakWipe, Edit, RemoveStamp, vars, package
  <2> QED BY <1>2, <2>5, <2>6, <2>7, <2>8, <2>9 DEF Next, Engine, Fault
<1> QED BY <1>1, <1>2

\* apply-patches.sh:86-90.  For every configuration, every goal and whatever
\* stamps the user removes: a tree that a patch broke stays broken, and no run
\* of make stamps it, until it is removed.
THEOREM BrokenSticks == Spec => BrokenPatchSticks
<1>1. TypeOK /\ Counting /\ [Next]_vars =>
        \A p \in Pkg :
          applied[p] = Broken /\ "extracted" \in stamps[p] =>
            \/ stamps'[p] = {}
            \/ /\ applied'[p] = Broken
               /\ "patched" \in stamps'[p] => "patched" \in stamps[p]
  BY BrokenStep
<1> QED BY <1>1, Typing, Counts, PTL DEF Spec, BrokenPatchSticks

-----------------------------------------------------------------------------
(* What the stamps of the sources say.  A user who removes .stamp_extracted *)
(* by hand and leaves .stamp_patched has the archive unpacked over the      *)
(* patched tree under the old stamp; and "make <pkg>-rsync" has a rule for  *)
(* overridden packages only.                                                *)

SourceGoals ==
  /\ "extracted" \notin UserRemoves
  /\ \A p \in Pkg \ Override : <<"rsync", p>> \notin Goals

\* make comes to the rsync of a package only through rules that list it.
LEMMA RsyncStep ==
  ASSUME TypeOK, SourceGoals, RsyncOverrides, [Next]_vars
  PROVE  RsyncOverrides'
<1> DEFINE Fits(t) == t \in {"rsync", "rsynced"} \X Pkg => t[2] \in Override
<1>1. CASE UNCHANGED stack
  BY <1>1 DEF RsyncOverrides
<1>2. ASSUME ~Idle, stack' = SubSeq(stack, 1, Len(stack) - 1)
      PROVE  RsyncOverrides'
  <2>0. PICK n \in Nat \ {0} : n = Len(stack)
    BY <1>2, TopFrame
  <2>1. stack' = SubSeq(stack, 1, n - 1) /\ \A m \in 1 .. n - 1 : stack[m] \in Frame
    BY <1>2, <2>0, TopFrame
  <2>2. /\ 1 .. n - 1 = 1 .. n - 1 - 1 + 1 /\ \A m \in 1 .. n - 1 : 1 + m - 1 = m
        /\ (IF 1 <= n - 1 THEN n - 1 - 1 + 1 ELSE 0) = n - 1
    BY <2>0
  <2>3. /\ Len(SubSeq(stack, 1, n - 1)) = IF 1 <= n - 1 THEN n - 1 - 1 + 1 ELSE 0
        /\ \A m \in 1 .. n - 1 - 1 + 1 :
             SubSeq(stack, 1, n - 1)[m] = stack[1 + m - 1]
    BY <2>1, <2>2, SubSeqProperties
  <2>4. Len(stack') = n - 1 /\ \A m \in 1 .. n - 1 : stack'[m] = stack[m]
    BY <2>1, <2>2, <2>3
  <2>5. 1 .. n - 1 \subseteq 1..n
    BY <2>0
  <2> QED BY <2>0, <2>4, <2>5 DEF RsyncOverrides
<1>3. ASSUME stack' = <<>>
      PROVE  RsyncOverrides'
  BY <1>3, EmptySeq DEF RsyncOverrides
<1>4. ASSUME NEW g \in Goals, Invoke(g)
      PROVE  RsyncOverrides'
  <2>1. Len(stack') = 1 /\ stack'[1].target = g
    BY <1>4 DEF Invoke
  <2>2. ASSUME NEW p \in Pkg, g = <<"rsync", p>> PROVE p \in Override
    BY <2>2 DEF SourceGoals
  <2>3. ASSUME NEW p \in Pkg PROVE g # <<"rsynced", p>>
    <3>1. g \in (BuildPhonies \cup OtherPhonies) \X Pkg \/ g = World \/ g = MakeClean
      BY ConfigAssumption
    <3>2. <<"rsynced", p>> # World /\ <<"rsynced", p>> # MakeClean
      BY DEF World, MakeClean
    <3> QED BY <3>1, <3>2 DEF BuildPhonies, OtherPhonies
  <2>4. Fits(g)
    BY <2>2, <2>3
  <2> QED BY <2>1, <2>4 DEF RsyncOverrides
<1>5. CASE Consider
  <2> DEFINE u == Prereqs(Top.target)[Top.next]
             n == Len(stack)
  <2>1. /\ ~Idle /\ n \in Nat \ {0} /\ Top = stack[n] /\ Top.target \in MakeTarget
        /\ Top.next \in Nat \ {0} /\ Top.next <= Len(Prereqs(Top.target))
    BY <1>5, TopFrame DEF Consider, PrereqsLeft
  <2>2. Fits(u)
    <3> SUFFICES ASSUME NEW r \in {"rsync", "rsynced"}, NEW q \in Pkg, u = <<r, q>>
                 PROVE  q \in Override
      OBVIOUS
    <3>1. Top.next \in 1..Len(Prereqs(Top.target))
      BY <2>1, PrereqsType
    <3>2. \A p \in Pkg \ Override : Top.target # <<"rsync", p>>
      <4>1. Fits(Top.target)
        BY <2>1 DEF RsyncOverrides
      <4> QED BY <4>1
    <3> QED BY <2>1, <3>1, <3>2, RsyncRules
  <2> HIDE DEF u
  <2>3. CASE u \in done
    <3>1. stack' = [stack EXCEPT ![n].next = @ + 1]
      BY <1>5, <2>3 DEF Consider, u
    <3>2. stack \in Seq(Frame) /\ Len(stack') = n
      BY <3>1 DEF TypeOK
    <3>3. \A m \in 1..n : stack'[m].target = stack[m].target
      BY <2>1, <3>1, <3>2, TopFrame DEF Frame
    <3> QED BY <3>2, <3>3 DEF RsyncOverrides
  <2>4. CASE u \notin done
    <3>1. stack' = Append(stack, [target |-> u, next |-> 1])
      BY <1>5, <2>4 DEF Consider, u
    <3>2. /\ Len(stack') = n + 1 /\ stack'[n + 1].target = u
          /\ \A m \in 1..n : stack'[m] = stack[m]
      BY <2>1, <3>1 DEF TypeOK
    <3>3. \A m \in 1 .. n + 1 : m = n + 1 \/ m \in 1..n
      BY <2>1
    <3> QED BY <2>2, <3>2, <3>3 DEF RsyncOverrides
  <2> QED BY <2>3, <2>4
<1>6. CASE NothingToDo
  BY <1>2, <1>6 DEF NothingToDo, Return
<1>7. ASSUME NEW c \in Making \cup Unmaking \cup {"touch"}, Runs(c), Succeed
      PROVE  RsyncOverrides'
  <2>1. ~Idle
    BY <1>7, Running, RunningCommand DEF Making, Unmaking
  <2> QED BY <1>1, <1>2, <1>7, <2>1 DEF Succeed, Return
<1>8. CASE \/ Touch \/ Download \/ Extract \/ Rsync \/ ApplyPatch \/ Configure
           \/ Build \/ Install \/ RmStamp \/ Uninstall \/ CleanObjects \/ RmTree
           \/ Wipe \/ WipeTrees
  BY <1>7, <1>8 DEF Touch, Download, Extract, Rsync, ApplyPatch, Configure,
       Build, Install, RmStamp, Uninstall, CleanObjects, RmTree, Wipe, WipeTrees,
       Making, Unmaking
<1>9. CASE PatchRefused \/ Fault
  BY <1>3, <1>9 DEF PatchRefused, Fault, Interrupt, BreakStep, BreakRmTree,
       BreakWipe, BreakWipeTrees, Stop
<1>10. CASE \/ \E p \in Pkg : Edit(p)
            \/ \E p \in Pkg, s \in UserRemoves : RemoveStamp(p, s)
            \/ UNCHANGED vars
  BY <1>1, <1>10 DEF Edit, RemoveStamp, vars, make
<1> QED BY <1>4, <1>5, <1>6, <1>8, <1>9, <1>10 DEF Next, Engine

\* A stamp of the sources is touched where its rule lists it.
LEMMA TouchedAfter ==
  ASSUME TypeOK, WalkInvariant, Runs("touch")
  PROVE  /\ S \in {"extracted", "patched"} => P \notin Override
         /\ S = "patched" => "extracted" \in stamps[P]
<1>1. S \in Stamps /\ P \in Pkg /\ Top.target \in BuildTarget
  BY Touching
<1>0. ~Idle
  BY Running, RunningCommand
<1>2. PICK u \in MakeTarget : \E i \in 1..Len(Prereqs(u)) :
        Prereqs(u)[i] = <<S, P>> /\ Earlier(u, i) \subseteq done
  BY <1>0, <1>1, ListedBelow
<1>3. S \in {"extracted", "patched"} => P \notin Override
  BY <1>1, <1>2, BeforeStamp
<1>4. ASSUME S = "patched" PROVE "extracted" \in stamps[P]
  <2>1. "extracted" \in Before[P][S]
    BY <1>1, <1>4, StampKinds DEF Before, InstallStamps
  <2>2. <<"extracted", P>> \in done
    BY <1>0, <1>1, <2>1, MadeBefore
  <2> QED BY <1>0, <1>1, <2>2, StampKinds DEF WalkInvariant, VisitedStampsKept
<1> QED BY <1>3, <1>4

\* Overridden packages have no such stamps.
LEMMA UnpatchedStep ==
  ASSUME TypeOK, WalkInvariant, OverrideUnpatched, [Next]_vars
  PROVE  OverrideUnpatched'
<1>1. Override \subseteq Pkg
  BY ConfigAssumption
<1>2. CASE Touch
  <2>1. Runs("touch") /\ stamps' = [stamps EXCEPT ![P] = @ \cup {S}]
    BY <1>2 DEF Touch
  <2>2. S \in {"extracted", "patched"} => P \notin Override
    BY <2>1, TouchedAfter
  <2> QED BY <1>1, <2>1, <2>2 DEF OverrideUnpatched, TypeOK
<1>3. CASE ~Touch
  BY <1>1, <1>3, OthersForget DEF OverrideUnpatched
<1> QED BY <1>2, <1>3

\* The sources of p after a step.
Stays(p) == Stand(stamps'[p], tree'[p], applied'[p], NPatches[p])

\* A step that changes the sources of one package only.
LEMMA StandsElsewhere ==
  ASSUME SourcesStand, NEW q \in Pkg,
         \A p \in Pkg \ {q} :
           /\ stamps'[p] = stamps[p] /\ tree'[p] = tree[p]
           /\ applied'[p] = applied[p]
           /\ p \notin skewed' => p \notin skewed,
         q \notin skewed' => Stays(q)
  PROVE  SourcesStand'
BY DEF SourcesStand, Stand, Stays

\* A step that changes no source and gives up no package.
LEMMA StandsStill ==
  ASSUME SourcesStand, skewed \subseteq skewed', UNCHANGED <<stamps, tree, applied>>
  PROVE  SourcesStand'
BY DEF SourcesStand, Stand, Stays

\* Removed trees have no stamps to stand for them.
LEMMA StandsRemoved ==
  ASSUME SourcesStand, NEW Q, RemoveTrees(Q),
         \A p \in Pkg \ Q : p \in skewed => p \in skewed'
  PROVE  SourcesStand'
BY DEF SourcesStand, Stand, Stays, RemoveTrees

\* The commands that make the sources keep their stamps true.
LEMMA SourceStep ==
  ASSUME TypeOK, WalkInvariant, Counting, PatchInvariant,
         Touch \/ Extract \/ Rsync \/ ApplyPatch \/ PatchRefused \/ BreakStep
  PROVE  SourcesStand'
<1>1. SourcesStand
  BY DEF PatchInvariant
<1>2. CASE Touch
  <2>1. /\ Runs("touch") /\ stamps' = [stamps EXCEPT ![P] = @ \cup {S}]
        /\ UNCHANGED <<tree, applied, skewed>>
    BY <1>2 DEF Touch
  <2>2. P \in Pkg
    BY <2>1, Touching
  <2>3. /\ S = "patched" => applied[P] = NPatches[P] /\ "extracted" \in stamps[P]
        /\ S = "extracted" => Whole(tree[P])
    BY <2>1, TouchedSources, TouchedAfter
  <2>4. P \notin skewed => Stays(P)
    BY <1>1, <2>1, <2>2, <2>3 DEF SourcesStand, Stand, Stays, TypeOK
  <2> QED BY <1>1, <2>1, <2>2, <2>4, StandsElsewhere DEF TypeOK
<1>3. CASE Extract
  <2>1. /\ Runs("extract") /\ tree' = [tree EXCEPT ![P] = 1]
        /\ applied' = [applied EXCEPT ![P] = 0] /\ UNCHANGED <<stamps, skewed>>
    BY <1>3 DEF Extract
  <2>2. P \in Pkg /\ S = "extracted" /\ ~UpToDate(Top.target)
    BY <2>1, RunsOnPackage, SourceCommand, Running, RunningCommand DEF Runs
  <2>3. "extracted" \notin stamps[P]
    BY <2>2, StampKinds DEF UpToDate, S, P
  <2>4. P \notin skewed => Stays(P)
    BY <1>1, <2>1, <2>2, <2>3 DEF SourcesStand, Stand, Stays
  <2> QED BY <1>1, <2>1, <2>2, <2>4, StandsElsewhere DEF TypeOK
<1>4. ASSUME Runs("rsync")
      PROVE  P \in Pkg /\ stamps[P] \cap {"extracted", "patched"} = {}
  <2>1. Current # NoCommand /\ Current[1] \in Making
    BY <1>4, RunningCommand DEF Runs, Making
  <2>2. P \in Pkg /\ Top.target = <<"rsynced", P>>
    BY <1>4, <2>1, CommandOfStamp, SourceCommand
  <2>3. ~Idle
    BY <2>1, Running
  <2>4. Len(stack) \in 1..Len(stack) /\ Top = stack[Len(stack)]
    BY <2>3, TopFrame
  <2>5. Top.target \in {"rsync", "rsynced"} \X Pkg => Top.target[2] \in Override
    BY <2>4 DEF PatchInvariant, RsyncOverrides
  <2>6. P \in Override
    BY <2>2, <2>5
  <2> QED BY <2>2, <2>6 DEF PatchInvariant, OverrideUnpatched
<1>5. CASE Rsync
  <2>1. /\ Runs("rsync") /\ tree' = [tree EXCEPT ![P] = srcdir[P]]
        /\ UNCHANGED <<stamps, applied, skewed>>
    BY <1>5 DEF Rsync
  <2>2. Stays(P)
    BY <1>4, <2>1 DEF Stand, Stays
  <2> QED BY <1>1, <1>4, <2>1, <2>2, StandsElsewhere DEF TypeOK
<1>6. ASSUME Runs("apply-patch"), NEW v, applied' = [applied EXCEPT ![P] = v],
             UNCHANGED <<stamps, tree, skewed>>
      PROVE  SourcesStand'
  <2>1. P \in Pkg /\ "patched" \notin stamps[P]
    BY <1>6, PatchUnderWay
  <2>2. P \notin skewed => Stays(P)
    BY <1>1, <1>6, <2>1 DEF SourcesStand, Stand, Stays
  <2> QED BY <1>1, <1>6, <2>1, <2>2, StandsElsewhere DEF TypeOK
<1>7. CASE ApplyPatch
  BY <1>6, <1>7 DEF ApplyPatch
<1>8. CASE PatchRefused
  BY <1>6, <1>8 DEF PatchRefused
<1>9. CASE BreakStep
  <2>1. UNCHANGED stamps /\ skewed \subseteq skewed'
    BY <1>9 DEF BreakStep
  <2>2. CASE Current[1] = "apply-patch"
    <3>1. /\ applied' = [applied EXCEPT ![P] = Broken]
          /\ tree' = [tree EXCEPT ![P] = @] /\ skewed' = skewed
      BY <1>9, <2>2 DEF BreakStep, Broke
    <3> QED BY <1>6, <2>1, <2>2, <3>1 DEF Runs, TypeOK
  <2>3. CASE Current[1] \in {"extract", "rsync"}
    <3>1. /\ applied' = [applied EXCEPT ![P] = @] /\ skewed' = skewed
          /\ tree' = [tree EXCEPT ![P] = Broken]
      BY <1>9, <2>3 DEF BreakStep, Broke
    <3>2. CASE Runs("rsync")
      <4>1. Stays(P)
        BY <1>4, <2>1, <3>2 DEF Stand, Stays
      <4> QED BY <1>1, <1>4, <2>1, <3>1, <3>2, <4>1, StandsElsewhere DEF TypeOK
    <3>3. CASE Runs("extract")
      <4>1. P \in Pkg /\ S = "extracted" /\ ~UpToDate(Top.target)
        BY <3>3, RunsOnPackage, SourceCommand, Running, RunningCommand DEF Runs
      <4>2. "extracted" \notin stamps[P]
        BY <4>1, StampKinds DEF UpToDate, S, P
      <4>3. P \notin skewed => Stays(P)
        BY <1>1, <2>1, <4>1, <4>2 DEF SourcesStand, Stand, Stays
      <4> QED BY <1>1, <2>1, <3>1, <4>1, <4>3, StandsElsewhere DEF TypeOK
    <3> QED BY <2>3, <3>2, <3>3 DEF Runs
  <2>4. CASE Current[1] \notin {"apply-patch", "extract", "rsync"}
    <3>1. tree' = [tree EXCEPT ![P] = @] /\ applied' = [applied EXCEPT ![P] = @]
      BY <1>9, <2>4 DEF BreakStep, Broke
    <3> QED BY <1>1, <2>1, <3>1, StandsStill DEF TypeOK
  <2> QED BY <2>2, <2>3, <2>4
<1> QED BY <1>2, <1>3, <1>5, <1>7, <1>8, <1>9

\* So does everything else.
LEMMA StandStep ==
  ASSUME TypeOK, WalkInvariant, Counting, PatchInvariant, SourceGoals, [Next]_vars
  PROVE  SourcesStand'
<1>1. SourcesStand
  BY DEF PatchInvariant
<1>2. CASE Touch \/ Extract \/ Rsync \/ ApplyPatch \/ PatchRefused \/ BreakStep
  BY <1>2, SourceStep
<1>3. CASE \/ \E g \in Goals : Invoke(g)
           \/ Consider \/ NothingToDo \/ Download \/ Configure \/ Build \/ Install
           \/ Uninstall \/ CleanObjects \/ Wipe \/ Interrupt \/ UNCHANGED vars
  <2>1. skewed \subseteq skewed' /\ UNCHANGED <<stamps, tree, applied>>
    BY <1>3 DEF Invoke, Consider, NothingToDo, Download, Configure, Build,
         Install, Uninstall, CleanObjects, Wipe, Interrupt, vars, package
  <2> QED BY <1>1, <2>1, StandsStill
<1>4. CASE RmStamp
  <2>1. /\ Runs("rm-stamp") /\ stamps' = [stamps EXCEPT ![P] = @ \ {Current[2]}]
        /\ skewed \subseteq skewed' /\ UNCHANGED <<tree, applied>>
    BY <1>4 DEF RmStamp
  <2>2. P \in Pkg /\ Current[2] \notin {"extracted", "patched"}
    BY <2>1, RemovalsSpareSources
  <2>3. P \notin skewed' => Stays(P)
    BY <1>1, <2>1, <2>2 DEF SourcesStand, Stand, Stays, TypeOK
  <2> QED BY <1>1, <2>1, <2>2, <2>3, StandsElsewhere DEF TypeOK
<1>5. CASE RmTree
  <2>1. RemoveTrees({P}) /\ skewed' = skewed \ {P}
    BY <1>5 DEF RmTree
  <2> QED BY <1>1, <2>1, StandsRemoved
<1>6. CASE WipeTrees
  BY <1>1, <1>6, StandsRemoved DEF WipeTrees
<1>7. CASE BreakRmTree
  <2>1. Runs("rm-tree") /\ skewed' = skewed \cup {P} /\ UNCHANGED applied
    BY <1>7 DEF BreakRmTree
  <2>2. P \in Pkg
    BY <2>1, RunsOnPackage, RunningCommand DEF Runs
  <2>3. \A p \in Pkg \ {P} : stamps'[p] = stamps[p] /\ tree'[p] = tree[p]
    BY <1>7 DEF BreakRmTree, Broke, TypeOK
  <2> QED BY <1>1, <2>1, <2>2, <2>3, StandsElsewhere
<1>8. CASE BreakWipe
  BY <1>8 DEF BreakWipe, SourcesStand
<1>9. CASE BreakWipeTrees
  <2>1. PICK Q \in SUBSET Pkg : RemoveTrees(Q) /\ skewed' = Pkg \ Q
    BY <1>9 DEF BreakWipeTrees
  <2> QED BY <1>1, <2>1, StandsRemoved
<1>10. ASSUME NEW p \in Pkg, Edit(p)
       PROVE  SourcesStand'
  <2>1. UNCHANGED <<stamps, applied, skewed>>
    BY <1>10 DEF Edit
  <2>2. CASE p \in Override
    BY <1>1, <1>10, <2>1, <2>2, StandsStill DEF Edit
  <2>3. CASE p \notin Override
    <3>1. Whole(tree[p]) /\ tree' = [tree EXCEPT ![p] = @ + 1]
      BY <1>10, <2>3 DEF Edit, Sound
    <3>2. tree[p] + 1 > 0
      <4>1. tree[p] \in Nat \cup {-1}
        BY DEF TypeOK, Version, Broken
      <4> QED BY <3>1, <4>1 DEF Whole
    <3>3. p \notin skewed => Stays(p)
      BY <1>1, <2>1, <3>1, <3>2 DEF SourcesStand, Stand, Stays, Whole, TypeOK
    <3> QED BY <1>1, <2>1, <3>1, <3>3, StandsElsewhere DEF TypeOK
  <2> QED BY <2>2, <2>3
<1>11. ASSUME NEW p \in Pkg, NEW s \in UserRemoves, RemoveStamp(p, s)
       PROVE  SourcesStand'
  <2>1. /\ stamps' = [stamps EXCEPT ![p] = @ \ {s}]
        /\ UNCHANGED <<tree, applied, skewed>>
    BY <1>11 DEF RemoveStamp
  <2>2. s # "extracted"
    BY DEF SourceGoals
  <2>3. p \notin skewed => Stays(p)
    BY <1>1, <2>1, <2>2 DEF SourcesStand, Stand, Stays, TypeOK
  <2> QED BY <1>1, <2>1, <2>3, StandsElsewhere DEF TypeOK
<1> QED BY <1>2, <1>3, <1>4, <1>5, <1>6, <1>7, <1>8, <1>9, <1>10, <1>11
        DEF Next, Engine, Fault

\* At first there are no sources.
LEMMA InitialSources == Init => PatchInvariant
<1> SUFFICES ASSUME Init PROVE PatchInvariant
  OBVIOUS
<1>1. Len(stack) = 0
  BY EmptySeq DEF Init
<1>2. Override \subseteq Pkg
  BY ConfigAssumption
<1> QED BY <1>1, <1>2 DEF Init, PatchInvariant, RsyncOverrides,
        OverrideUnpatched, SourcesStand, Stand

\* Every step keeps the stamps of the sources true.
LEMMA PatchStep ==
  ASSUME TypeOK, WalkInvariant, Counting, PatchInvariant, SourceGoals, [Next]_vars
  PROVE  PatchInvariant'
<1>1. RsyncOverrides'
  BY RsyncStep DEF PatchInvariant
<1>2. OverrideUnpatched'
  BY UnpatchedStep DEF PatchInvariant
<1> QED BY <1>1, <1>2, StandStep DEF PatchInvariant

\* pkg-generic.mk:84-102.  For every configuration and whatever failed, was
\* interrupted and was run again before: a tree stamped patched carries every
\* patch exactly once, unless a removal of the package was cut short.
THEOREM PatchingOnce ==
  ASSUME SourceGoals
  PROVE  Spec => []PatchedOnce
<1>1. TypeOK /\ WalkInvariant /\ Counting /\ PatchInvariant /\ [Next]_vars
      => PatchInvariant'
  BY PatchStep
<1>2. PatchInvariant => PatchedOnce
  BY DEF PatchInvariant, SourcesStand, Stand, PatchedOnce
<1> QED BY <1>1, <1>2, InitialSources, Typing, Walk, Counts, PTL DEF Spec

-----------------------------------------------------------------------------
(* What the stamps say of the files a package makes.                       *)

\* What the command of stamp k has made of the files of p, on whole input.
Produced(k, p) ==
  /\ k = "rsynced" => tree[p] = srcdir[p]
  /\ k = "configured" => (Sound(p) => conf[p] = tree[p])
  /\ k = "built" =>
       (Sound(p) /\ Whole(conf[p]) => obj[p] = [src |-> tree[p], cfg |-> conf[p]])
  /\ k \in InstallStamps => (Whole(obj[p].src) => inst[p][k] = obj[p].src)

\* The stamps that the first n commands of t's recipe remove are gone.
Gone(t, n) ==
  \A i \in 1..n :
    Recipe(t)[i][1] = "rm-stamp" => Recipe(t)[i][2] \notin stamps[t[2]]

\* What the first n - 1 commands of the recipe of <<k, p>> have brought about.
HalfRun(k, p, n) ==
  /\ Produced(k, p)
  /\ <<k, p>> \notin BuildTarget => Gone(<<k, p>>, n - 1)

RecipeHalfRun == pc > 1 => HalfRun(S, P, pc)

\* Two removals take the files away before the stamps.
Cleaning(p) == pc > 1 /\ Top.target = <<"cleaned", p>>
Wiping      == pc > 1 /\ Top.target = MakeClean

\* A stamp stands for its files: the step is sound if its input is, and the
\* stamp of the input is there when the step is run.
FilesOf(p) ==
  /\ p \in Override /\ "rsynced" \in stamps[p] => Whole(tree[p])
  /\ "configured" \in stamps[p] => Whole(conf[p])
  /\ "built" \in stamps[p] /\ ~Cleaning(p) => Whole(obj[p].src)
  /\ ~Wiping => \A s \in stamps[p] \cap InstallStamps : Whole(inst[p][s])

FilesStand == \A p \in Pkg \ skewed : FilesOf(p)

InstallInvariant == RecipeHalfRun /\ FilesStand

-----------------------------------------------------------------------------
(* Which command is whose.                                                 *)

\* Command i of a removal t is c.
RemovalRuns(t, i, c) ==
  \/ /\ t = MakeClean
     /\ \/ c[1] = "wipe" /\ i < Len(Recipe(t))
        \/ c[1] = "wipe-trees"
  \/ /\ t[2] \in Pkg
     /\ \/ /\ t = <<"cleaned", t[2]>>
           /\ \/ c[1] = "clean" /\ i = 1 /\ Len(Recipe(t)) = 2
              \/ c = Rm("built") /\ i = 2
        \/ /\ t = <<"uninstalled", t[2]>> /\ c = UninstallCommands[i]
           /\ i \in 1..4 /\ Len(Recipe(t)) = 4
        \/ t = <<"dircleaned", t[2]>> /\ c[1] = "rm-tree"
        \/ /\ t \in {"clean-for-rebuild", "clean-for-reconfigure"} \X {t[2]}
           /\ c[1] = "rm-stamp"

\* The commands of the recipes that remove: pkg-generic.mk:165-184, 430-443.
LEMMA RemovalCommands ==
  ASSUME NEW t \in MakeTarget \ BuildTarget, NEW i \in 1..Len(Recipe(t))
  PROVE  RemovalRuns(t, i, Recipe(t)[i])
<1> DEFINE c == Recipe(t)[i]
<1>1. CASE t = MakeClean
  <2>1. Recipe(t) =
          <<<<"wipe", "staging_installed">>, <<"wipe", "target_installed">>,
            <<"wipe", "images_installed">>, <<"wipe", "host_installed">>,
            <<"wipe-trees", "make-clean">>>>
    BY <1>1 DEF Recipe, MakeClean, InstallStamps
  <2> DEFINE r == Recipe(t)
  <2>2. /\ Len(r) = 5 /\ r[5] = <<"wipe-trees", "make-clean">>
        /\ r[1] = <<"wipe", "staging_installed">>
        /\ r[2] = <<"wipe", "target_installed">>
        /\ r[3] = <<"wipe", "images_installed">>
        /\ r[4] = <<"wipe", "host_installed">>
    BY <2>1
  <2> HIDE DEF r
  <2>3. i \in 1..5 /\ c = r[i]
    BY <2>2 DEF r
  <2>4. i = 5 => c[1] = "wipe-trees"
    BY <2>2, <2>3
  <2>5. i \in 1..4 => c[1] = "wipe"
    BY <2>2, <2>3
  <2>6. i = 5 \/ i \in 1..4
    BY <2>3
  <2> QED BY <1>1, <2>2, <2>4, <2>5, <2>6 DEF r, RemovalRuns
<1>2. CASE t # MakeClean
  <2>1. PICK k \in Kinds, p \in Pkg : t = <<k, p>>
    BY <1>2, TargetKinds DEF BuildTarget
  <2>2. t[2] = p
    BY <2>1
  <2>3. k \in {"uninstalled", "cleaned", "dircleaned", "uninstall", "clean",
               "dirclean", "clean-for-rebuild", "rebuild",
               "clean-for-reconfigure", "reconfigure"}
    BY <2>1 DEF Kinds, NeverStamped, OtherPhonies, BuildTarget
  <2>4. CASE k = "cleaned"
    <3>1. Recipe(t) = <<<<"clean", "cleaned">>, Rm("built")>>
      BY <2>1, <2>4 DEF Recipe, InstallStamps, MakeClean
    <3>2. Len(Recipe(t)) = 2 /\ i \in 1..2
      BY <3>1
    <3> QED BY <2>1, <2>2, <2>4, <3>1, <3>2 DEF RemovalRuns
  <2>5. CASE k = "uninstalled"
    <3>1. Recipe(t) = UninstallCommands
      BY <2>1, <2>5 DEF Recipe, InstallStamps, MakeClean
    <3>2. Len(Recipe(t)) = 4
      BY <3>1 DEF UninstallCommands
    <3> QED BY <2>1, <2>2, <2>5, <3>1, <3>2 DEF RemovalRuns
  <2>6. CASE k = "dircleaned"
    <3>1. Recipe(t) = <<<<"rm-tree", "dircleaned">>>>
      BY <2>1, <2>6 DEF Recipe, InstallStamps, MakeClean
    <3> QED BY <2>1, <2>2, <2>6, <3>1 DEF RemovalRuns
  <2>7. CASE k = "clean-for-reconfigure"
    <3>1. Recipe(t) = <<Rm("configured")>>
      BY <2>1, <2>7 DEF Recipe, InstallStamps, MakeClean
    <3>2. c = Rm("configured")
      BY <3>1
    <3> QED BY <2>1, <2>2, <2>7, <3>2 DEF Rm, RemovalRuns
  <2>8. CASE k = "clean-for-rebuild"
    <3> DEFINE r == <<Rm("rsynced")>>
               s == <<Rm("built"), Rm("staging_installed"),
                      Rm("target_installed"), Rm("images_installed"),
                      Rm("host_installed")>>
               X == {"rm-stamp"} \X Stamps
    <3>1. \A x \in X : x[1] = "rm-stamp"
      OBVIOUS
    <3>2. \A l \in {"rsynced", "built", "staging_installed",
                    "target_installed", "images_installed", "host_installed"} :
            Rm(l) \in X
      BY StampKinds DEF Rm
    <3> HIDE DEF X
    <3>3. r \in Seq(X) /\ s \in Seq(X)
      BY <3>2
    <3>4. Recipe(t) = r \o s \/ Recipe(t) = <<>> \o s
      BY <2>1, <2>8 DEF Recipe, InstallStamps, MakeClean, RebuildCommands
    <3> HIDE DEF r, s
    <3>5. r \o s \in Seq(X) /\ <<>> \o s \in Seq(X)
      BY <3>3, ConcatProperties, EmptySeq
    <3>6. Recipe(t) \in Seq(X)
      BY <3>4, <3>5
    <3>7. c \in X
      BY <3>6, ElementOfSeq
    <3> QED BY <2>1, <2>2, <2>8, <3>1, <3>7 DEF RemovalRuns
  <2>9. CASE k \in {"uninstall", "clean", "dirclean", "rebuild", "reconfigure"}
    <3>1. Recipe(t) = <<>>
      BY <2>1, <2>9 DEF Recipe, InstallStamps, MakeClean
    <3>2. Len(Recipe(t)) = 0
      BY <3>1, EmptySeq
    <3> QED BY <3>2
  <2> QED BY <2>3, <2>4, <2>5, <2>6, <2>7, <2>8, <2>9
<1> QED BY <1>1, <1>2

\* And the one that runs.
LEMMA RemovalCommand ==
  ASSUME TypeOK, Current # NoCommand, Top.target \notin BuildTarget
  PROVE  RemovalRuns(Top.target, pc, Current)
<1>1. /\ pc \in 1..Len(Recipe(Top.target)) /\ Top.target \in MakeTarget \ BuildTarget
      /\ Current = Recipe(Top.target)[pc]
  BY Running, TopFrame
<1> QED BY <1>1, RemovalCommands

\* The target each command that changes a file is for.
LEMMA MakingCommand ==
  ASSUME TypeOK, NEW c \in Making, Runs(c)
  PROVE  /\ Current # NoCommand /\ ~Idle
         /\ S \in Stamps /\ P \in Pkg /\ Top.target = <<S, P>>
         /\ S \notin stamps[P]
         /\ c = "rsync" => S = "rsynced"
         /\ c = "configure" => S = "configured"
         /\ c = "build" => S = "built"
         /\ c = "install" => S \in InstallStamps
         /\ c = "extract" => S = "extracted"
         /\ c = "download" => S = "downloaded"
         /\ c = "apply-patch" => S = "patched"
<1>1. Current # NoCommand /\ Current[1] = c
  BY RunningCommand DEF Runs, Making
<1>2. S \in Stamps /\ P \in Pkg /\ Top.target = <<S, P>>
  BY <1>1, CommandOfStamp
<1>3. ~Idle /\ ~UpToDate(Top.target)
  BY <1>1, Running
<1>4. S \notin stamps[P]
  BY <1>2, <1>3 DEF UpToDate
<1>5. S = "patched" => c = "apply-patch"
  <2> SUFFICES ASSUME S = "patched" PROVE c = "apply-patch"
    OBVIOUS
  <2>1. Current = <<"apply-patch", pc>>
    BY <1>1, CommandOfStamp
  <2> QED BY <1>1, <2>1
<1>6. S # "patched" => c = StampCommand[S]
  BY <1>1, CommandOfStamp
<1>7. S \in {"downloaded", "extracted", "rsynced", "patched", "configured",
             "built", "staging_installed", "target_installed",
             "images_installed", "host_installed"}
  BY <1>2, StampKinds
<1>8. /\ StampCommand["downloaded"] = "download"
      /\ StampCommand["extracted"] = "extract"
      /\ StampCommand["rsynced"] = "rsync"
      /\ StampCommand["configured"] = "configure"
      /\ StampCommand["built"] = "build"
      /\ \A s \in InstallStamps : StampCommand[s] = "install"
  BY StampKinds DEF StampCommand, InstallStamps
<1>9. S \in InstallStamps \/ S \in {"downloaded", "extracted", "rsynced",
                                  "patched", "configured", "built"}
  BY <1>7 DEF InstallStamps
<1> HIDE DEF StampCommand
<1> QED BY <1>1, <1>2, <1>3, <1>4, <1>5, <1>6, <1>8, <1>9

\* While make builds, it neither cleans nor wipes.
LEMMA BuildingIsNoRemoval ==
  ASSUME S \in Stamps
  PROVE  ~Wiping /\ \A p \in Pkg : ~Cleaning(p)
<1>1. ASSUME Wiping PROVE S = "make-clean"
  <2>1. Top.target = MakeClean
    BY <1>1 DEF Wiping
  <2>2. MakeClean[1] = "make-clean"
    BY DEF MakeClean
  <2> QED BY <2>1, <2>2 DEF S
<1>2. ASSUME NEW p \in Pkg, Cleaning(p) PROVE S = "cleaned"
  BY <1>2 DEF Cleaning, S
<1> QED BY <1>1, <1>2, StampKinds

-----------------------------------------------------------------------------
(* Recipes half run.                                                       *)

\* A recipe that goes on after a command has run that command too.
LEMMA RecipeGoesOn ==
  ASSUME TypeOK, Current # NoCommand, Succeed, NEW k, NEW p, NEW n,
         k = S, p = P, n = pc + 1,
         n <= Len(Recipe(Top.target)) => HalfRun(k, p, n)'
  PROVE  RecipeHalfRun'
<1>1. pc \in Nat /\ Len(Recipe(Top.target)) \in Nat
  BY Running, TopFrame, RecipeLength DEF TypeOK
<1>2. CASE pc < Len(Recipe(Top.target))
  <2>1. pc' = n /\ UNCHANGED stack
    BY <1>2 DEF Succeed
  <2>2. S' = k /\ P' = p
    BY <2>1 DEF S, P, Top
  <2>3. HalfRun(k, p, n)'
    BY <1>1, <1>2
  <2> QED BY <2>1, <2>2, <2>3 DEF RecipeHalfRun, HalfRun, Produced, Gone
<1>3. CASE ~(pc < Len(Recipe(Top.target)))
  BY <1>3 DEF Succeed, Return, RecipeHalfRun
<1> QED BY <1>2, <1>3

\* The commands that make something.
LEMMA MakingHalfRun ==
  ASSUME TypeOK,
         Download \/ Extract \/ Rsync \/ ApplyPatch \/ Configure \/ Build \/ Install
  PROVE  RecipeHalfRun'
<1> PICK k, p, n : k = S /\ p = P /\ n = pc + 1
  OBVIOUS
<1>1. ASSUME NEW c \in Making, Runs(c), Succeed, Produced(k, p)'
      PROVE  RecipeHalfRun'
  <2>1. Current # NoCommand /\ <<k, p>> \in BuildTarget
    BY <1>1, MakingCommand DEF BuildTarget
  <2> QED BY <1>1, <2>1, RecipeGoesOn DEF HalfRun
<1>2. InstallStamps \cap {"downloaded", "extracted", "rsynced", "patched",
                         "configured", "built"} = {}
  BY DEF InstallStamps
<1>3. CASE Download
  <2>1. k = "downloaded"
    BY <1>3, MakingCommand DEF Download, Making
  <2> QED BY <1>1, <1>2, <1>3, <2>1 DEF Download, Making, Produced
<1>4. CASE Extract
  <2>1. k = "extracted"
    BY <1>4, MakingCommand DEF Extract, Making
  <2> QED BY <1>1, <1>2, <1>4, <2>1 DEF Extract, Making, Produced
<1>5. CASE ApplyPatch
  <2>1. k = "patched"
    BY <1>5, MakingCommand DEF ApplyPatch, Making
  <2> QED BY <1>1, <1>2, <1>5, <2>1 DEF ApplyPatch, Making, Produced
<1>6. CASE Rsync
  <2>1. k = "rsynced" /\ p \in Pkg
    BY <1>6, MakingCommand DEF Rsync, Making
  <2>2. tree'[p] = srcdir'[p]
    BY <1>6, <2>1 DEF Rsync, TypeOK
  <2> QED BY <1>1, <1>2, <1>6, <2>1, <2>2 DEF Rsync, Making, Produced
<1>7. CASE Configure
  <2>1. k = "configured" /\ p \in Pkg
    BY <1>7, MakingCommand DEF Configure, Making
  <2>2. conf'[p] = (IF Sound(p) THEN tree[p] ELSE Broken) /\ UNCHANGED <<tree, applied>>
    BY <1>7, <2>1 DEF Configure, TypeOK
  <2>3. Sound(p)' => conf'[p] = tree'[p]
    BY <2>2 DEF Sound, Whole
  <2> QED BY <1>1, <1>2, <1>7, <2>1, <2>3 DEF Configure, Making, Produced
<1>8. CASE Build
  <2>1. k = "built" /\ p \in Pkg
    BY <1>8, MakingCommand DEF Build, Making
  <2>2. /\ obj'[p] = IF Sound(p) /\ Whole(conf[p])
                     THEN [src |-> tree[p], cfg |-> conf[p]]
                     ELSE [src |-> Broken, cfg |-> Broken]
        /\ UNCHANGED <<tree, applied, conf>>
    BY <1>8, <2>1 DEF Build, TypeOK
  <2>3. Sound(p)' /\ Whole(conf'[p]) => obj'[p] = [src |-> tree'[p], cfg |-> conf'[p]]
    BY <2>2 DEF Sound, Whole
  <2> QED BY <1>1, <1>2, <1>8, <2>1, <2>3 DEF Build, Making, Produced, Whole
<1>9. CASE Install
  <2>1. k \in InstallStamps /\ p \in Pkg
    BY <1>9, MakingCommand DEF Install, Making
  <2>2. /\ inst'[p][k] = IF Whole(obj[p].src) THEN obj[p].src ELSE Broken
        /\ UNCHANGED obj
    BY <1>9, <2>1 DEF Install, TypeOK
  <2>3. Whole(obj'[p].src) => inst'[p][k] = obj'[p].src
    BY <2>2 DEF Whole
  <2> QED BY <1>1, <1>2, <1>9, <2>1, <2>3 DEF Install, Making, Produced, Whole
<1> QED BY <1>3, <1>4, <1>5, <1>6, <1>7, <1>8, <1>9

\* What a target that removes has removed before is gone, and after its next
\* command so is what that one removes.
LEMMA GoneFurther ==
  ASSUME TypeOK, RecipeHalfRun, Top.target \notin BuildTarget, Current # NoCommand,
         \A q \in Pkg : stamps'[q] \subseteq stamps[q],
         Runs("rm-stamp") => RmStamp
  PROVE  /\ Top.target = <<S, P>> /\ pc \in Nat \ {0}
         /\ pc > 1 => Gone(Top.target, pc - 1)
         /\ \A t, n : t = Top.target /\ n = pc => Gone(t, n)'
<1>1. /\ Top.target \in MakeTarget \ BuildTarget /\ pc \in Nat \ {0}
      /\ pc \in 1..Len(Recipe(Top.target)) /\ Current = Recipe(Top.target)[pc]
  BY Running, TopFrame DEF TypeOK
<1>2. Top.target = <<S, P>>
  <2>1. PICK k, p : Top.target = <<k, p>>
    BY <1>1, TargetKinds DEF World, MakeClean
  <2>2. Top.target[1] = k /\ Top.target[2] = p
    BY <2>1
  <2> QED BY <2>1, <2>2 DEF S, P
<1>3. pc > 1 => Gone(Top.target, pc - 1)
  BY <1>1, <1>2 DEF RecipeHalfRun, HalfRun
<1>4. SUFFICES ASSUME NEW t, t = Top.target, NEW i \in 1..pc,
                      Recipe(t)[i][1] = "rm-stamp"
               PROVE  Recipe(t)[i][2] \notin stamps'[t[2]]
  BY <1>1, <1>2, <1>3 DEF Gone
<1>5. i \in 1..Len(Recipe(t))
  BY <1>1, <1>4, OtherRecipe
<1>6. t[2] \in Pkg
  <2>1. RemovalRuns(t, i, Recipe(t)[i])
    BY <1>1, <1>4, <1>5, RemovalCommands
  <2> QED BY <1>4, <2>1 DEF RemovalRuns
<1>7. CASE i = pc
  <2>1. RmStamp /\ Current[2] = Recipe(t)[i][2] /\ P = t[2]
    BY <1>1, <1>4, <1>7 DEF Runs, P
  <2> QED BY <1>6, <2>1 DEF RmStamp, TypeOK
<1>8. CASE i # pc
  <2>1. pc > 1 /\ i \in 1 .. pc - 1
    BY <1>1, <1>4, <1>8
  <2>2. Recipe(t)[i][2] \notin stamps[t[2]]
    BY <1>3, <1>4, <2>1 DEF Gone
  <2> QED BY <1>6, <2>2
<1> QED BY <1>7, <1>8

\* The commands that remove.
LEMMA UnmakingHalfRun ==
  ASSUME TypeOK, RecipeHalfRun,
         RmStamp \/ Uninstall \/ CleanObjects \/ RmTree \/ Wipe \/ WipeTrees
  PROVE  RecipeHalfRun'
<1> PICK k, p, n : k = S /\ p = P /\ n = pc + 1
  OBVIOUS
<1>1. PICK c \in Unmaking : Runs(c) /\ Succeed
  BY DEF RmStamp, Uninstall, CleanObjects, RmTree, Wipe, WipeTrees, Unmaking
<1>2. Current # NoCommand /\ Top.target \notin BuildTarget
  BY <1>1, RemovalsRemove
<1>3. Top.target \in MakeTarget
  BY <1>2, Running, TopFrame
<1>4. k \notin {"rsynced", "configured", "built"} \cup InstallStamps
  BY <1>2, <1>3, StampTarget, StampKinds DEF S, InstallStamps
<1>5. \A q \in Pkg : stamps'[q] \subseteq stamps[q]
  <2>1. ~Touch
    BY <1>1 DEF Touch, Runs, Unmaking
  <2> QED BY <2>1, OthersForget DEF Next, Engine
<1>6. Runs("rm-stamp") => RmStamp
  BY DEF Runs, RmStamp, Uninstall, CleanObjects, RmTree, Wipe, WipeTrees
<1>7. Gone(<<k, p>>, n - 1)'
  <2>1. n - 1 = pc /\ <<k, p>> = Top.target
    BY <1>2, <1>5, <1>6, GoneFurther
  <2> QED BY <1>2, <1>5, <1>6, <2>1, GoneFurther
<1>8. HalfRun(k, p, n)'
  BY <1>4, <1>7 DEF HalfRun, Produced
<1> QED BY <1>1, <1>2, <1>8, RecipeGoesOn

\* Every step keeps what the commands have brought about.
LEMMA HalfRunStep ==
  ASSUME TypeOK, Counting, RecipeHalfRun, [Next]_vars
  PROVE  RecipeHalfRun'
<1>1. CASE UNCHANGED vars
  BY <1>1 DEF vars, package, make, RecipeHalfRun, HalfRun, Produced, Gone,
     Sound, Whole, Top, S, P
<1>2. ASSUME pc' = 1 PROVE RecipeHalfRun'
  BY <1>2 DEF RecipeHalfRun
<1>3. ASSUME NEW g \in Goals, Invoke(g)
      PROVE  RecipeHalfRun'
  BY <1>2, <1>3 DEF Invoke
<1>4. CASE \/ Consider
           \/ \E p \in Pkg : Edit(p)
           \/ \E p \in Pkg, s \in UserRemoves : RemoveStamp(p, s)
  <2>1. pc' = pc /\ (Idle \/ PrereqsLeft)
    BY <1>4 DEF Consider, Edit, RemoveStamp, make
  <2>2. ~(pc > 1)
    BY <2>1 DEF Counting, Midway
  <2> QED BY <2>1, <2>2 DEF RecipeHalfRun
<1>5. CASE NothingToDo
  BY <1>2, <1>5 DEF NothingToDo, Return
<1>6. CASE Touch
  <2> PICK k, p, n : k = S /\ p = P /\ n = pc + 1
    OBVIOUS
  <2>1. Runs("touch") /\ Succeed /\ Current # NoCommand
    BY <1>6, RunningCommand DEF Touch
  <2>2. pc = Len(Recipe(Top.target)) /\ pc \in Nat
    BY <2>1, Touching DEF TypeOK
  <2>3. ~(n <= Len(Recipe(Top.target)))
    BY <2>2
  <2> QED BY <2>1, <2>3, RecipeGoesOn
<1>7. CASE Download \/ Extract \/ Rsync \/ ApplyPatch \/ Configure \/ Build \/ Install
  BY <1>7, MakingHalfRun
<1>8. CASE RmStamp \/ Uninstall \/ CleanObjects \/ RmTree \/ Wipe \/ WipeTrees
  BY <1>8, UnmakingHalfRun
<1>9. CASE PatchRefused \/ Fault
  <2>1. Stop
    BY <1>9 DEF PatchRefused, Fault, Interrupt, BreakStep, BreakRmTree,
         BreakWipe, BreakWipeTrees
  <2> QED BY <1>2, <2>1 DEF Stop
<1> QED BY <1>1, <1>3, <1>4, <1>5, <1>6, <1>7, <1>8, <1>9 DEF Next, Engine

-----------------------------------------------------------------------------
(* Files and stamps.                                                       *)

\* All recipes of stamps but that of .stamp_patched have one command and the
\* touch.
LEMMA StampLength ==
  ASSUME NEW k \in Stamps, k # "patched", NEW p \in Pkg
  PROVE  Len(Recipe(<<k, p>>)) = 2
<1>1. k \in {"downloaded", "extracted", "rsynced", "configured", "built",
             "staging_installed", "target_installed", "images_installed",
             "host_installed"}
  BY StampKinds
<1>2. PICK c \in Making : Recipe(<<k, p>>) = <<<<c, k>>, <<"touch", k>>>>
  BY <1>1 DEF Recipe, InstallStamps, Making, MakeClean
<1> QED BY <1>2

\* A step that is stamped was run on sound input.
LEMMA TouchedFiles ==
  ASSUME TypeOK, WalkInvariant, PatchInvariant, InstallInvariant,
         Runs("touch"), P \notin skewed
  PROVE  /\ S = "rsynced" => tree[P] = srcdir[P] /\ Whole(tree[P])
         /\ S = "configured" => conf[P] = tree[P] /\ Whole(conf[P])
         /\ S = "built" => /\ obj[P] = [src |-> tree[P], cfg |-> conf[P]]
                           /\ Whole(obj[P].src)
         /\ S \in InstallStamps => inst[P][S] = obj[P].src /\ Whole(inst[P][S])
<1>1. /\ S \in Stamps /\ P \in Pkg /\ Top.target = <<S, P>>
      /\ pc = Len(Recipe(Top.target)) /\ Top.target \in BuildTarget
  BY Touching
<1>2. ~Idle
  BY Running, RunningCommand
<1>3. ~Wiping /\ ~Cleaning(P)
  BY <1>1, BuildingIsNoRemoval
<1>4. SUFFICES ASSUME S # "patched"
               PROVE  /\ S = "rsynced" => tree[P] = srcdir[P] /\ Whole(tree[P])
                      /\ S = "configured" => conf[P] = tree[P] /\ Whole(conf[P])
                      /\ S = "built" => /\ obj[P] = [src |-> tree[P], cfg |-> conf[P]]
                                        /\ Whole(obj[P].src)
                      /\ S \in InstallStamps =>
                           inst[P][S] = obj[P].src /\ Whole(inst[P][S])
  BY DEF InstallStamps
<1>5. Produced(S, P)
  <2>1. pc = 2
    BY <1>1, <1>4, StampLength
  <2> QED BY <2>1 DEF InstallInvariant, RecipeHalfRun, HalfRun
<1>13. S = "rsynced" => tree[P] = srcdir[P] /\ Whole(tree[P])
  BY <1>1, <1>5 DEF Produced, TypeOK, Whole
<1>6. FilesOf(P)
  BY <1>1 DEF InstallInvariant, FilesStand
<1>7. Before[P][S] \subseteq stamps[P]
  <2>1. Before[P][S] \subseteq Stamps
    BY <1>1, StampKinds DEF Before, SourceSteps, InstallStamps
  <2>2. \A s \in Before[P][S] : <<s, P>> \in done
    BY <1>1, <1>2, MadeBefore
  <2> QED BY <1>1, <1>2, <2>1, <2>2 DEF WalkInvariant, VisitedStampsKept
<1>8. ASSUME SourceSteps(P) \subseteq stamps[P]
      PROVE  Sound(P)
  <2>1. CASE P \in Override
    BY <1>6, <1>8, <2>1 DEF SourceSteps, FilesOf, Sound
  <2>2. CASE P \notin Override
    <3>1. Stand(stamps[P], tree[P], applied[P], NPatches[P])
      BY <1>1 DEF PatchInvariant, SourcesStand
    <3>2. {"extracted", "patched"} \subseteq stamps[P]
      BY <1>8, <2>2 DEF SourceSteps
    <3> QED BY <3>1, <3>2 DEF Stand, Sound
  <2> QED BY <2>1, <2>2
<1>9. ASSUME S = "configured" PROVE conf[P] = tree[P] /\ Whole(conf[P])
  <2>1. SourceSteps(P) \subseteq stamps[P]
    BY <1>1, <1>7, <1>9 DEF Before, InstallStamps
  <2>2. Sound(P)
    BY <1>8, <2>1
  <2> QED BY <1>5, <1>9, <2>2 DEF Produced, Sound
<1>10. ASSUME S = "built"
       PROVE  obj[P] = [src |-> tree[P], cfg |-> conf[P]] /\ Whole(obj[P].src)
  <2>1. SourceSteps(P) \cup {"configured"} \subseteq stamps[P]
    BY <1>1, <1>7, <1>10 DEF Before, InstallStamps
  <2>2. Sound(P) /\ Whole(conf[P])
    BY <1>6, <1>8, <2>1 DEF FilesOf
  <2>3. obj[P] = [src |-> tree[P], cfg |-> conf[P]] /\ Whole(tree[P])
    BY <1>5, <1>10, <2>2 DEF Produced, Sound
  <2> QED BY <2>3
<1>11. ASSUME S \in InstallStamps
       PROVE  inst[P][S] = obj[P].src /\ Whole(inst[P][S])
  <2>1. Before[P][S] = SourceSteps(P) \cup {"configured", "built"}
    BY <1>1, <1>11 DEF Before, InstallStamps
  <2>2. Whole(obj[P].src)
    BY <1>3, <1>6, <1>7, <2>1 DEF FilesOf
  <2> QED BY <1>5, <1>11, <2>2 DEF Produced
<1> QED BY <1>9, <1>10, <1>11, <1>13

\* A package without stamps promises nothing.
LEMMA NothingStamped ==
  ASSUME NEW p \in Pkg, stamps'[p] = {}
  PROVE  FilesOf(p)'
BY DEF FilesOf, Whole

\* A package that a step leaves alone, or takes stamps from.
LEMMA FilesKept ==
  ASSUME NEW p \in Pkg, FilesOf(p), ~Cleaning(p), ~Wiping,
         stamps'[p] \subseteq stamps[p], tree'[p] = tree[p], conf'[p] = conf[p],
         obj'[p] = obj[p], inst'[p] = inst[p]
  PROVE  FilesOf(p)'
BY DEF FilesOf, Whole

\* The steps of the package under way.
LEMMA MakingFiles ==
  ASSUME TypeOK, WalkInvariant, PatchInvariant, InstallInvariant,
         \/ Touch \/ Download \/ Extract \/ Rsync \/ ApplyPatch \/ Configure
         \/ Build \/ Install \/ PatchRefused
  PROVE  FilesStand'
<1>1. PICK c \in Making \cup {"touch"} : Runs(c)
  BY DEF Touch, Download, Extract, Rsync, ApplyPatch, Configure, Build, Install,
     PatchRefused, Making
<1>2. S \in Stamps /\ P \in Pkg /\ skewed' = skewed
  <2>1. S \in Stamps /\ P \in Pkg
    BY <1>1, MakingCommand, Touching
  <2> QED BY <2>1 DEF Touch, Download, Extract, Rsync, ApplyPatch, Configure,
          Build, Install, PatchRefused, package
<1>3. ~Wiping /\ \A p \in Pkg : ~Cleaning(p)
  BY <1>2, BuildingIsNoRemoval
<1>4. \A p \in Pkg \ skewed : FilesOf(p)
  BY DEF InstallInvariant, FilesStand
<1>5. ASSUME NEW p \in Pkg \ skewed', p # P
      PROVE  FilesOf(p)'
  <2>1. /\ stamps'[p] = stamps[p] /\ tree'[p] = tree[p] /\ conf'[p] = conf[p]
        /\ obj'[p] = obj[p] /\ inst'[p] = inst[p]
    BY <1>2, <1>5 DEF Touch, Download, Extract, Rsync, ApplyPatch, Configure, Build,
       Install, PatchRefused, package, TypeOK
  <2> QED BY <1>2, <1>3, <1>4, <1>5, <2>1, FilesKept
<1>6. SUFFICES ASSUME P \notin skewed PROVE \A p \in Pkg : p = P => FilesOf(p)'
  BY <1>2, <1>5 DEF FilesStand
<1> TAKE p \in Pkg
<1>7. HAVE p = P
<1>8. /\ p \in Override /\ "rsynced" \in stamps[p] => Whole(tree[p])
      /\ "configured" \in stamps[p] => Whole(conf[p])
      /\ "built" \in stamps[p] => Whole(obj[p].src)
      /\ \A s \in stamps[p] \cap InstallStamps : Whole(inst[p][s])
  BY <1>3, <1>4, <1>6, <1>7 DEF FilesOf
<1>9. CASE Touch
  <2>1. /\ Runs("touch") /\ stamps'[p] = stamps[p] \cup {S}
        /\ UNCHANGED <<tree, conf, obj, inst>>
    BY <1>7, <1>9 DEF Touch, TypeOK
  <2>2. /\ S = "rsynced" => Whole(tree[p])
        /\ S = "configured" => Whole(conf[p])
        /\ S = "built" => Whole(obj[p].src)
        /\ S \in InstallStamps => Whole(inst[p][S])
    BY <1>6, <1>7, <2>1, TouchedFiles
  <2> QED BY <1>8, <2>1, <2>2 DEF FilesOf, Whole
<1>10. CASE Download \/ ApplyPatch \/ PatchRefused
  <2>1. UNCHANGED <<stamps, tree, conf, obj, inst>>
    BY <1>10 DEF Download, ApplyPatch, PatchRefused, package
  <2> QED BY <1>8, <2>1 DEF FilesOf, Whole
<1>11. CASE Extract \/ Rsync
  <2>1. Whole(tree'[p]) /\ UNCHANGED <<stamps, conf, obj, inst>>
    BY <1>7, <1>11 DEF Extract, Rsync, TypeOK, Whole
  <2> QED BY <1>8, <2>1 DEF FilesOf, Whole
<1>12. CASE Configure
  <2>1. "configured" \notin stamps[p] /\ UNCHANGED <<stamps, tree, obj, inst>>
    BY <1>7, <1>12, MakingCommand DEF Configure, Making
  <2> QED BY <1>8, <2>1 DEF FilesOf, Whole
<1>13. CASE Build
  <2>1. "built" \notin stamps[p] /\ UNCHANGED <<stamps, tree, conf, inst>>
    BY <1>7, <1>13, MakingCommand DEF Build, Making
  <2> QED BY <1>8, <2>1 DEF FilesOf, Whole
<1>14. CASE Install
  <2>1. S \notin stamps[p] /\ UNCHANGED <<stamps, tree, conf, obj>>
    BY <1>7, <1>14, MakingCommand DEF Install, Making
  <2>2. \A s \in InstallStamps \ {S} : inst'[p][s] = inst[p][s]
    BY <1>7, <1>14 DEF Install, TypeOK
  <2> QED BY <1>8, <2>1, <2>2 DEF FilesOf, Whole
<1> QED BY <1>9, <1>10, <1>11, <1>12, <1>13, <1>14

\* The target each removing command is for.
LEMMA RemovalUnderWay ==
  ASSUME TypeOK, NEW c \in Unmaking, Runs(c)
  PROVE  /\ Current # NoCommand /\ ~Idle
         /\ c = "wipe" => /\ Top.target = MakeClean
                          /\ pc < Len(Recipe(Top.target))
         /\ c = "wipe-trees" => Top.target = MakeClean
         /\ c \notin {"wipe", "wipe-trees"} => P \in Pkg /\ Top.target # MakeClean
         /\ c = "clean" => /\ Top.target = <<"cleaned", P>> /\ pc = 1
                           /\ Len(Recipe(Top.target)) = 2
         /\ c = "uninstall" => /\ Top.target = <<"uninstalled", P>>
                               /\ \/ pc = 3 /\ Current[2] = "staging_installed"
                                  \/ pc = 4 /\ Current[2] = "target_installed"
         /\ c = "rm-stamp" /\ S = "cleaned" => Current[2] = "built"
         /\ c = "rm-tree" => Top.target = <<"dircleaned", P>>
<1>1. Current # NoCommand /\ Current[1] = c /\ Top.target \notin BuildTarget
  BY RemovalsRemove DEF Runs
<1>2. ~Idle /\ RemovalRuns(Top.target, pc, Current)
  BY <1>1, Running, RemovalCommand
<1>3. MakeClean[1] = "make-clean"
  BY DEF MakeClean
<1>4. ASSUME NEW t, NEW i, NEW d, RemovalRuns(t, i, d), d[1] = c
      PROVE  /\ c = "wipe" => t = MakeClean /\ i < Len(Recipe(t))
             /\ c = "wipe-trees" => t = MakeClean
             /\ c \notin {"wipe", "wipe-trees"} => t[2] \in Pkg /\ t # MakeClean
             /\ c = "clean" =>
                  t = <<"cleaned", t[2]>> /\ i = 1 /\ Len(Recipe(t)) = 2
             /\ c = "uninstall" => /\ t = <<"uninstalled", t[2]>>
                                   /\ \/ i = 3 /\ d[2] = "staging_installed"
                                      \/ i = 4 /\ d[2] = "target_installed"
             /\ c = "rm-stamp" /\ t[1] = "cleaned" => d[2] = "built"
             /\ c = "rm-tree" => t = <<"dircleaned", t[2]>>
  <2> DEFINE U == UninstallCommands
  <2>1. /\ U[1] = <<"rm-stamp", "staging_installed">>
        /\ U[2] = <<"rm-stamp", "target_installed">>
        /\ U[3] = <<"uninstall", "staging_installed">>
        /\ U[4] = <<"uninstall", "target_installed">>
    BY DEF UninstallCommands, Rm
  <2> HIDE DEF U
  <2>2. CASE t = MakeClean /\ c \in {"wipe", "wipe-trees"}
    <3>1. c = "wipe" => i < Len(Recipe(t))
      BY <1>3, <1>4, <2>2 DEF RemovalRuns
    <3> QED BY <2>2, <3>1
  <2>3. CASE /\ t[2] \in Pkg /\ t = <<"cleaned", t[2]>>
             /\ \/ d[1] = "clean" /\ i = 1 /\ Len(Recipe(t)) = 2
                \/ d = Rm("built") /\ i = 2
    <3>1. t[1] = "cleaned" /\ t # MakeClean
      BY <1>3, <2>3
    <3>2. Rm("built")[1] = "rm-stamp" /\ Rm("built")[2] = "built"
      BY DEF Rm
    <3> QED BY <1>4, <2>3, <3>1, <3>2
  <2>4. CASE /\ t[2] \in Pkg /\ t = <<"uninstalled", t[2]>> /\ d = U[i]
             /\ i \in 1..4
    <3>1. t[1] = "uninstalled" /\ t # MakeClean
      BY <1>3, <2>4
    <3>2. \/ i \in {1, 2} /\ c = "rm-stamp"
          \/ i = 3 /\ c = "uninstall" /\ d[2] = "staging_installed"
          \/ i = 4 /\ c = "uninstall" /\ d[2] = "target_installed"
      BY <1>4, <2>1, <2>4
    <3> QED BY <2>4, <3>1, <3>2
  <2>5. CASE t[2] \in Pkg /\ t = <<"dircleaned", t[2]>> /\ d[1] = "rm-tree"
    <3>1. t[1] = "dircleaned" /\ t # MakeClean
      BY <1>3, <2>5
    <3> QED BY <1>4, <2>5, <3>1
  <2>6. CASE /\ t[2] \in Pkg /\ d[1] = "rm-stamp"
             /\ t \in {"clean-for-rebuild", "clean-for-reconfigure"} \X {t[2]}
    <3>1. \A x \in {"clean-for-rebuild", "clean-for-reconfigure"} \X {t[2]} :
            x[1] \notin {"cleaned", "make-clean"}
      OBVIOUS
    <3>2. t[1] # "cleaned" /\ t # MakeClean
      BY <1>3, <2>6, <3>1
    <3> QED BY <1>4, <2>6, <3>2
  <2> QED BY <1>4, <2>2, <2>3, <2>4, <2>5, <2>6, Zenon DEF RemovalRuns, U
<1> QED BY <1>1, <1>2, <1>4 DEF S, P

\* While it removes something else, make neither cleans nor wipes.
LEMMA OtherRemoval ==
  ASSUME TypeOK, NEW c \in Unmaking \ {"wipe", "wipe-trees", "rm-stamp"}, Runs(c)
  PROVE  ~Wiping /\ \A p \in Pkg : ~Cleaning(p)
<1>1. Top.target # MakeClean
  BY RemovalUnderWay
<1>2. ASSUME NEW p \in Pkg, Cleaning(p) PROVE FALSE
  <2>1. pc > 1 /\ Top.target = <<"cleaned", p>>
    BY <1>2 DEF Cleaning
  <2>2. \/ Top.target = <<"cleaned", P>> /\ pc = 1
        \/ Top.target = <<"uninstalled", P>>
        \/ Top.target = <<"dircleaned", P>>
    BY RemovalUnderWay DEF Unmaking
  <2> QED BY <2>1, <2>2
<1> QED BY <1>1, <1>2 DEF Wiping

\* What is uninstalled is not stamped any more.
LEMMA UninstalledFirst ==
  ASSUME TypeOK, InstallInvariant, Runs("uninstall")
  PROVE  P \in Pkg /\ Current[2] \notin stamps[P]
<1>1. /\ P \in Pkg /\ Top.target = <<"uninstalled", P>>
      /\ \/ pc = 3 /\ Current[2] = "staging_installed"
         \/ pc = 4 /\ Current[2] = "target_installed"
  BY RemovalUnderWay DEF Unmaking
<1>2. Gone(Top.target, pc - 1) /\ Recipe(Top.target) = UninstallCommands
  <2>1. Top.target \notin BuildTarget
    BY RemovalsRemove DEF Unmaking
  <2>2. S = "uninstalled"
    BY <1>1 DEF S
  <2> QED BY <1>1, <2>1, <2>2 DEF InstallInvariant, RecipeHalfRun, HalfRun, Recipe,
       InstallStamps, MakeClean
<1>3. Top.target[2] = P
  BY DEF P
<1>4. ASSUME NEW i \in 1..2, UninstallCommands[i] = Rm(Current[2])
      PROVE  Current[2] \notin stamps[P]
  <2>1. i \in 1 .. pc - 1
    BY <1>1
  <2> QED BY <1>2, <1>3, <1>4, <2>1 DEF Gone, Rm
<1>5. /\ UninstallCommands[1] = Rm("staging_installed")
      /\ UninstallCommands[2] = Rm("target_installed")
  BY DEF UninstallCommands
<1> QED BY <1>1, <1>4, <1>5

\* Removals take the stamps away, or the files before them.
LEMMA UnmakingFiles ==
  ASSUME TypeOK, InstallInvariant,
         RmStamp \/ Uninstall \/ CleanObjects \/ RmTree \/ Wipe \/ WipeTrees
  PROVE  FilesStand'
<1> SUFFICES ASSUME NEW p \in Pkg, p \notin skewed' PROVE FilesOf(p)'
  BY DEF FilesStand
<1>1. p \notin skewed => FilesOf(p)
  BY DEF InstallInvariant, FilesStand
<1>2. CASE RmStamp
  <2>1. /\ Runs("rm-stamp") /\ p \notin skewed
        /\ stamps' = [stamps EXCEPT ![P] = @ \ {Current[2]}]
        /\ UNCHANGED <<tree, conf, obj, inst>>
    BY <1>2 DEF RmStamp
  <2>2. /\ P \in Pkg /\ ~Wiping
        /\ S = "cleaned" => Current[2] = "built"
    BY <2>1, RemovalUnderWay DEF Unmaking, Wiping
  <2>3. CASE Cleaning(p)
    <3>1. S = "cleaned" /\ P = p
      BY <2>3 DEF Cleaning, S, P
    <3>2. stamps'[p] = stamps[p] \ {"built"}
      BY <2>1, <2>2, <3>1 DEF TypeOK
    <3> QED BY <1>1, <2>1, <2>2, <3>2 DEF FilesOf, Whole
  <2>4. CASE ~Cleaning(p)
    <3>1. stamps'[p] \subseteq stamps[p]
      BY <2>1 DEF TypeOK
    <3> QED BY <1>1, <2>1, <2>2, <2>4, <3>1, FilesKept
  <2> QED BY <2>3, <2>4
<1>3. CASE Uninstall
  <2>1. /\ Runs("uninstall") /\ p \notin skewed
        /\ inst' = [inst EXCEPT ![P][Current[2]] = Absent]
        /\ UNCHANGED <<stamps, tree, conf, obj>>
    BY <1>3 DEF Uninstall
  <2>2. ~Wiping /\ ~Cleaning(p)
    BY <2>1, OtherRemoval DEF Unmaking
  <2>3. P \in Pkg /\ Current[2] \notin stamps[P]
    BY <2>1, UninstalledFirst
  <2>4. CASE p # P
    BY <1>1, <2>1, <2>2, <2>4, FilesKept DEF TypeOK
  <2>5. CASE p = P
    <3>1. \A s \in InstallStamps \ {Current[2]} : inst'[p][s] = inst[p][s]
      BY <2>1, <2>5 DEF TypeOK
    <3> QED BY <1>1, <2>1, <2>2, <2>3, <2>5, <3>1 DEF FilesOf, Whole
  <2> QED BY <2>4, <2>5
<1>4. CASE CleanObjects
  <2>1. /\ Runs("clean") /\ p \notin skewed /\ Succeed
        /\ UNCHANGED <<stamps, tree, conf, inst>>
        /\ obj' = [obj EXCEPT ![P] = [src |-> Absent, cfg |-> Absent]]
    BY <1>4 DEF CleanObjects
  <2>2. ~Wiping /\ ~Cleaning(p)
    BY <2>1, OtherRemoval DEF Unmaking
  <2>3. CASE p # P
    BY <1>1, <2>1, <2>2, <2>3, FilesKept DEF TypeOK
  <2>4. CASE p = P
    <3>1. /\ Top.target = <<"cleaned", p>> /\ pc = 1
          /\ Len(Recipe(Top.target)) = 2
      BY <2>1, <2>4, RemovalUnderWay DEF Unmaking
    <3>2. pc' = 2 /\ stack' = stack
      BY <2>1, <3>1 DEF Succeed
    <3>3. Cleaning(p)'
      BY <3>1, <3>2 DEF Cleaning, Top
    <3> QED BY <1>1, <2>1, <2>2, <3>3 DEF FilesOf, Whole
  <2> QED BY <2>3, <2>4
<1>5. CASE RmTree
  <2>1. Runs("rm-tree") /\ RemoveTrees({P}) /\ UNCHANGED inst /\ skewed' = skewed \ {P}
    BY <1>5 DEF RmTree
  <2>2. CASE p = P
    BY <2>1, <2>2, NothingStamped DEF RemoveTrees
  <2>3. CASE p # P
    <3>1. ~Wiping /\ ~Cleaning(p)
      BY <2>1, OtherRemoval DEF Unmaking
    <3>2. p \notin skewed
      BY <2>1, <2>3
    <3>3. /\ stamps'[p] = stamps[p] /\ tree'[p] = tree[p] /\ conf'[p] = conf[p]
          /\ obj'[p] = obj[p] /\ inst'[p] = inst[p]
      BY <2>1, <2>3 DEF RemoveTrees
    <3> QED BY <1>1, <3>1, <3>2, <3>3, FilesKept
  <2> QED BY <2>2, <2>3
<1>6. CASE Wipe
  <2>1. /\ Runs("wipe") /\ p \notin skewed /\ Succeed
        /\ UNCHANGED <<stamps, tree, conf, obj>>
    BY <1>6 DEF Wipe
  <2>2. Top.target = MakeClean /\ pc < Len(Recipe(Top.target))
    BY <2>1, RemovalUnderWay DEF Unmaking
  <2>3. pc' = pc + 1 /\ stack' = stack /\ pc \in Nat \ {0}
    BY <2>1, <2>2 DEF Succeed, TypeOK
  <2>4. Wiping'
    BY <2>2, <2>3 DEF Wiping, Top
  <2>5. MakeClean # <<"cleaned", p>>
    BY DEF MakeClean
  <2>6. ~Cleaning(p)
    BY <2>2, <2>5 DEF Cleaning
  <2> QED BY <1>1, <2>1, <2>4, <2>6 DEF FilesOf, Whole
<1>7. CASE WipeTrees
  BY <1>7, NothingStamped DEF WipeTrees, RemoveTrees
<1> QED BY <1>2, <1>3, <1>4, <1>5, <1>6, <1>7

\* A command cut short damages what is not stamped yet, or no longer.
LEMMA BreakFiles ==
  ASSUME TypeOK, WalkInvariant, InstallInvariant, BreakStep
  PROVE  FilesStand'
<1> SUFFICES ASSUME NEW p \in Pkg, p \notin skewed' PROVE FilesOf(p)'
  BY DEF FilesStand
<1>1. UNCHANGED stamps /\ p \notin skewed /\ FilesOf(p)
  BY DEF BreakStep, InstallInvariant, FilesStand
<1>2. PICK c \in {"extract", "rsync", "apply-patch", "configure", "build",
                  "install", "uninstall", "clean"} : Runs(c) /\ Current[1] = c
  BY DEF BreakStep, Runs
<1>3. P \in Pkg
  BY <1>2, RunsOnPackage, RunningCommand
<1>4. ~Wiping /\ ~Cleaning(p)
  <2>1. CASE c \in Making
    BY <1>2, <2>1, MakingCommand, BuildingIsNoRemoval
  <2>2. CASE c \in {"uninstall", "clean"}
    BY <1>2, <2>2, OtherRemoval DEF Unmaking
  <2> QED BY <2>1, <2>2 DEF Making
<1>5. /\ p \in Override /\ "rsynced" \in stamps[p] => Whole(tree[p])
      /\ "configured" \in stamps[p] => Whole(conf[p])
      /\ "built" \in stamps[p] => Whole(obj[p].src)
      /\ \A s \in stamps[p] \cap InstallStamps : Whole(inst[p][s])
  BY <1>1, <1>4 DEF FilesOf
<1>6. CASE p # P
  <2>1. /\ tree'[p] = tree[p] /\ conf'[p] = conf[p] /\ obj'[p] = obj[p]
        /\ inst'[p] = inst[p]
    BY <1>6 DEF BreakStep, Broke, TypeOK
  <2> QED BY <1>1, <1>4, <2>1, FilesKept
<1>7. CASE p = P
  <2>1. /\ c \notin {"extract", "rsync"} => tree'[p] = tree[p]
        /\ c # "configure" => conf'[p] = conf[p]
        /\ c \notin {"build", "clean"} => obj'[p] = obj[p]
        /\ c \notin {"install", "uninstall"} => inst'[p] = inst[p]
        /\ c # "clean"
    BY <1>2, <1>3, <1>7 DEF BreakStep, Broke, TypeOK
  <2>2. CASE c \in {"extract", "rsync"}
    <3>1. p \in Override => "rsynced" \notin stamps[p]
      <4>1. CASE c = "rsync"
        BY <1>2, <1>7, <4>1, MakingCommand DEF Making
      <4>2. CASE c = "extract"
        <5>1. S = "extracted" /\ S \in Stamps /\ ~Idle
          BY <1>2, <4>2, MakingCommand DEF Making
        <5>2. PICK u \in MakeTarget : \E i \in 1..Len(Prereqs(u)) :
                Prereqs(u)[i] = <<S, P>> /\ Earlier(u, i) \subseteq done
          BY <5>1, ListedBelow
        <5> QED BY <1>3, <1>7, <5>1, <5>2, BeforeStamp
      <4> QED BY <2>2, <4>1, <4>2
    <3> QED BY <1>1, <1>5, <2>1, <2>2, <3>1 DEF FilesOf, Whole
  <2>3. CASE c = "apply-patch"
    BY <1>1, <1>5, <2>1, <2>3 DEF FilesOf, Whole
  <2>4. CASE c = "configure"
    <3>1. "configured" \notin stamps[p]
      BY <1>2, <1>7, <2>4, MakingCommand DEF Making
    <3> QED BY <1>1, <1>5, <2>1, <2>4, <3>1 DEF FilesOf, Whole
  <2>5. CASE c = "build"
    <3>1. "built" \notin stamps[p]
      BY <1>2, <1>7, <2>5, MakingCommand DEF Making
    <3> QED BY <1>1, <1>5, <2>1, <2>5, <3>1 DEF FilesOf, Whole
  <2>6. CASE c = "install"
    <3>1. S \notin stamps[p]
      BY <1>2, <1>7, <2>6, MakingCommand DEF Making
    <3>2. \A s \in InstallStamps \ {S} : inst'[p][s] = inst[p][s]
      BY <1>2, <1>7, <2>6 DEF BreakStep, TypeOK
    <3> QED BY <1>1, <1>5, <2>1, <2>6, <3>1, <3>2 DEF FilesOf, Whole
  <2>7. CASE c = "uninstall"
    <3>1. Current[2] \notin stamps[p]
      BY <1>2, <1>7, <2>7, UninstalledFirst
    <3>2. \A s \in InstallStamps \ {Current[2]} : inst'[p][s] = inst[p][s]
      BY <1>2, <1>7, <2>7 DEF BreakStep, TypeOK
    <3> QED BY <1>1, <1>5, <2>1, <2>7, <3>1, <3>2 DEF FilesOf, Whole
  <2> QED BY <1>2, <2>1, <2>2, <2>3, <2>4, <2>5, <2>6, <2>7
<1> QED BY <1>6, <1>7

\* An invocation that ends early, whatever it was at, gives up the packages
\* whose files it has left without their stamps' knowledge.
LEMMA FaultFiles ==
  ASSUME TypeOK, WalkInvariant, InstallInvariant, Fault
  PROVE  FilesStand'
<1>1. CASE BreakStep
  BY <1>1, BreakFiles
<1>2. ASSUME ~BreakStep, NEW p \in Pkg, p \notin skewed'
      PROVE  FilesOf(p)'
  <2>1. p \notin skewed => FilesOf(p)
    BY DEF InstallInvariant, FilesStand
  <2>2. CASE Interrupt
    <3>1. /\ p \notin skewed /\ p \notin SkewedByStop
          /\ UNCHANGED <<stamps, tree, conf, obj, inst>>
      BY <1>2, <2>2 DEF Interrupt
    <3>2. ~Wiping
      <4> SUFFICES ASSUME Wiping PROVE p \in SkewedByStop
        BY <3>1
      <4>1. pc > 1 /\ Top.target = MakeClean /\ MakeClean[1] = "make-clean"
        BY DEF Wiping, MakeClean
      <4>2. S = "make-clean" /\ pc # 1
        BY <4>1 DEF S
      <4> QED BY <4>1, <4>2 DEF SkewedByStop, Removal
    <3>3. ~Cleaning(p)
      <4> SUFFICES ASSUME Cleaning(p) PROVE p \in SkewedByStop
        BY <3>1
      <4>1. S = "cleaned" /\ P = p /\ pc # 1
        BY DEF Cleaning, S, P
      <4> QED BY <4>1 DEF SkewedByStop, Removal
    <3> QED BY <2>1, <3>1, <3>2, <3>3, FilesKept
  <2>3. CASE BreakRmTree
    <3>1. Runs("rm-tree") /\ skewed' = skewed \cup {P} /\ UNCHANGED inst
      BY <2>3 DEF BreakRmTree
    <3>2. ~Wiping /\ ~Cleaning(p)
      BY <3>1, OtherRemoval DEF Unmaking
    <3>3. /\ stamps'[p] = stamps[p] /\ tree'[p] = tree[p] /\ conf'[p] = conf[p]
          /\ obj'[p] = obj[p] /\ inst'[p] = inst[p] /\ p \notin skewed
      BY <1>2, <2>3, <3>1 DEF BreakRmTree, Broke, TypeOK
    <3> QED BY <2>1, <3>2, <3>3, FilesKept
  <2>4. CASE BreakWipe
    BY <1>2, <2>4 DEF BreakWipe
  <2>5. CASE BreakWipeTrees
    <3>1. PICK Q \in SUBSET Pkg : RemoveTrees(Q) /\ skewed' = Pkg \ Q
      BY <2>5 DEF BreakWipeTrees
    <3> QED BY <1>2, <3>1, NothingStamped DEF RemoveTrees
  <2> QED BY <1>2, <2>2, <2>3, <2>4, <2>5 DEF Fault
<1> QED BY <1>1, <1>2 DEF FilesStand

\* Every step keeps the stamps true to the files.
LEMMA FilesStep ==
  ASSUME TypeOK, WalkInvariant, Counting, PatchInvariant, InstallInvariant,
         [Next]_vars
  PROVE  FilesStand'
<1>1. \A p \in Pkg \ skewed : FilesOf(p)
  BY DEF InstallInvariant, FilesStand
<1>2. CASE \/ Touch \/ Download \/ Extract \/ Rsync \/ ApplyPatch \/ Configure
           \/ Build \/ Install \/ PatchRefused
  BY <1>2, MakingFiles
<1>3. CASE RmStamp \/ Uninstall \/ CleanObjects \/ RmTree \/ Wipe \/ WipeTrees
  BY <1>3, UnmakingFiles
<1>4. CASE Fault
  BY <1>4, FaultFiles
<1>5. CASE UNCHANGED vars
  BY <1>1, <1>5 DEF vars, package, make, FilesStand, FilesOf, Cleaning, Wiping,
     Top, Whole
<1>6. CASE \/ \E g \in Goals : Invoke(g)
           \/ Consider \/ NothingToDo
           \/ \E p \in Pkg : Edit(p)
           \/ \E p \in Pkg, s \in UserRemoves : RemoveStamp(p, s)
  <2>1. ~Wiping /\ \A p \in Pkg : ~Cleaning(p)
    <3>1. CASE NothingToDo
      <4>1. UpToDate(Top.target) \/ Recipe(Top.target) = <<>>
        BY <3>1 DEF NothingToDo
      <4>2. Top.target # MakeClean
        <5>1. Recipe(MakeClean) # <<>>
          BY DEF Recipe, MakeClean, InstallStamps
        <5>2. MakeClean[1] = "make-clean"
          BY DEF MakeClean
        <5>3. ~UpToDate(MakeClean)
          BY <5>2, StampKinds DEF UpToDate
        <5> QED BY <4>1, <5>1, <5>3
      <4>3. \A p \in Pkg : Top.target # <<"cleaned", p>>
        <5> TAKE p \in Pkg
        <5>1. Recipe(<<"cleaned", p>>) # <<>>
          BY DEF Recipe, MakeClean, InstallStamps
        <5>2. ~UpToDate(<<"cleaned", p>>)
          BY StampKinds DEF UpToDate
        <5> QED BY <4>1, <5>1, <5>2
      <4> QED BY <4>2, <4>3 DEF Wiping, Cleaning
    <3>2. CASE ~NothingToDo
      <4>1. Idle \/ PrereqsLeft
        BY <1>6, <3>2 DEF Invoke, Consider, Edit, RemoveStamp
      <4> QED BY <4>1 DEF Counting, Midway, Wiping, Cleaning
    <3> QED BY <3>1, <3>2
  <2>2. ASSUME NEW p \in Pkg \ skewed'
        PROVE  FilesOf(p)'
    <3>1. /\ p \notin skewed /\ stamps'[p] \subseteq stamps[p]
          /\ UNCHANGED <<conf, obj, inst>>
      BY <1>6, <2>2 DEF Invoke, Consider, NothingToDo, Edit, RemoveStamp, package,
         TypeOK
    <3>2. p \in Override => tree'[p] = tree[p]
      BY <1>6 DEF Invoke, Consider, NothingToDo, Edit, RemoveStamp, package,
         TypeOK
    <3> QED BY <1>1, <2>1, <3>1, <3>2 DEF FilesOf, Whole
  <2> QED BY <2>2 DEF FilesStand
<1> QED BY <1>2, <1>3, <1>4, <1>5, <1>6 DEF Next, Engine

\* In every reachable state a recipe half run has brought about what its
\* commands bring about.
LEMMA HalfRuns == Spec => []RecipeHalfRun
<1>1. Init => RecipeHalfRun
  <2> SUFFICES ASSUME Init PROVE RecipeHalfRun
    OBVIOUS
  <2> QED BY DEF Init, RecipeHalfRun
<1>2. TypeOK /\ Counting /\ RecipeHalfRun /\ [Next]_vars => RecipeHalfRun'
  BY HalfRunStep
<1> QED BY <1>1, <1>2, Typing, Counts, PTL DEF Spec

\* In every reachable state the stamps are true to the files.
LEMMA Stamped ==
  ASSUME SourceGoals
  PROVE  Spec => [](PatchInvariant /\ InstallInvariant)
<1>1. Init => PatchInvariant /\ InstallInvariant
  <2> SUFFICES ASSUME Init PROVE PatchInvariant /\ InstallInvariant
    OBVIOUS
  <2>1. PatchInvariant
    BY InitialSources
  <2>2. pc = 1 /\ \A p \in Pkg : stamps[p] = {}
    BY DEF Init
  <2> QED BY <2>1, <2>2 DEF InstallInvariant, RecipeHalfRun, FilesStand, FilesOf
<1>2. /\ TypeOK /\ WalkInvariant /\ Counting /\ PatchInvariant /\ InstallInvariant
      /\ [Next]_vars
      => PatchInvariant' /\ InstallInvariant'
  BY PatchStep, HalfRunStep, FilesStep DEF InstallInvariant
<1> QED BY <1>1, <1>2, Typing, Walk, Counts, PTL DEF Spec

\* While nothing is being removed, neither is a package cleaned nor the output
\* wiped.
LEMMA RemovingSomething ==
  ASSUME TypeOK, Counting, ~Removing
  PROVE  ~Wiping
<1>1. ASSUME Wiping PROVE FALSE
  <2>1. pc > 1 /\ Top.target = MakeClean /\ MakeClean[1] = "make-clean"
    BY <1>1 DEF Wiping, MakeClean
  <2>2. ~Idle /\ S = "make-clean"
    BY <2>1 DEF Counting, Midway, S
  <2> QED BY <2>2 DEF Removing, Removal
<1> QED BY <1>1

\* pkg-generic.mk:120-161, 169-180.  For every configuration and whatever
\* failed, was interrupted, was cleaned and was run again before: an install
\* stamp means that the files are where that step installs them.
THEOREM Installing ==
  ASSUME SourceGoals
  PROVE  Spec => []InstalledFilesExist
<1>1. TypeOK /\ Counting /\ InstallInvariant => InstalledFilesExist
  <2> SUFFICES ASSUME TypeOK, Counting, InstallInvariant,
                      NEW p \in Pkg \ skewed, NEW s \in InstallStamps,
                      s \in stamps[p], ~Removing
               PROVE  Whole(inst[p][s])
    BY DEF InstalledFilesExist
  <2> QED BY RemovingSomething DEF InstallInvariant, FilesStand, FilesOf
<1> QED BY <1>1, Typing, Counts, Stamped, PTL

\* pkg-generic.mk:385, 393.  A package is configured only when every package it
\* depends on is stamped installed, and then its files are there.
THEOREM Configuring ==
  ASSUME SourceGoals
  PROVE  Spec => []ConfigureSeesDeps
<1>1. TypeOK /\ WalkInvariant /\ InstalledFilesExist => ConfigureSeesDeps
  <2> SUFFICES ASSUME TypeOK, WalkInvariant, InstalledFilesExist, Runs("configure"),
                      NEW d \in DependsOn[P], NEW s \in Required(d)
               PROVE  /\ s \in stamps[d]
                      /\ d \notin skewed => Whole(inst[d][s])
    BY DEF ConfigureSeesDeps
  <2>1. /\ ~Idle /\ S = "configured" /\ S \in Stamps /\ P \in Pkg
        /\ Top.target = <<S, P>> /\ Current # NoCommand
    BY MakingCommand DEF Making
  <2>2. d \in Pkg
    BY <2>1, ConfigAssumption, ElementOfSeq DEF DependsOn
  <2>3. s \in InstallStamps /\ s \in Stamps
    BY DEF Required, Stamps, InstallStamps
  <2>4. <<s, d>> \in done
    BY <2>1, <2>2, MadeBefore, DonePackage DEF WalkInvariant
  <2>5. s \in stamps[d]
    BY <2>1, <2>3, <2>4, StampTarget, TopFrame DEF WalkInvariant, VisitedStampsKept, S
  <2>6. ~Removing
    BY <2>1 DEF Removing, Removal
  <2> QED BY <2>2, <2>3, <2>5, <2>6 DEF InstalledFilesExist
<1> QED BY <1>1, Typing, Walk, Installing, PTL
=============================================================================
