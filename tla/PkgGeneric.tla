----------------------------- MODULE PkgGeneric -----------------------------
(***************************************************************************)
(* The package infrastructure of package/pkg-generic.mk, as one serial GNU *)
(* make process runs it.                                                   *)
(*                                                                         *)
(* Every step of a package ends in a stamp file, and no stamp file has a   *)
(* prerequisite: what orders the steps is only that make (".NOTPARALLEL")  *)
(* visits the prerequisites of the phony targets from left to right and    *)
(* every target once per invocation.  The module therefore models make's   *)
(* depth-first walk over the rules (the stack), the recipes command by     *)
(* command, the failure of any command, the interruption of make between   *)
(* any two, and the user who calls make again, with any goal.              *)
(***************************************************************************)
EXTENDS Integers, Sequences

CONSTANTS
  Pkg,        \* the packages of the configuration, host-* ones included
  Host,       \* those of type host
  Override,   \* those with <PKG>_OVERRIDE_SRCDIR set
  Staging,    \* those with <PKG>_INSTALL_STAGING = YES
  Target,     \* those with <PKG>_INSTALL_TARGET = YES
  Images,     \* those with <PKG>_INSTALL_IMAGES = YES
  Deps,       \* Deps[p]: <PKG>_DEPENDENCIES, in order
  Selected,   \* TARGETS: the packages enabled in the configuration, in order
  NPatches,   \* NPatches[p]: how many patches apply to p
  Goals,      \* the targets the user may give make
  Breakable,  \* the commands that may be cut short half done
  UserRemoves,\* the stamps the user may remove by hand
  MaxVersion  \* MaxVersion[p]: bound on the edits of the sources of p

-----------------------------------------------------------------------------
(* The targets of make: <<kind, package>>.                                 *)

InstallStamps == {"staging_installed", "target_installed", "images_installed",
                  "host_installed"}

Stamps == {"downloaded", "extracted", "rsynced", "patched", "configured",
           "built"} \cup InstallStamps

\* .stamp_uninstalled, .stamp_cleaned and .stamp_dircleaned are never created.
NeverStamped == {"uninstalled", "cleaned", "dircleaned"}

BuildPhonies == {"pkg", "install", "install-staging", "install-target",
                 "install-images", "install-host", "build", "configure",
                 "patch", "extract", "depends", "source", "rsync"}

OtherPhonies == {"uninstall", "clean", "dirclean", "clean-for-rebuild",
                 "rebuild", "clean-for-reconfigure", "reconfigure"}

World     == <<"all", "">>
MakeClean == <<"make-clean", "">>

MakeTarget ==
  ((Stamps \cup NeverStamped \cup BuildPhonies \cup OtherPhonies) \X Pkg)
    \cup {World, MakeClean}

ASSUME ConfigAssumption ==
  /\ Host \subseteq Pkg /\ Override \subseteq Pkg /\ Images \subseteq Pkg
  /\ Staging \subseteq Pkg /\ Target \subseteq Pkg
  /\ Deps \in [Pkg -> Seq(Pkg)] /\ Selected \in Seq(Pkg)
  /\ NPatches \in [Pkg -> Nat]
  /\ MaxVersion \in [Pkg -> Nat \ {0}]
  /\ Goals \subseteq
       ((BuildPhonies \cup OtherPhonies) \X Pkg) \cup {World, MakeClean}

\* The stamps an installed package has.
Required(p) ==
  IF p \in Host THEN {"host_installed"}
  ELSE (IF p \in Staging THEN {"staging_installed"} ELSE {})
         \cup (IF p \in Target THEN {"target_installed"} ELSE {})
         \cup (IF p \in Images THEN {"images_installed"} ELSE {})

\* The rule of <pkg>-install-<where>; Q has the packages installed there.
InstallRule(Q, p, stamp) ==
  IF p \in Q THEN <<<<"build", p>>, <<stamp, p>>>> ELSE <<>>

InstallWithoutStaging(p) ==
  IF p \in Host THEN <<<<"install-host", p>>>>
  ELSE <<<<"install-target", p>>, <<"install-images", p>>>>

InstallPrereqs(p) ==
  IF p \in Host THEN <<<<"install-host", p>>>>
  ELSE <<<<"install-staging", p>>, <<"install-target", p>>,
         <<"install-images", p>>>>

ConfigureFirst(p) ==
  IF p \in Override THEN <<<<"configured", p>>, <<"depends", p>>>>
  ELSE <<<<"patch", p>>, <<"configured", p>>, <<"depends", p>>>>

ConfigurePrereqs(p) ==
  IF p \in Override THEN <<<<"depends", p>>, <<"configured", p>>>>
  ELSE <<<<"patch", p>>, <<"depends", p>>, <<"configured", p>>>>

\* The prerequisites of a target, in the order its rules list them.
Prereqs(t) ==
  LET p == t[2] IN
  CASE t = World -> [i \in 1..Len(Selected) |-> <<"pkg", Selected[i]>>]
    [] t[1] = "pkg" -> <<<<"install", p>>>>
    [] t[1] = "install" -> InstallPrereqs(p)
    [] t[1] = "install-target" ->
         InstallRule(Target, p, "target_installed")
    [] t[1] = "install-staging" ->
         InstallRule(Staging, p, "staging_installed")
    [] t[1] = "install-images" ->
         InstallRule(Images, p, "images_installed")
    [] t[1] = "install-host" -> InstallRule(Pkg, p, "host_installed")
    [] t[1] = "build" -> <<<<"configure", p>>, <<"built", p>>>>
    [] t[1] = "configure" -> ConfigurePrereqs(p)
    [] t[1] = "patch" ->
         IF p \in Override THEN <<<<"rsync", p>>>>
         ELSE <<<<"extract", p>>, <<"patched", p>>>>
    [] t[1] = "extract" ->
         IF p \in Override THEN <<<<"rsync", p>>>>
         ELSE <<<<"source", p>>, <<"extracted", p>>>>
    [] t[1] = "depends" ->
         (IF p \in Override THEN <<<<"rsync", p>>>> ELSE <<>>)
           \o [i \in 1..Len(Deps[p]) |-> <<"pkg", Deps[p][i]>>]
    [] t[1] = "source" ->
         IF p \in Override THEN <<>> ELSE <<<<"downloaded", p>>>>
    [] t[1] = "rsync" -> <<<<"rsynced", p>>>>
    [] t[1] = "uninstall" -> <<<<"configure", p>>, <<"uninstalled", p>>>>
    [] t[1] = "clean" -> <<<<"uninstall", p>>, <<"cleaned", p>>>>
    [] t[1] = "dirclean" -> <<<<"dircleaned", p>>>>
    [] t[1] = "rebuild" -> <<<<"clean-for-rebuild", p>>, World>>
    [] t[1] = "clean-for-reconfigure" -> <<<<"clean-for-rebuild", p>>>>
    [] t[1] = "reconfigure" -> <<<<"clean-for-reconfigure", p>>, World>>
    [] OTHER -> <<>>

Rm(stamp) == <<"rm-stamp", stamp>>

UninstallFilesFirst ==
  <<<<"uninstall", "staging_installed">>, <<"uninstall", "target_installed">>,
    Rm("staging_installed"), Rm("target_installed")>>

UninstallCommands ==
  <<Rm("staging_installed"), Rm("target_installed"),
    <<"uninstall", "staging_installed">>, <<"uninstall", "target_installed">>>>

RebuildKeepsTarget(p) ==
  (IF p \in Override THEN <<Rm("rsynced")>> ELSE <<>>)
    \o <<Rm("built"), Rm("staging_installed"), Rm("images_installed"),
         Rm("host_installed")>>

RebuildKeepsImages(p) ==
  (IF p \in Override THEN <<Rm("rsynced")>> ELSE <<>>)
    \o <<Rm("built"), Rm("staging_installed"), Rm("target_installed"),
         Rm("host_installed")>>

RebuildCommands(p) ==
  (IF p \in Override THEN <<Rm("rsynced")>> ELSE <<>>)
    \o <<Rm("built"), Rm("staging_installed"), Rm("target_installed"),
         Rm("images_installed"), Rm("host_installed")>>

\* The commands of a target's recipe, <<command, argument>>; the hooks of a
\* step are part of the command they follow.
Recipe(t) ==
  LET k == t[1]
      p == t[2]
      Step(command) == <<<<command, k>>, <<"touch", k>>>>
  IN CASE k = "downloaded" -> Step("download")
       [] k = "extracted" -> Step("extract")
       [] k = "rsynced" -> Step("rsync")
       [] k = "patched" ->
            Append([i \in 1..NPatches[p] |-> <<"apply-patch", i>>],
                   <<"touch", k>>)
       [] k = "configured" -> Step("configure")
       [] k = "built" -> Step("build")
       [] k \in InstallStamps -> Step("install")
       [] k = "uninstalled" -> UninstallCommands
       [] k = "cleaned" -> <<<<"clean", k>>, Rm("built")>>
       [] k = "dircleaned" -> <<<<"rm-tree", k>>>>
       [] k = "clean-for-rebuild" -> RebuildCommands(p)
       [] k = "clean-for-reconfigure" -> <<Rm("configured")>>
       [] t = MakeClean ->
            <<<<"wipe", "staging_installed">>, <<"wipe", "target_installed">>,
              <<"wipe", "images_installed">>, <<"wipe", "host_installed">>,
              <<"wipe-trees", k>>>>
       [] OTHER -> <<>>

-----------------------------------------------------------------------------
(* The state of the output directory, and of the make process.             *)

VARIABLES
  stamps,   \* stamps[p]: the .stamp_* files in the build directory of p
  srcdir,   \* srcdir[p]: version of the user's own sources (OVERRIDE_SRCDIR)
  tree,     \* tree[p]: version of the sources in the build directory
  applied,  \* applied[p]: how many patches are applied to them
  conf,     \* conf[p]: version of the sources that were configured
  obj,      \* obj[p]: versions of sources and configuration that were built
  inst,     \* inst[p][s]: version found where install step s puts it
  skewed,   \* history: packages whose stamps do not speak for their files
  stack, done, pc, result   \* the make process

package == <<stamps, srcdir, tree, applied, conf, obj, inst, skewed>>
make    == <<stack, done, pc, result>>
vars    == <<package, make>>

Absent == 0       \* not there at all
Broken == -1      \* half written, half removed, or made from such a thing
Version == Nat \cup {Broken}
Whole(v) == v > 0

Frame == [target : MakeTarget, next : Nat \ {0}]

TypeOK ==
  /\ stamps \in [Pkg -> SUBSET Stamps]
  /\ srcdir \in [Pkg -> Nat \ {0}]
  /\ tree \in [Pkg -> Version]
  /\ applied \in [Pkg -> Nat \cup {Broken}]
  /\ conf \in [Pkg -> Version]
  /\ obj \in [Pkg -> [src : Version, cfg : Version]]
  /\ inst \in [Pkg -> [InstallStamps -> Version]]
  /\ skewed \subseteq Pkg
  /\ stack \in Seq(Frame)
  /\ done \subseteq MakeTarget
  /\ pc \in Nat \ {0}
  /\ result \in {"running", "ok", "failed"}

Init ==
  /\ stamps = [p \in Pkg |-> {}]
  /\ srcdir = [p \in Pkg |-> 1]
  /\ tree = [p \in Pkg |-> Absent]
  /\ applied = [p \in Pkg |-> 0]
  /\ conf = [p \in Pkg |-> Absent]
  /\ obj = [p \in Pkg |-> [src |-> Absent, cfg |-> Absent]]
  /\ inst = [p \in Pkg |-> [s \in InstallStamps |-> Absent]]
  /\ skewed = {}
  /\ stack = <<>>
  /\ done = {}
  /\ pc = 1
  /\ result = "ok"

-----------------------------------------------------------------------------
(* GNU make: a depth-first walk.                                           *)

Idle == stack = <<>>
Goal == stack[1].target
Top  == stack[Len(stack)]

PrereqsLeft == Top.next <= Len(Prereqs(Top.target))

\* A stamp file that exists is up to date: it has no prerequisites.
UpToDate(t) == t[1] \in Stamps /\ t[1] \in stamps[t[2]]

NoCommand == <<"none", "none">>

\* The next command of the recipe under way; NoCommand when there is none.
Current ==
  IF Idle \/ PrereqsLeft \/ UpToDate(Top.target)
       \/ pc > Len(Recipe(Top.target))
  THEN NoCommand
  ELSE Recipe(Top.target)[pc]

Runs(command) == Current[1] = command

\* The package and the step (a stamp) of the recipe under way.
P == Top.target[2]
S == Top.target[1]

ReturnWithoutReset ==
  /\ done' = done \cup {Top.target}
  /\ stack' = SubSeq(stack, 1, Len(stack) - 1)
  /\ pc' = pc - 1
  /\ result' = IF Len(stack) = 1 THEN "ok" ELSE result

\* The target on top of the stack is made.
Return ==
  /\ done' = done \cup {Top.target}
  /\ stack' = SubSeq(stack, 1, Len(stack) - 1)
  /\ pc' = 1
  /\ result' = IF Len(stack) = 1 THEN "ok" ELSE result

\* The command under way has succeeded.
Succeed ==
  IF pc < Len(Recipe(Top.target))
  THEN pc' = pc + 1 /\ UNCHANGED <<stack, done, result>>
  ELSE Return

\* A command failed or make was interrupted: the invocation ends.
Stop ==
  /\ stack' = <<>>
  /\ done' = {}
  /\ pc' = 1
  /\ result' = "failed"

\* The user runs "make g".
Invoke(g) ==
  /\ Idle
  /\ stack' = <<[target |-> g, next |-> 1]>>
  /\ done' = {}
  /\ pc' = 1
  /\ result' = "running"
  /\ UNCHANGED package

\* Make considers the next prerequisite of the target it is at.
Consider ==
  /\ ~Idle /\ PrereqsLeft
  /\ LET u == Prereqs(Top.target)[Top.next]
     IN IF u \in done
        THEN stack' = [stack EXCEPT ![Len(stack)].next = @ + 1]
        ELSE stack' = Append(stack, [target |-> u, next |-> 1])
  /\ UNCHANGED <<package, done, pc, result>>

\* Nothing to run: a phony target without recipe, or a stamp that exists.
NothingToDo ==
  /\ ~Idle /\ ~PrereqsLeft
  /\ UpToDate(Top.target) \/ Recipe(Top.target) = <<>>
  /\ Return
  /\ UNCHANGED package

-----------------------------------------------------------------------------
(* The commands of the recipes, when they succeed.                         *)

TouchForgotten ==
  /\ Runs("touch")
  /\ Succeed
  /\ UNCHANGED package

Touch ==
  /\ Runs("touch")
  /\ stamps' = [stamps EXCEPT ![P] = @ \cup {S}]
  /\ Succeed
  /\ UNCHANGED <<srcdir, tree, applied, conf, obj, inst, skewed>>

\* The archive is in the download directory; PkgDownload has the details.
Download ==
  /\ Runs("download")
  /\ Succeed
  /\ UNCHANGED package

\* The archive is unpacked over whatever the build directory holds.
Extract ==
  /\ Runs("extract")
  /\ tree' = [tree EXCEPT ![P] = 1]
  /\ applied' = [applied EXCEPT ![P] = 0]
  /\ Succeed
  /\ UNCHANGED <<stamps, srcdir, conf, obj, inst, skewed>>

Rsync ==
  /\ Runs("rsync")
  /\ tree' = [tree EXCEPT ![P] = srcdir[P]]
  /\ Succeed
  /\ UNCHANGED <<stamps, srcdir, applied, conf, obj, inst, skewed>>

PatchForced(p, i) == TRUE

\* A patch applies only where the ones before it, and not itself, are applied.
PatchFits(p, i) == Whole(tree[p]) /\ applied[p] = i - 1

ApplyPatch ==
  /\ Runs("apply-patch")
  /\ PatchFits(P, Current[2])
  /\ applied' = [applied EXCEPT ![P] = @ + 1]
  /\ Succeed
  /\ UNCHANGED <<stamps, srcdir, tree, conf, obj, inst, skewed>>

\* Configuring or compiling broken input fails, or gives a broken result.
Sound(p) == Whole(tree[p]) /\ (p \in Override \/ applied[p] = NPatches[p])

Configure ==
  /\ Runs("configure")
  /\ conf' = [conf EXCEPT ![P] = IF Sound(P) THEN tree[P] ELSE Broken]
  /\ Succeed
  /\ UNCHANGED <<stamps, srcdir, tree, applied, obj, inst, skewed>>

Build ==
  /\ Runs("build")
  /\ obj' = [obj EXCEPT ![P] =
               IF Sound(P) /\ Whole(conf[P])
               THEN [src |-> tree[P], cfg |-> conf[P]]
               ELSE [src |-> Broken, cfg |-> Broken]]
  /\ Succeed
  /\ UNCHANGED <<stamps, srcdir, tree, applied, conf, inst, skewed>>

Install ==
  /\ Runs("install")
  /\ inst' = [inst EXCEPT ![P][S] =
                IF Whole(obj[P].src) THEN obj[P].src ELSE Broken]
  /\ Succeed
  /\ UNCHANGED <<stamps, srcdir, tree, applied, conf, obj, skewed>>

RmStamp ==
  /\ Runs("rm-stamp")
  /\ stamps' = [stamps EXCEPT ![P] = @ \ {Current[2]}]
  /\ skewed' = IF S = "cleaned" /\ stamps[P] \cap {"images_installed", "host_installed"} # {}
               THEN skewed \cup {P} ELSE skewed
  /\ Succeed
  /\ UNCHANGED <<srcdir, tree, applied, conf, obj, inst>>

Uninstall ==
  /\ Runs("uninstall")
  /\ inst' = [inst EXCEPT ![P][Current[2]] = Absent]
  /\ Succeed
  /\ UNCHANGED <<stamps, srcdir, tree, applied, conf, obj, skewed>>

CleanObjects ==
  /\ Runs("clean")
  /\ obj' = [obj EXCEPT ![P] = [src |-> Absent, cfg |-> Absent]]
  /\ Succeed
  /\ UNCHANGED <<stamps, srcdir, tree, applied, conf, inst, skewed>>

RemoveTreesNotStamps(Q) ==
  /\ tree' = [p \in Pkg |-> IF p \in Q THEN Absent ELSE tree[p]]
  /\ UNCHANGED <<stamps, applied, conf, obj>>

\* The build directories of the packages in Q are removed, stamps and all.
RemoveTrees(Q) ==
  /\ stamps' = [p \in Pkg |-> IF p \in Q THEN {} ELSE stamps[p]]
  /\ tree' = [p \in Pkg |-> IF p \in Q THEN Absent ELSE tree[p]]
  /\ applied' = [p \in Pkg |-> IF p \in Q THEN 0 ELSE applied[p]]
  /\ conf' = [p \in Pkg |-> IF p \in Q THEN Absent ELSE conf[p]]
  /\ obj' = [p \in Pkg |-> IF p \in Q THEN [src |-> Absent, cfg |-> Absent]
                           ELSE obj[p]]

RmTree ==
  /\ Runs("rm-tree")
  /\ RemoveTrees({P})
  /\ skewed' = skewed \ {P}
  /\ Succeed
  /\ UNCHANGED <<srcdir, inst>>

\* "make clean" removes STAGING_DIR, TARGET_DIR, BINARIES_DIR, HOST_DIR and
\* then BUILD_DIR.
Wipe ==
  /\ Runs("wipe")
  /\ inst' = [p \in Pkg |-> [inst[p] EXCEPT ![Current[2]] = Absent]]
  /\ Succeed
  /\ UNCHANGED <<stamps, srcdir, tree, applied, conf, obj, skewed>>

WipeTrees ==
  /\ Runs("wipe-trees")
  /\ RemoveTrees(Pkg)
  /\ skewed' = {}
  /\ Succeed
  /\ UNCHANGED <<srcdir, inst>>

-----------------------------------------------------------------------------
(* Commands that fail, and interruptions.                                  *)

Removal == {"uninstalled", "cleaned", "dircleaned", "clean-for-rebuild",
            "clean-for-reconfigure", "make-clean"}

\* A removal that stops after its first command leaves the stamps of its
\* packages at odds with their files.
SkewedByStop ==
  IF S \notin Removal \/ pc = 1 \/ S = "uninstalled" THEN {}
  ELSE IF Top.target = MakeClean THEN Pkg ELSE {P}

\* Make stops between two commands: the next one fails without any effect, or
\* the user interrupts it.
Interrupt ==
  /\ ~Idle
  /\ Stop
  /\ skewed' = skewed \cup SkewedByStop
  /\ UNCHANGED <<stamps, srcdir, tree, applied, conf, obj, inst>>

\* apply-patches.sh: a patch that does not fit stops make, rejects and all.
PatchRefused ==
  /\ Runs("apply-patch")
  /\ ~PatchFits(P, Current[2])
  /\ applied' = [applied EXCEPT ![P] = Broken]
  /\ Stop
  /\ UNCHANGED <<stamps, srcdir, tree, conf, obj, inst, skewed>>

\* A command is cut short half done.
Broke(f, p, hit) == [f EXCEPT ![p] = IF hit THEN Broken ELSE @]

BreakStep ==
  LET c == Current[1] IN
  /\ c \in {"extract", "rsync", "apply-patch", "configure", "build", "install",
            "uninstall", "clean"} \cap Breakable
  /\ tree' = Broke(tree, P, c \in {"extract", "rsync"})
  /\ applied' = Broke(applied, P, c = "apply-patch")
  /\ conf' = Broke(conf, P, c = "configure")
  /\ obj' = [obj EXCEPT ![P] = IF c \in {"build", "clean"}
                               THEN [src |-> Broken, cfg |-> Broken] ELSE @]
  /\ inst' = [inst EXCEPT ![P] =
                IF c = "install" THEN [@ EXCEPT ![S] = Broken]
                ELSE IF c = "uninstall" THEN [@ EXCEPT ![Current[2]] = Broken]
                ELSE @]
  /\ skewed' = skewed \cup (IF c = "clean" THEN {P} ELSE {})
  /\ Stop
  /\ UNCHANGED <<stamps, srcdir>>

\* rm -Rf is cut short: it removes files in directory order, so any subset of
\* the stamps may be gone, and any of the rest may be damaged.
BreakRmTree ==
  /\ Runs("rm-tree") /\ "rm-tree" \in Breakable
  /\ \E rest \in SUBSET stamps[P] : stamps' = [stamps EXCEPT ![P] = rest]
  /\ tree' = Broke(tree, P, TRUE)
  /\ conf' = Broke(conf, P, TRUE)
  /\ obj' = [obj EXCEPT ![P] = [src |-> Broken, cfg |-> Broken]]
  /\ skewed' = skewed \cup {P}
  /\ Stop
  /\ UNCHANGED <<srcdir, applied, inst>>

\* rm -rf of an install directory is cut short.
BreakWipe ==
  /\ Runs("wipe") /\ "wipe" \in Breakable
  /\ inst' = [p \in Pkg |->
               [inst[p] EXCEPT ![Current[2]] =
                  IF @ = Absent THEN Absent ELSE Broken]]
  /\ skewed' = Pkg
  /\ Stop
  /\ UNCHANGED <<stamps, srcdir, tree, applied, conf, obj>>

\* rm -rf of BUILD_DIR is cut short between two packages.
BreakWipeTrees ==
  /\ Runs("wipe-trees") /\ "wipe-trees" \in Breakable
  /\ \E Q \in SUBSET Pkg : RemoveTrees(Q) /\ skewed' = Pkg \ Q
  /\ Stop
  /\ UNCHANGED <<srcdir, inst>>

-----------------------------------------------------------------------------
(* The user, between two invocations.                                      *)

\* The user changes a source: in the override directory, or, for a package
\* without one, directly in the build directory.
Edit(p) ==
  /\ Idle
  /\ IF p \in Override
     THEN /\ srcdir[p] < MaxVersion[p]
          /\ srcdir' = [srcdir EXCEPT ![p] = @ + 1]
          /\ UNCHANGED tree
     ELSE /\ Sound(p) /\ "patched" \in stamps[p] /\ tree[p] < MaxVersion[p]
          /\ tree' = [tree EXCEPT ![p] = @ + 1]
          /\ UNCHANGED srcdir
  /\ UNCHANGED <<stamps, applied, conf, obj, inst, skewed, make>>

RemoveStamp(p, s) ==
  /\ Idle
  /\ s \in stamps[p]
  /\ stamps' = [stamps EXCEPT ![p] = @ \ {s}]
  /\ UNCHANGED <<srcdir, tree, applied, conf, obj, inst, skewed, make>>

-----------------------------------------------------------------------------
Engine ==
  \/ Consider \/ NothingToDo
  \/ Touch \/ Download \/ Extract \/ Rsync \/ ApplyPatch \/ Configure \/ Build
  \/ Install \/ RmStamp \/ Uninstall \/ CleanObjects \/ RmTree \/ Wipe
  \/ WipeTrees
  \/ PatchRefused

Fault == Interrupt \/ BreakStep \/ BreakRmTree \/ BreakWipe \/ BreakWipeTrees

Next ==
  \/ \E g \in Goals : Invoke(g)
  \/ Engine
  \/ Fault
  \/ \E p \in Pkg : Edit(p)
  \/ \E p \in Pkg, s \in UserRemoves : RemoveStamp(p, s)

Spec == Init /\ [][Next]_vars

-----------------------------------------------------------------------------
(* Safety.                                                                 *)

DependsOn == [p \in Pkg |-> {Deps[p][i] : i \in DOMAIN Deps[p]}]

Removing == ~Idle /\ S \in Removal

\* pkg-generic.mk:84-102.  A tree whose patching is stamped finished carries
\* every patch exactly once, whatever failed, was interrupted and was run again
\* before, unless a removal of the package was cut short.
PatchedOnce ==
  \A p \in Pkg \ skewed :
    "patched" \in stamps[p] => Whole(tree[p]) /\ applied[p] = NPatches[p]

\* pkg-generic.mk:120-161, 169-180.  An install stamp means that the files of
\* the package are where that step installs them: "Uninstall commands tend to
\* fail, so remove the stamp files first".
InstalledFilesExist ==
  \A p \in Pkg \ skewed, s \in InstallStamps :
    s \in stamps[p] /\ ~Removing => Whole(inst[p][s])

\* pkg-generic.mk:430-445.  Once a package is stamped built, what it was built
\* with is the configuration stamped configured, and what is installed is what
\* was built: no rebuild, reconfigure, clean or interruption leaves an older
\* build installed under a stamp.
InstalledIsBuilt ==
  \A p \in Pkg \ skewed :
    "built" \in stamps[p] /\ ~Removing =>
      /\ "configured" \in stamps[p] => obj[p].cfg = conf[p]
      /\ \A s \in stamps[p] \cap InstallStamps : inst[p][s] = obj[p].src

\* pkg-generic.mk:385, 393.  When a package is configured, every package it
\* depends on is installed: the stamps say so and the files are there.
ConfigureSeesDeps ==
  Runs("configure") =>
    \A d \in DependsOn[P] : \A s \in Required(d) :
      /\ s \in stamps[d]
      /\ d \notin skewed => Whole(inst[d][s])

-----------------------------------------------------------------------------
(* The order of the steps, as PkgOrder states it.                          *)

SourceSteps(p) ==
  IF p \in Override THEN {"rsynced"} ELSE {"downloaded", "extracted", "patched"}

Before ==
  [p \in Pkg |-> [s \in Stamps |->
     CASE s \in {"downloaded", "rsynced"} -> {}
       [] s = "extracted" -> {"downloaded"}
       [] s = "patched" -> {"downloaded", "extracted"}
       [] s = "configured" -> SourceSteps(p)
       [] s = "built" -> SourceSteps(p) \cup {"configured"}
       [] s \in InstallStamps -> SourceSteps(p) \cup {"configured", "built"}]]

Order == INSTANCE PkgOrder WITH
  Step <- Stamps,
  AfterDeps <- {"configured", "built"} \cup InstallStamps,
  Installed <- [p \in Pkg |-> Required(p)],
  have <- stamps

\* pkg-generic.mk:350-418.  Whatever stamps were removed or lost before, no
\* step of a package is stamped unless all its earlier steps stand and, from
\* configuration on, all its dependencies are installed.
StepsInOrder == Order!Spec

-----------------------------------------------------------------------------
(* The invariant of make's walk on which the order of the steps rests.     *)

\* Targets that only build, targets that remove and then build or build and
\* then remove, and the rest, which only remove.
BuildTarget == ((Stamps \cup BuildPhonies) \X Pkg) \cup {World}
MixedTarget == {"uninstall", "clean", "rebuild", "reconfigure"} \X Pkg
PlainTarget == MakeTarget \ (BuildTarget \cup MixedTarget)

\* Every frame is at the prerequisite the next frame makes, and has had its
\* earlier ones made; what is made has all its prerequisites made.
StackIsChain ==
  \A n \in 1 .. Len(stack) - 1 :
    /\ stack[n].next <= Len(Prereqs(stack[n].target))
    /\ stack[n + 1].target = Prereqs(stack[n].target)[stack[n].next]

EarlierDone ==
  \A n \in 1..Len(stack) : \A j \in 1 .. stack[n].next - 1 :
    Prereqs(stack[n].target)[j] \in done

DoneIsClosed ==
  \A t \in done : \A j \in 1..Len(Prereqs(t)) : Prereqs(t)[j] \in done

BottomIsGoal == Idle \/ Goal \in Goals

\* Above a frame that builds every frame builds; likewise for plain ones.
KindsNest ==
  \A n \in 1..Len(stack) : \A m \in n..Len(stack) :
    /\ stack[n].target \in BuildTarget => stack[m].target \in BuildTarget
    /\ stack[n].target \in PlainTarget => stack[m].target \in PlainTarget

\* Either nothing has been built, or what is left to visit builds nothing.
NothingBuilt ==
  /\ done \cap BuildTarget = {}
  /\ \A n \in 1..Len(stack) : stack[n].target \notin BuildTarget

Unvisited(n) ==
  (stack[n].next + IF n < Len(stack) THEN 1 ELSE 0)
    .. Len(Prereqs(stack[n].target))

NothingToBuild ==
  \A n \in 1..Len(stack) : \A j \in Unvisited(n) :
    stack[n].target \notin BuildTarget =>
      \/ Prereqs(stack[n].target)[j] \in done
      \/ Prereqs(stack[n].target)[j] \in PlainTarget

\* While make builds, the stamps it has visited are there.
VisitedStampsKept ==
  ~Idle /\ Top.target \in BuildTarget =>
    \A t \in done : t[1] \in Stamps => t[1] \in stamps[t[2]]

WalkInvariant ==
  /\ StackIsChain
  /\ EarlierDone
  /\ DoneIsClosed
  /\ BottomIsGoal
  /\ KindsNest
  /\ NothingBuilt \/ NothingToBuild
  /\ VisitedStampsKept

-----------------------------------------------------------------------------
(* Action properties.                                                      *)

Succeeds == result = "running" /\ result' = "ok"

\* pkg-generic.mk:440, 445.  When "make <pkg>-rebuild" (or -reconfigure)
\* succeeds, what is installed in every place was built from the sources as
\* they were when it was run.
RebuildInstallsCurrent ==
  [][\A p \in Pkg \ skewed :
       /\ Succeeds /\ Goal[1] \in {"rebuild", "reconfigure"} /\ Goal[2] = p
       /\ <<"pkg", p>> \in done
       => /\ obj'[p].src = tree'[p]
          /\ p \in Override => tree'[p] = srcdir'[p]
          /\ Goal[1] = "reconfigure" => conf'[p] = tree'[p]
          /\ \A s \in Required(p) : inst'[p][s] = tree'[p]]_vars

\* pkg-generic.mk:350-400, Makefile:402.  When "make" succeeds, every selected
\* package and everything below it is installed.
SuccessIsComplete ==
  [][Succeeds /\ Goal = World =>
       \A p \in Pkg :
         p \in {Selected[i] : i \in DOMAIN Selected}
           \cup UNION {DependsOn[q] : q \in {r \in Pkg : <<"pkg", r>> \in done}}
         => Required(p) \subseteq stamps'[p]]_vars

\* apply-patches.sh:86-90.  A tree that a patch broke stays broken, and is
\* never stamped patched, until it is removed or extracted anew: running make
\* again does not paper over it.
BrokenPatchSticks ==
  [][\A p \in Pkg :
       applied[p] = Broken /\ "extracted" \in stamps[p] =>
         \/ stamps'[p] = {}
         \/ /\ applied'[p] = Broken
            /\ "patched" \in stamps'[p] => "patched" \in stamps[p]]_vars

-----------------------------------------------------------------------------
(* Liveness.  Fairness: make runs on while it is running; the user runs     *)
(* "make" again and again, and "make <pkg>-dirclean" on a package whose     *)
(* patching broke, as the manual tells.                                     *)

Wedged(p) == applied[p] = Broken

LiveSpec ==
  /\ Spec
  /\ WF_vars(Engine)
  /\ SF_vars((\A p \in Pkg : ~Wedged(p)) /\ Invoke(World))
  /\ \A p \in Pkg : SF_vars(Wedged(p) /\ Invoke(<<"dirclean", p>>))

Disturbance == Fault \/ \E p \in Pkg, s \in UserRemoves : RemoveStamp(p, s)

\* pkg-generic.mk:27-184.  Once commands stop failing and nobody removes
\* stamps, "make" succeeds again and again however the earlier runs ended: no
\* interruption leaves a state that only "make clean" gets out of.  (A tree
\* whose patching broke needs the dirclean: apply-patches.sh:86-90 refuses it
\* in every later run.)
Recovers ==
  <>[][~Disturbance]_vars => []<><<Succeeds /\ Goal = World>>_vars
=============================================================================
