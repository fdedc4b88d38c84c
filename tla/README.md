# A verification project for Buildroot

Buildroot turns a configuration into a root filesystem: it downloads, unpacks,
patches, configures, compiles and installs packages, in the order their
dependencies ask for, and it remembers what it has done in *stamp files*. That
is GNU make and shell. The configuration is made with Kconfig, a C program
taken from Linux with several front ends. No part of this is tested beyond
whole builds, and the hard part is not what a first build does but what the
hundredth `make` in the same output directory does: after a failure, an
interruption, a rebuild of one package, a clean, an edit, another
`menuconfig`.

This directory holds TLA+ modules for the parts that carry that logic, the TLC
configurations that check them on small instances, and proofs, checked by
TLAPS, that the most important properties of the package infrastructure, the
downloads, the dialog boxes and the simplification of dependencies hold for
every configuration.

## 1. Inventory

| part | source | state it keeps | operations | what must hold |
|---|---|---|---|---|
| Package infrastructure | `package/pkg-generic.mk` | stamp files and build directory of each package, the installed trees | the steps of a package (download ... install), uninstall, clean, dirclean, rebuild, reconfigure | steps in order, dependencies first, stamps that speak the truth, rebuilds that reach every copy |
| Top-level make | `Makefile` | lists of targets | world, clean, source, target-finalize, images | success means everything is installed; `make source` fetches what a build needs |
| Download helpers | `package/pkg-download.mk` | the download directory, shared by all output directories | `DOWNLOAD` with seven methods and three sites | an archive under its name is whole; retries work |
| Kconfig core | `support/kconfig/{expr,symbol,menu,confdata}.c`, `zconf.y` | symbols with values and flags, the menu tree, `.config`, `auto.conf`, `autoconf.h` | parse, simplify, restructure, evaluate, set, read, write | nothing the Kconfig files say is lost on the way to the tree; a configuration satisfies its dependencies and reads back as it was |
| conf | `support/kconfig/conf.c` | a walk over the tree, the files | 13 modes (oldconfig, silentoldconfig, defconfig, ...) | asks what is new and only that, comes to an end, replaces files so that a crash at any point is survived |
| menuconfig | `support/kconfig/mconf.c`, `lxdialog/` | nested menus, each with a window painted once and patched | move, answer, search, help, load, save, exit, resize | what the screen shows is what there is; a key acts on the line that is lit; nothing is lost on leaving |
| nconfig | `support/kconfig/nconf.c`, `nconf.gui.c` | the same over ncurses menus and forms | the same, and the function keys, search as you type | the same |
| Patching | `support/scripts/apply-patches.sh` | the tree, `.applied_patches_list`, rejects | apply one patch, walk a patch directory | every patch once, in order, or make stops |
| Filesystem images | `fs/common.mk`, `fs/*/*.mk` | `TARGET_DIR`, the fakeroot script, `images/` | pre- and post-hooks, image commands | an image is made from the tree as finished |
| User tables | `support/scripts/mkusers` | passwd, group, shadow of the target | check, allocate ids, write | no id or name twice |
| Device tables | `package/makedevs/makedevs.c` | the target tree | one action per line | counts and numbering of devices |
| legal-info | `pkg-utils.mk`, `pkg-generic.mk:478-521` | manifest, saved sources | one target per package | one row per package |
| Kernel | `linux/linux.mk` | as a package, with its images | patches, initramfs rebuild | the image holds the final root filesystem |
| gconfig, xconfig | `support/kconfig/gconf.c`, `qconf.cc` | widgets of GTK and Qt | as menuconfig | (see section 8) |
| Toolchains | `toolchain/` | their own stamps | import or build | (see section 8) |
| Host checks, reports | `support/dependencies`, `support/scripts` | none | print, or stop make | (see section 8) |
| Package definitions, boards, configurations | `package/*/`, `boot`, `board`, `configs` | none: data | - | - |

How the parts meet: the configurator a user runs writes `.config`; `make` then
runs `conf --silentoldconfig`, which makes `auto.conf` (the makefiles' view of
it), touches a header for each symbol that changed, and makes `autoconf.h`.
Each enabled package calls the macro `inner-generic-package`, which defines its
variables and the phony targets `<pkg>-source` ... `<pkg>-install`. `world`
waits for `<pkg>` for every enabled package, `<pkg>-depends` for `<dep>` for
every dependency. `.stamp_downloaded` calls `DOWNLOAD`, `.stamp_patched` calls
`apply-patches.sh`; the image targets wait for all packages. Everything shares
state through files: the configuration, the build directory, `STAGING_DIR`,
`TARGET_DIR`, `HOST_DIR`, `BINARIES_DIR` of one output directory, and `DL_DIR`,
which several output directories use at once.

What is hard here:

- **Order without prerequisites.** No stamp file depends on another. The steps
  come in order because `.NOTPARALLEL` make visits the prerequisites of phony
  targets from left to right and makes each target once per invocation. The
  order is a property of the walk, not of any rule.
- **Any command may fail or be interrupted**, half done, at any place, and the
  user then calls make again with any goal.
- **Removals** take stamps and files away one by one, in an order that decides
  what an interruption leaves.
- **Several builders** share one download directory, without locks.
- **Lazy values.** A Kconfig symbol keeps its value under a flag `VALID` until
  something clears all of them. Whether what is written, asked or shown is
  current depends on who cleared the flags last, and reading a file takes
  values back after others have been calculated from them.
- **Trees rewritten in place.** Dependencies are simplified and compared by
  taking common parts out of two trees at once; submenus are cut out of the
  lists being walked.
- **Sessions that die.** Three files are replaced one after the other by
  renames, some of whose results nobody looks at; the next run starts from
  what is there.
- **Screens patched, not painted.** A menu is drawn once, then rows scroll and
  are printed again singly; which item a key is for is computed from the scroll
  position and a row, in a list every dialog shares; menus nest, and what
  happens in an inner one makes the outer one old.

The hazards are listed with their lines in `PROJECT.json`.

## 2. Modules

| module | models | kind |
|---|---|---|
| `PkgGeneric` | `pkg-generic.mk:27-184, 349-445`, `make clean`, and GNU make's walk over them | component |
| `PkgOrder` | what the package infrastructure promises about the order of steps, without make | abstract specification |
| `MCPkgGeneric` | small configurations for `PkgGeneric` | model checking |
| `PkgGenericOrdering`, `PkgGenericInstalling`, `PkgGenericRebuilding` | lemmas about the rules and recipes; theorems `Typing`, `Walk`, `Ordering`, `Completeness`, `PatchingOnce`, `BrokenSticks`, `Installing`, `Configuring`, `Building`, `Rebuilding` | proofs |
| `PkgDownload` | `pkg-download.mk`: `DOWNLOAD` and its methods, several builders | component |
| `AtomicFile` | a file that appears in one step, whole, and stays | abstract specification |
| `PkgDownloadProofs` | theorems `DownloadTyping`, `Quiet`, `Atomicity` | proofs |
| `SourceSet` | `Makefile:361-385`: what `make source` fetches | component |
| `MCSourceSet` | the rank that bounds its graphs | model checking |
| `SourceSetProofs` | theorem `Spurious` | proofs |
| `Tristate`, `KconfigRules` | the logic, and what each function of `expr.c` does at one node of an expression | operators |
| `KconfigExpr` | the functions of `expr.c` themselves, recursive over whole expressions | operators |
| `KconfigFinalize` | what `menu_finalize` does to the dependency of one entry | component |
| `KconfigExprProofs` | the functions of `expr.c` keep the value: theorems `YnKeepsValue`, `EqualInValue`, `NothingLeftImplied`, `TransformSound`, `TransBoolSound`, `TransCompareSound`, `JoinSound` | proofs |
| `KconfigFinalizeProofs` | `expr_eliminate_dups` and `KconfigFinalize`: theorems `Dups1Sound`, `Dups2Sound`, `RoundShrinks`, `DupsSound`, `TransBoolTwoValued`, `TransformKept`, `InheritKept`, `BooleanKept`, `VisibleKept`, `SubmenuKept` | proofs |
| `KconfigSymbol` | `symbol.c`: values, visibility, choices, setting | operators |
| `KconfigMenu` | `zconf.y`, `menu.c`: from statements to the finished tree; the check for recursion | operators |
| `KconfigData` | `confdata.c`: reading, writing, `auto.conf`, defconfigs | operators |
| `KconfigConf` | `conf.c`: sessions in one output directory, with crashes and updates | component |
| `Lxdialog`, `NconfGui` | the dialog boxes of menuconfig, of nconfig | operators |
| `LxdialogProofs` | a box of menuconfig or nconfig alone on the screen, from its opening to its return; theorems `ListShows`, `MenuShows`, `MenuFresh`, `InputShows`, `TextShows`, `FormShows`, `ScrollShows`, `CursesShows` | proofs |
| `KconfigFront` | what `mconf.c` and `nconf.c` share: frames, files, texts | component |
| `Mconf`, `Nconf` | menuconfig, nconfig | components |
| `MCKconfigExpr`, `MCKconfigMenu`, `MCKconfigConf`, `MCKconfigFronts` | what is checked of them, and small Kconfig files | model checking |

### PkgGeneric

A *target* is a pair of a kind and a package (`<<"configure", "lib">>` is
`lib-configure`, `<<"configured", "lib">>` its `.stamp_configured`), or `World`
or `MakeClean`. `Prereqs(t)` is the list of prerequisites as the rules give it,
for normal packages and those with `<PKG>_OVERRIDE_SRCDIR`, target and host;
`Recipe(t)` the list of its commands.

make is the variables `stack` (the targets under way and the prerequisite each
is at), `done` (what this invocation has made), `pc` (the command of the recipe
on top) and `result`. `Consider` takes make to the next prerequisite,
`NothingToDo` leaves a target without commands or a stamp that exists, and one
action per kind of command (`Extract`, `ApplyPatch`, `Install`, `RmStamp`,
`RmTree`, ...) runs it. Every command can also not run at all (`Interrupt`:
it fails at once, or the user interrupts make), or be cut short half done
(`BreakStep`, `BreakRmTree`, `BreakWipe`, `BreakWipeTrees`, for the commands in
`Breakable`), and a patch that does not fit is refused (`PatchRefused`). An
invocation then ends, and the files stay. The user is `Invoke(g)` for a goal
g, `Edit` of a source, and `RemoveStamp`, which the manual tells users to do.

Files are abstracted to *versions*. `tree[p]` is the version of the sources in
the build directory, `conf[p]` the version that was configured, `obj[p]` the
sources and the configuration that were compiled, `inst[p][s]` the version in
the place where step s installs. `Absent` (0) is not there, `Broken` (-1) is
half written or made from something broken. `applied[p]` counts patches. So a
stamp and the files it speaks of are separate state, and the properties relate
the two.

`skewed` is a history variable: the packages of which a *removal* (dirclean,
clean, clean-for-rebuild, make clean) was cut short after its first command, or
cleaned by `<pkg>-clean` although installed in images or on the host, whose
stamps that recipe leaves. For these the stamps really do not speak for the
files, and the properties that relate the two except them until a finished
`dirclean` or `make clean`. Everything about order holds for them too.

Simplifications: the archive is unpacked over what the build directory holds
and gives a clean tree (files that a patch added would remain); rsync brings
the tree to the user's version (files the user deleted would remain); hooks
belong to the command they follow; `.stamp_rsync_sourced`, whose recipe does
nothing, is left out, and so is the toolchain (`BASE_TARGETS`) before every
package. The patch command asks nothing: a patch already applied is refused.

### PkgDownload

`dir` maps the two names (`<source>` and `<source>.tmp`) to files, `content`
the files to the chunks written to them. A file that was renamed or removed is
still written by whoever has it open: so `mv` by one builder of what another
is writing is modelled as the operating system does it. Each builder has a
program counter over the shell commands of its method; `attempts`, chosen at
the start, is the list of methods that `DOWNLOAD_INNER` tries under some
setting of `BR2_PRIMARY_SITE`, `BR2_PRIMARY_SITE_ONLY`, `<PKG>_SITE_METHOD` and
`BR2_BACKUP_SITE`. Any transfer can fail (`TransferFails`), any clone, and any
builder can be interrupted (`Kill`) at any point. `cut` is a history variable,
which says where the code leaves part of an archive under its name: a transfer
ended early whose file was the archive already, or was a `.tmp` that another
builder was still going to rename to it (`Exposed`). A wget cut short at any
other time does not set it.

### SourceSet

The dependency graph is chosen freely at the start (within `Rank`, which makes
it acyclic), as are the enabled packages. `Fetch` is one `<pkg>-source` of
`make source`, `Disconnect` its end, `Build` the offline build of one package.
What a build needs is what lies in every set that holds the enabled packages
and is closed under dependencies.

### The Kconfig core

The C code keeps everything in structures it changes through pointers. Here an
operator takes the structure and returns the one it leaves: `k` is the tree
with the symbols' descriptions, `x` the symbols' values and flags (`valid`,
`write`, `user`, ... are the sets of symbols that have the flag). So
`sym_calc_value(k, x, s)` returns the x in which s, and whatever s depends on,
has been calculated and is marked valid, and a symbol that was marked keeps an
old value, as in the code. What is said of the order of events is therefore
kept: which symbols are calculated when, and by whom the marks are cleared.

- `KconfigRules` and `KconfigExpr` translate the rewriting of `expr.c`:
  `expr_transform`, `expr_eliminate_dups`, `expr_eliminate_eq`,
  `expr_trans_bool`, `expr_trans_compare`, with the joins of comparisons. The
  body of a function is in `KconfigRules`, with the functions it calls as
  parameters (`TransformStep(e, trans(_), ty)`); `KconfigExpr` ties the
  recursion. That is how the same text serves TLC and the proofs.
- `KconfigFinalize` takes one dependency and that of its menu through what
  `menu_finalize` does to them, with the functions of `expr.c` as CONSTANTs;
  `MCKconfigExpr` gives it those of `KconfigExpr`.
- `KconfigSymbol` has visibility, defaults, ranges, choices, selects and
  setting by hand.
- `KconfigMenu` goes from statements to the tree as the actions of the grammar
  do, and `menu_finalize` restructures it; `sym_check_deps` is the depth-first
  check with its marks. `MCKconfigMenu` compares the result with the statements.
- `KconfigData` reads and writes. A file is a sequence of lines; text in quotes
  is really escaped and read back. Comments and blank lines are left out.

Numbers are texts of one digit, as many as the ranges in use need. `MODULES` is
not defined by Buildroot's Kconfig files, so no symbol ever is `m`; where a
property holds only because of that, it says so.

### KconfigConf

The state of a process is `x` and `stack`, the calls of the recursive functions
`conf` and `check_conf` under way, one action per step between two questions;
`Answer(a)` is the user's. When the walk is over the files are written: `pc`
goes through the temporary file, the two renames of `conf_write`, the touching
of headers, and the renames of `conf_write_autoconf`, each an action. `Die` can
come between any two (and half way through touching, or through a defconfig
that is written in place). `Fails` is a file that cannot be opened or a rename that
fails, after which conf exits; headers may have been touched before it. At the rename to
`.config.old`, whose result the code does not look at, the process goes on. Then the
next process starts, in any mode, perhaps with other Kconfig files (`Update`).
What `main` reads before it asks is part of `Start`: `.config`; a defconfig, which may be
missing; the seed of the all*config modes that `KCONFIG_ALLCONFIG` names (none, one
that is missing, some lines, or what Buildroot's `*packageconfig` targets make
of `.config`); and `KCONFIG_NOSILENTUPDATE`, under which silentoldconfig
refuses to replace a `.config` that needs an update.
`touched` is a history variable, the headers touched since `auto.conf` was
replaced.

### KconfigFront, Mconf, Nconf

A configurator is a stack of *frames*, the C functions under way: menus in menus,
a box over a menu, a help text over a box. A frame opens its dialog
(`MconfOpen...`), keys change the dialog or make it return (`MconfKey`), and the
function goes on with what was returned (`MconfGoesOn`). `Lxdialog` and
`NconfGui` hold the dialogs. Their windows are functions on rows that are
painted, scrolled and printed on as the code does it; the row is only made equal
to what it should show by the code's own arithmetic. `items` is the list a menu
was made of, with what each item tells of its symbol: it is made by
`build_conf`, which calculates symbols on its way.

Files can fail to be opened or renamed (`Faults`); the terminal can take any of its
heights (`Terminals`) at any time, larger or smaller, also one at which nothing
fits; Ctrl-C can come
whenever menuconfig waits for a key (`Interrupt`). `faults` is a history variable of
what went wrong, for the properties that except it.

Left out are the single-menu mode, the digits that stand for function keys,
sideways scrolling, the wrapping of texts, colours and wording, a second resize
while a box of nconfig is open and SIGINT there.

## 3. Runs

| run | instance | checks | states |
|---|---|---|---|
| `pkg_pair` | `app`, built from the user's own directory, needs `host-tool`; world, rebuild, clean, `make clean`; rsync, installation, uninstallation and removal of trees can be cut short | `TypeOK`, `InstalledFilesExist`, `ConfigureSeesDeps`, `WalkInvariant`, `StepsInOrder`, `SuccessIsComplete`, `RebuildInstallsCurrent` | 430 k |
| `pkg_one` | one package, 2 patches, installed in the images, 2 versions of its sources; reconfigure, clean, dirclean; all other commands can be cut short; the user removes `.stamp_patched`; fairness | `PatchedOnce`, `InstalledIsBuilt`, `BrokenPatchSticks`, `Recovers` | 186 k |
| `download_wget` | one builder, wget only, 6 chunks, fairness | `TypeOK`, `AppearsWhole`, `Succeeds` | 282 |
| `download_shared` | two builders, all methods and sites | `QuietIsWhole` | 479 k |
| `download_parallel` | two builders, wget | `DownloadedIsWhole`: violated | - |
| `source_set` | all graphs over one package and three host tools | `NothingSpurious`, `OneLevelBuildSucceeds` | 968 |
| `kconfig_expr` | all dependencies of three levels over two Booleans and a tristate, under 21 parents | `TransformKeepsValue`, `InheritKeepsValue`, `BooleanKeepsVisibility`, `VisibleIsNotNo`, `SubmenuImplied` | 174 k |
| `kconfig_menu` | three symbols, flat or in an if, a menu or a choice, with every combination of dependencies, prompts, defaults and selects from a small set | `TreeInSourceOrder`, `VisibleAsWritten`, `SelectedAsWritten`, `ShownUnderShown`, `CycleReported` | 57 k |
| `kconfig_session` | two runs of conf, the first in any of 13 modes, an update of the Kconfig files between, or numbers with ranges (one of which is another number); all seeds; one fault; fairness | `TypeOK`, `ReadsBack`, `RoundTrip`, `Legal`, `UpToDate`, `AsksOnlyNew`, `TouchedBefore`, `Kept`, `Ends` | 118 k |
| `kconfig_fronts` | menuconfig and nconfig over seven symbols, three heights of the terminal in any order, two files, two first disks | `OnScreen`, `ShownIsCurrent`, `NothingLost`, `ActsOnHighlighted` | 412 k |
| `kconfig_notsaved` | menuconfig, no failing files | `NotSavedIsTold`: violated | - |
| `kconfig_olddefconfig` | two numbers, one the limit of the other | `NothingNew`: violated | - |

What they show, property by property, is said above each property in the
modules. Every property has a mutant in `PROJECT.json`: a change of a
definition, such as a bug in the code could be, under which TLC finds the
property violated.

**Bounds and why they suffice.**

- *Packages.* Stamps of one package meet stamps of another only through
  dependency edges, one at a time, and a recipe touches one package: two
  packages show every interaction of a step with an edge, and the ordering
  properties are proved for any number (section 5). One of the two is built from an
  override directory and one for the host, so all three kinds of rules occur;
  what only a normal package has (archive and patches) is in `pkg_one`. Two
  patches are the fewest that can be half applied. Two versions of a source
  (`MaxVersion`) are what it takes to tell old from new; the third and later
  edits repeat the second. Runs of make are not bounded: the state spaces are
  finite because versions are. Which commands can be cut short (`Breakable`) is
  divided between the two runs.
- *Downloads.* Two chunks are the fewest that make a file partial (wget has 6
  so that several places to stop exist), two builders the fewest that interfere.
- *make source.* Three host tools are the shortest chain that `HOST_DEPS` misses.
- *Expressions.* The rewriting rules look at two operands and what is inside
  them; three levels show each rule beside and under each other one. All
  valuations are tried.
- *Menus.* Three symbols are the fewest for an entry that depends on another,
  stands in the block of a third condition and is selected; every rule of
  `menu_finalize` looks at an entry, the one before it and its parent.
- *Sessions.* What a run leaves for the next is files only, so that two runs
  show every interaction of a run with the one before. One fault
  (`MaxFaults`) is enough for every single crash; a second would have to come in the
  recovery, which is the same code. One of the configurations has a number whose
  limit is another number, and files that hold more than it (`TooMany`), so that the values
  conf takes back occur with values that depend on them.
- *Front ends.* `MaxCommands` = 2 counts commands that would make the graph
  infinite or only wide: resizing, and giving the name of a file. Moves, answers, searches, opening
  and leaving boxes are not bounded. The terminal has 21, 17 or 9 rows: all
  is seen, a menu has to scroll, nothing fits; it goes from any to any, so that a
  scrolled menu is also enlarged. Of the two first disks one leaves a menu empty. Fields of 2 cells and
  texts of up to 2 characters scroll; a list of one row (6 in the code) scrolls
  with two values.

**Exceptions the properties make,** because the code is really otherwise:

- `ReadsBack` and `Legal` except a run of olddefconfig over a number that `conf_read`
  took back because it was out of range (`TookBack`): a symbol that becomes visible by
  that is not written. This is what `kconfig_olddefconfig` shows. `ReadsBack` does not look at
  lines "is not set" of values of a choice, which are written also for values that are
  invisible.
- `Kept` excepts the case that the rename to `.config.old` fails, which nobody
  looks at.
- `OnScreen` and `ActsOnHighlighted` except a menu of menuconfig that was painted
  from a stale `first_item` (`Shifted`). `MenuFresh` proves which resizes it takes.
- `NothingLost` excepts a failed rename, the loading of a file that is missing, and
  Ctrl-C at the box that tells of a save.
- `ShownIsCurrent` excepts nconfig's Show All.
- `QuietIsWhole` excepts transfers cut short that wrote under the archive's name, or
  under one about to be renamed to it (`cut`). There the code leaves part of an
  archive, and the next builder takes it.
- `PatchedOnce` and the others that relate stamps to files except `skewed` packages:
  those whose removal was cut short, an interrupted `make clean` included, and for
  `InstalledIsBuilt` also those that `<pkg>-clean` left with the stamps of images and host.
- `OneLevelBuildSucceeds` is about host tools at most two levels below a package,
  as far as `make source` follows them.
- `InheritKeepsValue` and the three after it hold over y and n only.

Section 6 has the reasons.

`CHECK_DEADLOCK FALSE` stands in the cfgs of the download, source, `kconfig_expr`
and `kconfig_menu` runs only: there the system stops, when every builder has its
archive, everything is built, or the one computation is over. In `PkgGeneric` the
user can always call make again, and conf and the configurators rest explicitly
when all is over (`Rest`); deadlock is checked there, so that no dialog, question
or half-written file leaves them without a next step.

## 4. Fairness

- `pkg_one` (`LiveSpec`): make runs on while it can (weak fairness of
  `Engine`, no fairness of failures), the user runs `make` again and
  again, and `make <pkg>-dirclean` on a package whose patching broke. The last
  is needed, and is what the manual says to do: a broken tree is refused for
  ever. `Recovers` then says: if commands fail only finitely often, and the
  user removes stamps by hand only finitely often, the invocations of plain
  `make` that succeed never end.
- `download_wget` (`LiveSpec`): weak fairness of the shell's steps; a download
  that failed is started again. `Succeeds` assumes that failures and
  interruptions end. It is claimed for one builder only: two can take away each
  other's `.tmp` for ever, a known limit of the shared name.
- `source_set`: weak fairness of the whole next-state relation, since a make
  that can go on does.
- `kconfig_session` (`FairSpec`): a process that waits for nobody goes on, and a
  user who is asked again and again types an answer that is accepted at last. The second is strong fairness,
  since an answer that is refused is followed by the question again. There is no
  fairness of faults or updates. `Ends`: every run of conf ends, although its loop
  walks the tree again after every change.
- The front ends have no liveness property: they end when the user says so.

## 5. What is proved

All theorems hold for every value of the constants that satisfies the
assumptions named. In particular for any number of packages, any dependency
graph, cycles included, any set of goals, and any command failing anywhere.

Package infrastructure, under `ConfigAssumption` (the flags are sets of
packages, dependencies are sequences of packages, goals are targets a user can
name, never stamp files):

- `Typing`: `Spec => []TypeOK` (module `PkgGenericOrdering`). `TypeOK` is
  inductive as it stands; the work is in the stack (a prerequisite of a target
  is a target) and in the commands, whose package must be one.
- `Walk`: `Spec => []WalkInvariant` (module `PkgGenericOrdering`).
- `Ordering`: `Spec => StepsInOrder`, that is, `PkgGeneric` implements
  `PkgOrder` with `have <- stamps`: a stamp is only ever touched when the stamps
  of all earlier steps of its package are there and, from configuration on,
  when all install stamps of all dependencies are there. Since nothing in the
  makefile says this, it is the main result.
- `Completeness`: `Spec => SuccessIsComplete`, for configurations in which every
  package is installed somewhere (`Required(p) # {}`): a package that is
  installed nowhere is not built, and its dependencies are not either.
- `PatchingOnce`: `[]PatchedOnce` (module `PkgGenericInstalling`), under one more
  assumption, `SourceGoals`: users do not remove `.stamp_extracted` by hand, and
  do not name `<pkg>-rsync` of a package that has no override directory (the
  makefile has that rule only for those that do).
- `BrokenSticks`: `BrokenPatchSticks`, with no assumption about what users remove.
- `Installing`: `[]InstalledFilesExist`, and `Configuring`: `[]ConfigureSeesDeps`
  (module `PkgGenericInstalling`), both under `SourceGoals`.
- `Building`: `[]InstalledIsBuilt` (module `PkgGenericRebuilding`), under
  `SourceGoals` and `KeepsBuildStamps`: users do not remove `.stamp_configured`
  or `.stamp_built` by hand. The second is needed, since no later stamp goes with
  them: section 6 has what the manual says of it.
- `Rebuilding`: `RebuildInstallsCurrent`, under `SourceGoals` and for
  configurations in which every package is installed somewhere. It does not need
  `KeepsBuildStamps`: a rebuild removes every stamp from `.stamp_built` on itself.
  `pkg_pair`, which checks the same property, has `rebuild` as a goal; that it holds
  for `reconfigure` too is shown here only.

Downloads, under `DownloadAssumption` (the sites and methods are some of those
there are, there are finitely many builders):

- `DownloadTyping`: `[]TypeOK`.
- `Quiet`: `[]QuietIsWhole`, for any number of builders and any methods: an archive
  that is there while nobody writes is whole, unless a transfer was cut short that wrote
  under the archive's own name (scp, file, bzr, git, hg and svn do), or under a
  `.tmp` that another builder was about to rename to it. So what wget leaves when it is
  cut short, or killed, is no exception unless another builder renames it.
- `Atomicity`: with one builder and wget as the only method, `PkgDownload`
  implements `AtomicFile`: the archive appears in one step, whole.

make source: `Spurious`: `[]NothingSpurious`, for any packages and any graph.

Dialog boxes of menuconfig and nconfig (module `LxdialogProofs`), each for a box
alone on the screen that gets any keys while it is open. They have the conditions
that `OnScreen` asks of the box on top of a session (`MenuOnScreen`,
`InputOnScreen`, `TextOnScreen` of `Lxdialog`; `FieldOnScreen`, `ScrollOnScreen`,
`CursesOnScreen` of `NconfGui`); `kconfig_fronts` has lists of a few entries and
texts of two characters, the theorems any number:

- `ListShows`: a checklist of any number of items, in a window of any height.
- `MenuShows`: a menu of any number of items on any terminal it fits, with any
  resizes. Its rows show its items unless it was painted from a stale `first_item`; of
  such a menu too the item a command acts on is one of the menu.
- `MenuFresh`: how narrow that exception is. A menu is not painted from a stale
  `first_item` as long as each resize is harmless (`HarmlessResize`): the list does not
  grow and the caller named an item, or `*s_scroll` is 0, because the menu
  was not scrolled when it was last left.
- `InputShows`: a field of any width with a text of any length. The keys that type
  are texts of at least one character.
- `TextShows`: a text of any length, opened at any line, with any list of places
  to jump to; without it a terminal of 8 rows, on which `TextFits` holds and the
  box has no row for the text (`Room`).
- `FormShows`: nconfig's line to type into, of any width, with a text of any length.
- `ScrollShows`: nconfig's text to scroll, of any length in a window of any height.
- `CursesShows`: nconfig's menu of any number of items, at least one, on a screen
  with at least one row for them: moved in, or centred on an item that was
  searched for, from whatever top row was remembered. How ncurses turns a menu is
  the external part of `NconfGui`; what nconf.c asks of it (`center_item`,
  `show_menu`) is translated.

Simplification of dependencies, for all expressions of any depth over any
symbols. `V[w]` are the values of the expressions when the symbols have the
values w; assumed are `Trees` (the expressions are the trees of symbols,
comparisons, `!`, `&&` and `||`, and `size` counts their nodes), `Names` (what
kconfig has fixed about names: `y`, `m`, `n` are constants, the text of a boolean
or tristate is that of its value, a boolean is never m), `Values`
(`expr_calc_value`, node by node) and of each function of `expr.c` what its body
does at one node.

- `YnKeepsValue`, `TransformSound`: `expr_eliminate_yn` and `expr_transform` keep
  the value of every expression, with m or without; what `expr_transform` makes
  has negations only over symbols and is a fixed point of it.
- `EqualInValue`: two expressions that `expr_eq` finds equal have one value.
- `NothingLeftImplied`: if `expr_eliminate_eq` leaves y of the second expression,
  the first is never above it.
- `TransBoolSound`: after `expr_transform`, `expr_trans_bool` keeps whether the value
  is n, with m or without.
- `JoinSound`: two operands that are joined into one (`expr_join_or`,
  `expr_join_and`, or because they are equal) have the value of that one, with m
  or without.
- `TransCompareSound`, `TransBoolTwoValued`: where no symbol is m
  (`TwoValued`), `expr_trans_compare` with y or n and `expr_trans_bool` keep it.
- `Dups1Sound`, `Dups2Sound`, `DupsSound`: the two passes of
  `expr_eliminate_dups`, and the whole, keep the value; the first pass with m
  too, the rest where no symbol is m.
- `RoundShrinks`: a round of both passes that counts a change leaves, after
  `expr_eliminate_yn`, fewer nodes. So the loop of `expr_eliminate_dups`
  (`expr.c:612`) ends. Nothing in the code says why it should: the passes
  count changes that make an expression no smaller by themselves (an operand
  becomes y or n), and only what comes between two rounds does.
- `TransformKept`, `InheritKept`, `BooleanKept`, `VisibleKept`, `SubmenuKept`:
  `Spec => []P` for the five invariants of `kconfig_expr`, of `KconfigFinalize` under
  `Kconfig`: the hypotheses above, and `Instance`: the CONSTANTs of
  `KconfigFinalize` are those functions, its expressions some of `Expr`, its
  valuations some that symbols can have. The symbols that are *used as* symbols
  are booleans, tristates, y and n (`Toggled`): a dependency on a bare `m` or on
  a string is left out, and so is an entry without a dependency. A comparison may
  have a string on either side; its text is then the same for all valuations.

None of this is vacuous: `SymbolsAsProved`, an ASSUME of `MCKconfigExpr`, lets TLC
check `Toggled`, `Names` and `Values` of the instance of `kconfig_expr`, and the
equations assumed of the functions are the definitions of `KconfigExpr`.

**The argument for `Ordering`.** When `.stamp_built` of p is touched, the frame
below it on make's stack is `p-build`, because that is the one rule that lists
it and stamps are no goals; what that rule lists earlier, `p-configure`, has been
made; what has been made had all its prerequisites made, so `p-depends` and all
`d-install` of the dependencies d were. That needs four conjuncts of
`WalkInvariant` (`StackIsChain`, `EarlierDone`, `DoneIsClosed`, `BottomIsGoal`)
and the lemma `BeforeStamp` about the rules. But *made* is not *there*: an
invocation can both build and remove (`p-rebuild` removes then builds, `p-clean`
builds then removes), and a stamp seen earlier in it might have been removed
since. So `WalkInvariant` also says that while make builds, the stamps it has
visited are there (`VisitedStampsKept`). For this to be inductive one needs that
make never builds again after removing what it has visited: targets are divided
into those that build, those that only remove, and the mixed ones, of which
each lists at most one prerequisite that builds followed by only removals, or
the converse (`MixedPrereqs`); the walk keeps kinds nested (`KindsNest`), and
either nothing has been built yet or nothing that builds is left to visit
(`NothingBuilt \/ NothingToBuild`). TLC checks `WalkInvariant` in `pkg_pair`.

**The argument for `PatchingOnce`.** The number of patches on a tree is between 0
and `NPatches` or the tree is broken (`CountInRange`); while the recipe of
`.stamp_patched` is at its n-th command, the tree carries the n-1 patches of the
commands before it, or the command will be refused (`Midway`). That the recipe's
tree is a whole one when it starts needs `.stamp_extracted` to be there, which
`WalkInvariant` gives, and that `.stamp_extracted` speaks of a whole tree
(`SourcesStand`), which is why users may not take it away with patches applied.
Override packages are never patched (`OverrideUnpatched`, `RsyncOverrides`).
`BrokenSticks` needs `CountInRange` alone: a broken count is reset only by the
commands that also take the stamps away.

**The argument for `Installing`.** Each stamp is tied to the file its own step
makes (`FilesOf`): `.stamp_rsynced` of an override package to a whole tree,
`.stamp_configured` to a whole configuration, `.stamp_built` to whole objects,
an install stamp to whole installed files. A step that is run on whole input
gives a whole result; when its stamp is touched the stamps of its input are
there, by `Walk`, and so is the input, by the same invariant. Between the
command and the touch the promise is `RecipeHalfRun`, which also says that an
uninstallation has removed each stamp before it removes the files of that
step. Two removals go the other way round, files before stamps: `<pkg>-clean`
(the objects, then `.stamp_built`) and `make clean` (the install directories,
then the build directories). While they run the promise is suspended (`Cleaning`,
`Wiping`), and if they are cut short the package counts as `skewed`. TLC was
used to find both exceptions. `Configuring` follows: while a package is being
configured its dependencies have been made, and nothing is being removed.

**The argument for `Building`.** The invariant `BuiltStand` says of every
package: `.stamp_built` comes with `.stamp_configured` and with objects made from that
configuration, an install stamp with `.stamp_built` and with files of that
build. A step that is run keeps it because make makes the later steps in the same
invocation, over stamps that are not there: so it has to be known that when
`.stamp_configured` is touched, `.stamp_built` is not there, and that when
`.stamp_built` is, no install stamp is. Of a plain build that follows from
`BuiltStand`. Removals take stamps away one at a time, and in the order in which
a makefile happens to list them: `<pkg>-clean-for-rebuild` takes
`.stamp_built` first and the install stamps after it, so that inside its recipe
the invariant is weaker (`Clearing`), and if the recipe is cut short the package is
`skewed`. A target can also go through the removals of another: `<pkg>-clean`
through the uninstallation, `<pkg>-reconfigure` through those of a rebuild; when it
goes on, what they removed must not have been made again. That is `RemovalInvariant`: while the removing half of an invocation
lasts nothing is built (`FirstPart`), until something is built the stamps whose
removal make has visited are gone (`RemovedGone`), an uninstallation comes
after the configuration its prerequisites made (`OnceUninstalled`), and a rebuild
keeps the stamps it has visited (`RebuildKeeps`). It rests on `WalkInvariant`, which
has removal and building of one invocation apart.

**The argument for `Rebuilding`.** `RebuiltFresh` is about the second half of a
rebuild, that is, when the first prerequisite of `<pkg>-rebuild` has been made and
all its removals are done: from there on, whatever stamp of the package is there
again speaks of the tree as it is, of an override tree that has just been
copied, of a configuration of that tree if configuration is part of it, and
of files built from it. It begins with none of these stamps
(`RemovedGone`), and every step that touches one finds the ones before it.

**The argument for the boxes.** Each machine has one invariant, the type of the
box and what should be on the screen; one lemma for each of the ways the C code
patches the rows (`Unlit`, `Relit`, `ScrolledUp`, `ScrolledDown`) says that a painted window
becomes a painted window. Page Up and Page Down of a menu turn row by row until
the list ends: that the loop ends, and keeps the window right, is an induction
over its turns (`ManyTurns`), by way of the least turn that would not
(`LeastElement`, from the well-foundedness of the natural numbers, which needs no
theorem with an operator parameter). The field needs, beside what its cells
show, that a shortened text never has to clear more than the one cell behind it
(`Drawn`). For the text, `get_line` and `back_lines` are described once for
every number of lines (`GetLine`, `BackLines`), and a page that is printed is right wherever
it starts (`PageShows`, `PagePrinted`), which is the same lemma for all keys.

nconfig writes its field anew after each key, so that the text is right if the
cursor is: it is counted twice, in the text and in the field, and the second is
never above the first, also while it is out of the field (`FormMoved`, which is what
each key keeps; `FieldDrawn` brings it back). In a menu each request moves the top
row and the current item together (`CursesTurned`): what `center_item` makes of
a top row that is no longer possible is either possible or refused by
`set_top_row`, and `set_current_item` then turns the menu as far as it must.

**The argument for dependencies.** A function of `expr.c` calls itself on
operands, and tlapm proves nothing in a module that has a RECURSIVE operator. So
the proofs have a function on `Expr` for each (`tr`, `yn`, `eq`, `elim`, `dup`,
...) and assume of it the equation its body is: `IsTransform(tr)` is
`\A e \in Expr : tr[e] = TransformStep(e, LAMBDA f : tr[f], ty)`. Induction over trees
is that over their size, from the least element of a set of numbers (`BySize`,
`ByTree`), where the set of what has been shown is a set and no operator.

`expr_eq` and `expr_eliminate_eq` call one another; what holds of both (`Sound`) is an
induction over the size of two trees together. What is taken out of two trees
is described by what remains: there is a value c that, put back under the
operator, gives each its value (`Shares`, and `Apart` for both operators). The
operands of a tree of op are counted from the left; a tree is its i-th operand
and a hole (`Hole`), and replacing an operand leaves the others where they were
(`Elsewhere`). A pass of `expr_eliminate_dups` is then a sequence of steps, each
for some pair of operands (`IsDups1`, `IsDups2`): the order in which the C code
goes over the pairs is not needed, only that it is finite. Each step leaves a tree
of the same operator with as many operands, the same value and no more nodes
(`Kept`). In the second pass an operand gives way to n, or to y under `||`, when
what stands with it denies it (`Denied`), and that is wrong with m.

For `RoundShrinks`: a tree has something to take out when `expr_eliminate_yn`
makes it smaller (`Loose`). A pass counts no change and leaves the tree alone, or counts
one and the tree is smaller or loose (`Counted`); it takes `Place`, that an
operand put back in its own place leaves the tree as it was.

The machine's invariant `Inv` has the five properties, the type of the state, and
that before anything is transformed `basedep` is what was written. Each step
needs the property of the one before it: what is inherited was transformed with
its value kept, what is made visible was inherited.

**The argument for `Quiet`** is one about who has which file open: names lead to
distinct files, a file that is open with wget is written by one builder alone
until a rename shares it, and what a name covers is whole, or being written, or
a transfer was cut (`Sharing`). The archive's name is always covered in this sense;
`.tmp` only while some builder is going to rename it (`Renaming`), which is why a
`.tmp` that a wget leaves behind needs no exception: the next wget begins it anew.

**Only model-checked:**

- Of Kconfig, what is computed over whole trees and files: how `zconf.y` and
  `menu_finalize` build the tree (`TreeInSourceOrder` and the other properties of
  `kconfig_menu`), what conf does in a session (`ReadsBack`, `Legal`, ...). Their
  operators are recursive over trees and sequences and call `symbol.c`, which
  calls itself through every dependency; what such a definition computes for every
  input is out of the prover's reach.
- That functions with the equations assumed above exist. For each it is an
  induction over data; TLC evaluates them on every expression of `kconfig_expr`.
- How boxes are stacked and what the menus hold (`OnScreen` of a whole session,
  `ActsOnHighlighted`, `ShownIsCurrent`, `NothingLost`), because the list of a
  menu is computed by those operators.
- `OneLevelBuildSucceeds`, `Recovers`, `Succeeds` and `Ends`, which are liveness under
  fairness.

## 6. Where the code and its documentation differ

With a run that shows it:

1. `download_parallel`: builds in parallel from one source tree share `dl/`, and
   two downloads of one archive share one `.tmp`; one can unpack what the other
   is still writing. The manual calls such builds safe.
2. `kconfig_notsaved`: naming a file that does not exist under "Load" makes
   menuconfig forget that there are changes to save. It then ends with "End of
   the configuration. Execute 'make'" and has saved nothing.
3. `kconfig_olddefconfig`: `conf_read` takes back a number that is out of range
   when what depends on it has been calculated. A symbol that becomes visible by
   that gets no value from olddefconfig, which "sets new symbols to their
   default value".

Met while modelling, without a run of their own. In the package infrastructure:

- `package-make-target.txt:20` lists `depends` before `extract` and `patch` as
  the order of execution; `pkg-generic.mk:391` lists `<pkg>-patch` first.
- `rebuilding-packages.txt:66`: removing `.stamp_configured` triggers the
  recompilation from there. It runs configure again, but compiles and installs
  nothing, because `.stamp_built` is still there.
- `pkg-download.mk:212-215`: three sites are tried in turn. After a failed scp the
  next site is not asked, since the partial archive passes its `test -e` (line
  144 and the like).
- `make clean` (`Makefile:734`) removes the install directories before the build
  directory with the stamps. Interrupted between, it leaves stamps of files
  that are gone, and the next `make` installs nothing.
- `common-usage.txt:12-21` lets the user disconnect after `make source`.
  `Makefile:379` misses host tools three levels down, as a comment there admits
  (midori needs host-vala, that host-flex, that host-m4), and the offline build stops.
- `<pkg>-clean` (`pkg-generic.mk:167`) removes the objects and `.stamp_built`, and leaves
  the stamps of images and of the host installation: what is built next is not
  installed there.

In the Kconfig core and conf:

- A recursive dependency is printed as an error (`symbol.c:1058`) and never stops
  the parser: `sym_check_deps` returns nothing at the symbol where the recursion
  closes, so that `zconf.y:518` counts nothing. `CycleReported` is about what is
  printed.
- `menu_add_dep` (`menu.c:149`) joins the condition of a `visible if` to every
  entry without copying it, where it is then rewritten in place.
- `conf_split_config` touches no header for a symbol that is gone from the
  Kconfig files and held a quoted text, whose line in `auto.conf` it cannot read.
  The update in `kconfig_session` takes no such symbol away.
- olddefconfig writes no `auto.conf`, although `Makefile:765` calls it the same as
  silentoldconfig.
- savedefconfig writes its file in place: killed, it leaves the first lines of it.
- Values of a choice never lose the flag `WRITE`: lines "is not set" are written
  for values that are invisible. `sym_set_string_value` with the value a symbol
  has clears nothing.
- `conf_string` can ask for ever at the end of its input, whose lines it takes for
  empty ones, when the value it shows is refused.
- `expr.c:484` says in a comment that `(a!='m') && (a!='n')` becomes `(a='m')`; the
  code makes it `(a='y')`, which is right.

In both full-screen configurators:

- A failed rename, then a second save: the first has taken the write marks
  away, and an empty configuration is written over the old one.
- A value refused, or a file that cannot be written, is asked for again for ever
  when the terminal is too small for the box.

In menuconfig:

- Ctrl-C at the box that tells of a save writes once more, without marks: an empty
  `.config`.
- Ctrl-C, then `<ESC><ESC>` "to continue" (`mconf.c:888`), ends with the changes lost.
- A terminal too small for the question ends it with the changes lost.
- After `<ESC>` at that question, messages about saving go to the terminal
  and not to a box.
- `first_item` of a menu box keeps its value through a resize unless the list has to
  be scrolled (`menubox.c:250-264`). After a command in a scrolled menu and then a larger
  terminal, the rows are painted from the item left over, and `<Y>` on the row that is
  lit changes another option.
- Page Down in a text whose length is a multiple of the box shows an empty page.
- `search_conf` reads `keys[]` (`mconf.c:386-400`) uninitialised when the text box
  does not fit.
- Saving to another file leaves `.config` unwritten and counts as saved: the end
  says "Execute 'make'".

In nconfig:

- `get_mext_match` (`nconf.c:497-518`) searches for ever when it starts beside the
  list, and divides by zero in an empty menu.
- Show All shows values as they were last calculated, stale ones included.
- Backspace at an empty pattern writes before its beginning (`nconf.c:1049`); Page Down
  in a search types a character into the pattern.
- The highlight is kept by number: what a change makes visible above moves it to
  another entry. In a choice with nothing visible it is -1.
- An empty menu keeps the items of the menu shown before, blanked. `current_index` is
  then -1, and for the next menu `center_item` reads `curses_menu_items[-1]`: the
  model has either nothing set or a crash.
- `show_scroll_win` never shows the last line; Page Up skips lines.
- `KEY_DC` (`nconf.gui.c:446`) moves one byte more than the text has.

## 7. Plan

Done: package infrastructure, downloads, `make source`, Kconfig core, conf,
menuconfig and nconfig. Left, in this order:

1. `RootfsImage` (`fs/common.mk`, `Makefile` target-finalize, `linux.mk`
   initramfs): the hooks and the order of images; the abstract promise is that
   an image is a function of the finished tree, whatever run made it.
2. `ApplyPatches` (`apply-patches.sh`): the walk over a patch directory (series
   file, directories, archives) against a reference order, rejects before and
   after, and composed with `PkgGeneric`'s `ApplyPatch`.
3. `MkUsers`: id allocation; no id given twice, order independence.
4. `LegalInfo`, `MakeDevs`: smaller, as the bounds allow.

Theorems to come: that `TextKey` leaves the reader's place for the next
opening (`LeftAt`) where the first row was; an abstract specification of a rebuild (one step from an edit
to the installed files) that `PkgGeneric` implements.

## 8. Not modelled, and why

- Several goals on one command line (`make a b`): make would keep `done` between
  them; one goal per invocation covers what the manual uses. Cyclic
  dependencies: make drops the edge that closes a cycle with a warning; the
  proofs allow them (the walk then never ends), the runs have none.
- The `DL_MODE`s that only print or check (`external-deps`, `source-check`).
- Kconfig: the lexer; symbols whose value comes from the environment
  (`option env`); `KCONFIG_OVERWRITECONFIG`, with which `.config` is written in place;
  a full disk (nobody looks at the results of `fprintf` and `fclose`); `visible if`, which no Kconfig file of Buildroot uses;
  the single-menu modes of the front ends.
- `gconf.c`, `qconf.cc`: front ends of GTK and Qt, whose order of events is that of
  those libraries.
- Toolchains: file copies and make rules with real prerequisites, outside the
  infrastructure modelled here. The toolchain wrapper rewrites an argument list
  and keeps no state. `elf2flt` is an imported converter of binaries.
- `dependencies.sh`: probes the host once.
- Reports (`graph-depends`, `pkg-stats`, manual lists): they read and print.
- Package definitions, board files, default configurations, patches: data.
