---------------------------- MODULE KconfigConf -----------------------------
(***************************************************************************)
(* Sessions of the line-oriented configurator (support/kconfig/conf.c) on  *)
(* one output directory: which questions it asks in which order, what the  *)
(* answers do, and how .config, auto.conf and autoconf.h are replaced.     *)
(*                                                                         *)
(* One process runs at a time; it may die at any point, and it may fail to *)
(* open or to rename a file.  Between two runs the Kconfig files may       *)
(* change (an update of the tree).                                         *)
(***************************************************************************)
EXTENDS KconfigData

CONSTANTS Versions,       \* of the Kconfig files: files, their statements, order, of the hash
                          \* table, next, the versions an update may bring, configs, the
                          \* .config files a user may have, seeds, files KCONFIG_ALLCONFIG may
                          \* name, packages, the symbols named BR2_PACKAGE_, and legacy, a
                          \* line "is not set" for each of them in Config.in.legacy
          Answers,        \* what a user may type at a question
          Modes,          \* Modes[n] are the modes the n-th run of conf may be started in
          MaxFaults       \* files not opened or renamed, and processes that die

VARIABLES tree,     \* the Kconfig files in place, one of Versions
          k,        \* the menu tree made of them: Trees[tree]
          mode,     \* mode of the running conf, or "idle"
          x,        \* its symbols
          pc,       \* what it does: "ask", "write", ... or "done"
          stack,    \* the calls of conf() and check_conf() under way
          root,     \* rootEntry
          again,    \* conf_cnt # 0
          out,      \* what is in its temporary files
          disk,     \* the files: config, old, auto, header, defconfig
          touched,  \* headers touched since auto.conf was replaced
          stale,    \* is .config newer than auto.conf?
          last,     \* how the last run ended: "ok", "failed" or "died"
          runs, faults
vars == <<tree, k, mode, x, pc, stack, root, again, out, disk, touched, stale, last, runs, faults>>
process == <<mode, x, pc, stack, root, again, out>>
files   == <<disk, touched, stale>>

Trees == [t \in DOMAIN Versions |-> conf_parse(Versions[t].files, Versions[t].order)]

\* sync_kconfig is set by the option, input_mode is also silentoldconfig when
\* the questions of oldaskconfig have been asked ("updating").
Quiet(m) == m \in {"silentoldconfig", "silentoldconfig-notty"}      \* sync_kconfig
Silent(m) == Quiet(m) \/ m = "updating"                             \* input_mode
Asking == {"oldaskconfig", "oldconfig", "silentoldconfig", "updating"}
Walks == Asking \cup {"silentoldconfig-notty", "olddefconfig", "listnewconfig"}
Seeded == {"alldefconfig", "allnoconfig", "allyesconfig", "allmodconfig", "randconfig"}
Sets == {"defconfig"} \cup Seeded

\* The symbols when conf starts.
Fresh ==
  LET all == Symbols(k)
      zero == [s \in all |-> no]
      none == [s \in all |-> None]
  IN [tri |-> zero, val |-> none, vis |-> zero, dir |-> zero, rev |-> zero,
      pvis |-> [p \in DOMAIN k.props |-> no],
      valid |-> {}, write |-> {}, user |-> {}, auto |-> {},
      utri |-> zero, uval |-> none, atri |-> zero, aval |-> none,
      mval |-> no, changed |-> TRUE]

Frame(fn, i) == [fn |-> fn, i |-> i, n |-> 0, new |-> FALSE]
Top == stack[Len(stack)]
Below == SubSeq(stack, 1, Len(stack) - 1)
Descend(f) == Append(Below, f)                \* the top frame goes on as f
Call(f, g) == Below \o <<f, g>>               \* ... and calls g

Init == /\ tree \in DOMAIN Versions /\ k = Trees[tree]
        /\ mode = "idle" /\ x = <<>> /\ pc = "done" /\ stack = <<>> /\ root = 0
        /\ again = FALSE /\ out = <<>>
        /\ \E c \in Versions[tree].configs :
             disk = [config |-> c, old |-> NoFile, auto |-> NoFile, header |-> NoFile,
                     defconfig |-> NoFile]
        /\ touched = {} /\ stale = TRUE
        /\ last = "ok" /\ runs = 0 /\ faults = 0

-----------------------------------------------------------------------------
(* main: reading, and what is done with it.                                *)

Running == mode # "idle"
Exit(how) == /\ mode' = "idle" /\ x' = <<>> /\ pc' = "done" /\ stack' = <<>> /\ root' = 0
             /\ again' = FALSE /\ out' = <<>> /\ last' = how

\* KCONFIG_ALLCONFIG may name a file, or one that is not there; the targets
\* *packageconfig make one of .config, without its packages.
NoSeed == <<[sym |-> None, text |-> "no KCONFIG_ALLCONFIG"]>>
PackageSeed(m) == SelectSeq(disk.config, LAMBDA l : l.sym \notin Versions[tree].packages)
                  \o IF m = "allnoconfig" THEN <<>> ELSE Versions[tree].legacy
Seeds(m) == {NoSeed, NoFile} \cup Versions[tree].seeds
            \cup IF disk.config # NoFile /\ m \in {"allnoconfig", "allyesconfig", "randconfig"}
                 THEN {PackageSeed(m)} ELSE {}

\* What is read first: the .config file, a defconfig, a seed or nothing.
Input(m) == CASE m = "defconfig" -> {disk.defconfig}
              [] m \in Seeded -> Seeds(m)
              [] OTHER -> {disk.config}
Loaded(m, lines) == IF m \notin Seeded THEN conf_read(k, Fresh, lines)
                    ELSE IF lines = NoSeed THEN Fresh ELSE ReadUser(k, Fresh, lines)
Begin(m, y) ==
  /\ mode' = m /\ x' = y
  /\ out' = <<>> /\ again' = FALSE /\ root' = 0
  /\ last' = last
  /\ IF m \in Walks
     THEN /\ pc' = "ask"
          /\ stack' = <<Frame(IF m = "oldaskconfig" THEN "conf" ELSE "check", 0)>>
     ELSE /\ pc' = IF m \in Sets THEN "set" ELSE "save"
          /\ stack' = <<>>

\* With KCONFIG_NOSILENTUPDATE set, silentoldconfig gives up where the values are
\* not those of .config.
Start(m) ==
  /\ ~Running
  /\ runs' = runs + 1
  /\ \E lines \in Input(m) :
       LET missing == lines = NoFile /\ (Quiet(m) \/ m \in Sets)
       IN \E y \in {IF missing THEN Fresh ELSE Loaded(m, lines)} :
            \/ ~missing /\ Begin(m, y)
            \/ /\ missing \/ (Quiet(m) /\ y.changed)
               /\ UNCHANGED process /\ last' = "failed"
  /\ UNCHANGED <<tree, k, files, faults>>

\* Every symbol without a value gets one; randconfig draws.
SetAll ==
  /\ pc = "set"
  /\ pc' = "write"
  /\ UNCHANGED <<tree, k, mode, stack, root, again, out, files, last, runs, faults>>
  /\ LET all(t) == x' = conf_set_all_new_symbols(k, x, [s \in Symbols(k) |-> t])
     IN CASE mode = "allnoconfig" -> all(no)
          [] mode = "allyesconfig" -> all(yes)
          [] mode = "allmodconfig" -> all(mod)
          [] mode = "randconfig" ->
               \E how \in [{s \in Symbols(k) : Toggles(k, s)} -> {no, yes}],
                  pick \in [k.choices -> Symbols(k)] :
                 /\ \A c \in k.choices : pick[c] \in Range(k.vals[c])
                 /\ x' = RandomConfig(k, x, how, pick)
          [] OTHER -> all(-1)

-----------------------------------------------------------------------------
(* conf(): ask for an entry and for what is below it.                      *)

Stay == UNCHANGED <<tree, k, mode, out, files, last, runs, faults>>
NextKid(f) == IF f.n >= Len(k.kids[f.i]) THEN Below
              ELSE Call([f EXCEPT !.n = @ + 1], Frame(IF f.fn = "check" THEN "check" ELSE "conf",
                                                      k.kids[f.i][f.n + 1]))
Entry(fn) == pc = "ask" /\ stack # <<>> /\ Top.fn = fn
Kind(i) == k.props[k.mprompt[i]].kind

\* menu_get_parent_menu
RECURSIVE ParentMenu(_)
ParentMenu(i) == IF i = 0 \/ (k.mprompt[i] # 0 /\ Kind(i) = "menu") THEN i ELSE ParentMenu(k.parent[i])

ConfEnter ==
  /\ Entry("conf")
  /\ \E v \in {menu_is_visible(k, x, Top.i)} :
     LET i == Top.i
         s == k.msym[i]
     IN /\ x' = v.x
        /\ stack' = CASE ~v.ok -> Below
                      [] v.ok /\ Kind(i) = "menu" /\ Silent(mode) /\ root # i ->
                           Descend(Frame("check", i))
                      [] v.ok /\ s = None -> Descend([Top EXCEPT !.fn = "kids"])
                      [] v.ok /\ s \in k.choices ->
                           Descend([Top EXCEPT !.fn = IF sym_is_changable(v.x, s) THEN "choice?"
                                                      ELSE "choice",
                                               !.new = ~sym_has_value(v.x, s)])
                      [] OTHER -> Descend([Top EXCEPT !.fn = "question"])
  /\ UNCHANGED <<pc, root, again>> /\ Stay

ConfKids == /\ Entry("kids")
            /\ stack' = NextKid(Top)
            /\ UNCHANGED <<x, pc, root, again>> /\ Stay

\* conf_askvalue: does the entry get its value without a question?
\* A mutant that asks for what has been answered before.
AskAgain(s)   == ~sym_is_changable(x, s)
NoQuestion(s) == ~sym_is_changable(x, s) \/ (mode # "oldaskconfig" /\ sym_has_value(x, s))

\* conf_sym and conf_string.  An empty line, or the end of the input, keeps the
\* value shown; an answer that is refused is asked for again.
\* A mutant that does nothing on an empty line.
SetIfTyped(s, answer) == IF answer # "" THEN sym_set_string_value(k, x, s, answer)
                         ELSE [x |-> x, ok |-> TRUE]
Set(s, answer) ==
  IF answer # "" THEN sym_set_string_value(k, x, s, answer)
  ELSE IF Toggles(k, s) THEN sym_set_tristate_value(k, x, s, x.tri[s])
  ELSE sym_set_string_value(k, x, s, x.val[s])
Answered == Descend([Top EXCEPT !.fn = IF Top.fn = "question" THEN "kids" ELSE "choice"])

Skip == /\ Entry("question") \/ Entry("choice?")
        /\ NoQuestion(k.msym[Top.i])
        /\ stack' = Answered
        /\ UNCHANGED <<x, pc, root, again>> /\ Stay
\* check_stdin
Abort == /\ Entry("question") \/ Entry("choice?") \/ (Entry("choice") /\ Top.new)
         /\ mode = "silentoldconfig-notty"
         /\ Entry("choice") \/ ~NoQuestion(k.msym[Top.i])
         /\ Exit("failed")
         /\ UNCHANGED <<tree, k, files, runs, faults>>
Answer(a) ==
  /\ Entry("question") \/ Entry("choice?")
  /\ mode \in Asking
  /\ ~NoQuestion(k.msym[Top.i])
  /\ \E r \in {Set(k.msym[Top.i], a)} :
        /\ x' = r.x
        /\ stack' = IF r.ok THEN Answered ELSE stack
  /\ UNCHANGED <<pc, root, again>> /\ Stay

\* The entries of a choice that are visible, as states and a list.
RECURSIVE VisibleKids(_, _)
VisibleKids(y, list) ==
  IF list = <<>> THEN [x |-> y, list |-> <<>>]
  ELSE Bind(menu_is_visible(k, y, Head(list)), LAMBDA v :
       Bind(VisibleKids(v.x, Tail(list)), LAMBDA rest :
         IF v.ok /\ k.msym[Head(list)] # None THEN [rest EXCEPT !.list = <<Head(list)>> \o @] ELSE rest))

\* conf_choice once it is known that the choice is set.
NoChoice == /\ Entry("choice")
            /\ LET s == k.msym[Top.i] IN
               \E y \in {sym_calc_value(k, x, s)} :
                  /\ y.tri[s] # yes
                  /\ x' = y
                  /\ stack' = IF y.tri[s] = no THEN Below ELSE Descend([Top EXCEPT !.fn = "kids"])
            /\ UNCHANGED <<pc, root, again>> /\ Stay
Choose ==
  /\ Entry("choice")
  /\ LET s == k.msym[Top.i] IN
     \E v \in {VisibleKids(sym_calc_value(k, x, s), k.kids[Top.i])} :
     LET keep == {i \in Range(v.list) : k.msym[i] = v.x.val[s]}
     IN /\ v.x.tri[s] = yes
        /\ \E i \in IF Len(v.list) = 1 THEN Range(v.list)
                    ELSE IF mode # "oldaskconfig" /\ ~Top.new THEN keep
                    ELSE IF mode = "silentoldconfig-notty" THEN {} ELSE Range(v.list) :
             /\ x' = sym_set_choice_value(k, v.x, s, k.msym[i])
             /\ stack' = Descend([Frame("kids", i) EXCEPT !.n = 0])
  /\ UNCHANGED <<pc, root, again>> /\ Stay

-----------------------------------------------------------------------------
(* check_conf(): look for symbols that are new.                            *)

CheckEnter ==
  /\ Entry("check") /\ Top.n = 0 /\ ~Top.new
  /\ \E v \in {menu_is_visible(k, x, Top.i)} :
     LET i == Top.i
         s == k.msym[i]
         new == /\ s # None /\ ~sym_has_value(v.x, s)
                /\ \/ sym_is_changable(v.x, s)
                   \/ s \in k.choices /\ v.x.tri[s] = yes
         visited == [Top EXCEPT !.new = TRUE]
     IN /\ x' = v.x
        /\ IF ~v.ok THEN stack' = Below /\ UNCHANGED <<root, again>>
           ELSE IF new /\ mode \notin {"listnewconfig", "olddefconfig"}
           THEN /\ again' = TRUE
                /\ root' = ParentMenu(i)
                /\ stack' = Call(visited, Frame("conf", ParentMenu(i)))
           ELSE stack' = Descend(visited) /\ UNCHANGED <<root, again>>
  /\ UNCHANGED pc /\ Stay
CheckKids == /\ Entry("check") /\ Top.new
             /\ stack' = NextKid(Top)
             /\ UNCHANGED <<x, pc, root, again>> /\ Stay

\* "Update until a loop caused no more changes."
Checked ==
  /\ pc = "ask" /\ stack = <<>>
  /\ IF (again \/ mode = "oldaskconfig") /\ mode \notin {"listnewconfig", "olddefconfig"}
     THEN /\ stack' = <<Frame("check", 0)>>
          /\ mode' = IF mode = "oldaskconfig" THEN "updating" ELSE mode
          /\ again' = FALSE
          /\ UNCHANGED pc
     ELSE /\ pc' = IF mode = "listnewconfig" THEN "exit"
                   ELSE IF Quiet(mode) /\ ~x.changed THEN "split" ELSE "write"
          /\ UNCHANGED <<stack, mode, again>>
  /\ UNCHANGED <<tree, k, x, root, out, files, last, runs, faults>>
-----------------------------------------------------------------------------
(* conf_write: a temporary file, then .config becomes .config.old, then    *)
(* the temporary file becomes .config.                                     *)

Files == UNCHANGED <<tree, k, mode, stack, root, again, last, runs>>
Fail == faults < MaxFaults /\ faults' = faults + 1

conf_write ==
  /\ pc = "write"
  /\ \E r \in {WriteAll(k, x)} : x' = r.x /\ out' = [config |-> r.lines]
  /\ pc' = "keep old"
  /\ UNCHANGED <<files, faults>> /\ Files
\* A mutant that removes the old file.
OldRemoved == [disk EXCEPT !.config = NoFile]
OldKept    == [disk EXCEPT !.old = disk.config, !.config = NoFile]
\* rename(newname, dirname): nobody looks at its result.
KeepOld ==
  /\ pc = "keep old"
  /\ pc' = "replace"
  /\ \/ /\ disk' = IF disk.config = NoFile THEN disk
                    ELSE OldKept
        /\ UNCHANGED faults
     \/ Fail /\ UNCHANGED disk
  /\ UNCHANGED <<x, out, touched, stale>> /\ Files
Replace ==
  /\ pc = "replace"
  /\ disk' = [disk EXCEPT !.config = out.config]
  /\ stale' = TRUE
  /\ x' = [x EXCEPT !.changed = FALSE]
  /\ out' = <<>>
  /\ pc' = IF Quiet(mode) THEN "split" ELSE "exit"
  /\ UNCHANGED <<touched, faults>> /\ Files

\* savedefconfig writes to the file itself.
SaveDefconfig ==
  /\ pc = "save"
  /\ \E r \in {conf_write_defconfig(k, x)} : x' = r.x /\ disk' = [disk EXCEPT !.defconfig = r.lines]
  /\ pc' = "exit"
  /\ UNCHANGED <<out, touched, stale, faults>> /\ Files

(* conf_write_autoconf: headers are touched, then the temporary files      *)
(* replace the header and, last, auto.conf.                                *)

\* A mutant that goes on with the flags conf_write has left.
SplittingAsLeft == conf_split_config(k, x, disk.auto)
Splitting == conf_split_config(k, sym_clear_all_valid(k, x), disk.auto)
Split ==
  /\ pc = "split"
  /\ \E r \in {Splitting} :
        /\ x' = r.x
        /\ touched' = touched \cup r.touch
        /\ out' = [auto |-> AutoLines(k, r.x), header |-> HeaderLines(k, r.x)]
  /\ pc' = "header"
  /\ UNCHANGED <<disk, stale, faults>> /\ Files
ReplaceHeader ==
  /\ pc = "header"
  /\ disk' = [disk EXCEPT !.header = out.header]
  /\ pc' = "auto"
  /\ UNCHANGED <<x, out, touched, stale, faults>> /\ Files
ReplaceAuto ==
  /\ pc = "auto"
  /\ disk' = [disk EXCEPT !.auto = out.auto]
  /\ touched' = {} /\ stale' = FALSE
  /\ pc' = "exit"
  /\ UNCHANGED <<x, out, faults>> /\ Files

Finish == /\ pc = "exit" /\ Exit("ok")
          /\ UNCHANGED <<tree, k, files, runs, faults>>

\* A file cannot be opened, or a rename to .config, autoconf.h or auto.conf
\* fails: the process says so and ends.  When it is a header, those before it
\* have been touched.
Fails == /\ pc \in {"write", "replace", "save", "split", "header", "auto"}
         /\ Fail /\ Exit("failed")
         /\ \E done \in SUBSET IF pc = "split" THEN Splitting.touch ELSE {} : touched' = touched \cup done
         /\ UNCHANGED <<tree, k, disk, stale, runs>>

\* The process is killed; it may have touched some of the headers, or have
\* written some of the lines of the defconfig.
Die ==
  /\ Running
  /\ Fail /\ Exit("died")
  /\ \/ UNCHANGED <<disk, touched>>
     \/ /\ pc = "split"
        /\ \E done \in SUBSET Splitting.touch : touched' = touched \cup done
        /\ UNCHANGED disk
     \/ /\ pc = "save"
        /\ \E all \in {conf_write_defconfig(k, x).lines} : \E n \in 0..Len(all) : disk' = [disk EXCEPT !.defconfig = SubSeq(all, 1, n)]
        /\ UNCHANGED touched
  /\ UNCHANGED <<tree, k, stale, runs>>

-----------------------------------------------------------------------------
(* The Kconfig files change; make finds auto.conf out of date.             *)
Update == /\ ~Running /\ runs < Len(Modes)
          /\ \E t \in Versions[tree].next : tree' = t /\ k' = Trees[t]
          /\ stale' = TRUE
          /\ UNCHANGED <<process, disk, touched, last, runs, faults>>

\* Everybody has gone home.
Rest == ~Running /\ runs = Len(Modes) /\ UNCHANGED vars

Ask == ConfEnter \/ ConfKids \/ Skip \/ Abort \/ NoChoice \/ Choose \/ CheckEnter \/ CheckKids \/ Checked
Save == conf_write \/ KeepOld \/ Replace \/ SaveDefconfig \/ Split \/ ReplaceHeader \/ ReplaceAuto \/ Finish

Next == \/ \E n \in DOMAIN Modes : n = runs + 1 /\ \E m \in Modes[n] : Start(m)
        \/ SetAll \/ Ask \/ Save
        \/ \E a \in Answers : Answer(a)
        \/ Fails \/ Die \/ Update \/ Rest

Spec == Init /\ [][Next]_vars

\* Weak fairness of the process and strong fairness of the user: a process that
\* waits for nobody goes on, and a user who is asked again and again types an
\* answer that is taken at last.  This is WF_vars(Goes) /\ SF_vars(Taken), with
\* what enables these actions in the place of ENABLED (a run cannot get stuck
\* there, TLC looks for deadlocks): TLC would calculate all symbols to tell.
Waiting == /\ Entry("question") \/ Entry("choice?")
           /\ mode \in Asking
           /\ ~NoQuestion(k.msym[Top.i])
Goes  == Running /\ ~Waiting /\ UNCHANGED faults
Taken == Waiting /\ stack' # stack /\ UNCHANGED faults
FairSpec == /\ Spec
            /\ []<>(~Running \/ Waiting) \/ []<><<Goes>>_vars
            /\ <>[]~Waiting \/ []<><<Taken>>_vars
=============================================================================
