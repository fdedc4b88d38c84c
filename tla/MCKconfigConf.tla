---------------------------- MODULE MCKconfigConf ----------------------------
(***************************************************************************)
(* Sessions over small Kconfig files: packages with selects, a menu and a  *)
(* choice, the same after an update, and numbers and texts.                *)
(***************************************************************************)
EXTENDS KconfigConf, FiniteSets

Opt(kind, e, cond) == [kind |-> kind, e |-> e, cond |-> cond, lo |-> None, hi |-> None]
Range2(lo, hi) == [Opt("range", NoExpr, NoExpr) EXCEPT !.lo = lo, !.hi = hi]
Config(s, t, dep, opts) == [kind |-> "config", sym |-> s, type |-> t, optional |-> FALSE,
                            dep |-> dep, opts |-> opts, kids |-> <<>>]
Block(kind, s, dep, opts, kids) ==
  [kind |-> kind, sym |-> s, type |-> "unknown", optional |-> FALSE,
   dep |-> dep, opts |-> opts, kids |-> kids]
Prompt == Opt("prompt", NoExpr, NoExpr)
Default(e) == Opt("default", e, NoExpr)
Select(s) == Opt("select", Sy(s), NoExpr)

Packages == <<
  Config("CXX", "boolean", NoExpr, <<Prompt, Default(Sy("y"))>>),
  Block("menu", None, Sy("CXX"), <<>>, <<
    Config("LIB", "boolean", NoExpr, <<Prompt>>),
    Config("APP", "boolean", NoExpr, <<Prompt, Select("LIB")>>)>>),
  Block("choice", "INIT", NoExpr, <<Prompt>>, <<
    Config("SYSV", "boolean", NoExpr, <<Prompt>>),
    Config("SYSD", "boolean", Sy("LIB"), <<Prompt>>)>>)>>
Updated == <<
  Config("CXX", "boolean", NoExpr, <<Prompt>>),
  Config("LIB", "boolean", NoExpr, <<>>),
  Config("APP", "boolean", Sy("CXX"), <<Prompt>>),
  Config("EXTRA", "boolean", Sy("APP"), <<Prompt, Default(Sy("y")), Select("LIB")>>),
  Block("choice", "INIT", NoExpr, <<Prompt>>, <<
    Config("BUSY", "boolean", NoExpr, <<Prompt>>),
    Config("SYSV", "boolean", NoExpr, <<Prompt>>),
    Config("SYSD", "boolean", Sy("LIB"), <<Prompt>>)>>)>>
Numbers == <<
  Config("LIMIT", "int", NoExpr, <<Prompt, Range2("1", "5"), Default(Sy("3"))>>),
  Config("JOBS", "int", NoExpr, <<Prompt, Range2("1", "LIMIT"), Default(Sy("2"))>>),
  Config("ADDR", "hex", Eq("JOBS", "2"), <<Prompt, Default(Sy("0x1"))>>),
  Config("NAME", "string", NoExpr, <<Prompt, Default(Sy("a"))>>),
  [Block("choice", "FS", NoExpr, <<Prompt>>, <<
    Config("EXT2", "boolean", NoExpr, <<Prompt>>),
    Config("CPIO", "boolean", Sy("EXT2"), <<Prompt>>)>>) EXCEPT !.optional = TRUE]>>

Names == <<"APP", "SYSD", "INIT", "CXX", "LIB", "SYSV", MODULES>>
Line(s, t) == [sym |-> s, text |-> t]
\* JOBS=4 is above the limit; ADDR is for JOBS=2, the default.
TooMany == <<Line("LIMIT", "3"), Line("JOBS", "4")>>
MCVersions == <<
  [files |-> Packages, order |-> Names, next |-> {2},
   configs |-> {NoFile, <<Line("SYSV", "y"), Line("SYSD", "y"), Line("APP", "y"), Line("LIB", Unset)>>},
   seeds |-> {<<Line("APP", "y"), Line("CXX", Unset)>>},
   packages |-> {"LIB", "APP"}, legacy |-> <<Line("APP", Unset)>>],
  [files |-> Updated, order |-> <<"EXTRA", "BUSY">> \o Names, next |-> {}, configs |-> {},
   seeds |-> {}, packages |-> {}, legacy |-> <<>>],
  [files |-> Numbers, order |-> <<"CPIO", "JOBS", MODULES, "ADDR", "FS", "LIMIT", "NAME", "EXT2">>, next |-> {},
   configs |-> {<<>>, <<Line("JOBS", "4"), Line("LIMIT", "2"), Line("NAME", "\"\\\"b\"")>>, TooMany},
   seeds |-> {<<Line("LIMIT", "9"), Line("JOBS", "7")>>}, packages |-> {}, legacy |-> <<>>] >>
LimitVersions == <<[MCVersions[3] EXCEPT !.configs = {TooMany}]>>
LimitModes == <<{"oldconfig", "olddefconfig", "silentoldconfig"}>>
MCAnswers == {"", "n", "2"}
AllModes == {"oldaskconfig", "oldconfig", "silentoldconfig", "silentoldconfig-notty", "olddefconfig",
             "listnewconfig", "savedefconfig", "defconfig", "alldefconfig", "allnoconfig",
             "allyesconfig", "allmodconfig", "randconfig"}
MCModes == <<AllModes, {"silentoldconfig", "oldconfig", "defconfig", "savedefconfig"}>>

-----------------------------------------------------------------------------
\* Every variable holds what it should; the symbols have values of their type,
\* so that a boolean is never m, whatever allmodconfig or a seed has set it to
\* (sym_calc_value), and only known symbols carry flags.
TypeOK == /\ tree \in DOMAIN Versions /\ mode \in UNION Range(Modes) \cup {"idle", "updating"}
          /\ DOMAIN disk = {"config", "old", "auto", "header", "defconfig"}
          /\ stale \in BOOLEAN /\ again \in BOOLEAN
          /\ last \in {"ok", "failed", "died"}
          /\ faults \in 0..MaxFaults /\ runs \in 0..Len(Modes)
          /\ Running =>
               /\ \A s \in Symbols(k) :
                    /\ {x.tri[s], x.utri[s], x.vis[s], x.rev[s]} \subseteq {no, mod, yes}
                    /\ k.type[s] = "boolean" => x.tri[s] # mod
                    /\ s \in k.choices /\ x.val[s] \notin {None, "n"} => k.choice[x.val[s]] = s
               /\ x.valid \cup x.write \cup x.user \subseteq Symbols(k)
               /\ \A f \in Range(stack) : f.i \in DOMAIN k.kids /\ f.n \in 0..Len(k.kids[f.i])

Exited(modes) == pc = "exit" /\ mode \in modes
Writing == Sets \cup Asking \cup {"silentoldconfig-notty", "olddefconfig"}
LineIn(lines, s) == {l \in Range(lines) : l.sym = s}
SetLines(lines) == {l \in Range(lines) : l.text # Unset}
Named(lines) == {l.sym : l \in Range(lines)} \ {None}

\* conf_read has taken back the number that .config has for a visible symbol, as
\* it is out of range, and olddefconfig sets nothing, so that nothing is calculated
\* again before it writes: NothingNew below finds what is then left out, and the
\* properties of what is written except such a run.
TookBack == /\ mode = "olddefconfig"
            /\ \E s \in Symbols(k) : /\ ~Toggles(k, s) /\ x.vis[s] # no
                                     /\ x.uval[s] # None /\ s \notin x.user

\* What the next run makes of a .config that was just written is what was
\* written: no line is lost, changed or read as another value (conf_write against
\* conf_read).  Lines "is not set" of values of a choice are excepted: the code
\* writes them also for values that have become invisible.  So is olddefconfig
\* over a number out of range (TookBack).
Telling(c) == SelectSeq(c, LAMBDA l : ~(l.text = Unset /\ k.choice[l.sym] # None))
Rewritten(lines) == WriteAll(k, conf_read(k, Fresh, lines)).lines
ReadsBack == Exited(Writing) /\ ~TookBack => Telling(Rewritten(disk.config)) = Telling(disk.config)

\* The defconfig of savedefconfig leaves out what is the default, and defconfig
\* makes of it again the configuration that savedefconfig had read
\* (conf_write_defconfig against conf_read and conf_set_all_new_symbols).
Expanded(lines) ==
  WriteAll(k, conf_set_all_new_symbols(k, conf_read(k, Fresh, lines), [s \in Symbols(k) |-> -1])).lines
Held == WriteAll(k, sym_clear_all_valid(k, x)).lines
RoundTrip == Exited({"savedefconfig"}) /\ disk.config # NoFile =>
               SetLines(Expanded(disk.defconfig)) = SetLines(Held)

\* What the .config says of all symbols at once, with nothing calculated lazily.
TextOf(s) == LET l == {l \in Range(disk.config) : l.sym = s}
             IN IF l = {} THEN None ELSE (CHOOSE m \in l : TRUE).text
Members(s) == IF s \in k.choices THEN {v \in Symbols(k) : k.choice[v] = s} ELSE {s}
Tris == [s \in Symbols(k) |-> IF \E v \in Members(s) : TextOf(v) = "y" THEN yes ELSE no]
Strs == [s \in Symbols(k) |-> IF Toggles(k, s) THEN IF Tris[s] = yes THEN "y" ELSE "n"
                              ELSE TextOf(s)]
Holding(kinds, s) == {i \in DOMAIN k.props : /\ k.props[i].sym = s
                                             /\ k.props[i].kind \in kinds
                                             /\ expr_calc_value(k.props[i].vis, Tris, Strs) # no}
Shown(s) == Holding({"prompt", "choice"}, s) # {}
Selected(s) == k.rev[s] # NoExpr /\ expr_calc_value(k.rev[s], Tris, Strs) # no

\* The values of a .config agree with the Kconfig files, whatever was answered in
\* which order: what is set is visible, selected or a default, what is selected is
\* set, what is visible has a line, and exactly one value of a visible choice is
\* set.  A value calculated before another one changed would break this
\* (sym_calc_value and sym_clear_all_valid).  The exception: olddefconfig over a
\* number out of range (TookBack) leaves out what becomes visible by the fallback.
Legal ==
  Exited(Writing) /\ ~TookBack =>
    /\ \A s \in Symbols(k) \ k.choices :
         /\ Tris[s] = yes => Shown(s) \/ Selected(s) \/ Holding({"default"}, s) # {}
         /\ Selected(s) => Tris[s] = yes
         /\ Shown(s) => s \in Named(disk.config)
    /\ \A c \in k.choices : Cardinality({v \in Members(c) : Tris[v] = yes}) = 1
                            \/ c \in k.optional \/ \A v \in Members(c) : ~Shown(v)

\* Whenever make finds auto.conf up to date, it says what .config says, and
\* autoconf.h defines the same names, whichever process died or failed on the way
\* (conf_write and conf_write_autoconf).
UpToDate == ~Running /\ ~stale /\ disk.config # NoFile =>
              /\ Range(disk.auto) = SetLines(disk.config)
              /\ Named(disk.header) = Named(disk.auto)

\* Before auto.conf says something else about a symbol, its header in
\* include/config has been touched (conf_split_config, against the auto.conf it
\* replaces), also when an earlier run died half way.
TouchedBefore == [][\A s \in Named(disk.auto) \cup Named(disk'.auto) :
                      LineIn(disk.auto, s) # LineIn(disk'.auto, s) => s \in touched]_vars

\* A .config goes away only to .config.old, unless that very rename has failed
\* (conf_write).
Kept == [][disk.config # NoFile /\ disk'.config # disk.config
             => disk'.old = disk.config \/ pc = "replace"]_vars

\* oldconfig and silentoldconfig do not ask for a symbol that has a line in
\* .config, when its prompt is visible with what .config says and the line is
\* still what the symbol would get, whatever was updated or answered before
\* (conf_askvalue, check_conf; conf_read must not forget an answer).
AsksOnlyNew ==
  Entry("question") /\ mode \in {"oldconfig", "silentoldconfig"} =>
    LET s == k.msym[Top.i] IN
    TextOf(s) # None /\ Shown(s) /\ ~Selected(s)
      /\ LineIn(Rewritten(disk.config), s) = LineIn(disk.config, s)
    => NoQuestion(s)

\* Every process ends: the loop of main that checks again after every change,
\* until nothing is new, comes to an end.
Ends == Running ~> ~Running

\* After olddefconfig no visible symbol is left without a value, as "sets new
\* symbols to their default value" says (conf.c).
NothingNew == Exited({"olddefconfig"}) =>
                \A s \in Symbols(k) \ k.choices : Shown(s) => s \in Named(disk.config)
=============================================================================
