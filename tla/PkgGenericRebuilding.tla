------------------------ MODULE PkgGenericRebuilding ------------------------
(***************************************************************************)
(* What is installed, and from what.  Theorem Building: under the stamps   *)
(* "built" and "installed" lies the outcome of one build; theorem          *)
(* Rebuilding: a rebuild or a reconfigure that succeeds has installed the  *)
(* sources as they are.                                                    *)
(*                                                                         *)
(* Both rest on what a removal at the start of an invocation leaves for    *)
(* the build that follows in the same one: nothing that has been visited   *)
(* yet is built (FirstPart), and what the removals that have been visited  *)
(* remove is gone (RemovedGone).                                           *)
(***************************************************************************)
EXTENDS PkgGenericInstalling

-----------------------------------------------------------------------------
(* How a step moves make's walk.                                           *)

Forgets == \A q \in Pkg : stamps'[q] \subseteq stamps[q]

Ends   == stack' = <<>> /\ done' = {}
Starts == \E g \in Goals : stack' = <<[target |-> g, next |-> 1]>> /\ done' = {}

WalkRests ==
  /\ UNCHANGED <<stack, done>>
  /\ Forgets
  /\ ~Idle => UNCHANGED stamps \/ Current # NoCommand

\* The next prerequisite of the frame on top, the n-th.
NextPrereq(n) == Prereqs(stack[n].target)[stack[n].next]

Skips(n) ==
  /\ PrereqsLeft /\ NextPrereq(n) \in done
  /\ Len(stack') = n /\ \A m \in 1 .. n - 1 : stack'[m] = stack[m]
  /\ stack'[n].target = stack[n].target
  /\ stack'[n].next = stack[n].next + 1
  /\ UNCHANGED <<package, done>>

Descends(n) ==
  /\ PrereqsLeft /\ NextPrereq(n) \notin done
  /\ Len(stack') = n + 1 /\ \A m \in 1..n : stack'[m] = stack[m]
  /\ stack'[n + 1] = [target |-> NextPrereq(n), next |-> 1]
  /\ UNCHANGED <<package, done>>

Leaves(n) ==
  /\ ~PrereqsLeft
  /\ Len(stack') = n - 1 /\ \A m \in 1 .. n - 1 : stack'[m] = stack[m]
  /\ done' = done \cup {stack[n].target}
  /\ \/ /\ UpToDate(stack[n].target) \/ Recipe(stack[n].target) = <<>>
        /\ UNCHANGED package
     \/ /\ Current # NoCommand /\ pc = Len(Recipe(stack[n].target))
        /\ Runs("rm-stamp") => RmStamp
  /\ Touch \/ Forgets

\* The n-th frame is on top.
OnTop(n) ==
  /\ n = Len(stack) /\ Top = stack[n]
  /\ stack[n].target \in MakeTarget /\ stack[n].next \in Nat \ {0}

Moves(n) == OnTop(n) /\ (Skips(n) \/ Descends(n) \/ Leaves(n))

\* The target on top is left.
LEMMA ReturnMoves ==
  ASSUME TypeOK, ~Idle, Return, NEW n \in Nat \ {0}, OnTop(n)
  PROVE  /\ Len(stack') = n - 1 /\ \A m \in 1 .. n - 1 : stack'[m] = stack[m]
         /\ done' = done \cup {stack[n].target}
<1>1. \A m \in 1 .. n - 1 : stack[m] \in Frame
  BY TopFrame DEF OnTop
<1>2. (IF 1 <= n - 1 THEN n - 1 - 1 + 1 ELSE 0) = n - 1 /\ n - 1 - 1 + 1 = n - 1
        /\ \A m \in 1 .. n - 1 : 1 + m - 1 = m
  OBVIOUS
<1>3. 1 \in Int /\ n - 1 \in Int
  OBVIOUS
<1>4. /\ Len(SubSeq(stack, 1, n - 1)) = IF 1 <= n - 1 THEN n - 1 - 1 + 1 ELSE 0
      /\ \A m \in 1 .. n - 1 - 1 + 1 :
           SubSeq(stack, 1, n - 1)[m] = stack[1 + m - 1]
  BY <1>1, <1>3, SubSeqProperties
<1>5. stack' = SubSeq(stack, 1, n - 1) /\ done' = done \cup {stack[n].target}
  BY DEF Return, OnTop
<1> QED BY <1>2, <1>4, <1>5

\* Every step ends an invocation, starts one, or moves the walk by one frame
\* at most.
LEMMA WalkMoves ==
  ASSUME TypeOK, [Next]_vars
  PROVE  Ends \/ Starts \/ WalkRests \/ \E n \in Nat \ {0} : Moves(n)
<1>1. ASSUME ~Idle
      PROVE  \E n \in Nat \ {0} : OnTop(n)
  BY <1>1, TopFrame DEF OnTop, Frame
<1>2. Touch \/ Forgets
  BY OthersForget DEF Forgets
<1>3. CASE Consider
  <2>1. ~Idle /\ PrereqsLeft /\ UNCHANGED <<package, done>>
    BY <1>3 DEF Consider
  <2>2. PICK n \in Nat \ {0} : OnTop(n)
    BY <1>1, <2>1
  <2>3. /\ n = Len(stack) /\ Top = stack[n] /\ n \in 1..n /\ stack \in Seq(Frame)
        /\ stack[n] \in Frame
    BY <2>1, <2>2, TopFrame DEF OnTop, TypeOK
  <2>4. CASE NextPrereq(n) \in done
    <3>1. stack' = [stack EXCEPT ![n] = [stack[n] EXCEPT !.next = stack[n].next + 1]]
      BY <1>3, <2>3, <2>4 DEF Consider, NextPrereq
    <3>2. [stack[n] EXCEPT !.next = stack[n].next + 1] \in Frame
      BY <2>3 DEF Frame
    <3>3. /\ Len(stack') = n
          /\ \A m \in 1..n : stack'[m] =
               IF m = n THEN [stack[n] EXCEPT !.next = stack[n].next + 1] ELSE stack[m]
      BY <2>3, <3>1, <3>2, ExceptSeq
    <3>4. \A m \in 1 .. n - 1 : m \in 1..n /\ m # n
      OBVIOUS
    <3>5. Skips(n)
      BY <2>1, <2>3, <2>4, <3>3, <3>4 DEF Skips, Frame
    <3> QED BY <2>2, <3>5 DEF Moves
  <2>5. CASE NextPrereq(n) \notin done
    <3> DEFINE f == [target |-> NextPrereq(n), next |-> 1]
    <3>1. stack' = Append(stack, f)
      BY <1>3, <2>3, <2>5 DEF Consider, NextPrereq
    <3>2. f \in Frame
      <4>1. Prereqs(stack[n].target) \in Seq(MakeTarget)
        BY <2>2, PrereqsType DEF OnTop
      <4>2. stack[n].next \in 1..Len(Prereqs(stack[n].target))
        BY <2>1, <2>2, <4>1 DEF OnTop, PrereqsLeft
      <4> QED BY <4>1, <4>2, ElementOfSeq DEF Frame, NextPrereq
    <3> HIDE DEF f
    <3>3. Len(stack') = n + 1 /\ (\A m \in 1..n : stack'[m] = stack[m])
          /\ stack'[n + 1] = f
      BY <2>3, <3>1, <3>2, AppendProperties
    <3>4. Descends(n)
      BY <2>1, <2>5, <3>3 DEF Descends, f
    <3> QED BY <2>2, <3>4 DEF Moves
  <2> QED BY <2>4, <2>5
<1>4. CASE NothingToDo
  <2>1. /\ ~Idle /\ ~PrereqsLeft /\ Return /\ UNCHANGED package
        /\ UpToDate(Top.target) \/ Recipe(Top.target) = <<>>
    BY <1>4 DEF NothingToDo
  <2>2. PICK n \in Nat \ {0} : OnTop(n)
    BY <1>1, <2>1
  <2>3. Leaves(n)
    BY <1>2, <2>1, <2>2, ReturnMoves DEF Leaves, OnTop
  <2> QED BY <2>2, <2>3 DEF Moves
<1>5. ASSUME NEW c, c # "none", Runs(c), Succeed, Runs("rm-stamp") => RmStamp
      PROVE  WalkRests \/ \E n \in Nat \ {0} : Moves(n)
  <2>1. /\ Current # NoCommand /\ ~Idle /\ ~PrereqsLeft
        /\ pc \in 1..Len(Recipe(Top.target))
        /\ Len(Recipe(Top.target)) \in Nat
    BY <1>5, RunningCommand, Running, TopFrame, RecipeLength
  <2>2. PICK n \in Nat \ {0} : OnTop(n)
    BY <1>1, <2>1
  <2>3. CASE pc < Len(Recipe(Top.target))
    <3>1. UNCHANGED <<stack, done>>
      BY <1>5, <2>3 DEF Succeed
    <3>2. ~Touch
      BY <2>1, <2>3, Touching DEF Touch
    <3> QED BY <1>2, <2>1, <3>1, <3>2 DEF WalkRests
  <2>4. CASE ~(pc < Len(Recipe(Top.target)))
    <3>1. Return /\ pc = Len(Recipe(Top.target))
      BY <1>5, <2>1, <2>4 DEF Succeed
    <3>2. Leaves(n)
      BY <1>2, <1>5, <2>1, <2>2, <3>1, ReturnMoves DEF Leaves, OnTop
    <3> QED BY <2>2, <3>2 DEF Moves
  <2> QED BY <2>3, <2>4
<1>6. CASE \/ Touch \/ Download \/ Extract \/ Rsync \/ ApplyPatch \/ Configure
           \/ Build \/ Install \/ RmStamp \/ Uninstall \/ CleanObjects \/ RmTree
           \/ Wipe \/ WipeTrees
  <2>1. PICK c \in Making \cup Unmaking \cup {"touch"} :
          Runs(c) /\ Succeed /\ (c = "rm-stamp" => RmStamp)
    BY <1>6 DEF Touch, Download, Extract, Rsync, ApplyPatch, Configure, Build,
       Install, RmStamp, Uninstall, CleanObjects, RmTree, Wipe, WipeTrees,
       Making, Unmaking
  <2>2. c # "none" /\ (Runs("rm-stamp") => c = "rm-stamp")
    BY <2>1 DEF Runs, Making, Unmaking
  <2> QED BY <1>5, <2>1, <2>2
<1>7. CASE \E g \in Goals : Invoke(g)
  BY <1>7 DEF Invoke, Starts
<1>8. CASE PatchRefused \/ Fault
  BY <1>8 DEF PatchRefused, Fault, Interrupt, BreakStep, BreakRmTree, BreakWipe,
     BreakWipeTrees, Stop, Ends
<1>9. CASE \/ \E p \in Pkg : Edit(p)
           \/ \E p \in Pkg, s \in UserRemoves : RemoveStamp(p, s)
           \/ UNCHANGED vars
  <2>1. UNCHANGED <<stack, done>> /\ (Idle \/ UNCHANGED stamps)
    BY <1>9 DEF Edit, RemoveStamp, make, package, vars
  <2>2. Forgets
    BY <1>9 DEF Edit, RemoveStamp, package, vars, Forgets, TypeOK
  <2> QED BY <2>1, <2>2 DEF WalkRests
<1> QED BY <1>3, <1>4, <1>6, <1>7, <1>8, <1>9 DEF Next, Engine

-----------------------------------------------------------------------------
(* Who lists the removals: pkg-generic.mk:420-445.                         *)

\* Every removal is listed by one rule only, and "rebuild" by none.
LEMMA RemovalsListed ==
  ASSUME NEW u \in MakeTarget, NEW i \in 1..Len(Prereqs(u)), NEW p,
         NEW v, v = Prereqs(u)[i]
  PROVE  /\ v = <<"uninstalled", p>> => u = <<"uninstall", p>> /\ i = 2
         /\ v = <<"cleaned", p>> => u = <<"clean", p>> /\ i = 2
         /\ v = <<"clean-for-reconfigure", p>> => u = <<"reconfigure", p>> /\ i = 1
         /\ v[1] \notin {"rebuild", "reconfigure"}
<1> DEFINE R == {"uninstalled", "cleaned", "clean-for-reconfigure", "rebuild",
                 "reconfigure"}
<1>1. CASE u \in BuildTarget
  <2>1. v \in BuildTarget
    BY <1>1, BuildPrereqs, ElementOfSeq
  <2>2. \A t \in BuildTarget : t[1] \notin R
    <3>1. \A t \in (Stamps \cup BuildPhonies) \X Pkg : t[1] \in Stamps \cup BuildPhonies
      OBVIOUS
    <3>2. World[1] \notin R
      BY DEF World
    <3> QED BY <3>1, <3>2, StampKinds DEF BuildTarget, BuildPhonies
  <2> QED BY <2>1, <2>2
<1>2. CASE u \in PlainTarget
  <2>1. u # MakeClean
    <3>1. Len(Prereqs(MakeClean)) = 0
      BY WorldRules, EmptySeq
    <3> QED BY <3>1
  <2>2. PICK k \in PlainKinds, q \in Pkg : u = <<k, q>>
    BY <1>2, <2>1, PlainTargets
  <2>3. CASE k \in NeverStamped \cup {"clean-for-rebuild"}
    <3>1. Prereqs(u) = <<>>
      BY <2>2, <2>3, StampRules, RemovalRules
    <3>2. Len(Prereqs(u)) = 0
      BY <3>1, EmptySeq
    <3> QED BY <3>2
  <2>4. CASE k = "dirclean"
    <3>1. Prereqs(u) = <<<<"dircleaned", q>>>>
      BY <2>2, <2>4, RemovalRules
    <3>2. v = <<"dircleaned", q>>
      BY <3>1
    <3>3. v[1] = "dircleaned"
      BY <3>2
    <3> QED BY <3>3
  <2>5. CASE k = "clean-for-reconfigure"
    <3>1. Prereqs(u) = <<<<"clean-for-rebuild", q>>>>
      BY <2>2, <2>5, RemovalRules
    <3>2. v = <<"clean-for-rebuild", q>>
      BY <3>1
    <3>3. v[1] = "clean-for-rebuild"
      BY <3>2
    <3> QED BY <3>3
  <2> QED BY <2>2, <2>3, <2>4, <2>5 DEF PlainKinds
<1>3. CASE u \in MixedTarget
  <2>1. PICK k \in {"uninstall", "clean", "rebuild", "reconfigure"}, q \in Pkg :
          u = <<k, q>>
    BY <1>3 DEF MixedTarget
  <2>2. ASSUME NEW a, NEW b, Prereqs(u) = <<a, b>>
        PROVE  (i = 1 /\ v = a) \/ (i = 2 /\ v = b)
    BY <2>2
  <2>3. World[1] = "all"
    BY DEF World
  <2>4. \A l : v = <<l, q>> => v[1] = l /\ \A m : v = <<m, p>> => m = l /\ p = q
    OBVIOUS
  <2>5. CASE k = "uninstall"
    <3>1. v = <<"configure", q>> \/ (i = 2 /\ v = <<"uninstalled", q>>)
      BY <2>1, <2>2, <2>5, RemovalRules, ZenonT(60)
    <3> QED BY <2>1, <2>4, <2>5, <3>1
  <2>6. CASE k = "clean"
    <3>1. v = <<"uninstall", q>> \/ (i = 2 /\ v = <<"cleaned", q>>)
      BY <2>1, <2>2, <2>6, RemovalRules, ZenonT(60)
    <3> QED BY <2>1, <2>4, <2>6, <3>1
  <2>7. CASE k = "rebuild"
    <3>1. v = <<"clean-for-rebuild", q>> \/ v = World
      BY <2>1, <2>2, <2>7, RemovalRules, ZenonT(60)
    <3>2. \A m : v = <<m, p>> => v[1] = m
      OBVIOUS
    <3> QED BY <2>3, <2>4, <3>1, <3>2
  <2>8. CASE k = "reconfigure"
    <3>1. (i = 1 /\ v = <<"clean-for-reconfigure", q>>) \/ v = World
      BY <2>1, <2>2, <2>8, RemovalRules
    <3>2. \A m : v = <<m, p>> => v[1] = m
      OBVIOUS
    <3> QED BY <2>1, <2>3, <2>4, <2>8, <3>1, <3>2
  <2> QED BY <2>1, <2>5, <2>6, <2>7, <2>8
<1> QED BY <1>1, <1>2, <1>3 DEF PlainTarget

Rebuilds == {"rebuild", "reconfigure"}

\* A rebuild removes, then builds the world; it runs nothing itself.
LEMMA RebuildRules ==
  ASSUME NEW t \in MakeTarget, t[1] \in Rebuilds
  PROVE  /\ t[2] \in Pkg /\ t = <<t[1], t[2]>>
         /\ t \notin BuildTarget /\ t \notin PlainTarget
         /\ Len(Prereqs(t)) = 2
         /\ Prereqs(t)[1] \in PlainTarget /\ Prereqs(t)[2] = World
         /\ Recipe(t) = <<>>
         /\ t[1] = "rebuild" => Prereqs(t)[1] = <<"clean-for-rebuild", t[2]>>
         /\ t[1] = "reconfigure" => Prereqs(t)[1] = <<"clean-for-reconfigure", t[2]>>
<1>1. PICK k \in Rebuilds, p \in Pkg : t = <<k, p>>
  <2>1. World[1] = "all" /\ MakeClean[1] = "make-clean"
    BY DEF World, MakeClean
  <2>2. t # World /\ t # MakeClean
    BY <2>1 DEF Rebuilds
  <2>3. PICK k \in Kinds, p \in Pkg : t = <<k, p>>
    BY <2>2, TargetKinds
  <2> QED BY <2>3
<1>2. t[1] = k /\ t[2] = p
  BY <1>1
<1>3. t \notin BuildTarget
  <2>1. World[1] = "all"
    BY DEF World
  <2>2. k \notin Stamps \cup BuildPhonies
    BY <1>1, StampKinds DEF Rebuilds, BuildPhonies
  <2> QED BY <1>1, <1>2, <2>1, <2>2 DEF BuildTarget, Rebuilds
<1>4. t \in MixedTarget
  BY <1>1 DEF MixedTarget, Rebuilds
<1>5. PICK w \in PlainTarget : /\ Prereqs(t) = <<w, World>>
                               /\ k = "rebuild" => w = <<"clean-for-rebuild", p>>
                               /\ k = "reconfigure" => w = <<"clean-for-reconfigure", p>>
  BY <1>1, RemovalRules, PlainTargets DEF Rebuilds, PlainKinds
<1>6. Recipe(t) = <<>>
  BY <1>1 DEF Recipe, InstallStamps, MakeClean, Rebuilds
<1> QED BY <1>1, <1>2, <1>3, <1>4, <1>5, <1>6 DEF PlainTarget

-----------------------------------------------------------------------------
(* What has been visited, and what has been removed.                       *)

\* Make removes and has not come to what it builds: a removal is the goal, or
\* a rebuild is at its first prerequisite.
First ==
  /\ ~Idle
  /\ Goal \in PlainTarget \/ (Goal[1] \in Rebuilds /\ stack[1].next = 1)

FirstPart == First => NothingBuilt

\* Unless something was built since, what a removal removed is still gone.
RemovedGone ==
  NothingBuilt => \A t \in done \ BuildTarget : Gone(t, Len(Recipe(t)))

NoBuildFrames == \A n \in 1..Len(stack) : stack[n].target \notin BuildTarget

\* A package is uninstalled after it is configured, and nothing is built then.
OnceUninstalled ==
  \A p \in Pkg : <<"uninstalled", p>> \in done =>
    /\ NoBuildFrames /\ <<"configure", p>> \in done
    /\ Gone(<<"uninstalled", p>>, 4)

\* In a rebuild, the stamps make has visited are there.
RebuildKeeps ==
  ~Idle /\ Goal[1] \in Rebuilds =>
    \A t \in done : t[1] \in Stamps => t[1] \in stamps[t[2]]

RemovalInvariant == FirstPart /\ RemovedGone /\ OnceUninstalled /\ RebuildKeeps

\* The frame at the bottom.
LEMMA Bottom ==
  ASSUME TypeOK, ~Idle
  PROVE  Goal \in MakeTarget /\ Goal = stack[1].target /\ stack[1].next \in Nat \ {0}
<1>1. 1 \in 1..Len(stack)
  BY TopFrame
<1> QED BY <1>1, TopFrame DEF Goal, Frame

\* While make removes, it goes on to removals.
LEMMA FirstOnward ==
  ASSUME TypeOK, WalkInvariant, First, PrereqsLeft, NEW n \in Nat \ {0}, OnTop(n)
  PROVE  NextPrereq(n) \in PlainTarget
<1>1. ~Idle /\ Goal = stack[1].target /\ Goal \in MakeTarget /\ n = Len(stack)
  BY Bottom DEF First, OnTop
<1>2. ASSUME stack[n].target \in PlainTarget
      PROVE  NextPrereq(n) \in PlainTarget
  <2>1. Prereqs(stack[n].target) \in Seq(PlainTarget)
    BY <1>2, PlainPrereqs
  <2>2. stack[n].next \in 1..Len(Prereqs(stack[n].target))
    BY <2>1 DEF OnTop, PrereqsLeft
  <2> QED BY <2>1, <2>2, ElementOfSeq DEF NextPrereq
<1>3. ASSUME NEW m \in 1..n, stack[m].target \in PlainTarget
      PROVE  stack[n].target \in PlainTarget
  <2>1. n \in m..n
    OBVIOUS
  <2> QED BY <1>1, <1>3, <2>1 DEF WalkInvariant, KindsNest
<1>4. CASE Goal \in PlainTarget
  BY <1>1, <1>2, <1>3, <1>4
<1>5. CASE Goal[1] \in Rebuilds /\ stack[1].next = 1
  <2>1. Prereqs(stack[1].target)[1] \in PlainTarget
    BY <1>1, <1>5, RebuildRules
  <2>2. CASE n = 1
    BY <1>5, <2>1, <2>2 DEF NextPrereq
  <2>3. CASE n # 1
    <3>1. 2 \in 1..n /\ 1 \in 1 .. n - 1
      BY <2>3
    <3>2. stack[1 + 1].target = Prereqs(stack[1].target)[stack[1].next]
      BY <1>1, <3>1 DEF WalkInvariant, StackIsChain
    <3> QED BY <1>2, <1>3, <1>5, <2>1, <3>1, <3>2
  <2> QED BY <2>2, <2>3
<1> QED BY <1>4, <1>5 DEF First

\* A rebuild has removed what it removes.
Second == ~Idle /\ Goal[1] \in Rebuilds /\ stack[1].next > 1

\* All it visits then builds.
LEMMA SecondBuilds ==
  ASSUME TypeOK, WalkInvariant, Second,
         NEW n \in Nat \ {0}, OnTop(n), n > 1
  PROVE  /\ stack[2].target = World
         /\ stack[n].target \in BuildTarget
<1>1. Goal = stack[1].target /\ Goal \in MakeTarget /\ n = Len(stack)
      /\ stack[1].next \in Nat
  BY Bottom DEF OnTop, Second
<1>2. Len(Prereqs(Goal)) = 2 /\ Prereqs(Goal)[2] = World
  BY <1>1, RebuildRules DEF Second
<1>3. 1 \in 1 .. n - 1 /\ 1 + 1 = 2 /\ 2 \in 1..n /\ n \in 2..n
  OBVIOUS
<1>4. stack[1].next <= 2 /\ stack[2].target = Prereqs(Goal)[stack[1].next]
  BY <1>1, <1>2, <1>3 DEF WalkInvariant, StackIsChain
<1>5. stack[2].target = World
  BY <1>1, <1>2, <1>4 DEF Second
<1>6. World \in BuildTarget
  BY DEF BuildTarget
<1> QED BY <1>1, <1>3, <1>5, <1>6 DEF WalkInvariant, KindsNest

\* And so does what is on top, unless the rebuild itself is.
LEMMA SecondTop ==
  ASSUME TypeOK, WalkInvariant, Second
  PROVE  Len(stack) > 1 => Top.target \in BuildTarget
<1> SUFFICES ASSUME Len(stack) > 1 PROVE Top.target \in BuildTarget
  OBVIOUS
<1>1. PICK n \in Nat \ {0} : OnTop(n)
  BY TopFrame DEF OnTop, Frame, Second
<1> QED BY <1>1, SecondBuilds DEF OnTop

\* While make runs on, its goal stays, and the frames below the one on top.
LEMMA GoalStays ==
  ASSUME TypeOK, TypeOK', NEW n \in Nat \ {0}, Moves(n), ~Idle'
  PROVE  /\ ~Idle /\ Goal' = Goal
         /\ stack'[1].next = stack[1].next \/ (n = 1 /\ Skips(n))
         /\ \A m \in 1..n : m <= Len(stack') => stack'[m].target = stack[m].target
<1>1. Len(stack') \in Nat \ {0} /\ n = Len(stack)
  BY EmptySeq DEF TypeOK, Idle, Moves, OnTop
<1>2. \/ Len(stack') = n - 1 /\ \A m \in 1 .. n - 1 : stack'[m] = stack[m]
      \/ Len(stack') = n + 1 /\ \A m \in 1..n : stack'[m] = stack[m]
      \/ /\ Len(stack') = n /\ \A m \in 1 .. n - 1 : stack'[m] = stack[m]
         /\ stack'[n].target = stack[n].target
         /\ Skips(n)
  BY DEF Moves, Skips, Descends, Leaves
<1>3. \A m \in 1..n : m <= Len(stack') => stack'[m].target = stack[m].target
  BY <1>1, <1>2
<1>4. stack'[1].next = stack[1].next \/ (n = 1 /\ Skips(n))
  BY <1>1, <1>2
<1>5. 1 \in 1..n /\ 1 <= Len(stack') /\ stack # <<>>
  BY <1>1, EmptySeq
<1> QED BY <1>3, <1>4, <1>5 DEF Goal, Idle

\* The walk that starts.
LEMMA FirstFrame ==
  ASSUME Starts
  PROVE  \E g \in Goals : /\ ~Idle' /\ Goal' = g /\ stack'[1].next = 1 /\ done' = {}
                          /\ Len(stack') = 1 /\ stack'[1].target = g
<1>1. PICK g \in Goals : stack' = <<[target |-> g, next |-> 1]>> /\ done' = {}
  BY DEF Starts
<1>2. Len(stack') = 1 /\ stack'[1] = [target |-> g, next |-> 1]
  BY <1>1
<1>3. stack' # <<>>
  BY <1>2, EmptySeq
<1> QED BY <1>1, <1>2, <1>3 DEF Goal, Idle

\* Goals are targets.
LEMMA GoalTargets == Goals \subseteq MakeTarget
BY ConfigAssumption DEF MakeTarget

\* Nothing is built before the removals are over.
LEMMA FirstStep ==
  ASSUME TypeOK, TypeOK', WalkInvariant, FirstPart, [Next]_vars
  PROVE  FirstPart'
<1> SUFFICES ASSUME First' PROVE NothingBuilt'
  BY DEF FirstPart
<1>1. ~Idle'
  BY DEF First
<1>2. CASE Ends
  BY <1>1, <1>2 DEF Ends, Idle
<1>3. CASE Starts
  <2>1. PICK g \in Goals : /\ Goal' = g /\ done' = {} /\ Len(stack') = 1
                           /\ stack'[1].target = g
    BY <1>3, FirstFrame
  <2>2. g \notin BuildTarget
    BY <2>1, GoalTargets, RebuildRules DEF First, PlainTarget
  <2>3. \A n \in 1..1 : n = 1
    OBVIOUS
  <2> QED BY <2>1, <2>2, <2>3 DEF NothingBuilt
<1>4. CASE WalkRests
  BY <1>4 DEF WalkRests, FirstPart, First, NothingBuilt, Idle, Goal
<1>5. ASSUME NEW n \in Nat \ {0}, Moves(n)
      PROVE  NothingBuilt'
  <2>1. /\ ~Idle /\ Goal' = Goal /\ n = Len(stack)
        /\ stack'[1].next = stack[1].next \/ (n = 1 /\ Skips(n))
        /\ \A m \in 1..n : m <= Len(stack') => stack'[m].target = stack[m].target
    BY <1>1, <1>5, GoalStays DEF Moves, OnTop
  <2>2. First
    <3>1. ASSUME n = 1, Skips(n) PROVE stack'[1].next # 1
      BY <1>5, <3>1 DEF Skips, Moves, OnTop
    <3> QED BY <2>1, <3>1 DEF First
  <2>3. done \cap BuildTarget = {} /\ \A m \in 1..n : stack[m].target \notin BuildTarget
    BY <2>1, <2>2 DEF FirstPart, NothingBuilt
  <2>4. CASE Skips(n)
    <3>1. Len(stack') = n /\ done' = done
      BY <2>4 DEF Skips
    <3> QED BY <2>1, <2>3, <3>1 DEF NothingBuilt
  <2>5. CASE Descends(n)
    <3>1. NextPrereq(n) \in PlainTarget
      BY <1>5, <2>2, <2>5, FirstOnward DEF Descends, Moves
    <3>2. /\ Len(stack') = n + 1 /\ done' = done
          /\ stack'[n + 1] = [target |-> NextPrereq(n), next |-> 1]
      BY <2>5 DEF Descends
    <3>3. stack'[n + 1].target \notin BuildTarget
      BY <3>1, <3>2 DEF PlainTarget
    <3>4. \A m \in 1 .. n + 1 : m \in 1..n \/ m = n + 1
      OBVIOUS
    <3> QED BY <2>1, <2>3, <3>2, <3>3, <3>4 DEF NothingBuilt
  <2>6. CASE Leaves(n)
    <3>1. Len(stack') = n - 1 /\ done' = done \cup {stack[n].target} /\ n \in 1..n
      BY <2>6 DEF Leaves
    <3>2. \A m \in 1 .. n - 1 : m \in 1..n
      OBVIOUS
    <3> QED BY <2>1, <2>3, <3>1, <3>2 DEF NothingBuilt
  <2> QED BY <1>5, <2>4, <2>5, <2>6 DEF Moves
<1> QED BY <1>2, <1>3, <1>4, <1>5, WalkMoves

\* What is gone stays gone as long as nothing is touched.
LEMMA GoneKept ==
  ASSUME TypeOK, Forgets, NEW t \in MakeTarget \ BuildTarget, NEW n \in Nat,
         n <= Len(Recipe(t)), Gone(t, n)
  PROVE  Gone(t, n)'
<1> SUFFICES ASSUME NEW i \in 1..n, Recipe(t)[i][1] = "rm-stamp"
             PROVE  Recipe(t)[i][2] \notin stamps'[t[2]]
  BY DEF Gone
<1>1. i \in 1..Len(Recipe(t))
  BY OtherRecipe
<1>2. RemovalRuns(t, i, Recipe(t)[i])
  BY <1>1, RemovalCommands
<1>3. t[2] \in Pkg
  BY <1>2 DEF RemovalRuns
<1> QED BY <1>3 DEF Gone, Forgets

\* A removal that make leaves has removed all it removes.
LEMMA LeftRemoval ==
  ASSUME TypeOK, RecipeHalfRun, NEW n \in Nat \ {0}, OnTop(n), Leaves(n), ~Idle,
         NEW t, t = stack[n].target, t \notin BuildTarget
  PROVE  Forgets /\ Gone(t, Len(Recipe(t)))'
<1>1. t = Top.target /\ t \in MakeTarget
  BY DEF OnTop
<1>2. Forgets
  BY <1>1, Touching DEF Leaves, Touch
<1>3. CASE Recipe(t) = <<>>
  <2>1. Len(Recipe(t)) = 0
    BY <1>3, EmptySeq
  <2>2. \A i \in 1..0 : FALSE
    OBVIOUS
  <2> QED BY <1>2, <2>1, <2>2 DEF Gone
<1>4. CASE /\ Current # NoCommand /\ pc = Len(Recipe(t))
           /\ Runs("rm-stamp") => RmStamp
  <2>1. PICK l : l = pc
    OBVIOUS
  <2>2. Gone(t, l)'
    BY <1>1, <1>2, <1>4, <2>1, GoneFurther DEF Forgets
  <2> QED BY <1>2, <1>4, <2>1, <2>2
<1>5. ~UpToDate(t)
  BY <1>1, StampTarget DEF UpToDate
<1> QED BY <1>3, <1>4, <1>5 DEF Leaves

\* What is removed is gone until something is built.
LEMMA GoneStep ==
  ASSUME TypeOK, TypeOK', RecipeHalfRun, RemovedGone, [Next]_vars
  PROVE  RemovedGone'
<1> SUFFICES ASSUME NothingBuilt',
                    NEW t, t \in done' \ BuildTarget, NEW l, l = Len(Recipe(t))
             PROVE  Gone(t, l)'
  BY DEF RemovedGone
<1>1. t \in MakeTarget \ BuildTarget /\ l \in Nat
  BY RecipeLength DEF TypeOK
<1>2. ASSUME NothingBuilt, t \in done, Forgets PROVE Gone(t, l)'
  BY <1>1, <1>2, GoneKept DEF RemovedGone
<1>3. CASE Ends \/ Starts
  BY <1>3 DEF Ends, Starts
<1>4. CASE WalkRests
  BY <1>2, <1>4 DEF WalkRests, NothingBuilt
<1>5. ASSUME NEW n \in Nat \ {0}, Moves(n)
      PROVE  Gone(t, l)'
  <2>1. n = Len(stack) /\ Len(stack) # 0 /\ OnTop(n)
    BY <1>5 DEF Moves, OnTop
  <2>2. ~Idle
    BY <2>1, EmptySeq DEF Idle
  <2>3. CASE Skips(n) \/ Descends(n)
    <3>1. /\ UNCHANGED <<done, stamps>> /\ Len(stack') \in {n, n + 1}
          /\ \A m \in 1..n : m = n \/ m \in 1 .. n - 1
          /\ \A m \in 1..n : stack'[m].target = stack[m].target
      BY <2>3 DEF Skips, Descends, package
    <3>2. NothingBuilt
      BY <2>1, <3>1 DEF NothingBuilt
    <3>3. Forgets
      BY <3>1 DEF Forgets
    <3> QED BY <1>2, <3>1, <3>2, <3>3
  <2>4. CASE Leaves(n)
    <3>1. /\ done' = done \cup {stack[n].target} /\ Len(stack') = n - 1
          /\ \A m \in 1 .. n - 1 : stack'[m] = stack[m]
      BY <2>4 DEF Leaves
    <3>2. stack[n].target \notin BuildTarget
      BY <3>1 DEF NothingBuilt
    <3>3. Forgets
      BY <2>1, <2>2, <2>4, <3>2, LeftRemoval
    <3>4. NothingBuilt
      <4>1. \A m \in 1..n : m = n \/ m \in 1 .. n - 1
        OBVIOUS
      <4> QED BY <2>1, <3>1, <3>2, <4>1 DEF NothingBuilt
    <3>5. CASE t = stack[n].target
      BY <2>1, <2>2, <2>4, <3>2, <3>5, LeftRemoval
    <3>6. CASE t \in done
      BY <1>2, <3>3, <3>4, <3>6
    <3> QED BY <3>1, <3>5, <3>6
  <2> QED BY <1>5, <2>3, <2>4 DEF Moves
<1> QED BY <1>3, <1>4, <1>5, WalkMoves

\* The rules that list a removal.
LEMMA RemovalBelow ==
  ASSUME TypeOK, WalkInvariant, NEW n \in Nat \ {0}, OnTop(n), NEW p \in Pkg
  PROVE  /\ stack[n].target = <<"uninstalled", p>> => <<"configure", p>> \in done
         /\ stack[n].target = <<"cleaned", p>> => <<"uninstalled", p>> \in done
         /\ stack[n].target = <<"clean-for-reconfigure", p>> => First
<1>1. n = Len(stack) /\ ~Idle
  BY EmptySeq DEF OnTop, Idle
<1>2. Goal \in Goals /\ Goal = stack[1].target
  BY <1>1 DEF WalkInvariant, BottomIsGoal, Goal
<1>3. CASE n = 1
  <2>1. \A q : Goal # <<"uninstalled", q>> /\ Goal # <<"cleaned", q>>
    <3>1. Goal \in (BuildPhonies \cup OtherPhonies) \X Pkg \/ Goal \in {World, MakeClean}
      BY <1>2, ConfigAssumption
    <3>2. /\ \A x \in (BuildPhonies \cup OtherPhonies) \X Pkg :
                x[1] \in BuildPhonies \cup OtherPhonies
          /\ World[1] = "all" /\ MakeClean[1] = "make-clean"
      BY DEF World, MakeClean
    <3>3. Goal[1] # "uninstalled" /\ Goal[1] # "cleaned"
      BY <3>1, <3>2 DEF BuildPhonies, OtherPhonies
    <3> QED BY <3>3
  <2>2. <<"clean-for-reconfigure", p>> \in PlainTarget
    BY PlainTargets DEF PlainKinds
  <2> QED BY <1>1, <1>2, <1>3, <2>1, <2>2 DEF First
<1>4. ASSUME NEW m \in 1 .. n - 1
      PROVE  /\ stack[m].target \in MakeTarget /\ stack[m].next \in Nat \ {0}
             /\ stack[m].next \in 1..Len(Prereqs(stack[m].target))
             /\ stack[m + 1].target = Prereqs(stack[m].target)[stack[m].next]
             /\ \A j \in 1 .. stack[m].next - 1 : Prereqs(stack[m].target)[j] \in done
  <2>1. m \in 1..n
    OBVIOUS
  <2>2. stack[m].target \in MakeTarget /\ stack[m].next \in Nat \ {0}
    BY <1>1, <2>1, TopFrame DEF Frame
  <2>3. Len(Prereqs(stack[m].target)) \in Nat
    BY <2>2, PrereqsType
  <2> QED BY <1>1, <1>4, <2>1, <2>2, <2>3 DEF WalkInvariant, StackIsChain, EarlierDone
<1>5. CASE n # 1
  <2>1. PICK m \in 1 .. n - 1 : m + 1 = n
    BY <1>5
  <2> DEFINE u == stack[m].target
             i == stack[m].next
  <2>2. /\ u \in MakeTarget /\ i \in 1..Len(Prereqs(u)) /\ i \in Nat \ {0}
        /\ stack[n].target = Prereqs(u)[i]
        /\ \A j \in 1 .. i - 1 : Prereqs(u)[j] \in done
    BY <1>4, <2>1
  <2> HIDE DEF u, i
  <2>3. /\ stack[n].target = <<"uninstalled", p>> => u = <<"uninstall", p>> /\ i = 2
        /\ stack[n].target = <<"cleaned", p>> => u = <<"clean", p>> /\ i = 2
        /\ stack[n].target = <<"clean-for-reconfigure", p>> =>
             u = <<"reconfigure", p>> /\ i = 1
    <3>1. PICK v : v = stack[n].target
      OBVIOUS
    <3>2. v = Prereqs(u)[i]
      BY <2>2, <3>1
    <3>3. /\ v = <<"uninstalled", p>> => u = <<"uninstall", p>> /\ i = 2
          /\ v = <<"cleaned", p>> => u = <<"clean", p>> /\ i = 2
          /\ v = <<"clean-for-reconfigure", p>> => u = <<"reconfigure", p>> /\ i = 1
      BY <2>2, <3>2, RemovalsListed, ZenonT(90)
    <3> QED BY <3>1, <3>3
  <2>4. ASSUME stack[n].target = <<"uninstalled", p>>
        PROVE  <<"configure", p>> \in done
    <3>1. Prereqs(u)[1] \in done
      BY <2>2, <2>3, <2>4
    <3>2. Prereqs(u) = <<<<"configure", p>>, <<"uninstalled", p>>>>
      BY <2>3, <2>4, RemovalRules
    <3> QED BY <3>1, <3>2
  <2>5. ASSUME stack[n].target = <<"cleaned", p>>
        PROVE  <<"uninstalled", p>> \in done
    <3>1. Prereqs(u)[1] \in done
      BY <2>2, <2>3, <2>5
    <3>2. Prereqs(u) = <<<<"uninstall", p>>, <<"cleaned", p>>>>
      BY <2>3, <2>5, RemovalRules
    <3>3. <<"uninstall", p>> \in done
      BY <3>1, <3>2
    <3> QED BY <3>3, RemovalRules, DonePair DEF WalkInvariant
  <2>6. ASSUME stack[n].target = <<"clean-for-reconfigure", p>>
        PROVE  First
    <3>1. u = <<"reconfigure", p>> /\ i = 1
      BY <2>3, <2>6
    <3>2. m = 1
      <4> SUFFICES ASSUME m # 1 PROVE FALSE
        OBVIOUS
      <4>1. PICK k \in 1 .. n - 1 : k + 1 = m
        BY <2>1
      <4>2. u[1] \notin {"rebuild", "reconfigure"}
        BY <1>4, <4>1, RemovalsListed, ZenonT(60) DEF u
      <4> QED BY <3>1, <4>2
    <3> QED BY <1>1, <1>2, <3>1, <3>2 DEF First, Rebuilds, u, i
  <2> QED BY <2>4, <2>5, <2>6
<1> QED BY <1>3, <1>5

\* The recipe of .stamp_uninstalled.
LEMMA UninstallRecipe ==
  ASSUME NEW p \in Pkg
  PROVE  /\ <<"uninstalled", p>> \in PlainTarget
         /\ <<"uninstalled", p>> \in MakeTarget \ BuildTarget
         /\ Recipe(<<"uninstalled", p>>) = UninstallCommands
         /\ Len(Recipe(<<"uninstalled", p>>)) = 4
<1>1. Recipe(<<"uninstalled", p>>) = UninstallCommands
  BY DEF Recipe, InstallStamps, MakeClean
<1>2. <<"uninstalled", p>> \in PlainTarget
  BY PlainTargets DEF PlainKinds, NeverStamped
<1> QED BY <1>1, <1>2 DEF PlainTarget, UninstallCommands

\* After a package is uninstalled nothing is built.
LEMMA UninstalledStep ==
  ASSUME TypeOK, TypeOK', WalkInvariant, RecipeHalfRun, OnceUninstalled, [Next]_vars
  PROVE  OnceUninstalled'
<1> SUFFICES ASSUME NEW p \in Pkg, <<"uninstalled", p>> \in done',
                    NEW t, t = <<"uninstalled", p>>
             PROVE  /\ NoBuildFrames' /\ <<"configure", p>> \in done'
                    /\ Gone(t, 4)'
  BY DEF OnceUninstalled
<1>1. /\ t \in PlainTarget /\ t \in MakeTarget \ BuildTarget
      /\ Recipe(t) = UninstallCommands /\ Len(Recipe(t)) = 4
  BY UninstallRecipe
<1>2. ASSUME t \in done, Forgets
      PROVE  Gone(t, 4)'
  <2>1. PICK l : l = 4
    OBVIOUS
  <2>2. Gone(t, l) /\ l \in Nat /\ l <= Len(Recipe(t))
    <3>1. Gone(t, l)
      BY <1>2, <2>1 DEF OnceUninstalled, Gone
    <3> QED BY <1>1, <2>1, <3>1
  <2>3. Gone(t, l)'
    BY <1>1, <1>2, <2>2, GoneKept
  <2> QED BY <2>1, <2>3
<1>3. t \in done => NoBuildFrames /\ <<"configure", p>> \in done
  BY DEF OnceUninstalled
<1>4. CASE Ends \/ Starts
  BY <1>4 DEF Ends, Starts
<1>5. CASE WalkRests
  BY <1>2, <1>3, <1>5 DEF WalkRests, NoBuildFrames
<1>6. ASSUME NEW n \in Nat \ {0}, Moves(n)
      PROVE  /\ NoBuildFrames' /\ <<"configure", p>> \in done'
             /\ Gone(t, 4)'
  <2>1. n = Len(stack) /\ Len(stack) # 0 /\ OnTop(n) /\ n \in 1..n
    BY <1>6 DEF Moves, OnTop
  <2>2. ~Idle
    BY <2>1, EmptySeq DEF Idle
  <2>3. CASE Skips(n)
    <3>1. /\ UNCHANGED <<done, stamps>> /\ Len(stack') = n
          /\ \A m \in 1..n : m = n \/ m \in 1 .. n - 1
          /\ \A m \in 1..n : stack'[m].target = stack[m].target
      BY <2>3 DEF Skips, package
    <3> QED BY <1>2, <1>3, <2>1, <3>1 DEF NoBuildFrames, Forgets
  <2>4. CASE Descends(n)
    <3>1. /\ UNCHANGED <<done, stamps>> /\ Len(stack') = n + 1
          /\ \A m \in 1..n : stack'[m] = stack[m]
          /\ stack'[n + 1] = [target |-> NextPrereq(n), next |-> 1]
          /\ NextPrereq(n) \notin done /\ PrereqsLeft
      BY <2>4 DEF Descends, package
    <3>2. NoBuildFrames /\ <<"configure", p>> \in done
      BY <1>3, <3>1
    <3>3. <<"configure", p>> \in BuildTarget
      BY BuildTargets
    <3>4. NothingToBuild
      BY <3>2, <3>3 DEF WalkInvariant, NothingBuilt
    <3>5. stack[n].next \in Unvisited(n)
      <4>1. Len(Prereqs(stack[n].target)) \in Nat
        BY <2>1, PrereqsType DEF OnTop
      <4> QED BY <2>1, <3>1, <4>1 DEF OnTop, PrereqsLeft, Unvisited
    <3>6. NextPrereq(n) \in PlainTarget
      BY <2>1, <3>1, <3>2, <3>4, <3>5 DEF NothingToBuild, NoBuildFrames, NextPrereq
    <3>7. stack'[n + 1].target \notin BuildTarget
      BY <3>1, <3>6 DEF PlainTarget
    <3>8. \A m \in 1 .. n + 1 : m \in 1..n \/ m = n + 1
      OBVIOUS
    <3>9. NoBuildFrames'
      BY <2>1, <3>1, <3>2, <3>7, <3>8 DEF NoBuildFrames
    <3> QED BY <1>2, <3>1, <3>2, <3>9 DEF Forgets
  <2>5. CASE Leaves(n)
    <3>1. /\ done' = done \cup {stack[n].target} /\ Len(stack') = n - 1
          /\ \A m \in 1 .. n - 1 : stack'[m] = stack[m]
          /\ \A m \in 1 .. n - 1 : m \in 1..n
      BY <2>5 DEF Leaves
    <3>2. CASE t \in done
      <4>1. stack[n].target \notin BuildTarget
        BY <1>3, <2>1, <3>2 DEF NoBuildFrames
      <4>2. Forgets
        BY <2>1, <2>2, <2>5, <4>1, LeftRemoval
      <4> QED BY <1>2, <1>3, <2>1, <3>1, <3>2, <4>2 DEF NoBuildFrames
    <3>3. CASE t = stack[n].target
      <4>1. Gone(t, 4)'
        BY <1>1, <2>1, <2>2, <2>5, <3>3, LeftRemoval
      <4>2. <<"configure", p>> \in done
        BY <2>1, <3>3, RemovalBelow
      <4>3. \A m \in 1 .. n - 1 : stack[m].target \notin BuildTarget
        <5> TAKE m \in 1 .. n - 1
        <5>1. n \in m..n
          OBVIOUS
        <5> QED BY <1>1, <2>1, <3>1, <3>3, <5>1 DEF WalkInvariant, KindsNest
      <4> QED BY <3>1, <4>1, <4>2, <4>3 DEF NoBuildFrames
    <3> QED BY <3>1, <3>2, <3>3
  <2> QED BY <1>6, <2>3, <2>4, <2>5 DEF Moves
<1> QED BY <1>4, <1>5, <1>6, WalkMoves

\* In the second part of a rebuild with nothing above it, no command runs.
LEMMA RebuildRunsNothing ==
  ASSUME TypeOK, ~Idle, Goal[1] \in Rebuilds, Len(stack) = 1
  PROVE  Current = NoCommand
<1>1. Top.target = Goal /\ Goal \in MakeTarget
  BY Bottom DEF Top, Goal
<1>2. Len(Recipe(Goal)) = 0
  BY <1>1, RebuildRules, EmptySeq
<1> QED BY <1>1, <1>2, Running

\* In a rebuild, the stamps make has visited stay.
LEMMA KeepsStep ==
  ASSUME TypeOK, TypeOK', WalkInvariant, WalkInvariant', FirstPart', RebuildKeeps,
         [Next]_vars
  PROVE  RebuildKeeps'
<1> SUFFICES ASSUME ~Idle', Goal'[1] \in Rebuilds, NEW t \in done', t[1] \in Stamps
             PROVE  t[1] \in stamps'[t[2]]
  BY DEF RebuildKeeps
<1>1. t \in BuildTarget
  BY StampTarget DEF TypeOK
<1>2. CASE First'
  BY <1>1, <1>2 DEF FirstPart, NothingBuilt
<1>3. CASE ~First'
  <2>1. Goal' \in MakeTarget /\ stack'[1].next \in Nat \ {0} /\ Len(stack') \in Nat \ {0}
    <3>1. (Goal \in MakeTarget /\ stack[1].next \in Nat \ {0})'
      BY Bottom, PTL
    <3> QED BY <3>1, EmptySeq DEF TypeOK, Idle
  <2>2. stack'[1].next > 1
    BY <1>3, <2>1 DEF First
  <2>3. CASE Len(stack') > 1
    <3>1. Second'
      BY <2>2 DEF Second
    <3>2. (Len(stack) > 1 => Top.target \in BuildTarget)'
      BY <3>1, SecondTop, PTL
    <3> QED BY <2>3, <3>2 DEF WalkInvariant, VisitedStampsKept
  <2>4. CASE Len(stack') = 1
    <3>1. ASSUME ~Idle, Goal' = Goal, UNCHANGED stamps, t \in done
          PROVE  t[1] \in stamps'[t[2]]
      BY <3>1 DEF RebuildKeeps
    <3>2. CASE Ends
      BY <3>2 DEF Ends, Idle
    <3>3. CASE Starts
      BY <3>3 DEF Starts
    <3>4. CASE WalkRests
      <4>1. ~Idle /\ Goal' = Goal /\ Len(stack) = 1 /\ done' = done
        BY <2>4, <3>4 DEF WalkRests, Idle, Goal
      <4>2. UNCHANGED stamps
        BY <3>4, <4>1, RebuildRunsNothing DEF WalkRests
      <4> QED BY <3>1, <4>1, <4>2
    <3>5. ASSUME NEW n \in Nat \ {0}, Moves(n)
          PROVE  t[1] \in stamps'[t[2]]
      <4>1. /\ ~Idle /\ Goal' = Goal /\ OnTop(n) /\ n = Len(stack)
            /\ stack'[1].next = stack[1].next \/ (n = 1 /\ Skips(n))
        BY <3>5, GoalStays DEF Moves, OnTop
      <4>2. CASE Skips(n)
        BY <3>1, <4>1, <4>2 DEF Skips, package
      <4>3. CASE Descends(n)
        BY <2>4, <4>3 DEF Descends
      <4>4. CASE Leaves(n)
        <5>1. n = 2 /\ done' = done \cup {stack[2].target}
          <6>1. Len(stack') = n - 1
            BY <4>4 DEF Leaves
          <6>2. done' = done \cup {stack[n].target}
            BY <4>4 DEF Leaves
          <6>3. ASSUME NEW l, l = 1, l = n - 1 PROVE n = 2
            BY <6>3
          <6>4. n = 2
            BY <2>4, <6>1, <6>3, Zenon
          <6> QED BY <6>2, <6>4, Zenon
        <5>2. stack[2].target = World
          <6>1. stack[1].next > 1
            BY <2>2, <4>1, <5>1
          <6>2. Second
            BY <4>1, <6>1 DEF Second
          <6> QED BY <4>1, <5>1, <6>2, SecondBuilds
        <5>3. World[1] \notin Stamps /\ Recipe(World) = <<>> /\ Len(Recipe(World)) = 0
          <6>1. World[1] \notin Stamps /\ World \in BuildTarget
            BY StampKinds DEF World, BuildTarget
          <6> QED BY <6>1, PhonyRecipe, EmptySeq
        <5>4. Current = NoCommand
          BY <4>1, <5>1, <5>2, <5>3, Running DEF OnTop
        <5>5. UNCHANGED stamps
          BY <4>4, <5>4 DEF Leaves, package
        <5>6. t # World
          BY <5>3
        <5> QED BY <3>1, <4>1, <5>1, <5>2, <5>5, <5>6
      <4> QED BY <3>5, <4>2, <4>3, <4>4 DEF Moves
    <3> QED BY <3>2, <3>3, <3>4, <3>5, WalkMoves
  <2>5. Len(stack') > 1 \/ Len(stack') = 1
    <3>1. \A l \in Nat \ {0} : l > 1 \/ l = 1
      OBVIOUS
    <3> QED BY <2>1, <3>1, Zenon
  <2> QED BY <2>3, <2>4, <2>5
<1> QED BY <1>2, <1>3

\* pkg-generic.mk:420-445.  At any time, whatever happened before.
LEMMA Removed == Spec => []RemovalInvariant
<1>1. Init => RemovalInvariant
  <2> SUFFICES ASSUME Init PROVE RemovalInvariant
    OBVIOUS
  <2> QED BY DEF Init, RemovalInvariant, FirstPart, First, RemovedGone,
       OnceUninstalled, RebuildKeeps, Idle
<1>2. /\ TypeOK /\ TypeOK' /\ WalkInvariant /\ WalkInvariant' /\ RecipeHalfRun
      /\ RemovalInvariant /\ [Next]_vars
      => RemovalInvariant'
  BY FirstStep, GoneStep, UninstalledStep, KeepsStep DEF RemovalInvariant
<1> QED BY <1>1, <1>2, Typing, Walk, HalfRuns, PTL DEF Spec

-----------------------------------------------------------------------------
(* What a build leaves under its stamps.                                   *)

\* Rebuilding starts with the stamps.
Clearing(p) == pc > 1 /\ Top.target = <<"clean-for-rebuild", p>>

\* What is stamped built was configured, and configured as it is; what is
\* stamped installed was built, and is what was built.
BuiltOf(p) ==
  /\ "built" \in stamps[p] => "configured" \in stamps[p]
  /\ "built" \in stamps[p] /\ ~Cleaning(p) => obj[p].cfg = conf[p]
  /\ ~Wiping => \A s \in stamps[p] \cap InstallStamps :
        /\ ~Clearing(p) => "built" \in stamps[p]
        /\ ~Cleaning(p) => inst[p][s] = obj[p].src

\* The same while nothing is being removed.
OneBuild(p) ==
  /\ "built" \in stamps[p] => "configured" \in stamps[p] /\ obj[p].cfg = conf[p]
  /\ \A s \in stamps[p] \cap InstallStamps :
       "built" \in stamps[p] /\ inst[p][s] = obj[p].src

BuiltStand == \A p \in Pkg \ skewed : BuiltOf(p)

\* The user does not remove these two stamps by hand.
KeepsBuildStamps == UserRemoves \cap {"configured", "built"} = {}

\* The recipe of <pkg>-clean-for-rebuild.
LEMMA RebuildRecipe ==
  ASSUME NEW p \in Pkg, NEW t, t = <<"clean-for-rebuild", p>>
  PROVE  /\ \A i \in 1..Len(Recipe(t)) : Recipe(t)[i][2] # "configured"
         /\ \A s \in InstallStamps \cup {"built"} :
              \E i \in 1..Len(Recipe(t)) : Recipe(t)[i] = Rm(s)
         /\ p \in Override =>
              \E i \in 1..Len(Recipe(t)) : Recipe(t)[i] = Rm("rsynced")
<1>1. Recipe(t) = RebuildCommands(p)
  BY DEF Recipe, InstallStamps, MakeClean
<1>2. \A s : Rm(s)[2] = s
  BY DEF Rm
<1>3. CASE p \in Override
  <2>1. Recipe(t) = <<Rm("rsynced"), Rm("built"), Rm("staging_installed"),
                      Rm("target_installed"), Rm("images_installed"),
                      Rm("host_installed")>>
    BY <1>1, <1>3 DEF RebuildCommands
  <2>2. /\ Len(Recipe(t)) = 6
        /\ Recipe(t)[1] = Rm("rsynced")
        /\ Recipe(t)[2] = Rm("built")
        /\ Recipe(t)[3] = Rm("staging_installed")
        /\ Recipe(t)[4] = Rm("target_installed")
        /\ Recipe(t)[5] = Rm("images_installed")
        /\ Recipe(t)[6] = Rm("host_installed")
    BY <2>1
  <2>3. 1..6 = {1, 2, 3, 4, 5, 6}
    OBVIOUS
  <2> QED BY <1>2, <2>2, <2>3 DEF InstallStamps
<1>4. CASE p \notin Override
  <2>1. Recipe(t) = <<Rm("built"), Rm("staging_installed"),
                      Rm("target_installed"), Rm("images_installed"),
                      Rm("host_installed")>>
    BY <1>1, <1>4 DEF RebuildCommands
  <2>2. /\ Len(Recipe(t)) = 5
        /\ Recipe(t)[1] = Rm("built")
        /\ Recipe(t)[2] = Rm("staging_installed")
        /\ Recipe(t)[3] = Rm("target_installed")
        /\ Recipe(t)[4] = Rm("images_installed")
        /\ Recipe(t)[5] = Rm("host_installed")
    BY <2>1
  <2>3. 1..5 = {1, 2, 3, 4, 5}
    OBVIOUS
  <2> QED BY <1>2, <1>4, <2>2, <2>3 DEF InstallStamps
<1> QED BY <1>3, <1>4

\* It leaves no stamp from "built" on.
LEMMA Cleared ==
  ASSUME NEW p \in Pkg, NEW t, t = <<"clean-for-rebuild", p>>,
         NEW have, \A i \in 1..Len(Recipe(t)) :
                     Recipe(t)[i][1] = "rm-stamp" => Recipe(t)[i][2] \notin have
  PROVE  /\ have \cap (InstallStamps \cup {"built"}) = {}
         /\ p \in Override => "rsynced" \notin have
<1>1. ASSUME NEW s, NEW i \in 1..Len(Recipe(t)), Recipe(t)[i] = Rm(s)
      PROVE  s \notin have
  BY <1>1 DEF Rm
<1> QED BY <1>1, RebuildRecipe

\* The stamp each removal removes.
LEMMA StampRemoval ==
  ASSUME TypeOK, Runs("rm-stamp")
  PROVE  /\ P \in Pkg /\ ~Idle /\ ~PrereqsLeft /\ Current # NoCommand
         /\ \/ Top.target = <<"cleaned", P>> /\ pc = 2 /\ Current[2] = "built"
            \/ /\ Top.target = <<"uninstalled", P>>
               /\ Current[2] \in {"staging_installed", "target_installed"}
            \/ Top.target = <<"clean-for-rebuild", P>> /\ Current[2] # "configured"
            \/ Top.target = <<"clean-for-reconfigure", P>>
<1>1. /\ Current # NoCommand /\ ~Idle /\ ~PrereqsLeft /\ P \in Pkg
      /\ Top.target # MakeClean /\ Top.target \notin BuildTarget
      /\ pc \in 1..Len(Recipe(Top.target)) /\ Current = Recipe(Top.target)[pc]
  BY RemovalUnderWay, RemovalsRemove, Running DEF Unmaking
<1>2. Current[1] = "rm-stamp"
  BY DEF Runs
<1>3. PICK t, c, i : t = Top.target /\ c = Current /\ i = pc
  OBVIOUS
<1>4. RemovalRuns(t, i, c) /\ t[2] = P /\ c[1] = "rm-stamp" /\ t # MakeClean
  BY <1>1, <1>2, <1>3, RemovalCommand DEF P
<1>5. Rm("built")[2] = "built" /\ Rm("built")[1] = "rm-stamp"
  BY DEF Rm
<1>6. CASE t = <<"cleaned", t[2]>>
  <2>1. t[1] = "cleaned"
    BY <1>6
  <2>2. c = Rm("built") /\ i = 2
    BY <1>4, <2>1 DEF RemovalRuns
  <2> QED BY <1>1, <1>3, <1>4, <1>5, <1>6, <2>2
<1>7. CASE t = <<"uninstalled", t[2]>>
  <2>1. t[1] = "uninstalled"
    BY <1>7
  <2>2. c = UninstallCommands[i] /\ i \in {1, 2, 3, 4}
    BY <1>4, <2>1 DEF RemovalRuns
  <2>3. c[2] \in {"staging_installed", "target_installed"}
    BY <2>2 DEF UninstallCommands, Rm
  <2> QED BY <1>1, <1>3, <1>4, <1>7, <2>3
<1>8. CASE t = <<"clean-for-rebuild", t[2]>>
  <2>1. c[2] # "configured"
    BY <1>1, <1>3, <1>4, <1>8, RebuildRecipe
  <2> QED BY <1>1, <1>3, <1>4, <1>8, <2>1
<1>9. CASE t = <<"clean-for-reconfigure", t[2]>>
  BY <1>1, <1>3, <1>4, <1>9
<1> QED BY <1>1, <1>3, <1>4, <1>6, <1>7, <1>8, <1>9 DEF RemovalRuns

LEMMA OneBuildSuffices ==
  ASSUME NEW p \in Pkg
  PROVE  /\ OneBuild(p) => BuiltOf(p)
         /\ ~Wiping /\ ~Cleaning(p) /\ ~Clearing(p) => (BuiltOf(p) <=> OneBuild(p))
BY DEF OneBuild, BuiltOf

\* A package whose build a step leaves alone.
LEMMA BuildKept ==
  ASSUME NEW p \in Pkg, OneBuild(p),
         stamps'[p] \subseteq stamps[p],
         stamps[p] \cap {"configured", "built"} \subseteq stamps'[p],
         conf'[p] = conf[p], obj'[p] = obj[p], inst'[p] = inst[p]
  PROVE  OneBuild(p)'
BY DEF OneBuild, InstallStamps

\* While make builds, it removes nothing.
LEMMA BuildingClears ==
  ASSUME S \in Stamps
  PROVE  ~Wiping /\ \A p \in Pkg : ~Cleaning(p) /\ ~Clearing(p)
<1>1. ASSUME NEW p \in Pkg, Clearing(p) PROVE S = "clean-for-rebuild"
  BY <1>1 DEF Clearing, S
<1> QED BY <1>1, BuildingIsNoRemoval, StampKinds

\* The steps of the package under way.
LEMMA MakingBuilds ==
  ASSUME TypeOK, WalkInvariant, PatchInvariant, InstallInvariant, BuiltStand,
         \/ Touch \/ Download \/ Extract \/ Rsync \/ ApplyPatch \/ Configure
         \/ Build \/ Install \/ PatchRefused
  PROVE  BuiltStand'
<1>1. PICK c \in Making \cup {"touch"} : Runs(c)
  BY DEF Touch, Download, Extract, Rsync, ApplyPatch, Configure, Build, Install,
     PatchRefused, Making
<1>2. S \in Stamps /\ P \in Pkg /\ skewed' = skewed /\ ~Idle /\ Top.target = <<S, P>>
  <2>1. S \in Stamps /\ P \in Pkg /\ Top.target = <<S, P>> /\ ~Idle
    BY <1>1, MakingCommand, Touching, Running, RunningCommand
  <2> QED BY <2>1 DEF Touch, Download, Extract, Rsync, ApplyPatch, Configure,
          Build, Install, PatchRefused, package
<1>3. \A p \in Pkg \ skewed : OneBuild(p)
  BY <1>2, BuildingClears, OneBuildSuffices DEF BuiltStand
<1>4. SUFFICES ASSUME NEW p \in Pkg \ skewed PROVE OneBuild(p)'
  <2>1. ASSUME NEW p \in Pkg \ skewed', OneBuild(p)' PROVE BuiltOf(p)'
    BY <2>1 DEF OneBuild, BuiltOf
  <2> QED BY <1>2, <1>4, <2>1 DEF BuiltStand
<1>5. OneBuild(p)
  BY <1>3
<1>6. CASE p # P
  <2>1. /\ stamps'[p] = stamps[p] /\ conf'[p] = conf[p]
        /\ obj'[p] = obj[p] /\ inst'[p] = inst[p]
    BY <1>2, <1>6 DEF Touch, Download, Extract, Rsync, ApplyPatch, Configure, Build,
       Install, PatchRefused, package, TypeOK
  <2> QED BY <1>5, <2>1, BuildKept
<1>7. CASE p = P
  <2>1. CASE Touch
    <3>1. /\ Runs("touch") /\ stamps'[p] = stamps[p] \cup {S}
          /\ UNCHANGED <<conf, obj, inst>> /\ S \notin stamps[p]
      <4>1. ~UpToDate(Top.target)
        BY <2>1, RunningCommand, Running DEF Touch
      <4> QED BY <1>2, <1>7, <2>1, <4>1 DEF Touch, TypeOK, UpToDate
    <3>2. /\ S = "built" => obj[p] = [src |-> tree[p], cfg |-> conf[p]]
          /\ S \in InstallStamps => inst[p][S] = obj[p].src
      BY <1>7, <3>1, TouchedFiles
    <3>3. Before[p][S] \subseteq stamps[p]
      <4>1. Before[P][S] \subseteq Stamps
        BY <1>2, StampKinds DEF Before, SourceSteps, InstallStamps
      <4>2. \A s \in Before[P][S] : <<s, P>> \in done
        BY <1>2, MadeBefore
      <4>3. Top.target \in BuildTarget
        BY <3>1, Touching
      <4> QED BY <1>2, <1>7, <4>1, <4>2, <4>3 DEF WalkInvariant, VisitedStampsKept
    <3>4. /\ S = "built" => "configured" \in stamps[p]
          /\ S \in InstallStamps => "built" \in stamps[p]
      BY <1>2, <3>3 DEF Before, InstallStamps
    <3>5. S = "built" => (obj[p].cfg = conf[p] /\ S \notin InstallStamps)
      BY <3>2 DEF InstallStamps
    <3>6. \A s \in stamps[p] \cap InstallStamps : s # "built" /\ s # "configured"
      BY DEF InstallStamps
    <3> QED BY <1>5, <3>1, <3>2, <3>4, <3>5, <3>6 DEF OneBuild
  <2>2. CASE Download \/ Extract \/ Rsync \/ ApplyPatch \/ PatchRefused
    <3>1. UNCHANGED <<stamps, conf, obj, inst>>
      BY <2>2 DEF Download, Extract, Rsync, ApplyPatch, PatchRefused, package
    <3> QED BY <1>5, <3>1, BuildKept
  <2>3. CASE Configure
    <3>1. "configured" \notin stamps[p] /\ UNCHANGED <<stamps, obj, inst>>
      BY <1>7, <2>3, MakingCommand DEF Configure, Making
    <3> QED BY <1>5, <3>1 DEF OneBuild
  <2>4. CASE Build
    <3>1. "built" \notin stamps[p] /\ UNCHANGED <<stamps, conf, inst>>
      BY <1>7, <2>4, MakingCommand DEF Build, Making
    <3> QED BY <1>5, <3>1 DEF OneBuild
  <2>5. CASE Install
    <3>1. S \notin stamps[p] /\ UNCHANGED <<stamps, conf, obj>>
      BY <1>7, <2>5, MakingCommand DEF Install, Making
    <3>2. \A s \in InstallStamps \ {S} : inst'[p][s] = inst[p][s]
      BY <1>7, <2>5 DEF Install, TypeOK
    <3> QED BY <1>5, <3>1, <3>2 DEF OneBuild
  <2> QED BY <2>1, <2>2, <2>3, <2>4, <2>5
<1> QED BY <1>6, <1>7

\* What a removal of p is not.
LEMMA OneRemoval ==
  ASSUME NEW k, k # "make-clean", NEW p, Top.target = <<k, p>>
  PROVE  /\ ~Wiping
         /\ \A q \in Pkg : Cleaning(q) => q = p /\ k = "cleaned"
         /\ \A q \in Pkg : Clearing(q) => q = p /\ k = "clean-for-rebuild"
<1>1. Top.target[1] = k /\ Top.target[2] = p /\ MakeClean[1] = "make-clean"
  BY DEF MakeClean
<1>2. ASSUME NEW l, NEW q, Top.target = <<l, q>>
      PROVE  l = k /\ q = p
  BY <1>1, <1>2
<1> QED BY <1>1, <1>2 DEF Wiping, Cleaning, Clearing

\* The stamps a finished <pkg>-clean-for-rebuild leaves, before anything is built.
LEMMA ClearedBefore ==
  ASSUME RemovedGone, NothingBuilt, NEW p \in Pkg, <<"clean-for-rebuild", p>> \in done
  PROVE  /\ stamps[p] \cap (InstallStamps \cup {"built"}) = {}
         /\ p \in Override => "rsynced" \notin stamps[p]
<1> PICK t : t = <<"clean-for-rebuild", p>>
  OBVIOUS
<1>1. t \in PlainTarget
  BY PlainTargets DEF PlainKinds
<1>2. Gone(t, Len(Recipe(t))) /\ t[2] = p
  BY <1>1 DEF RemovedGone, PlainTarget
<1>3. \A i \in 1..Len(Recipe(t)) :
        Recipe(t)[i][1] = "rm-stamp" => Recipe(t)[i][2] \notin stamps[p]
  BY <1>2 DEF Gone
<1> QED BY <1>3, Cleared

\* A stamp that is removed.
LEMMA RmStampBuilds ==
  ASSUME TypeOK, WalkInvariant, InstallInvariant, RemovalInvariant, BuiltStand,
         RmStamp
  PROVE  BuiltStand'
<1> SUFFICES ASSUME NEW p \in Pkg, p \notin skewed' PROVE BuiltOf(p)'
  BY DEF BuiltStand
<1>1. /\ p \notin skewed /\ UNCHANGED <<conf, obj, inst>> /\ Succeed
      /\ Runs("rm-stamp") /\ stamps' = [stamps EXCEPT ![P] = @ \ {Current[2]}]
      /\ P = p /\ S = "cleaned" =>
           stamps[p] \cap {"images_installed", "host_installed"} = {}
  BY DEF RmStamp
<1>2. P \in Pkg /\ ~Idle /\ ~PrereqsLeft /\ Current # NoCommand
  BY <1>1, StampRemoval
<1>3. BuiltOf(p)
  BY <1>1 DEF BuiltStand
<1>4. PICK k \in {"cleaned", "uninstalled", "clean-for-rebuild",
                 "clean-for-reconfigure"} : Top.target = <<k, P>> /\ S = k
  BY <1>1, StampRemoval DEF S
<1>5. /\ ~Wiping
      /\ Cleaning(p) => p = P /\ k = "cleaned"
      /\ Clearing(p) => p = P /\ k = "clean-for-rebuild"
  BY <1>2, <1>4, OneRemoval
<1>6. ASSUME OneBuild(p)' PROVE BuiltOf(p)'
  BY <1>6 DEF OneBuild, BuiltOf
<1>7. CASE p # P
  <2>1. stamps'[p] = stamps[p] /\ OneBuild(p)
    BY <1>1, <1>3, <1>5, <1>7, OneBuildSuffices DEF TypeOK
  <2> QED BY <1>1, <1>6, <2>1, BuildKept
<1>8. CASE p = P
  <2>1. stamps'[p] = stamps[p] \ {Current[2]}
    BY <1>1, <1>8 DEF TypeOK
  <2>n. PICK n \in Nat \ {0} : OnTop(n)
    BY <1>2, TopFrame DEF OnTop, Frame
  <2>2. CASE k = "cleaned"
    <3>1. Current[2] = "built"
      BY <1>1, <1>4, <2>2, StampRemoval
    <3>2. <<"uninstalled", p>> \in done
      BY <1>4, <1>8, <2>2, <2>n, RemovalBelow DEF OnTop
    <3>3. {"staging_installed", "target_installed"} \cap stamps[p] = {}
      <4> PICK t : t = <<"uninstalled", p>>
        OBVIOUS
      <4>1. Gone(t, 4) /\ t[2] = p /\ Recipe(t) = UninstallCommands
        BY <3>2, UninstallRecipe DEF RemovalInvariant, OnceUninstalled
      <4>2. /\ UninstallCommands[1] = <<"rm-stamp", "staging_installed">>
            /\ UninstallCommands[2] = <<"rm-stamp", "target_installed">>
        BY DEF UninstallCommands, Rm
      <4>3. 1 \in 1..4 /\ 2 \in 1..4
        OBVIOUS
      <4> QED BY <4>1, <4>2, <4>3 DEF Gone
    <3>4. stamps[p] \cap InstallStamps = {}
      BY <1>1, <1>4, <1>8, <2>2, <3>3 DEF InstallStamps
    <3> QED BY <2>1, <3>1, <3>4 DEF BuiltOf
  <2>3. CASE k = "uninstalled"
    <3>1. OneBuild(p)
      BY <1>3, <1>5, <2>3, OneBuildSuffices
    <3>2. Current[2] \in {"staging_installed", "target_installed"}
      BY <1>1, <1>4, <2>3, StampRemoval
    <3> QED BY <1>1, <1>6, <2>1, <3>1, <3>2, BuildKept
  <2>4. CASE k = "clean-for-rebuild"
    <3>1. Current[2] # "configured" /\ Top.target = <<"clean-for-rebuild", p>>
      BY <1>1, <1>4, <1>8, <2>4, StampRemoval
    <3>2. /\ "built" \in stamps[p] => "configured" \in stamps[p]
          /\ "built" \in stamps[p] => obj[p].cfg = conf[p]
          /\ \A s \in stamps[p] \cap InstallStamps : inst[p][s] = obj[p].src
      BY <1>3, <1>5, <2>4 DEF BuiltOf
    <3>3. /\ "built" \in stamps'[p] => "configured" \in stamps'[p]
          /\ "built" \in stamps'[p] => obj'[p].cfg = conf'[p]
          /\ \A s \in stamps'[p] \cap InstallStamps : inst'[p][s] = obj'[p].src
      BY <1>1, <2>1, <3>1, <3>2
    <3>4. CASE pc < Len(Recipe(Top.target))
      <4>1. pc' = pc + 1 /\ UNCHANGED stack /\ pc \in Nat \ {0}
        BY <1>1, <3>4 DEF Succeed, TypeOK
      <4>2. Clearing(p)'
        BY <3>1, <4>1 DEF Clearing, Top
      <4> QED BY <3>3, <4>2 DEF BuiltOf
    <3>5. CASE ~(pc < Len(Recipe(Top.target)))
      <4> PICK t, l : t = Top.target /\ l = pc
        OBVIOUS
      <4>1. Top.target \notin BuildTarget
        BY <1>1, RemovalsRemove DEF Unmaking
      <4>2. \A q \in Pkg : stamps'[q] \subseteq stamps[q]
        BY <1>1 DEF TypeOK
      <4>3. Gone(t, l)'
        BY <1>2, <4>1, <4>2, GoneFurther DEF InstallInvariant
      <4>4. l = Len(Recipe(t)) /\ t[2] = p
        <5>1. pc \in 1..Len(Recipe(t)) /\ Len(Recipe(t)) \in Nat
          BY <1>2, Running, TopFrame, RecipeLength
        <5> QED BY <3>1, <3>5, <5>1
      <4>5. \A i \in 1..Len(Recipe(t)) :
              Recipe(t)[i][1] = "rm-stamp" => Recipe(t)[i][2] \notin stamps'[p]
        BY <4>3, <4>4 DEF Gone
      <4>6. stamps'[p] \cap (InstallStamps \cup {"built"}) = {}
        BY <3>1, <4>5, Cleared
      <4> QED BY <3>3, <4>6 DEF BuiltOf
    <3> QED BY <3>4, <3>5
  <2>5. CASE k = "clean-for-reconfigure"
    <3>1. Top.target = <<"clean-for-reconfigure", p>>
      BY <1>4, <1>8, <2>5
    <3>2. NothingBuilt
      BY <2>n, <3>1, RemovalBelow DEF OnTop, RemovalInvariant, FirstPart
    <3>3. <<"clean-for-rebuild", p>> \in done
      <4>1. /\ Len(Prereqs(Top.target)) = 1
            /\ Prereqs(Top.target)[1] = <<"clean-for-rebuild", p>>
        <5>1. Prereqs(Top.target) = <<<<"clean-for-rebuild", p>>>>
          BY <3>1, RemovalRules
        <5> QED BY <5>1
      <4>2. 1 \in 1 .. Top.next - 1 /\ Len(stack) \in 1..Len(stack)
        BY <1>2, <4>1, TopFrame DEF PrereqsLeft
      <4> QED BY <4>1, <4>2 DEF WalkInvariant, EarlierDone, Top
    <3>4. stamps[p] \cap (InstallStamps \cup {"built"}) = {}
      BY <3>2, <3>3, ClearedBefore DEF RemovalInvariant
    <3>5. "built" \notin stamps'[p] /\ stamps'[p] \cap InstallStamps = {}
      BY <2>1, <3>4
    <3> QED BY <3>5 DEF BuiltOf
  <2> QED BY <1>4, <2>2, <2>3, <2>4, <2>5
<1> QED BY <1>7, <1>8

\* The other removals take the stamps away, or the files after the stamps.
LEMMA UnmakingBuilds ==
  ASSUME TypeOK, InstallInvariant, BuiltStand,
         Uninstall \/ CleanObjects \/ RmTree \/ Wipe \/ WipeTrees
  PROVE  BuiltStand'
<1> SUFFICES ASSUME NEW p \in Pkg, p \notin skewed' PROVE BuiltOf(p)'
  BY DEF BuiltStand
<1>1. p \notin skewed => BuiltOf(p)
  BY DEF BuiltStand
<1>2. ASSUME NEW k \in {"uninstalled", "cleaned", "dircleaned"}, Top.target = <<k, P>>
      PROVE  /\ ~Wiping /\ ~Clearing(p)
             /\ Cleaning(p) => p = P /\ k = "cleaned"
             /\ p \notin skewed /\ ~Cleaning(p) => OneBuild(p)
  <2>1. ~Wiping /\ ~Clearing(p) /\ (Cleaning(p) => p = P /\ k = "cleaned")
    BY <1>2, OneRemoval
  <2> QED BY <1>1, <2>1, OneBuildSuffices
<1>3. ASSUME OneBuild(p)' PROVE BuiltOf(p)'
  BY <1>3 DEF OneBuild, BuiltOf
<1>4. CASE Uninstall
  <2>1. /\ Runs("uninstall") /\ p \notin skewed
        /\ inst' = [inst EXCEPT ![P][Current[2]] = Absent]
        /\ UNCHANGED <<stamps, conf, obj>>
    BY <1>4 DEF Uninstall
  <2>2. Top.target = <<"uninstalled", P>>
    BY <2>1, RemovalUnderWay DEF Unmaking
  <2>3. OneBuild(p)
    BY <1>2, <2>1, <2>2
  <2>4. P \in Pkg /\ Current[2] \notin stamps[P]
    BY <2>1, UninstalledFirst
  <2>5. \A s \in stamps[p] \cap InstallStamps : inst'[p][s] = inst[p][s]
    BY <2>1, <2>4 DEF TypeOK
  <2> QED BY <1>3, <2>1, <2>3, <2>5 DEF OneBuild
<1>5. CASE CleanObjects
  <2>1. /\ Runs("clean") /\ p \notin skewed /\ Succeed
        /\ UNCHANGED <<stamps, conf, inst>>
        /\ obj' = [obj EXCEPT ![P] = [src |-> Absent, cfg |-> Absent]]
    BY <1>5 DEF CleanObjects
  <2>2. /\ Top.target = <<"cleaned", P>> /\ pc = 1
        /\ Len(Recipe(Top.target)) = 2
    BY <2>1, RemovalUnderWay DEF Unmaking
  <2>3. ~Cleaning(p)
    BY <2>2 DEF Cleaning
  <2>4. OneBuild(p)
    BY <1>2, <2>1, <2>2, <2>3
  <2>5. CASE p # P
    <3>1. obj'[p] = obj[p]
      BY <2>1, <2>5 DEF TypeOK
    <3> QED BY <1>3, <2>1, <2>4, <3>1, BuildKept
  <2>6. CASE p = P
    <3>1. pc' = 2 /\ stack' = stack
      BY <2>1, <2>2 DEF Succeed
    <3>2. Cleaning(p)'
      BY <2>2, <2>6, <3>1 DEF Cleaning, Top
    <3> QED BY <2>1, <2>4, <3>2 DEF OneBuild, BuiltOf
  <2> QED BY <2>5, <2>6
<1>6. CASE RmTree
  <2>1. Runs("rm-tree") /\ RemoveTrees({P}) /\ UNCHANGED inst /\ skewed' = skewed \ {P}
    BY <1>6 DEF RmTree
  <2>2. CASE p = P
    <3>1. stamps'[p] = {}
      BY <2>1, <2>2 DEF RemoveTrees
    <3> QED BY <3>1 DEF BuiltOf
  <2>3. CASE p # P
    <3>1. Top.target = <<"dircleaned", P>> /\ p \notin skewed
      BY <2>1, <2>3, RemovalUnderWay DEF Unmaking
    <3>2. OneBuild(p)
      BY <1>2, <2>3, <3>1
    <3>3. /\ stamps'[p] = stamps[p] /\ conf'[p] = conf[p]
          /\ obj'[p] = obj[p] /\ inst'[p] = inst[p]
      BY <2>1, <2>3 DEF RemoveTrees
    <3> QED BY <1>3, <3>2, <3>3, BuildKept
  <2> QED BY <2>2, <2>3
<1>7. CASE Wipe
  <2>1. /\ Runs("wipe") /\ p \notin skewed /\ Succeed
        /\ UNCHANGED <<stamps, conf, obj>>
    BY <1>7 DEF Wipe
  <2>2. Top.target = MakeClean /\ pc < Len(Recipe(Top.target))
    BY <2>1, RemovalUnderWay DEF Unmaking
  <2>3. pc' = pc + 1 /\ stack' = stack /\ pc \in Nat \ {0}
    BY <2>1, <2>2 DEF Succeed, TypeOK
  <2>4. Wiping'
    BY <2>2, <2>3 DEF Wiping, Top
  <2>5. ~Cleaning(p)
    <3>1. MakeClean # <<"cleaned", p>>
      BY DEF MakeClean
    <3> QED BY <2>2, <3>1 DEF Cleaning
  <2> QED BY <1>1, <2>1, <2>4, <2>5 DEF BuiltOf
<1>8. CASE WipeTrees
  <2>1. stamps'[p] = {}
    BY <1>8 DEF WipeTrees, RemoveTrees
  <2> QED BY <2>1 DEF BuiltOf
<1> QED BY <1>4, <1>5, <1>6, <1>7, <1>8

\* A command cut short damages what is not stamped yet, or no longer.
LEMMA BreakBuilds ==
  ASSUME TypeOK, InstallInvariant, BuiltStand, BreakStep
  PROVE  BuiltStand'
<1> SUFFICES ASSUME NEW p \in Pkg, p \notin skewed' PROVE OneBuild(p)'
  <2>1. \A p \in Pkg : OneBuild(p)' => BuiltOf(p)'
    BY DEF OneBuild, BuiltOf
  <2> QED BY <2>1 DEF BuiltStand
<1>1. UNCHANGED stamps /\ p \notin skewed /\ BuiltOf(p)
  BY DEF BreakStep, BuiltStand
<1>2. PICK c \in {"extract", "rsync", "apply-patch", "configure", "build",
                  "install", "uninstall", "clean"} : Runs(c) /\ Current[1] = c
  BY DEF BreakStep, Runs
<1>3. P \in Pkg
  BY <1>2, RunsOnPackage, RunningCommand
<1>4. OneBuild(p)
  <2>1. CASE c \in Making
    <3>1. S \in Stamps
      BY <1>2, <2>1, MakingCommand
    <3> QED BY <1>1, <3>1, BuildingClears, OneBuildSuffices
  <2>2. CASE c \in {"uninstall", "clean"}
    <3>1. PICK k \in {"uninstalled", "cleaned"} :
            Top.target = <<k, P>> /\ (k = "cleaned" => pc = 1)
      BY <1>2, <2>2, RemovalUnderWay DEF Unmaking
    <3>2. ~Wiping /\ ~Clearing(p) /\ ~Cleaning(p)
      BY <3>1, OneRemoval DEF Cleaning
    <3> QED BY <1>1, <3>2, OneBuildSuffices
  <2> QED BY <2>1, <2>2 DEF Making
<1>5. CASE p # P
  <2>1. conf'[p] = conf[p] /\ obj'[p] = obj[p] /\ inst'[p] = inst[p]
    BY <1>5 DEF BreakStep, Broke, TypeOK
  <2> QED BY <1>1, <1>4, <2>1, BuildKept
<1>6. CASE p = P
  <2>1. /\ c # "configure" => conf'[p] = conf[p]
        /\ c \notin {"build", "clean"} => obj'[p] = obj[p]
        /\ c \notin {"install", "uninstall"} => inst'[p] = inst[p]
        /\ c # "clean"
    BY <1>2, <1>3, <1>6 DEF BreakStep, Broke, TypeOK
  <2>2. CASE c \in {"extract", "rsync", "apply-patch"}
    BY <1>1, <1>4, <2>1, <2>2, BuildKept
  <2>3. CASE c = "configure"
    <3>1. "configured" \notin stamps[p]
      BY <1>2, <1>6, <2>3, MakingCommand DEF Making
    <3> QED BY <1>1, <1>4, <2>1, <2>3, <3>1 DEF OneBuild
  <2>4. CASE c = "build"
    <3>1. "built" \notin stamps[p]
      BY <1>2, <1>6, <2>4, MakingCommand DEF Making
    <3> QED BY <1>1, <1>4, <2>1, <2>4, <3>1 DEF OneBuild
  <2>5. CASE c = "install"
    <3>1. S \notin stamps[p]
      BY <1>2, <1>6, <2>5, MakingCommand DEF Making
    <3>2. \A s \in InstallStamps \ {S} : inst'[p][s] = inst[p][s]
      BY <1>2, <1>6, <2>5 DEF BreakStep, TypeOK
    <3> QED BY <1>1, <1>4, <2>1, <2>5, <3>1, <3>2 DEF OneBuild
  <2>6. CASE c = "uninstall"
    <3>1. Current[2] \notin stamps[p]
      BY <1>2, <1>6, <2>6, UninstalledFirst
    <3>2. \A s \in InstallStamps \ {Current[2]} : inst'[p][s] = inst[p][s]
      BY <1>2, <1>6, <2>6 DEF BreakStep, TypeOK
    <3> QED BY <1>1, <1>4, <2>1, <2>6, <3>1, <3>2 DEF OneBuild
  <2> QED BY <1>2, <2>1, <2>2, <2>3, <2>4, <2>5, <2>6
<1> QED BY <1>5, <1>6

\* An invocation that ends early gives up the packages it is removing.
LEMMA FaultBuilds ==
  ASSUME TypeOK, InstallInvariant, BuiltStand, Fault
  PROVE  BuiltStand'
<1>1. CASE BreakStep
  BY <1>1, BreakBuilds
<1>2. ASSUME ~BreakStep, NEW p \in Pkg, p \notin skewed'
      PROVE  OneBuild(p)'
  <2>1. p \notin skewed => BuiltOf(p)
    BY DEF BuiltStand
  <2>2. CASE Interrupt
    <3>1. /\ p \notin skewed /\ p \notin SkewedByStop
          /\ UNCHANGED <<stamps, conf, obj, inst>>
      BY <1>2, <2>2 DEF Interrupt
    <3>2. ~Wiping
      <4> SUFFICES ASSUME Wiping PROVE p \in SkewedByStop
        BY <3>1
      <4>1. pc > 1 /\ Top.target = MakeClean /\ MakeClean[1] = "make-clean"
        BY DEF Wiping, MakeClean
      <4>2. S = "make-clean" /\ pc # 1
        BY <4>1 DEF S
      <4> QED BY <4>1, <4>2 DEF SkewedByStop, Removal
    <3>3. ~Cleaning(p) /\ ~Clearing(p)
      <4> SUFFICES ASSUME Cleaning(p) \/ Clearing(p) PROVE p \in SkewedByStop
        BY <3>1
      <4>1. S \in {"cleaned", "clean-for-rebuild"} /\ P = p /\ pc # 1
        BY DEF Cleaning, Clearing, S, P
      <4> QED BY <4>1 DEF SkewedByStop, Removal
    <3>4. OneBuild(p)
      BY <2>1, <3>1, <3>2, <3>3, OneBuildSuffices
    <3> QED BY <3>1, <3>4, BuildKept
  <2>3. CASE BreakRmTree
    <3>1. Runs("rm-tree") /\ skewed' = skewed \cup {P} /\ UNCHANGED inst
      BY <2>3 DEF BreakRmTree
    <3>2. Top.target = <<"dircleaned", P>>
      BY <3>1, RemovalUnderWay DEF Unmaking
    <3>3. ~Wiping /\ ~Cleaning(p) /\ ~Clearing(p)
      BY <3>2, OneRemoval
    <3>4. /\ stamps'[p] = stamps[p] /\ conf'[p] = conf[p]
          /\ obj'[p] = obj[p] /\ inst'[p] = inst[p] /\ p \notin skewed
      BY <1>2, <2>3, <3>1 DEF BreakRmTree, Broke, TypeOK
    <3>5. OneBuild(p)
      BY <2>1, <3>3, <3>4, OneBuildSuffices
    <3> QED BY <3>4, <3>5, BuildKept
  <2>4. CASE BreakWipe
    BY <1>2, <2>4 DEF BreakWipe
  <2>5. CASE BreakWipeTrees
    <3>1. PICK Q \in SUBSET Pkg : RemoveTrees(Q) /\ skewed' = Pkg \ Q
      BY <2>5 DEF BreakWipeTrees
    <3>2. stamps'[p] = {}
      BY <1>2, <3>1 DEF RemoveTrees
    <3> QED BY <3>2 DEF OneBuild
  <2> QED BY <1>2, <2>2, <2>3, <2>4, <2>5 DEF Fault
<1>3. ASSUME NEW p \in Pkg, OneBuild(p)' PROVE BuiltOf(p)'
  BY <1>3 DEF OneBuild, BuiltOf
<1> QED BY <1>1, <1>2, <1>3 DEF BuiltStand

\* Where nothing is run, nothing is being removed.
LEMMA NothingRuns ==
  ASSUME TypeOK, Counting,
         Idle \/ PrereqsLeft \/ UpToDate(Top.target) \/ Recipe(Top.target) = <<>>
  PROVE  ~Wiping /\ \A p \in Pkg : ~Cleaning(p) /\ ~Clearing(p)
<1>1. CASE Idle \/ PrereqsLeft
  BY <1>1 DEF Counting, Midway, Wiping, Cleaning, Clearing
<1>2. CASE UpToDate(Top.target) \/ Recipe(Top.target) = <<>>
  <2>1. Top.target # MakeClean
    <3>1. Recipe(MakeClean) # <<>>
      BY DEF Recipe, MakeClean, InstallStamps
    <3>2. MakeClean[1] = "make-clean"
      BY DEF MakeClean
    <3>3. ~UpToDate(MakeClean)
      BY <3>2, StampKinds DEF UpToDate
    <3> QED BY <1>2, <3>1, <3>3
  <2>2. \A p \in Pkg : Top.target # <<"cleaned", p>>
    <3> TAKE p \in Pkg
    <3>1. Recipe(<<"cleaned", p>>) # <<>>
      BY DEF Recipe, MakeClean, InstallStamps
    <3>2. ~UpToDate(<<"cleaned", p>>)
      BY StampKinds DEF UpToDate
    <3> QED BY <1>2, <3>1, <3>2
  <2>3. \A p \in Pkg : Top.target # <<"clean-for-rebuild", p>>
    <3> TAKE p \in Pkg
    <3> PICK t : t = <<"clean-for-rebuild", p>>
      OBVIOUS
    <3>1. Recipe(t) # <<>>
      <4>1. \E i \in 1..Len(Recipe(t)) : Recipe(t)[i] = Rm("built")
        BY RebuildRecipe
      <4> QED BY <4>1
    <3>2. ~UpToDate(t)
      BY StampKinds DEF UpToDate
    <3> QED BY <1>2, <3>1, <3>2
  <2> QED BY <2>1, <2>2, <2>3 DEF Wiping, Cleaning, Clearing
<1> QED BY <1>1, <1>2

\* Every step keeps the builds true to what they were built from.
LEMMA BuiltStep ==
  ASSUME KeepsBuildStamps, TypeOK, WalkInvariant, Counting, PatchInvariant,
         InstallInvariant, RemovalInvariant, BuiltStand, [Next]_vars
  PROVE  BuiltStand'
<1>1. CASE \/ Touch \/ Download \/ Extract \/ Rsync \/ ApplyPatch \/ Configure
           \/ Build \/ Install \/ PatchRefused
  BY <1>1, MakingBuilds
<1>2. CASE RmStamp
  BY <1>2, RmStampBuilds
<1>3. CASE Uninstall \/ CleanObjects \/ RmTree \/ Wipe \/ WipeTrees
  BY <1>3, UnmakingBuilds
<1>4. CASE Fault
  BY <1>4, FaultBuilds
<1>5. CASE UNCHANGED vars
  BY <1>5 DEF vars, package, make, BuiltStand, BuiltOf, Cleaning, Clearing, Wiping,
     Top
<1>6. CASE \/ \E g \in Goals : Invoke(g)
           \/ Consider \/ NothingToDo
           \/ \E p \in Pkg : Edit(p)
           \/ \E p \in Pkg, s \in UserRemoves : RemoveStamp(p, s)
  <2>1. ~Wiping /\ \A p \in Pkg : ~Cleaning(p) /\ ~Clearing(p)
    <3>1. \/ Idle \/ PrereqsLeft \/ UpToDate(Top.target)
          \/ Recipe(Top.target) = <<>>
      BY <1>6 DEF Invoke, Consider, NothingToDo, Edit, RemoveStamp
    <3> QED BY <3>1, NothingRuns
  <2>2. ASSUME NEW p \in Pkg, p \notin skewed'
        PROVE  BuiltOf(p)'
    <3>1. /\ p \notin skewed /\ stamps'[p] \subseteq stamps[p]
          /\ UNCHANGED <<conf, obj, inst>>
      BY <1>6, <2>2 DEF Invoke, Consider, NothingToDo, Edit, RemoveStamp, package,
         TypeOK
    <3>2. stamps[p] \cap {"configured", "built"} \subseteq stamps'[p]
      <4>1. CASE \E q \in Pkg, s \in UserRemoves : RemoveStamp(q, s)
        <5>1. PICK q \in Pkg, s \in UserRemoves : RemoveStamp(q, s)
          BY <4>1
        <5>2. s \notin {"configured", "built"}
          BY DEF KeepsBuildStamps
        <5> QED BY <5>1, <5>2 DEF RemoveStamp, TypeOK
      <4>2. CASE UNCHANGED stamps
        BY <4>2
      <4> QED BY <1>6, <4>1, <4>2 DEF Invoke, Consider, NothingToDo, Edit, package
    <3>3. OneBuild(p)
      BY <2>1, <3>1, OneBuildSuffices DEF BuiltStand
    <3>4. OneBuild(p)'
      BY <3>1, <3>2, <3>3, BuildKept
    <3> QED BY <3>4 DEF OneBuild, BuiltOf
  <2> QED BY <2>2 DEF BuiltStand
<1> QED BY <1>1, <1>2, <1>3, <1>4, <1>5, <1>6 DEF Next, Engine

\* pkg-generic.mk:430-445.  For every configuration, whatever failed, was
\* interrupted, was cleaned and was run again before, unless the user removes
\* the stamps of configuration or build by hand: what a package stamped built
\* was built with is the configuration stamped configured, and what is stamped
\* installed is what was built.
THEOREM Building ==
  ASSUME SourceGoals, KeepsBuildStamps
  PROVE  Spec => []InstalledIsBuilt
<1>1. Init => BuiltStand
  <2>1. Init => \A p \in Pkg : stamps[p] = {}
    BY DEF Init
  <2> QED BY <2>1 DEF BuiltStand, BuiltOf
<1>2. /\ TypeOK /\ WalkInvariant /\ Counting /\ PatchInvariant /\ InstallInvariant
      /\ RemovalInvariant /\ BuiltStand /\ [Next]_vars
      => BuiltStand'
  BY BuiltStep
<1>3. TypeOK /\ Counting /\ BuiltStand => InstalledIsBuilt
  <2> SUFFICES ASSUME TypeOK, Counting, BuiltStand, ~Removing,
                      NEW p \in Pkg \ skewed, "built" \in stamps[p]
               PROVE  /\ "configured" \in stamps[p] => obj[p].cfg = conf[p]
                      /\ \A s \in stamps[p] \cap InstallStamps :
                           inst[p][s] = obj[p].src
    BY DEF InstalledIsBuilt
  <2>1. ~Wiping
    BY RemovingSomething
  <2>2. ~Cleaning(p) /\ ~Clearing(p)
    <3>1. ASSUME Cleaning(p) \/ Clearing(p) PROVE FALSE
      <4>1. pc > 1 /\ S \in {"cleaned", "clean-for-rebuild"}
        BY <3>1 DEF Cleaning, Clearing, S
      <4> QED BY <4>1 DEF Counting, Midway, Removing, Removal
    <3> QED BY <3>1
  <2> QED BY <2>1, <2>2, OneBuildSuffices DEF BuiltStand, OneBuild
<1> QED BY <1>1, <1>2, <1>3, Typing, Walk, Counts, Stamped, Removed, PTL DEF Spec

-----------------------------------------------------------------------------
(* A rebuild, and what it builds from.                                     *)

SecondPart(p) == Second /\ Goal[2] = p

\* What was built was built from the sources as they are now.
Fresh(p) ==
  /\ "built" \in stamps[p] =>
       /\ SourceSteps(p) \cup {"configured"} \subseteq stamps[p]
       /\ obj[p].src = tree[p]
  /\ p \in Override /\ "rsynced" \in stamps[p] => tree[p] = srcdir[p]
  /\ Goal[1] = "reconfigure" /\ "configured" \in stamps[p] =>
       SourceSteps(p) \subseteq stamps[p] /\ conf[p] = tree[p]
  /\ \A s \in stamps[p] \cap InstallStamps :
       "built" \in stamps[p] /\ inst[p][s] = obj[p].src

RebuiltFresh == \A p \in Pkg \ skewed : SecondPart(p) => Fresh(p)

\* How the second part of a rebuild begins and goes on.
LEMMA SecondFrom ==
  ASSUME TypeOK, TypeOK', WalkInvariant, Second', [Next]_vars
  PROVE  /\ ~Idle /\ Goal' = Goal
         /\ \/ Second
            \/ /\ First /\ Len(stack) = 1 /\ UNCHANGED package
               /\ Goal[1] \in Rebuilds /\ Prereqs(Goal)[1] \in done
<1>1. ~Idle' /\ Goal'[1] \in Rebuilds /\ stack'[1].next > 1
  BY DEF Second
<1>2. CASE Ends
  BY <1>1, <1>2 DEF Ends, Idle
<1>3. CASE Starts
  BY <1>1, <1>3, FirstFrame
<1>4. CASE WalkRests
  BY <1>1, <1>4 DEF WalkRests, Idle, Goal, Second
<1>5. ASSUME NEW n \in Nat \ {0}, Moves(n)
      PROVE  /\ ~Idle /\ Goal' = Goal
             /\ \/ Second
                \/ /\ First /\ Len(stack) = 1 /\ UNCHANGED package
                   /\ Goal[1] \in Rebuilds /\ Prereqs(Goal)[1] \in done
  <2>1. /\ ~Idle /\ Goal' = Goal /\ n = Len(stack)
        /\ stack'[1].next = stack[1].next \/ (n = 1 /\ Skips(n))
    BY <1>1, <1>5, GoalStays DEF Moves, OnTop
  <2>2. stack[1].next \in Nat \ {0} /\ Goal = stack[1].target
    BY <2>1, Bottom
  <2>3. CASE stack[1].next > 1
    BY <1>1, <2>1, <2>3 DEF Second
  <2>4. CASE stack[1].next = 1
    <3>1. n = 1 /\ Skips(n)
      BY <1>1, <2>1, <2>4
    <3>2. UNCHANGED package /\ Prereqs(Goal)[1] \in done
      BY <2>2, <2>4, <3>1 DEF Skips, NextPrereq
    <3> QED BY <1>1, <2>1, <2>4, <3>1, <3>2 DEF First
  <2>5. \A l \in Nat \ {0} : l > 1 \/ l = 1
    OBVIOUS
  <2> QED BY <2>2, <2>3, <2>4, <2>5, Zenon
<1> QED BY <1>2, <1>3, <1>4, <1>5, WalkMoves

\* When it begins, nothing of the package is built, and for a reconfigure
\* nothing is configured.
LEMMA BeginsFresh ==
  ASSUME TypeOK, WalkInvariant, RemovalInvariant, First, Goal[1] \in Rebuilds,
         NEW p \in Pkg, Goal[2] = p, Prereqs(Goal)[1] \in done
  PROVE  Fresh(p)
<1>1. NothingBuilt /\ Goal \in MakeTarget
  BY Bottom DEF First, RemovalInvariant, FirstPart
<1>2. /\ Goal[1] = "rebuild" => <<"clean-for-rebuild", p>> \in done
      /\ Goal[1] = "reconfigure" => <<"clean-for-reconfigure", p>> \in done
  BY <1>1, RebuildRules
<1>3. Goal[1] = "reconfigure" =>
        "configured" \notin stamps[p] /\ <<"clean-for-rebuild", p>> \in done
  <2> SUFFICES ASSUME Goal[1] = "reconfigure"
               PROVE  /\ "configured" \notin stamps[p]
                      /\ <<"clean-for-rebuild", p>> \in done
    OBVIOUS
  <2> PICK t : t = <<"clean-for-reconfigure", p>>
    OBVIOUS
  <2>1. t \in done /\ t \in PlainTarget /\ t[2] = p
    BY <1>2, PlainTargets DEF PlainKinds
  <2>2. Recipe(t) = <<Rm("configured")>>
    BY DEF Recipe, InstallStamps, MakeClean
  <2>3. Gone(t, Len(Recipe(t)))
    BY <1>1, <2>1 DEF RemovalInvariant, RemovedGone, PlainTarget
  <2>4. /\ Len(Recipe(t)) = 1 /\ 1 \in 1..1
        /\ Recipe(t)[1][1] = "rm-stamp" /\ Recipe(t)[1][2] = "configured"
    BY <2>2 DEF Rm
  <2>5. "configured" \notin stamps[p]
    BY <2>1, <2>3, <2>4 DEF Gone
  <2>6. Prereqs(t) = <<<<"clean-for-rebuild", p>>>>
    BY RemovalRules
  <2>7. <<"clean-for-rebuild", p>> \in done
    BY <2>1, <2>6, DoneSingle DEF WalkInvariant
  <2> QED BY <2>5, <2>7
<1>4. /\ stamps[p] \cap (InstallStamps \cup {"built"}) = {}
      /\ p \in Override => "rsynced" \notin stamps[p]
  BY <1>1, <1>2, <1>3, ClearedBefore DEF RemovalInvariant, Rebuilds
<1>5. "built" \notin stamps[p] /\ stamps[p] \cap InstallStamps = {}
  BY <1>4
<1> QED BY <1>3, <1>4, <1>5 DEF Fresh

\* While it goes on, only steps of packages run.
LEMMA SecondRuns ==
  ASSUME TypeOK, WalkInvariant, Second, [Next]_vars, ~Idle'
  PROVE  \/ UNCHANGED package
         \/ Touch \/ Download \/ Extract \/ Rsync \/ ApplyPatch \/ Configure
         \/ Build \/ Install
<1>1. ~Idle
  BY DEF Second
<1>2. ASSUME NEW c \in Unmaking, Runs(c) PROVE FALSE
  <2>1. Current # NoCommand /\ Top.target \notin BuildTarget
    BY <1>2, RemovalsRemove
  <2>2. Len(stack) \in Nat \ {0}
    BY <1>1, TopFrame
  <2>3. \A l \in Nat \ {0} : l > 1 \/ l = 1
    OBVIOUS
  <2>4. Len(stack) > 1 \/ Len(stack) = 1
    BY <2>2, <2>3, Zenon
  <2> QED BY <2>1, <2>4, SecondTop, RebuildRunsNothing DEF Second
<1>3. ~(RmStamp \/ Uninstall \/ CleanObjects \/ RmTree \/ Wipe \/ WipeTrees)
  BY <1>2 DEF RmStamp, Uninstall, CleanObjects, RmTree, Wipe, WipeTrees, Unmaking
<1>4. ~(PatchRefused \/ Fault)
  BY DEF PatchRefused, Fault, Interrupt, BreakStep, BreakRmTree, BreakWipe,
     BreakWipeTrees, Stop, Idle
<1>5. CASE UNCHANGED vars \/ Consider \/ NothingToDo
  BY <1>5 DEF vars, Consider, NothingToDo
<1>6. ~\E g \in Goals : Invoke(g)
  BY <1>1 DEF Invoke
<1>7. ~\E p \in Pkg : Edit(p)
  BY <1>1 DEF Edit
<1>8. ~\E p \in Pkg, s \in UserRemoves : RemoveStamp(p, s)
  BY <1>1 DEF RemoveStamp
<1> QED BY <1>3, <1>4, <1>5, <1>6, <1>7, <1>8 DEF Next, Engine

\* A step of the package keeps its build fresh.
LEMMA MakingFresh ==
  ASSUME TypeOK, WalkInvariant, PatchInvariant, InstallInvariant,
         \/ Touch \/ Download \/ Extract \/ Rsync \/ ApplyPatch \/ Configure
         \/ Build \/ Install,
         NEW p \in Pkg \ skewed, Fresh(p), Goal' = Goal
  PROVE  Fresh(p)'
<1>1. PICK c \in Making \cup {"touch"} : Runs(c)
  BY DEF Touch, Download, Extract, Rsync, ApplyPatch, Configure, Build, Install,
     Making
<1>2. S \in Stamps /\ P \in Pkg /\ ~Idle /\ Top.target = <<S, P>>
  BY <1>1, MakingCommand, Touching, Running, RunningCommand
<1>3. UNCHANGED srcdir
  BY DEF Touch, Download, Extract, Rsync, ApplyPatch, Configure, Build, Install,
     package
<1>4. CASE p # P
  <2>1. /\ stamps'[p] = stamps[p] /\ tree'[p] = tree[p] /\ conf'[p] = conf[p]
        /\ obj'[p] = obj[p] /\ inst'[p] = inst[p]
    BY <1>2, <1>4 DEF Touch, Download, Extract, Rsync, ApplyPatch, Configure, Build,
       Install, package, TypeOK
  <2> QED BY <1>3, <2>1 DEF Fresh, SourceSteps
<1>5. CASE p = P
  <2>1. CASE Touch
    <3>1. /\ Runs("touch") /\ stamps'[p] = stamps[p] \cup {S}
          /\ UNCHANGED <<srcdir, tree, conf, obj, inst>>
      BY <1>5, <2>1 DEF Touch, TypeOK
    <3>2. /\ S = "rsynced" => tree[p] = srcdir[p]
          /\ S = "configured" => conf[p] = tree[p]
          /\ S = "built" => obj[p] = [src |-> tree[p], cfg |-> conf[p]]
          /\ S \in InstallStamps => inst[p][S] = obj[p].src
      BY <1>5, <3>1, TouchedFiles
    <3>3. Before[p][S] \subseteq stamps[p]
      <4>1. Before[P][S] \subseteq Stamps
        BY <1>2, StampKinds DEF Before, SourceSteps, InstallStamps
      <4>2. \A s \in Before[P][S] : <<s, P>> \in done
        BY <1>2, MadeBefore
      <4>3. Top.target \in BuildTarget
        BY <3>1, Touching
      <4> QED BY <1>2, <1>5, <4>1, <4>2, <4>3 DEF WalkInvariant, VisitedStampsKept
    <3>4. /\ S = "configured" => SourceSteps(p) \subseteq stamps[p]
          /\ S = "built" => SourceSteps(p) \cup {"configured"} \subseteq stamps[p]
          /\ S \in InstallStamps => "built" \in stamps[p]
      BY <1>2, <3>3 DEF Before, InstallStamps
    <3>5. /\ "built" \in stamps'[p] =>
               /\ SourceSteps(p) \cup {"configured"} \subseteq stamps'[p]
               /\ obj'[p].src = tree'[p]
      BY <3>1, <3>2, <3>4 DEF Fresh
    <3>6. p \in Override /\ "rsynced" \in stamps'[p] => tree'[p] = srcdir'[p]
      BY <3>1, <3>2 DEF Fresh
    <3>7. Goal'[1] = "reconfigure" /\ "configured" \in stamps'[p] =>
            SourceSteps(p) \subseteq stamps'[p] /\ conf'[p] = tree'[p]
      BY <3>1, <3>2, <3>4 DEF Fresh
    <3>8. \A s \in stamps'[p] \cap InstallStamps :
            "built" \in stamps'[p] /\ inst'[p][s] = obj'[p].src
      BY <3>1, <3>2, <3>4 DEF Fresh
    <3> QED BY <3>5, <3>6, <3>7, <3>8 DEF Fresh, SourceSteps
  <2>2. CASE Download \/ ApplyPatch
    <3>1. UNCHANGED <<stamps, srcdir, tree, conf, obj, inst>>
      BY <2>2 DEF Download, ApplyPatch, package
    <3> QED BY <3>1 DEF Fresh, SourceSteps
  <2>3. CASE Extract
    <3>1. /\ "extracted" \notin stamps[p] /\ S = "extracted"
          /\ UNCHANGED <<stamps, srcdir, conf, obj, inst>>
      BY <1>5, <2>3, MakingCommand DEF Extract, Making
    <3>2. p \notin Override
      <4>1. PICK u \in MakeTarget : \E i \in 1..Len(Prereqs(u)) :
              Prereqs(u)[i] = <<S, P>> /\ Earlier(u, i) \subseteq done
        BY <1>2, ListedBelow
      <4> QED BY <1>2, <1>5, <3>1, <4>1, BeforeStamp
    <3>3. "extracted" \in SourceSteps(p)
      BY <3>2 DEF SourceSteps
    <3> QED BY <3>1, <3>2, <3>3 DEF Fresh, SourceSteps
  <2>4. CASE Rsync
    <3>1. /\ "rsynced" \notin stamps[p] /\ S = "rsynced"
          /\ UNCHANGED <<stamps, srcdir, conf, obj, inst>>
      BY <1>5, <2>4, MakingCommand DEF Rsync, Making
    <3>2. p \in Override
      <4>1. Len(stack) \in 1..Len(stack) /\ stack[Len(stack)] = Top
        BY <1>2, TopFrame
      <4>2. Top.target \in {"rsync", "rsynced"} \X Pkg /\ Top.target[2] = p
        BY <1>2, <1>5, <3>1
      <4> QED BY <4>1, <4>2 DEF PatchInvariant, RsyncOverrides
    <3>3. "rsynced" \in SourceSteps(p)
      BY <3>2 DEF SourceSteps
    <3> QED BY <3>1, <3>3 DEF Fresh, SourceSteps
  <2>5. CASE Configure
    <3>1. /\ "configured" \notin stamps[p]
          /\ UNCHANGED <<stamps, srcdir, tree, obj, inst>>
      BY <1>5, <2>5, MakingCommand DEF Configure, Making
    <3> QED BY <3>1 DEF Fresh, SourceSteps
  <2>6. CASE Build
    <3>1. "built" \notin stamps[p] /\ UNCHANGED <<stamps, srcdir, tree, conf, inst>>
      BY <1>5, <2>6, MakingCommand DEF Build, Making
    <3> QED BY <3>1 DEF Fresh, SourceSteps
  <2>7. CASE Install
    <3>1. S \notin stamps[p] /\ UNCHANGED <<stamps, srcdir, tree, conf, obj>>
      BY <1>5, <2>7, MakingCommand DEF Install, Making
    <3>2. \A s \in InstallStamps \ {S} : inst'[p][s] = inst[p][s]
      BY <1>5, <2>7 DEF Install, TypeOK
    <3> QED BY <3>1, <3>2 DEF Fresh, SourceSteps
  <2> QED BY <2>1, <2>2, <2>3, <2>4, <2>5, <2>6, <2>7
<1> QED BY <1>4, <1>5

\* Every step of a rebuild keeps it fresh.
LEMMA FreshStep ==
  ASSUME TypeOK, TypeOK', WalkInvariant, PatchInvariant, InstallInvariant,
         RemovalInvariant, RebuiltFresh, [Next]_vars
  PROVE  RebuiltFresh'
<1> SUFFICES ASSUME NEW p \in Pkg, p \notin skewed', Second', Goal'[2] = p
             PROVE  Fresh(p)'
  BY DEF RebuiltFresh, SecondPart
<1>1. /\ ~Idle /\ Goal' = Goal
      /\ \/ Second
         \/ /\ First /\ Len(stack) = 1 /\ UNCHANGED package
            /\ Goal[1] \in Rebuilds /\ Prereqs(Goal)[1] \in done
  BY SecondFrom
<1>2. ASSUME Fresh(p), UNCHANGED package PROVE Fresh(p)'
  BY <1>1, <1>2 DEF Fresh, SourceSteps, package
<1>3. CASE Second
  <2>1. \/ UNCHANGED package
        \/ Touch \/ Download \/ Extract \/ Rsync \/ ApplyPatch \/ Configure
        \/ Build \/ Install
    <3>1. ~Idle'
      BY DEF Second
    <3> QED BY <1>3, <3>1, SecondRuns
  <2>2. UNCHANGED skewed
    BY <2>1 DEF Touch, Download, Extract, Rsync, ApplyPatch, Configure, Build,
       Install, package
  <2>3. Fresh(p) /\ p \in Pkg \ skewed
    BY <1>1, <1>3, <2>2 DEF RebuiltFresh, SecondPart
  <2> QED BY <1>1, <1>2, <2>1, <2>3, MakingFresh
<1>4. CASE ~Second
  <2>1. /\ First /\ UNCHANGED package
        /\ Goal[1] \in Rebuilds /\ Prereqs(Goal)[1] \in done
    BY <1>1, <1>4
  <2>2. Fresh(p)
    BY <1>1, <2>1, BeginsFresh
  <2> QED BY <1>2, <2>1, <2>2
<1> QED BY <1>3, <1>4

\* A rebuild succeeds when make leaves it, after all it lists.
LEMMA LeavesRebuild ==
  ASSUME TypeOK, [Next]_vars, Succeeds, Goal[1] \in Rebuilds
  PROVE  Second /\ UNCHANGED package
<1>1. ASSUME Return
      PROVE  Len(stack) = 1 /\ Top.target = Goal
  BY <1>1 DEF Return, Succeeds, Top, Goal
<1>2. ~Idle => Goal \in MakeTarget /\ Goal = stack[1].target /\ stack[1].next \in Nat
  BY Bottom
<1>3. CASE NothingToDo
  <2>1. /\ ~Idle /\ ~PrereqsLeft /\ Len(stack) = 1 /\ Top.target = Goal
        /\ UNCHANGED package
    BY <1>1, <1>3 DEF NothingToDo
  <2>2. Top = stack[1]
    BY <2>1 DEF Top
  <2>3. Len(Prereqs(Goal)) = 2
    BY <1>2, <2>1, RebuildRules
  <2>4. stack[1].next > 1
    BY <1>2, <2>1, <2>2, <2>3 DEF PrereqsLeft
  <2> QED BY <2>1, <2>4 DEF Second
<1>4. ASSUME NEW c, c # "none", Runs(c), Succeed
      PROVE  FALSE
  <2>1. Current # NoCommand /\ ~Idle
    BY <1>4, RunningCommand, Running
  <2>2. Len(stack) = 1
    BY <1>1, <1>4 DEF Succeed, Succeeds
  <2> QED BY <2>1, <2>2, RebuildRunsNothing
<1>5. CASE \/ Touch \/ Download \/ Extract \/ Rsync \/ ApplyPatch \/ Configure
           \/ Build \/ Install \/ RmStamp \/ Uninstall \/ CleanObjects \/ RmTree
           \/ Wipe \/ WipeTrees
  BY <1>4, <1>5 DEF Touch, Download, Extract, Rsync, ApplyPatch, Configure,
       Build, Install, RmStamp, Uninstall, CleanObjects, RmTree, Wipe, WipeTrees
<1>6. CASE \/ \E g \in Goals : Invoke(g)
           \/ Consider \/ PatchRefused \/ Fault
           \/ \E p \in Pkg : Edit(p)
           \/ \E p \in Pkg, s \in UserRemoves : RemoveStamp(p, s)
           \/ UNCHANGED vars
  BY <1>6 DEF Invoke, Consider, PatchRefused, Fault, Interrupt, BreakStep,
       BreakRmTree, BreakWipe, BreakWipeTrees, Stop, Edit, RemoveStamp, vars, make,
       Succeeds
<1> QED BY <1>3, <1>5, <1>6 DEF Next, Engine

\* pkg-generic.mk:440, 445.  For every configuration whose packages are all
\* installed somewhere, and whatever happened before: when "make <pkg>-rebuild"
\* or "make <pkg>-reconfigure" succeeds, what is installed in every place was
\* built from the sources as they are.
THEOREM Rebuilding ==
  ASSUME SourceGoals, \A p \in Pkg : Required(p) # {}
  PROVE  Spec => RebuildInstallsCurrent
<1>1. Init => RebuiltFresh
  <2>1. Init => ~Second
    BY DEF Init, Second, Idle
  <2> QED BY <2>1 DEF RebuiltFresh, SecondPart
<1>2. /\ TypeOK /\ TypeOK' /\ WalkInvariant /\ PatchInvariant /\ InstallInvariant
      /\ RemovalInvariant /\ RebuiltFresh /\ [Next]_vars
      => RebuiltFresh'
  BY FreshStep
<1>3. ASSUME TypeOK, WalkInvariant, RemovalInvariant, RebuiltFresh, [Next]_vars,
             Succeeds, Goal[1] \in Rebuilds,
             NEW p \in Pkg \ skewed, Goal[2] = p, <<"pkg", p>> \in done
      PROVE  /\ obj'[p].src = tree'[p]
             /\ p \in Override => tree'[p] = srcdir'[p]
             /\ Goal[1] = "reconfigure" => conf'[p] = tree'[p]
             /\ \A s \in Required(p) : inst'[p][s] = tree'[p]
  <2>1. Second /\ UNCHANGED package
    BY <1>3, LeavesRebuild
  <2>2. Fresh(p)
    BY <1>3, <2>1 DEF RebuiltFresh, SecondPart
  <2>3. ASSUME NEW s \in Required(p)
        PROVE  s \in stamps[p] \cap InstallStamps
    <3>1. <<s, p>> \in done
      BY <1>3, DonePackage DEF WalkInvariant
    <3>2. s \in InstallStamps /\ s \in Stamps
      BY DEF Required, Stamps, InstallStamps
    <3> QED BY <1>3, <2>1, <3>1, <3>2 DEF RemovalInvariant, RebuildKeeps, Second
  <2>4. "built" \in stamps[p]
    BY <2>2, <2>3 DEF Fresh
  <2>5. /\ obj[p].src = tree[p]
        /\ p \in Override => tree[p] = srcdir[p]
        /\ Goal[1] = "reconfigure" => conf[p] = tree[p]
        /\ \A s \in Required(p) : inst[p][s] = tree[p]
    BY <2>2, <2>3, <2>4 DEF Fresh, SourceSteps
  <2> QED BY <2>1, <2>5 DEF package
<1>4. TypeOK /\ WalkInvariant /\ RemovalInvariant /\ RebuiltFresh /\ [Next]_vars =>
        \A p \in Pkg \ skewed :
          /\ Succeeds /\ Goal[1] \in {"rebuild", "reconfigure"} /\ Goal[2] = p
          /\ <<"pkg", p>> \in done
          => /\ obj'[p].src = tree'[p]
             /\ p \in Override => tree'[p] = srcdir'[p]
             /\ Goal[1] = "reconfigure" => conf'[p] = tree'[p]
             /\ \A s \in Required(p) : inst'[p][s] = tree'[p]
  BY <1>3 DEF Rebuilds
<1> QED BY <1>1, <1>2, <1>4, Typing, Walk, Stamped, Removed, PTL
        DEF Spec, RebuildInstallsCurrent
=============================================================================
