------------------------- MODULE PkgDownloadProofs --------------------------
(***************************************************************************)
(* Theorems about PkgDownload, for any number of builders and of chunks:   *)
(* DownloadTyping, Quiet (what builders that share the directory leave is  *)
(* whole, unless a transfer others can see was cut short) and Atomicity    *)
(* (one builder with wget implements AtomicFile).                          *)
(***************************************************************************)
EXTENDS PkgDownload, FiniteSetTheorems, TLAPS

-----------------------------------------------------------------------------
(* The type invariant.                                                     *)

\* Everything of TypeOK but what counts attempts.
FilesTypeOK ==
  /\ dir \in [Names -> Files \cup {None}]
  /\ content \in [Files -> SUBSET (1..Chunks)]
  /\ copy \in BOOLEAN
  /\ pc \in [Builder -> {"idle", "test", "clone", "open", "write", "mv",
                         "rm tmp", "rm copy", "done"}]
  /\ fd \in [Builder -> Files \cup {None}]
  /\ off \in [Builder -> 0..Chunks]
  /\ cut \in BOOLEAN

AttemptsTypeOK ==
  /\ attempts \in Seq(Methods) /\ attempts # <<>>
  /\ try \in [Builder -> 1 .. Len(attempts)]

\* A builder has a file open exactly while it writes.
Opened == \A b \in Builder : pc[b] = "write" <=> fd[b] # None

\* A writer starts at none of the chunks.
LEMMA NoChunks == Chunks \in Nat /\ 0 \in 0..Chunks
BY DownloadAssumption

\* The numbers of the files.
LEMMA FileNumbers ==
  /\ Cardinality(Builder) \in Nat /\ Files \subseteq Nat \ {0} /\ None \notin Files
  /\ IsFiniteSet(Files) /\ Cardinality(Files) = 2 + Cardinality(Builder)
<1>1. Cardinality(Builder) \in Nat
  BY DownloadAssumption, FS_CardinalityType
<1>2. /\ IsFiniteSet(Files)
      /\ Cardinality(Files) = IF 1 > 2 + Cardinality(Builder) THEN 0
                              ELSE 2 + Cardinality(Builder) - 1 + 1
  BY <1>1, FS_Interval DEF Files
<1> QED BY <1>1, <1>2 DEF Files, None

\* A builder that opens a file finds a number that nobody uses.
LEMMA FreeFile ==
  ASSUME FilesTypeOK, NEW b \in Builder, fd[b] = None
  PROVE  Files \ ({dir[m] : m \in Names} \cup {fd[c] : c \in Builder}) # {}
<1> DEFINE D == {dir[m] : m \in Names}
           F == {fd[c] : c \in Builder}
<1>1. IsFiniteSet(Builder) /\ Cardinality(Builder) \in Nat
  BY DownloadAssumption, FileNumbers
<1>2. fd \in Surjection(Builder, F)
  BY DEF FilesTypeOK, Surjection
<1>3. IsFiniteSet(F) /\ Cardinality(F) <= Cardinality(Builder)
  BY <1>1, <1>2, FS_Surjection
<1>4. IsFiniteSet(D) /\ Cardinality(D) <= 2
  <2>1. D = {dir["archive"]} \cup {dir["tmp"]}
    BY DEF Names
  <2>2. IsFiniteSet({dir["archive"]}) /\ Cardinality({dir["archive"]}) = 1
    BY FS_Singleton
  <2> DEFINE A == {dir["archive"]}
             t == dir["tmp"]
  <2>3. IsFiniteSet(A) /\ Cardinality(A) = 1
    BY <2>2
  <2> HIDE DEF A, t
  <2>4. /\ IsFiniteSet(A \cup {t})
        /\ Cardinality(A \cup {t}) = IF t \in A THEN Cardinality(A) ELSE Cardinality(A) + 1
    BY <2>3, FS_AddElement
  <2>5. IsFiniteSet(A \cup {t}) /\ Cardinality(A \cup {t}) <= 2
    BY <2>3, <2>4
  <2> USE DEF A, t
  <2> QED BY <2>1, <2>5
<1> HIDE DEF D, F
<1>5. /\ IsFiniteSet(D \cup F) /\ IsFiniteSet(D \cap F)
      /\ Cardinality(D \cup F) = Cardinality(D) + Cardinality(F) - Cardinality(D \cap F)
  BY <1>3, <1>4, FS_Union, FS_Intersection
<1>6. /\ Cardinality(D) \in Nat /\ Cardinality(F) \in Nat /\ Cardinality(D \cap F) \in Nat
      /\ Cardinality(D \cup F) \in Nat
  BY <1>3, <1>4, <1>5, FS_CardinalityType
<1>7. Cardinality(D \cup F) <= 2 + Cardinality(Builder)
  BY <1>1, <1>3, <1>4, <1>5, <1>6
<1>8. None \in D \cup F
  BY DEF F
<1>9. /\ IsFiniteSet((D \cup F) \ {None})
      /\ Cardinality((D \cup F) \ {None}) = Cardinality(D \cup F) - 1
  BY <1>5, <1>8, FS_RemoveElement
<1>10. ASSUME Files \ (D \cup F) = {} PROVE FALSE
  <2>1. Files \in SUBSET ((D \cup F) \ {None})
    BY <1>10, FileNumbers
  <2>2. Cardinality(Files) <= Cardinality((D \cup F) \ {None})
    BY <1>9, <2>1, FS_Subset
  <2> QED BY <1>1, <1>6, <1>7, <1>9, <2>2, FileNumbers
<1> QED BY <1>10 DEF D, F

\* What Open does, the new file named.
LEMMA OpenFile ==
  ASSUME FilesTypeOK, Opened, NEW b \in Builder, Open(b)
  PROVE  \E f \in Files :
           /\ dir' = [dir EXCEPT ![Output(b)] = f]
           /\ content' = [content EXCEPT ![f] = {}]
           /\ fd' = [fd EXCEPT ![b] = f]
           /\ fd[b] = None
           /\ \/ f = dir[Output(b)]
              \/ /\ \A m \in Names : f # dir[m]
                 /\ \A c \in Builder : f # fd[c]
<1> DEFINE n == Output(b)
           Used == {dir[m] : m \in Names} \cup {fd[c] : c \in Builder}
           f == IF dir[n] # None THEN dir[n] ELSE CHOOSE g \in Files \ Used : TRUE
<1>1. /\ dir' = [dir EXCEPT ![n] = f]
      /\ content' = [content EXCEPT ![f] = {}]
      /\ fd' = [fd EXCEPT ![b] = f]
  BY DEF Open
<1>2. n \in Names
  BY DEF Output, Names
<1>3. fd[b] = None
  BY DEF Opened, Open
<1>4. CASE dir[n] # None
  <2>1. f \in Files /\ f = dir[n]
    BY <1>2, <1>4 DEF FilesTypeOK
  <2> QED BY <1>1, <1>3, <2>1
<1>5. CASE dir[n] = None
  <2>1. f \in Files \ Used
    BY <1>3, <1>5, FreeFile
  <2>2. (\A m \in Names : f # dir[m]) /\ (\A c \in Builder : f # fd[c])
    BY <2>1
  <2> HIDE DEF f
  <2> QED BY <1>1, <1>3, <2>1, <2>2
<1> QED BY <1>4, <1>5

\* Keeping the types of what counts attempts.
LEMMA TryNextType ==
  ASSUME AttemptsTypeOK, NEW b \in Builder, TryNext(b), attempts' = attempts
  PROVE  /\ AttemptsTypeOK'
         /\ \E where \in {"test", "idle"} : Goto(b, where)
<1>1. Len(attempts) \in Nat /\ try[b] \in 1..Len(attempts)
  BY DEF AttemptsTypeOK
<1>2. CASE try[b] < Len(attempts)
  <2>1. try' = [try EXCEPT ![b] = try[b] + 1] /\ Goto(b, "test")
    BY <1>2 DEF TryNext
  <2>2. try[b] + 1 \in 1..Len(attempts)
    BY <1>1, <1>2
  <2> QED BY <2>1, <2>2 DEF AttemptsTypeOK
<1>3. CASE ~(try[b] < Len(attempts))
  <2>1. try' = [try EXCEPT ![b] = 1] /\ Goto(b, "idle")
    BY <1>3 DEF TryNext
  <2>2. 1 \in 1..Len(attempts)
    BY <1>1
  <2> QED BY <2>1, <2>2 DEF AttemptsTypeOK
<1> QED BY <1>2, <1>3

Inductive == FilesTypeOK /\ AttemptsTypeOK /\ Opened

\* The steps that neither open nor write a file keep the types.
LEMMA QuietStepTypes ==
  ASSUME Inductive, NEW b \in Builder,
         \/ Start(b) \/ Test(b) \/ Clone(b) \/ CloneFails(b) \/ Mv(b) \/ RmTmp(b)
         \/ RmCopy(b)
  PROVE  Inductive'
<1>1. Len(attempts) \in Nat /\ 1 \in 1..Len(attempts)
  <2>1. Len(attempts) \in Nat /\ try[b] \in 1..Len(attempts)
    BY DEF Inductive, AttemptsTypeOK
  <2> QED BY <2>1
<1>2. UNCHANGED <<fd, off, content>> /\ pc[b] # "write" /\ attempts' = attempts
  BY DEF Start, Test, Clone, CloneFails, Mv, RmTmp, RmCopy
<1>3. /\ AttemptsTypeOK'
      /\ \E where \in {"test", "idle", "done", "clone", "open", "rm tmp"} : Goto(b, where)
  <2>1. CASE Start(b)
    BY <1>1, <2>1 DEF Start, Inductive, AttemptsTypeOK
  <2>2. CASE Test(b) \/ Clone(b) \/ Mv(b) \/ RmCopy(b)
    BY <2>2 DEF Test, Clone, Mv, RmCopy, Inductive, AttemptsTypeOK
  <2>3. CASE CloneFails(b) \/ RmTmp(b)
    BY <2>3, TryNextType DEF CloneFails, RmTmp, Inductive
  <2> QED BY <2>1, <2>2, <2>3
<1>4. PICK where \in {"test", "idle", "done", "clone", "open", "rm tmp"} : Goto(b, where)
  BY <1>3
<1>5. dir' \in [Names -> Files \cup {None}]
  <2>1. CASE Mv(b)
    BY <2>1 DEF Inductive, FilesTypeOK, Names, Mv
  <2>2. CASE RmTmp(b)
    BY <2>2 DEF Inductive, FilesTypeOK, Names, RmTmp
  <2>3. CASE Start(b) \/ Test(b) \/ Clone(b) \/ CloneFails(b) \/ RmCopy(b)
    BY <2>3 DEF Inductive, FilesTypeOK, Start, Test, Clone, CloneFails, RmCopy
  <2> QED BY <2>1, <2>2, <2>3
<1>8. copy' \in BOOLEAN /\ cut' \in BOOLEAN
  BY Zenon DEF Inductive, FilesTypeOK, Start, Test, Clone, CloneFails, Mv, RmTmp, RmCopy
<1>6. FilesTypeOK'
  BY <1>2, <1>4, <1>5, <1>8 DEF Inductive, FilesTypeOK, Goto
<1>7. Opened'
  BY <1>2, <1>4 DEF Inductive, FilesTypeOK, Opened, Goto
<1> QED BY <1>3, <1>6, <1>7 DEF Inductive

\* So does a builder that closes its file, whatever it does next.
LEMMA CloseTypes ==
  ASSUME Inductive, NEW b \in Builder, Finish(b) \/ TransferFails(b) \/ Kill(b)
  PROVE  Inductive'
<1>1. Close(b) /\ UNCHANGED <<attempts, dir, content, copy>> /\ cut' \in BOOLEAN
  BY DEF Finish, TransferFails, Kill, Inductive, FilesTypeOK
<1>2. /\ AttemptsTypeOK'
      /\ \E where \in {"test", "idle", "done", "mv", "rm tmp", "rm copy"} : Goto(b, where)
  <2>1. CASE Finish(b)
    BY <2>1 DEF Finish, AfterWrite, Inductive, AttemptsTypeOK
  <2>2. CASE Kill(b)
    BY <2>2 DEF Kill, Inductive, AttemptsTypeOK
  <2>3. CASE TransferFails(b) /\ UNCHANGED try
    BY <2>3, TryNextType DEF TransferFails, Inductive, AttemptsTypeOK
  <2>4. CASE TransferFails(b) /\ TryNext(b)
    BY <2>4, TryNextType DEF TransferFails, Inductive
  <2>5. TransferFails(b) => UNCHANGED try \/ TryNext(b)
    BY DEF TransferFails
  <2> QED BY <2>1, <2>2, <2>3, <2>4, <2>5
<1>3. PICK where \in {"test", "idle", "done", "mv", "rm tmp", "rm copy"} : Goto(b, where)
  BY <1>2
<1>4. fd' \in [Builder -> Files \cup {None}] /\ off' \in [Builder -> 0..Chunks]
  BY <1>1, NoChunks DEF Close, Inductive, FilesTypeOK
<1>5. FilesTypeOK'
  BY <1>1, <1>3, <1>4 DEF Inductive, FilesTypeOK, Goto
<1>6. Opened'
  BY <1>1, <1>3 DEF Inductive, FilesTypeOK, Opened, Goto, Close
<1> QED BY <1>2, <1>5, <1>6 DEF Inductive

\* And one that opens or writes its file.
LEMMA WriteTypes ==
  ASSUME Inductive, NEW b \in Builder, Open(b) \/ Write(b)
  PROVE  Inductive'
<1>1. CASE Open(b)
  <2>1. PICK f \in Files : /\ dir' = [dir EXCEPT ![Output(b)] = f]
                           /\ content' = [content EXCEPT ![f] = {}]
                           /\ fd' = [fd EXCEPT ![b] = f]
    BY <1>1, OpenFile DEF Inductive
  <2>2. /\ off' = [off EXCEPT ![b] = 0] /\ pc' = [pc EXCEPT ![b] = "write"]
        /\ UNCHANGED <<attempts, copy, try, cut>>
    BY <1>1 DEF Open, Goto
  <2>3. 0 \in 0..Chunks /\ f # None
    BY NoChunks, FileNumbers
  <2>4. FilesTypeOK'
    BY <2>1, <2>2, <2>3 DEF Inductive, FilesTypeOK
  <2>5. Opened' /\ AttemptsTypeOK'
    BY <2>1, <2>2, <2>3 DEF Inductive, FilesTypeOK, Opened, AttemptsTypeOK
  <2> QED BY <2>4, <2>5 DEF Inductive
<1>2. CASE Write(b)
  <2>1. /\ off[b] \in 0..Chunks /\ off[b] < Chunks /\ Chunks \in Nat
        /\ fd[b] \in Files
    BY <1>2, NoChunks DEF Write, Inductive, FilesTypeOK, Opened
  <2>2. off[b] + 1 \in 1..Chunks /\ off[b] + 1 \in 0..Chunks
    BY <2>1
  <2>3. content' \in [Files -> SUBSET (1..Chunks)] /\ off' \in [Builder -> 0..Chunks]
    BY <1>2, <2>1, <2>2 DEF Write, Inductive, FilesTypeOK
  <2> QED BY <1>2, <2>3 DEF Write, Inductive, FilesTypeOK, AttemptsTypeOK, Opened
<1> QED BY <1>1, <1>2

\* Every configuration has make try known methods, in some order.
LEMMA AttemptsOf ==
  ASSUME NEW M, "wget" \in M, NEW primary \in {"none"} \cup M, NEW only, NEW method \in M,
         NEW backup
  PROVE  AttemptsWith(primary, only, method, backup) \in Seq(M)
<1>1. (IF primary = "none" THEN <<>> ELSE <<primary>>) \in Seq(M)
  OBVIOUS
<1>2. (IF only THEN <<>> ELSE <<method>> \o (IF backup THEN <<"wget">> ELSE <<>>)) \in Seq(M)
  OBVIOUS
<1> QED BY <1>1, <1>2 DEF AttemptsWith

\* What the types rest on holds of every reachable state.
LEMMA Types == Spec => []Inductive
<1>1. Init => Inductive
  <2> SUFFICES ASSUME Init PROVE Inductive
    OBVIOUS
  <2>1. attempts \in Seq(Methods) /\ attempts # <<>>
    <3>1. "wget" \in Methods /\ PrimarySites \subseteq {"none"} \cup Methods
          /\ SiteMethods \subseteq Methods
      BY DownloadAssumption DEF Methods, Direct
    <3> QED BY <3>1, AttemptsOf DEF Init
  <2>2. 1 \in 1..Len(attempts)
    BY <2>1
  <2> QED BY <2>1, <2>2, NoChunks DEF Init, Inductive, FilesTypeOK, AttemptsTypeOK, Opened
<1>2. Inductive /\ [Next]_vars => Inductive'
  <2> SUFFICES ASSUME Inductive, [Next]_vars PROVE Inductive'
    OBVIOUS
  <2>1. ASSUME NEW b \in Builder, Step(b) \/ Failure(b) \/ Kill(b)
        PROVE  Inductive'
    BY <2>1, QuietStepTypes, CloseTypes, WriteTypes DEF Step, Failure
  <2>2. CASE UNCHANGED vars
    BY <2>2 DEF vars, Inductive, FilesTypeOK, AttemptsTypeOK, Opened
  <2> QED BY <2>1, <2>2 DEF Next
<1> QED BY <1>1, <1>2, PTL DEF Spec

\* TypeOK holds of every reachable state, with any number of builders and any
\* methods.
THEOREM DownloadTyping == Spec => []TypeOK
<1>1. Inductive => TypeOK
  BY DEF Inductive, FilesTypeOK, AttemptsTypeOK, TypeOK
<1> QED BY <1>1, Types, PTL

-----------------------------------------------------------------------------
(* Builders that share the directory.                                      *)

\* The two names are never those of one file.
Distinct == dir["archive"] # None => dir["archive"] # dir["tmp"]

\* A file is whole, or will be when one of those who write it has finished:
\* the last to open it.
Covered(f) ==
  \/ Whole(f)
  \/ \E b \in Builder : fd[b] = f /\ 1..off[b] \subseteq content[f]

Several == Cardinality(Builder) > 1

\* A builder on its own writes the file its method names, and renames it whole.
AloneWrites ==
  ~Several => \A b \in Builder :
    /\ pc[b] = "write" => /\ fd[b] = dir[Output(b)]
                          /\ 1..off[b] \subseteq content[fd[b]]
    /\ pc[b] = "mv" => dir["tmp"] # None /\ Whole(dir["tmp"])

\* The archive is covered, and so is what a builder will rename to it.
Renaming == \E c \in Builder : WillRename(c)
NamesCovered ==
  ~cut => /\ dir["archive"] # None => Covered(dir["archive"])
          /\ Renaming /\ dir["tmp"] # None => Covered(dir["tmp"])

Sharing == Distinct /\ AloneWrites /\ NamesCovered

\* A builder on its own is the only one.
LEMMA Alone ==
  ASSUME ~Several, NEW b \in Builder, NEW c \in Builder
  PROVE  b = c
<1>1. Cardinality(Builder) \in Nat /\ IsFiniteSet(Builder)
  BY FileNumbers, DownloadAssumption
<1>2. Cardinality(Builder) # 0
  BY <1>1, FS_EmptySet
<1>3. Cardinality(Builder) = 1
  BY <1>1, <1>2 DEF Several
<1>4. PICK x : Builder = {x}
  BY <1>1, <1>3, FS_Singleton
<1> QED BY <1>4

\* A step that neither touches the files nor a name keeps all of it, unless it
\* makes a builder write or rename.
LEMMA SharingSame ==
  ASSUME Inductive, Sharing, NEW b \in Builder,
         UNCHANGED <<attempts, dir, content, fd, off, cut>>,
         \A c \in Builder : pc'[c] \in {"write", "mv"} => pc'[c] = pc[c] /\ try'[c] = try[c]
  PROVE  Sharing'
<1>1. Renaming' => Renaming
  BY DEF Renaming, WillRename, Method
<1>2. Distinct' /\ NamesCovered'
  BY <1>1 DEF Sharing, Distinct, NamesCovered, Covered, Whole
<1>3. AloneWrites'
  BY DEF Sharing, AloneWrites, Output, Method, Whole
<1> QED BY <1>2, <1>3 DEF Sharing

\* Taking the mark of a download away.
LEMMA SharingRemoves ==
  ASSUME Inductive, Sharing, NEW b \in Builder, RmTmp(b)
  PROVE  Sharing'
<1>1. /\ dir'["archive"] = dir["archive"] /\ dir'["tmp"] = None
      /\ UNCHANGED <<content, fd, off, cut, attempts>>
  BY DEF RmTmp, Inductive, FilesTypeOK, Names
<1>2. Distinct' /\ NamesCovered'
  BY <1>1 DEF Sharing, Distinct, NamesCovered, Covered, Whole
<1>3. AloneWrites'
  <2> SUFFICES ASSUME ~Several, NEW c \in Builder, pc'[c] \in {"write", "mv"}
               PROVE  FALSE
    BY DEF AloneWrites
  <2>1. b = c
    BY Alone
  <2>2. PICK where \in {"test", "idle"} : Goto(b, where)
    BY TryNextType DEF RmTmp, Inductive
  <2> QED BY <2>1, <2>2 DEF Goto, Inductive, FilesTypeOK
<1> QED BY <1>2, <1>3 DEF Sharing

\* Renaming the mark to the archive.
LEMMA SharingRenames ==
  ASSUME Inductive, Sharing, NEW b \in Builder, Mv(b)
  PROVE  Sharing'
<1>1. CASE dir["tmp"] = None
  <2>1. /\ UNCHANGED <<attempts, dir, content, fd, off, cut, try>>
        /\ pc' = [pc EXCEPT ![b] = "rm tmp"]
    BY <1>1 DEF Mv, Goto
  <2>2. \A c \in Builder : pc'[c] \in {"write", "mv"} => pc'[c] = pc[c]
    BY <2>1 DEF Inductive, FilesTypeOK
  <2> QED BY <2>1, <2>2, SharingSame
<1>2. CASE dir["tmp"] # None
  <2>1. /\ dir'["archive"] = dir["tmp"] /\ dir'["tmp"] = None
        /\ UNCHANGED <<content, fd, off, cut, attempts, try>>
        /\ pc' = [pc EXCEPT ![b] = "done"]
    BY <1>2 DEF Mv, Goto, Inductive, FilesTypeOK, Names
  <2>2. ~cut => Covered(dir["tmp"])
    <3>1. Renaming
      BY DEF Mv, Renaming, WillRename
    <3> QED BY <1>2, <3>1 DEF Sharing, NamesCovered
  <2>3. Distinct' /\ NamesCovered'
    BY <1>2, <2>1, <2>2 DEF Distinct, NamesCovered, Covered, Whole
  <2>4. AloneWrites'
    <3> SUFFICES ASSUME ~Several, NEW c \in Builder, pc'[c] \in {"write", "mv"}
                 PROVE  FALSE
      BY DEF AloneWrites
    <3> QED BY <2>1, Alone DEF Inductive, FilesTypeOK
  <2> QED BY <2>3, <2>4 DEF Sharing
<1> QED BY <1>1, <1>2

\* Opening a file: who opens it last covers it.
LEMMA SharingOpens ==
  ASSUME Inductive, Sharing, NEW b \in Builder, Open(b)
  PROVE  Sharing'
<1> DEFINE n == Output(b)
<1>1. PICK f \in Files :
        /\ dir' = [dir EXCEPT ![n] = f]
        /\ content' = [content EXCEPT ![f] = {}]
        /\ fd' = [fd EXCEPT ![b] = f]
        /\ fd[b] = None
        /\ \/ f = dir[n]
           \/ /\ \A m \in Names : f # dir[m]
              /\ \A c \in Builder : f # fd[c]
  BY OpenFile DEF Inductive
<1>2. /\ off' = [off EXCEPT ![b] = 0] /\ pc' = [pc EXCEPT ![b] = "write"]
      /\ UNCHANGED <<attempts, try, cut>>
  BY DEF Open, Goto
<1>3. n \in Names /\ f # None /\ 1..0 = {}
  BY FileNumbers DEF Output, Names
<1>4. ASSUME NEW m \in Names \ {n}
      PROVE  dir'[m] = dir[m] /\ dir[m] # f
  <2>1. dir'[m] = dir[m]
    BY <1>1, <1>3 DEF Inductive, FilesTypeOK
  <2>2. CASE f = dir[n]
    <3>1. dir["archive"] # None => dir["archive"] # dir["tmp"]
      BY DEF Sharing, Distinct
    <3>2. {m, n} = {"archive", "tmp"}
      BY <1>3 DEF Names
    <3> QED BY <1>3, <2>1, <2>2, <3>1, <3>2
  <2>3. CASE \A l \in Names : f # dir[l]
    BY <2>1, <2>3
  <2> QED BY <1>1, <2>2, <2>3
<1>5. Covered(f)'
  BY <1>1, <1>2, <1>3 DEF Covered, Inductive, FilesTypeOK
<1>6. ASSUME NEW g \in Files, g # f, Covered(g) PROVE Covered(g)'
  <2>1. content'[g] = content[g]
    BY <1>1, <1>6 DEF Inductive, FilesTypeOK
  <2>2. CASE Whole(g)
    BY <2>1, <2>2 DEF Covered, Whole
  <2>3. CASE \E c \in Builder : fd[c] = g /\ 1..off[c] \subseteq content[g]
    <3>1. PICK c \in Builder : fd[c] = g /\ 1..off[c] \subseteq content[g]
      BY <2>3
    <3>2. c # b
      BY <1>1, <3>1, FileNumbers
    <3>3. fd'[c] = g /\ 1..off'[c] \subseteq content'[g]
      BY <1>1, <1>2, <2>1, <3>1, <3>2 DEF Inductive, FilesTypeOK
    <3> QED BY <3>3 DEF Covered
  <2> QED BY <1>6, <2>2, <2>3 DEF Covered
<1>7. dir'[n] = f /\ \A m \in Names : dir[m] \in Files \cup {None}
  BY <1>1, <1>3 DEF Inductive, FilesTypeOK
<1>9. NamesCovered'
  <2>1. ASSUME NEW m \in Names, dir'[m] # None, dir[m] # None => Covered(dir[m])
        PROVE  Covered(dir[m])'
    <3>1. CASE m = n
      BY <1>5, <1>7, <3>1 DEF Covered, Whole
    <3>2. CASE m # n
      <4>1. dir'[m] = dir[m] /\ dir[m] \in Files /\ dir[m] # f
        BY <1>4, <1>7, <2>1, <3>2
      <4> DEFINE g == dir[m]
      <4>2. Covered(g) /\ g \in Files /\ g # f
        BY <2>1, <4>1
      <4> HIDE DEF g
      <4>3. \/ content'[g] = 1..Chunks /\ g # None
            \/ \E c \in Builder : fd'[c] = g /\ 1..off'[c] \subseteq content'[g]
        BY <1>6, <4>2 DEF Covered, Whole
      <4>4. dir'[m] = g
        BY <4>1 DEF g
      <4> QED BY <4>3, <4>4 DEF Covered, Whole
    <3> QED BY <3>1, <3>2
  <2>2. cut' = cut /\ "archive" \in Names /\ "tmp" \in Names
    BY <1>2 DEF Names
  <2>3. CASE n = "tmp"
    <3>1. dir'["archive"] = dir["archive"]
      BY <1>4, <2>2, <2>3
    <3>2. dir'["archive"] # None /\ ~cut => Covered(dir["archive"])'
      BY <2>1, <2>2, <3>1 DEF NamesCovered, Sharing
    <3>3. Covered(dir["tmp"])'
      BY <1>5, <1>7, <2>3 DEF Covered, Whole
    <3> QED BY <2>2, <3>2, <3>3 DEF NamesCovered
  <2>4. CASE n = "archive"
    <3>1. Method(b) # "wget"
      BY <2>4 DEF Output
    <3>2. Renaming' => Renaming
      <4> SUFFICES ASSUME NEW c \in Builder, WillRename(c)'
                   PROVE  WillRename(c)
        BY DEF Renaming
      <4>1. Method(c)' = Method(c)
        BY <1>2 DEF Method
      <4>2. c # b
        BY <1>2, <3>1, <4>1 DEF WillRename, Inductive, FilesTypeOK
      <4>3. pc'[c] = pc[c]
        BY <1>2, <4>2 DEF Inductive, FilesTypeOK
      <4> QED BY <4>1, <4>3 DEF WillRename
    <3>3. dir'["tmp"] = dir["tmp"]
      BY <1>4, <2>2, <2>4
    <3>4. dir["tmp"] # None /\ Renaming' /\ ~cut => Covered(dir["tmp"])'
      BY <2>1, <2>2, <3>2, <3>3 DEF NamesCovered, Sharing
    <3>5. Covered(dir["archive"])'
      BY <1>5, <1>7, <2>4 DEF Covered, Whole
    <3> QED BY <2>2, <3>3, <3>4, <3>5 DEF NamesCovered
  <2> QED BY <1>3, <2>3, <2>4 DEF Names
<1>10. Distinct'
  BY <1>3, <1>4, <1>7 DEF Distinct, Names, Sharing
<1>11. AloneWrites'
  <2> SUFFICES ASSUME ~Several, NEW c \in Builder
               PROVE  /\ pc'[c] = "write" => /\ fd'[c] = dir'[Output(c)']
                                             /\ 1..off'[c] \subseteq content'[fd'[c]]
                      /\ pc'[c] # "mv"
    BY DEF AloneWrites
  <2>1. c = b
    BY Alone
  <2>2. Output(b)' = n /\ pc'[b] = "write"
    BY <1>2 DEF Output, Method, Inductive, FilesTypeOK
  <2>3. fd'[b] = f /\ off'[b] = 0
    BY <1>1, <1>2 DEF Inductive, FilesTypeOK
  <2> QED BY <1>3, <1>7, <2>1, <2>2, <2>3
<1> QED BY <1>9, <1>10, <1>11 DEF Sharing

\* Writing a chunk.
LEMMA SharingWrites ==
  ASSUME Inductive, Sharing, NEW b \in Builder, Write(b)
  PROVE  Sharing'
<1>1. /\ fd[b] \in Files /\ fd[b] # None /\ off[b] \in 0..Chunks /\ off[b] < Chunks
      /\ content' = [content EXCEPT ![fd[b]] = content[fd[b]] \cup {off[b] + 1}]
      /\ off' = [off EXCEPT ![b] = off[b] + 1]
      /\ UNCHANGED <<attempts, dir, pc, try, fd, cut>>
  BY FileNumbers DEF Write, Inductive, FilesTypeOK, Opened
<1>2. \A f \in Files : content[f] \subseteq content'[f] /\ content'[f] \subseteq 1..Chunks
  <2>1. off[b] + 1 \in 1..Chunks
    BY <1>1, NoChunks
  <2> QED BY <1>1, <2>1 DEF Inductive, FilesTypeOK
<1>3. \A f \in Files : Whole(f) => Whole(f)'
  BY <1>2 DEF Whole
<1>4. ASSUME NEW c \in Builder, fd[c] \in Files, 1..off[c] \subseteq content[fd[c]]
      PROVE  1..off'[c] \subseteq content'[fd[c]]
  <2>1. CASE c = b
    <3>0. off'[c] = off[b] + 1
      BY <1>1, <2>1 DEF Inductive, FilesTypeOK
    <3>1. 1..off'[c] = 1..off[b] \cup {off[b] + 1}
      BY <1>1, <3>0, NoChunks
    <3>2. content'[fd[c]] = content[fd[b]] \cup {off[b] + 1}
      BY <1>1, <2>1 DEF Inductive, FilesTypeOK
    <3> QED BY <1>4, <2>1, <3>1, <3>2
  <2>2. CASE c # b
    <3>1. off'[c] = off[c]
      BY <1>1, <2>2 DEF Inductive, FilesTypeOK
    <3> QED BY <1>2, <1>4, <3>1
  <2> QED BY <2>1, <2>2
<1>5. \A f \in Files : Covered(f) => Covered(f)'
  BY <1>1, <1>3, <1>4 DEF Covered
<1>6. \A m \in Names : dir[m] # None => dir[m] \in Files
  BY DEF Inductive, FilesTypeOK
<1>7. NamesCovered'
  <2>1. "archive" \in Names /\ "tmp" \in Names
    BY DEF Names
  <2>2. ASSUME NEW m \in Names, dir[m] # None, Covered(dir[m])
        PROVE  Covered(dir[m])'
    <3> DEFINE g == dir[m]
    <3>1. g \in Files /\ Covered(g) /\ dir'[m] = g
      BY <1>1, <1>6, <2>2
    <3> HIDE DEF g
    <3>2. \/ content'[g] = 1..Chunks /\ g # None
          \/ \E c \in Builder : fd'[c] = g /\ 1..off'[c] \subseteq content'[g]
      BY <1>5, <3>1 DEF Covered, Whole
    <3> QED BY <3>1, <3>2 DEF Covered, Whole
  <2>3. Renaming' = Renaming
    BY <1>1 DEF Renaming, WillRename, Method
  <2> QED BY <1>1, <2>1, <2>2, <2>3 DEF Sharing, NamesCovered
<1>8. Distinct'
  BY <1>1 DEF Sharing, Distinct
<1>9. AloneWrites'
  <2> SUFFICES ASSUME ~Several, NEW c \in Builder
               PROVE  /\ pc[c] = "write" => /\ fd[c] = dir[Output(c)]
                                            /\ 1..off'[c] \subseteq content'[fd[c]]
                      /\ pc[c] # "mv"
    BY <1>1 DEF AloneWrites, Output, Method
  <2>1. c = b /\ pc[b] = "write"
    BY Alone DEF Write
  <2> QED BY <1>1, <1>4, <2>1 DEF Sharing, AloneWrites
<1> QED BY <1>7, <1>8, <1>9 DEF Sharing

\* Closing a file: it is whole, or who sees it is told.
LEMMA SharingCloses ==
  ASSUME Inductive, Sharing, NEW b \in Builder, Finish(b) \/ TransferFails(b) \/ Kill(b)
  PROVE  Sharing'
<1>1. /\ fd' = [fd EXCEPT ![b] = None] /\ off' = [off EXCEPT ![b] = 0]
      /\ UNCHANGED <<attempts, dir, content>>
  BY DEF Finish, TransferFails, Kill, Close
<1>2. Distinct'
  BY <1>1 DEF Sharing, Distinct
<1>3. ASSUME NEW c \in Builder, c # b PROVE fd'[c] = fd[c] /\ off'[c] = off[c]
  BY <1>1, <1>3 DEF Inductive, FilesTypeOK
<1>4. ASSUME NEW f \in Files, Covered(f), fd[b] # f PROVE Covered(f)'
  BY <1>1, <1>3, <1>4 DEF Covered, Whole
<1>5. \A m \in Names : dir[m] # None => dir[m] \in Files
  BY DEF Inductive, FilesTypeOK
<1>6. "archive" \in Names /\ "tmp" \in Names
  BY DEF Names
<1>7. CASE Finish(b)
  <2>1. fd[b] \in Files /\ fd[b] # None /\ off[b] = Chunks /\ cut' = cut /\ try' = try
    BY <1>7, FileNumbers DEF Finish, Complete, Inductive, FilesTypeOK, Opened
  <2>2. 1..off[b] \subseteq content[fd[b]] => Whole(fd[b])
    BY <2>1 DEF Whole, Inductive, FilesTypeOK
  <2>3. ASSUME NEW f \in Files, Covered(f) PROVE Covered(f)'
    <3>1. CASE fd[b] # f
      BY <1>4, <2>3, <3>1
    <3>2. CASE Whole(f)
      BY <1>1, <3>2 DEF Covered, Whole
    <3>3. CASE fd[b] = f /\ ~Whole(f)
      <4>1. PICK c \in Builder : fd[c] = f /\ 1..off[c] \subseteq content[f]
        BY <2>3, <3>3 DEF Covered
      <4>2. c # b
        BY <2>2, <3>3, <4>1
      <4> QED BY <1>1, <1>3, <4>1, <4>2 DEF Covered
    <3> QED BY <3>1, <3>2, <3>3
  <2>4. ASSUME NEW m \in Names, dir[m] # None, Covered(dir[m])
        PROVE  Covered(dir[m])'
    <3> DEFINE g == dir[m]
    <3>1. g \in Files /\ Covered(g) /\ dir'[m] = g
      BY <1>1, <1>5, <2>4
    <3> HIDE DEF g
    <3>2. \/ content'[g] = 1..Chunks /\ g # None
          \/ \E c \in Builder : fd'[c] = g /\ 1..off'[c] \subseteq content'[g]
      BY <2>3, <3>1 DEF Covered, Whole
    <3> QED BY <3>1, <3>2 DEF Covered, Whole
  <2>5. NamesCovered'
    <3>1. ASSUME NEW c \in Builder, WillRename(c)' PROVE WillRename(c)
      <4>1. pc' = [pc EXCEPT ![b] = AfterWrite(b)] /\ Method(c)' = Method(c) /\ pc[b] = "write"
        BY <1>1, <1>7, <2>1 DEF Finish, Goto, Method
      <4>2. CASE c = b
        BY <3>1, <4>1, <4>2 DEF WillRename, AfterWrite, Inductive, FilesTypeOK
      <4>3. CASE c # b
        BY <3>1, <4>1, <4>3 DEF WillRename, Inductive, FilesTypeOK
      <4> QED BY <4>2, <4>3
    <3>2. Renaming' => Renaming
      BY <3>1 DEF Renaming
    <3> QED BY <1>1, <1>6, <2>1, <2>4, <3>2 DEF Sharing, NamesCovered
  <2>6. AloneWrites'
    <3> SUFFICES ASSUME ~Several, NEW c \in Builder
                 PROVE  /\ pc'[c] # "write"
                        /\ pc'[c] = "mv" => dir["tmp"] # None /\ Whole(dir["tmp"])
      BY <1>1 DEF AloneWrites, Whole
    <3>1. c = b
      BY Alone
    <3>2. pc'[b] = AfterWrite(b)
      BY <1>7 DEF Finish, Goto, Inductive, FilesTypeOK
    <3>3. AfterWrite(b) # "write" /\ (AfterWrite(b) = "mv" => Output(b) = "tmp")
      BY DEF AfterWrite, Output
    <3>4. fd[b] = dir[Output(b)] /\ 1..off[b] \subseteq content[fd[b]]
      BY <1>7 DEF Sharing, AloneWrites, Finish
    <3> QED BY <2>1, <2>2, <3>1, <3>2, <3>3, <3>4
  <2> QED BY <1>2, <2>5, <2>6 DEF Sharing
<1>8. CASE TransferFails(b) \/ Kill(b)
  <2>1. cut' = (cut \/ Exposed(b))
    BY <1>8 DEF TransferFails, Kill
  <2>2. ASSUME NEW m \in Names, dir[m] # None, Covered(dir[m]), fd[b] # dir[m]
        PROVE  Covered(dir[m])'
    <3> DEFINE g == dir[m]
    <3>1. g \in Files /\ Covered(g) /\ fd[b] # g /\ dir'[m] = g
      BY <1>1, <1>5, <2>2
    <3> HIDE DEF g
    <3>2. \/ content'[g] = 1..Chunks /\ g # None
          \/ \E c \in Builder : fd'[c] = g /\ 1..off'[c] \subseteq content'[g]
      BY <1>4, <3>1 DEF Covered, Whole
    <3> QED BY <3>1, <3>2 DEF Covered, Whole
  <2>3. PICK where \in {"rm tmp", "rm copy", "test", "idle"} : Goto(b, where)
    <3>1. CASE Kill(b)
      BY <3>1 DEF Kill
    <3>2. CASE TransferFails(b)
      BY <3>2, TryNextType DEF TransferFails, Inductive
    <3> QED BY <1>8, <3>1, <3>2
  <2>4. ASSUME NEW c \in Builder, WillRename(c)' PROVE c # b /\ WillRename(c)
    <3>1. c # b
      BY <2>3, <2>4 DEF WillRename, Goto, Inductive, FilesTypeOK
    <3>2. pc'[c] = pc[c]
      BY <2>3, <3>1 DEF Goto, Inductive, FilesTypeOK
    <3>3. try'[c] = try[c]
      <4>1. CASE Kill(b)
        BY <4>1 DEF Kill
      <4>2. CASE TransferFails(b)
        BY <3>1, <4>2 DEF TransferFails, TryNext, Inductive, AttemptsTypeOK
      <4> QED BY <1>8, <4>1, <4>2
    <3> QED BY <1>1, <2>4, <3>1, <3>2, <3>3 DEF WillRename, Method
  <2>5. ~Exposed(b) => /\ dir["archive"] # None => fd[b] # dir["archive"]
                       /\ Renaming' /\ dir["tmp"] # None => fd[b] # dir["tmp"]
    BY <2>4 DEF Exposed, Renaming
  <2>6. Renaming' => Renaming
    BY <2>4 DEF Renaming
  <2>7. NamesCovered'
    BY <1>1, <1>6, <2>1, <2>2, <2>5, <2>6 DEF Sharing, NamesCovered
  <2>8. AloneWrites'
    <3> SUFFICES ASSUME ~Several, NEW c \in Builder PROVE pc'[c] \notin {"write", "mv"}
      BY DEF AloneWrites
    <3>1. c = b
      BY Alone
    <3> QED BY <2>3, <3>1 DEF Goto, Inductive, FilesTypeOK
  <2> QED BY <1>2, <2>7, <2>8 DEF Sharing
<1> QED BY <1>7, <1>8

\* The steps that only say where a builder goes next.
LEMMA SharingGoes ==
  ASSUME Inductive, Sharing, NEW b \in Builder,
         Start(b) \/ Test(b) \/ Clone(b) \/ CloneFails(b) \/ RmCopy(b)
  PROVE  Sharing'
<1>1. UNCHANGED <<attempts, dir, content, fd, off, cut>>
  BY DEF Start, Test, Clone, CloneFails, RmCopy
<1>2. /\ \E where \in {"test", "done", "clone", "open", "idle"} : Goto(b, where)
      /\ \A c \in Builder : c # b => try'[c] = try[c]
  <2>1. CASE CloneFails(b)
    <3>1. TryNext(b) /\ \E where \in {"test", "idle"} : Goto(b, where)
      BY <2>1, TryNextType DEF CloneFails, Inductive
    <3> QED BY <3>1 DEF TryNext, Inductive, AttemptsTypeOK
  <2>2. CASE Start(b)
    BY <2>2 DEF Start, Inductive, AttemptsTypeOK
  <2>3. CASE Test(b) \/ Clone(b) \/ RmCopy(b)
    BY <2>3 DEF Test, Clone, RmCopy
  <2> QED BY <2>1, <2>2, <2>3
<1>3. \A c \in Builder : pc'[c] \in {"write", "mv"} => pc'[c] = pc[c] /\ try'[c] = try[c]
  BY <1>2 DEF Goto, Inductive, FilesTypeOK
<1> QED BY <1>1, <1>3, SharingSame

\* What covers the archive is kept by every step.
LEMMA Shared == Spec => []Sharing
<1>1. Init => Sharing
  BY DEF Init, Sharing, Distinct, AloneWrites, NamesCovered, Names
<1>2. Inductive /\ Sharing /\ [Next]_vars => Sharing'
  <2> SUFFICES ASSUME Inductive, Sharing, [Next]_vars PROVE Sharing'
    OBVIOUS
  <2>1. ASSUME NEW b \in Builder, Step(b) \/ Failure(b) \/ Kill(b)
        PROVE  Sharing'
    BY <2>1, SharingGoes, SharingOpens, SharingWrites, SharingCloses, SharingRenames,
       SharingRemoves DEF Step, Failure
  <2>2. CASE UNCHANGED vars
    BY <2>2 DEF vars, Sharing, Distinct, AloneWrites, NamesCovered, Covered, Whole, Output,
                Method, Renaming, WillRename
  <2> QED BY <2>1, <2>2 DEF Next
<1> QED BY <1>1, <1>2, Types, PTL DEF Spec

\* Any number of builders that share the directory, with any methods, leave a
\* whole archive, unless a transfer was cut short that wrote under the archive's own
\* name, or under the name another builder was about to rename.
THEOREM Quiet == Spec => []QuietIsWhole
<1>1. Sharing => QuietIsWhole
  BY DEF Sharing, NamesCovered, Covered, QuietIsWhole
<1> QED BY <1>1, Shared, PTL

-----------------------------------------------------------------------------
(* One builder, with wget.                                                 *)

\* Only wget is tried, the archive is whole if it is there, and is not there
\* while it is fetched.
OnlyWget ==
  /\ \A i \in 1..Len(attempts) : attempts[i] = "wget"
  /\ dir["archive"] # None => Whole(dir["archive"])
  /\ \A b \in Builder : pc[b] \in {"clone", "open", "write", "mv"} => dir["archive"] = None

\* Every step of the builder publishes the archive, or changes nothing of it.
LEMMA PublishOrNothing ==
  ASSUME Inductive, Sharing, OnlyWget, ~Several, NEW b \in Builder,
         Step(b) \/ Failure(b) \/ Kill(b)
  PROVE  OnlyWget' /\ [Atomic!Publish]_Published
<1>1. Output(b) = "tmp" /\ attempts' = attempts
  <2>1. Method(b) = "wget"
    BY DEF OnlyWget, Method, Inductive, AttemptsTypeOK
  <2> QED BY <2>1 DEF Output, Step, Failure, Start, Test, Clone, Open, Write, Finish, Mv, RmTmp,
                      RmCopy, CloneFails, TransferFails, Kill
<1>2. ASSUME NEW c \in Builder, NEW where, Goto(b, where) PROVE pc'[c] = where
  <2>1. b = c
    BY Alone
  <2> QED BY <1>2, <2>1 DEF Goto, Inductive, FilesTypeOK
<1>3. CASE Mv(b) /\ dir["tmp"] # None
  <2>1. Whole(dir["tmp"]) /\ dir["archive"] = None
    BY <1>3 DEF Mv, Sharing, AloneWrites, OnlyWget
  <2>2. dir'["archive"] = dir["tmp"] /\ content' = content /\ Goto(b, "done")
    BY <1>3 DEF Mv, Inductive, FilesTypeOK, Names
  <2>3. Whole(dir["archive"])'
    BY <1>3, <2>1, <2>2 DEF Whole
  <2>4. \A c \in Builder : pc'[c] = "done"
    BY <1>2, <2>2
  <2>5. OnlyWget'
    BY <1>1, <2>3, <2>4 DEF OnlyWget
  <2>6. Published = "missing" /\ Published' = "whole"
    BY <1>3, <2>1, <2>2, <2>3 DEF Published
  <2> QED BY <2>5, <2>6 DEF Atomic!Publish
<1>4. ASSUME dir'["archive"] = dir["archive"],
             dir["archive"] # None => content'[dir["archive"]] = content[dir["archive"]],
             \/ dir["archive"] = None
             \/ \A c \in Builder : pc'[c] \notin {"clone", "open", "write", "mv"}
      PROVE  OnlyWget' /\ [Atomic!Publish]_Published
  <2>1. (dir["archive"] # None => Whole(dir["archive"]))'
    BY <1>4 DEF OnlyWget, Whole
  <2>2. Published' = Published
    BY <1>4 DEF Published, Whole
  <2>3. OnlyWget'
    BY <1>1, <1>4, <2>1 DEF OnlyWget
  <2> QED BY <2>2, <2>3
<1>5. CASE Open(b) \/ Write(b) \/ Clone(b)
  <2>1. dir["archive"] = None
    BY <1>5 DEF Open, Write, Clone, OnlyWget
  <2>2. CASE Open(b)
    <3>1. PICK f : dir' = [dir EXCEPT !["tmp"] = f]
      BY <1>1, <2>2, OpenFile DEF Inductive
    <3>2. dir'["archive"] = dir["archive"]
      BY <3>1 DEF Inductive, FilesTypeOK, Names
    <3> QED BY <1>4, <2>1, <3>2
  <2>3. CASE Write(b) \/ Clone(b)
    BY <1>4, <2>1, <2>3 DEF Write, Clone
  <2> QED BY <1>5, <2>2, <2>3
<1>6. CASE \/ Start(b) \/ Test(b) \/ Finish(b) \/ RmTmp(b) \/ RmCopy(b) \/ Failure(b)
           \/ Kill(b) \/ (Mv(b) /\ dir["tmp"] = None)
  <2>1. content' = content /\ dir'["archive"] = dir["archive"]
    <3>1. CASE RmTmp(b)
      BY <3>1 DEF RmTmp, Inductive, FilesTypeOK, Names
    <3>2. CASE ~RmTmp(b)
      BY <1>6, <3>2 DEF Start, Test, Finish, RmCopy, Failure, CloneFails, TransferFails, Kill, Mv
    <3> QED BY <3>1, <3>2
  <2>2. \/ dir["archive"] = None
        \/ \E where \in {"test", "idle", "done", "rm tmp", "rm copy"} : Goto(b, where)
    <3>1. CASE Finish(b) \/ Failure(b)
      BY <3>1 DEF Finish, Failure, CloneFails, TransferFails, OnlyWget
    <3>2. CASE RmTmp(b)
      BY <3>2, TryNextType DEF RmTmp, Inductive
    <3>3. CASE Start(b) \/ Test(b) \/ RmCopy(b) \/ Kill(b)
      BY <3>3 DEF Start, Test, RmCopy, Kill
    <3>4. CASE Mv(b) /\ dir["tmp"] = None
      BY <3>4 DEF Mv, OnlyWget
    <3> QED BY <1>6, <3>1, <3>2, <3>3, <3>4
  <2>3. \/ dir["archive"] = None
        \/ \A c \in Builder : pc'[c] \notin {"clone", "open", "write", "mv"}
    BY <1>2, <2>2
  <2> QED BY <1>4, <2>1, <2>3
<1> QED BY <1>3, <1>5, <1>6 DEF Step

\* With one builder and wget for every site the archive appears in the download
\* directory in one step, whole, whatever fails and whenever make is killed.
THEOREM Atomicity ==
  ASSUME ~Several, "scp" \notin PrimarySites, SiteMethods = {"wget"}
  PROVE  Spec => AppearsWhole
<1>1. Init => OnlyWget /\ Atomic!Init
  <2> SUFFICES ASSUME Init PROVE OnlyWget /\ Atomic!Init
    OBVIOUS
  <2>1. attempts \in Seq({"wget"})
    <3>1. PICK primary \in PrimarySites, method \in SiteMethods, only \in BOOLEAN,
               backup \in BOOLEAN : attempts = AttemptsWith(primary, only, method, backup)
      BY DEF Init
    <3>2. method \in {"wget"} /\ primary \in {"none", "wget"}
      BY DownloadAssumption
    <3> QED BY <3>1, <3>2, AttemptsOf
  <2>2. \A i \in 1..Len(attempts) : attempts[i] = "wget"
    BY <2>1
  <2> QED BY <2>2 DEF Init, OnlyWget, Atomic!Init, Published, Names
<1>2. Inductive /\ Sharing /\ OnlyWget /\ [Next]_vars =>
        OnlyWget' /\ [Atomic!Publish]_Published
  <2> SUFFICES ASSUME Inductive, Sharing, OnlyWget, [Next]_vars
               PROVE  OnlyWget' /\ [Atomic!Publish]_Published
    OBVIOUS
  <2>1. ASSUME NEW b \in Builder, Step(b) \/ Failure(b) \/ Kill(b)
        PROVE  OnlyWget' /\ [Atomic!Publish]_Published
    BY <2>1, PublishOrNothing
  <2>2. CASE UNCHANGED vars
    BY <2>2 DEF vars, OnlyWget, Published, Whole
  <2> QED BY <2>1, <2>2 DEF Next
<1> QED BY <1>1, <1>2, Types, Shared, PTL DEF Spec, AppearsWhole, Atomic!Spec
=============================================================================
