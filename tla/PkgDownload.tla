---------------------------- MODULE PkgDownload ----------------------------
(***************************************************************************)
(* The DOWNLOAD helper of package/pkg-download.mk: one archive, the        *)
(* download directory it goes to, and the builders that want it.  Several  *)
(* builders are several make processes, of different output directories,   *)
(* which share the download directory ($(TOPDIR)/dl, or BUILDROOT_DL_DIR). *)
(*                                                                         *)
(* The directory maps names to files, and a file is the set of chunks      *)
(* written to it: two processes that open one name write to one file, and  *)
(* a renamed or removed file is still written by those who have it open.   *)
(***************************************************************************)
EXTENDS Integers, Sequences, FiniteSets

CONSTANTS
  Builder,      \* the make processes
  PrimarySites, \* ways to reach BR2_PRIMARY_SITE: "none", "scp" or "wget"
  SiteMethods,  \* values of <PKG>_SITE_METHOD
  Chunks        \* how many writes an archive takes

Direct == {"scp", "file", "bzr"}      \* written to the archive's own name
Cloned == {"git", "hg", "svn"}        \* the same, from a working copy
Methods == Direct \cup Cloned \cup {"wget"}

ASSUME DownloadAssumption ==
  /\ IsFiniteSet(Builder)
  /\ PrimarySites \subseteq {"none", "scp", "wget"}
  /\ SiteMethods \subseteq Methods
  /\ Chunks \in Nat \ {0}

\* DOWNLOAD_INNER: the methods tried, in order; only is BR2_PRIMARY_SITE_ONLY,
\* backup whether BR2_BACKUP_SITE is set.
AttemptsWith(primary, only, method, backup) ==
  (IF primary = "none" THEN <<>> ELSE <<primary>>)
    \o (IF only THEN <<>>
        ELSE <<method>> \o (IF backup THEN <<"wget">> ELSE <<>>))

None  == 0
Names == {"archive", "tmp"}
Files == 1 .. (2 + Cardinality(Builder))

VARIABLES
  attempts, \* the methods the configuration has make try, in order
  dir,      \* dir[n]: the file of that name, or None
  content,  \* content[f]: the chunks written to file f
  copy,     \* there is a working copy in the download directory
  pc,       \* pc[b]: what builder b does next
  try,      \* try[b]: the attempt builder b is at
  fd,       \* fd[b]: the file builder b has open for writing, or None
  off,      \* off[b]: how many chunks it has written
  cut       \* history: a transfer was cut short that is, or may become, the archive

vars == <<attempts, dir, content, copy, pc, try, fd, off, cut>>

TypeOK ==
  /\ attempts \in Seq(Methods)
  /\ dir \in [Names -> Files \cup {None}]
  /\ content \in [Files -> SUBSET (1..Chunks)]
  /\ copy \in BOOLEAN
  /\ pc \in [Builder -> {"idle", "test", "clone", "open", "write", "mv",
                         "rm tmp", "rm copy", "done"}]
  /\ try \in [Builder -> 1 .. Len(attempts)]
  /\ fd \in [Builder -> Files \cup {None}]
  /\ off \in [Builder -> 0..Chunks]
  /\ cut \in BOOLEAN

Init ==
  /\ \E primary \in PrimarySites, method \in SiteMethods,
        only, backup \in BOOLEAN :
       attempts = AttemptsWith(primary, only, method, backup)
  /\ attempts # <<>>   \* without any, DOWNLOAD fails at once
  /\ dir = [n \in Names |-> None]
  /\ content = [f \in Files |-> {}]
  /\ copy = FALSE
  /\ pc = [b \in Builder |-> "idle"]
  /\ try = [b \in Builder |-> 1]
  /\ fd = [b \in Builder |-> None]
  /\ off = [b \in Builder |-> 0]
  /\ cut = FALSE

Method(b) == attempts[try[b]]
Whole(f)  == f # None /\ content[f] = 1..Chunks

Goto(b, where) == pc' = [pc EXCEPT ![b] = where]

TryNextForever(b) ==
  Goto(b, "test") /\ try' = [try EXCEPT ![b] = @ + 1]

\* The attempt has failed: the next one starts, with its own "test -e"; after
\* the last one the download fails ("exit 1") and make stops.
TryNext(b) ==
  IF try[b] < Len(attempts)
  THEN Goto(b, "test") /\ try' = [try EXCEPT ![b] = @ + 1]
  ELSE Goto(b, "idle") /\ try' = [try EXCEPT ![b] = 1]

-----------------------------------------------------------------------------
StartUnlessLeftover(b) ==
  /\ pc[b] = "idle" /\ dir["tmp"] = None
  /\ Goto(b, "test")
  /\ try' = [try EXCEPT ![b] = 1]
  /\ UNCHANGED <<attempts, dir, content, copy, fd, off, cut>>

Start(b) ==
  /\ pc[b] = "idle"
  /\ Goto(b, "test")
  /\ try' = [try EXCEPT ![b] = 1]
  /\ UNCHANGED <<attempts, dir, content, copy, fd, off, cut>>

\* "test -e $(DL_DIR)/$(2) ||": every method begins with it.
Test(b) ==
  /\ pc[b] = "test"
  /\ Goto(b, IF dir["archive"] # None THEN "done"
             ELSE IF Method(b) \in Cloned THEN "clone" ELSE "open")
  /\ UNCHANGED <<attempts, dir, content, copy, try, fd, off, cut>>

\* git clone, hg clone and svn export want the working copy not to be there.
Clone(b) ==
  /\ pc[b] = "clone" /\ ~copy
  /\ copy' = TRUE
  /\ Goto(b, "open")
  /\ UNCHANGED <<attempts, dir, content, try, fd, off, cut>>

\* They fail if it is, or if the server fails them; svn leaves what it had.
CloneFails(b) ==
  /\ pc[b] = "clone"
  /\ copy' \in IF Method(b) = "svn" THEN {copy, TRUE} ELSE {copy}
  /\ TryNext(b)
  /\ UNCHANGED <<attempts, dir, content, fd, off, cut>>

OutputInPlace(b) == "archive"

\* The name a method writes to.
Output(b) == IF Method(b) = "wget" THEN "tmp" ELSE "archive"

\* The output is truncated if it exists, or a new file is made.
Open(b) ==
  /\ pc[b] = "open"
  /\ LET n == Output(b)
         Used == {dir[m] : m \in Names} \cup {fd[c] : c \in Builder}
         f == IF dir[n] # None THEN dir[n]
              ELSE CHOOSE g \in Files \ Used : TRUE
     IN /\ dir' = [dir EXCEPT ![n] = f]
        /\ content' = [content EXCEPT ![f] = {}]
        /\ fd' = [fd EXCEPT ![b] = f]
  /\ off' = [off EXCEPT ![b] = 0]
  /\ Goto(b, "write")
  /\ UNCHANGED <<attempts, copy, try, cut>>

Write(b) ==
  /\ pc[b] = "write" /\ off[b] < Chunks
  /\ content' = [content EXCEPT ![fd[b]] = @ \cup {off[b] + 1}]
  /\ off' = [off EXCEPT ![b] = @ + 1]
  /\ UNCHANGED <<attempts, dir, copy, pc, try, fd, cut>>

\* wget of c has been started, and the "mv" that is to follow it is still to come.
WillRename(c) == pc[c] = "mv" \/ (pc[c] = "write" /\ Method(c) = "wget")

\* A transfer that ends early is exposed if its file is the archive already, or is
\* what a builder that is past its wget, or in it, will rename to that.
Exposed(b) ==
  /\ fd[b] # None
  /\ \/ fd[b] = dir["archive"]
     \/ fd[b] = dir["tmp"] /\ \E c \in Builder \ {b} : WillRename(c)

Close(b) == fd' = [fd EXCEPT ![b] = None] /\ off' = [off EXCEPT ![b] = 0]

\* What follows a finished transfer.
AfterWrite(b) ==
  IF Method(b) = "wget" THEN "mv"
  ELSE IF Method(b) \in Cloned THEN "rm copy" ELSE "done"

CompleteButOne(b) == off[b] >= Chunks - 1

Complete(b) == off[b] = Chunks

Finish(b) ==
  /\ pc[b] = "write" /\ Complete(b)
  /\ Close(b)
  /\ Goto(b, AfterWrite(b))
  /\ UNCHANGED <<attempts, dir, content, copy, try, cut>>

\* The transfer fails.  wget's file is removed next; the others stay under the
\* archive's name.  In "git archive | gzip" the failure goes unnoticed.
TransferFails(b) ==
  /\ pc[b] = "write" /\ off[b] < Chunks
  /\ Close(b)
  /\ CASE Method(b) = "wget" -> Goto(b, "rm tmp") /\ UNCHANGED try
       [] Method(b) = "git"  -> Goto(b, "rm copy") /\ UNCHANGED try
       [] OTHER              -> TryNext(b)
  /\ cut' = (cut \/ Exposed(b))
  /\ UNCHANGED <<attempts, dir, content, copy>>

Mv(b) ==
  /\ pc[b] = "mv"
  /\ IF dir["tmp"] # None
     THEN /\ dir' = [dir EXCEPT !["archive"] = dir["tmp"], !["tmp"] = None]
          /\ Goto(b, "done")
     ELSE Goto(b, "rm tmp") /\ UNCHANGED dir
  /\ UNCHANGED <<attempts, content, copy, try, fd, off, cut>>

\* "(rm -f $(DL_DIR)/$(2).tmp ; exit 1)"
RmTmp(b) ==
  /\ pc[b] = "rm tmp"
  /\ dir' = [dir EXCEPT !["tmp"] = None]
  /\ TryNext(b)
  /\ UNCHANGED <<attempts, content, copy, fd, off, cut>>

RmCopy(b) ==
  /\ pc[b] = "rm copy"
  /\ copy' = FALSE
  /\ Goto(b, "done")
  /\ UNCHANGED <<attempts, dir, content, try, fd, off, cut>>

\* Make is interrupted.  What is under a name stays.
Kill(b) ==
  /\ pc[b] \notin {"idle", "done"}
  /\ Goto(b, "idle")
  /\ Close(b)
  /\ cut' = (cut \/ Exposed(b))
  /\ UNCHANGED <<attempts, dir, content, copy, try>>

Step(b) ==
  \/ Start(b) \/ Test(b) \/ Clone(b) \/ Open(b) \/ Write(b) \/ Finish(b)
  \/ Mv(b) \/ RmTmp(b) \/ RmCopy(b)

Failure(b) == CloneFails(b) \/ TransferFails(b)

Next == \E b \in Builder : Step(b) \/ Failure(b) \/ Kill(b)

Spec == Init /\ [][Next]_vars

-----------------------------------------------------------------------------
(* Properties.                                                             *)

\* pkg-download.mk:177-188.  With wget the archive appears in the download
\* directory in one step, complete, and is never touched again, whichever
\* download fails or is interrupted: the file wget writes has another name.
Published ==
  IF dir["archive"] = None THEN "missing"
  ELSE IF Whole(dir["archive"]) THEN "whole" ELSE "partial"

Atomic == INSTANCE AtomicFile WITH file <- Published
AppearsWhole == Atomic!Spec

\* docs/manual/common-usage.txt:46-48 "you can safely run multiple builds in
\* parallel using the same source tree as long as they use unique output
\* directories": a builder that goes on to extract the archive finds it whole.
DownloadedIsWhole == \A b \in Builder : pc[b] = "done" => Whole(dir["archive"])

\* pkg-download.mk:82-201.  Whatever the methods and however many builders
\* share the directory, and although two of them may write to, truncate, rename
\* or remove one another's file: an archive nobody is writing is whole, unless a
\* transfer was cut short, by a failure or a kill, that wrote under the archive's own
\* name (lines 91, 144: what it leaves there is taken for the archive) or under the
\* name another builder was about to rename.  A wget cut short at any other time
\* is no exception: what it leaves does no harm.
QuietIsWhole ==
  (\A b \in Builder : fd[b] = None) /\ dir["archive"] # None /\ ~cut =>
    Whole(dir["archive"])

\* pkg-download.mk:177-188.  Once sites and users let it, wget's download
\* succeeds: nothing an earlier attempt left behind stands in its way.
Fairness == \A b \in Builder : WF_vars(Step(b))
LiveSpec == Spec /\ Fairness

Succeeds ==
  (\A b \in Builder : <>[][~Failure(b) /\ ~Kill(b)]_vars)
    => \A b \in Builder : <>(pc[b] = "done")
=============================================================================
