------------------------------ MODULE Package ------------------------------
(***************************************************************************)
(* The packages of one directory of the tree, as make builds them:         *)
(* scripts/Makefile (order of the prerequisites of __build),               *)
(* scripts/download.mk (fetching, .dwl stamps) and scripts/project.mk      *)
(* (configure, build, install to a staging directory, publish).            *)
(*                                                                         *)
(* The disk survives from one make to the next; everything make decided    *)
(* when it parsed its makefiles does not.  A recipe is two or more steps,  *)
(* so that a failure, or a kill of the whole make, can fall inside it and  *)
(* the recipes of make -j interleave.                                      *)
(***************************************************************************)
EXTENDS Naturals, FiniteSets

CONSTANTS
  Packages,     \* $(subproject-y) of the directory
  Dependances,  \* $(<pkg>-dependances)
  Method,       \* how cmd_download fetches: "tar", "file" or "git"
  DestInBuild,  \* packages whose build targets already write the staging
                \* directory (the kernel: modules_install, headers_install)
  KeepCopy,     \* BUILD_DOWNLOAD_KEEP_COPY, set by make D=<dir>
  Jobs,         \* make -j <Jobs>
  Breakable,    \* the steps in which faults are considered
  MaxFaults     \* bound on the number of faults

Steps == {"download", "configure", "build", "install", "publish"}

ASSUME PackagesAssumption ==
  /\ IsFiniteSet(Packages)
  /\ Dependances \in [Packages -> SUBSET Packages]
  /\ Method \in [Packages -> {"tar", "file", "git"}]
  /\ DestInBuild \subseteq Packages
  /\ KeepCopy \in BOOLEAN
ASSUME JobsAssumption == Jobs \in Nat \ {0}
ASSUME FaultsAssumption == Breakable \subseteq Steps /\ MaxFaults \in Nat

(* make drops a circular prerequisite with a warning; no package has one.  *)
ASSUME AcyclicAssumption ==
  \E rank \in [Packages -> 1..Cardinality(Packages)] :
    \A p \in Packages : \A d \in Dependances[p] : rank[d] < rank[p]

VARIABLES
  tree,     \* the source tree $(src)/<pkg>[-<version>]
  copy,     \* the archive kept in $(BUILD_DOWNLOAD_PATH)
  dwl,      \* packages with a stamp $(obj)/.<pkg>.dwl
  dest,     \* the staging directory $(packagesdir)/<pkg>[-<version>]
  marked,   \* packages with a stamp <staging directory>/.post-install
  sysroot,  \* the package's files in $(sysroot) and $(rootfs)
  phase,    \* "idle", "running", or "failed": waiting for unfinished jobs
  goal,     \* the goal of the running make, or of the last one
  last,     \* how the last make ended
  missing,  \* staging directories that $(wildcard) did not find at parsing
  dl,       \* state of each download target
  pc,       \* state of each package's chain of targets
  faults    \* number of faults so far

disk == <<tree, copy, dwl, dest, marked, sysroot>>
vars == <<disk, phase, goal, last, missing, dl, pc, faults>>

Extent == {"absent", "partial", "complete"}
Fetching == {"wget", "cat", "clone"}
Working == {"configuring", "building", "installing", "installed",
            "publishing", "published"}

(* The chain of a package from its configuration to its .post-install.     *)
Opened == {"configuring", "configured", "building", "built", "installing",
           "installed"}

(* Consistency of the variables; an idle make has no job left behind.      *)
TypeOK ==
  /\ tree \in [Packages -> Extent]
  /\ copy \in [Packages -> Extent]
  /\ dest \in [Packages -> Extent]
  /\ sysroot \in [Packages -> Extent]
  /\ dwl \subseteq Packages
  /\ marked \subseteq Packages
  /\ missing \subseteq Packages
  /\ phase \in {"idle", "running", "failed"}
  /\ goal \in {"build", "download"}
  /\ last \in {"none", "ok", "error", "killed"}
  /\ dl \in [Packages -> Fetching \cup {"todo", "done"}]
  /\ pc \in [Packages -> Working \cup {"todo", "configured", "built",
                                       "ready", "done"}]
  /\ faults \in Nat
  /\ phase = "idle" => \A p \in Packages : dl[p] \notin Fetching
  /\ phase = "idle" \/ goal = "download" =>
       \A p \in Packages : pc[p] \notin Working

Init ==
  /\ tree = [p \in Packages |-> "absent"]
  /\ copy = [p \in Packages |-> "absent"]
  /\ dest = [p \in Packages |-> "absent"]
  /\ sysroot = [p \in Packages |-> "absent"]
  /\ dwl = {} /\ marked = {} /\ missing = {}
  /\ phase = "idle" /\ goal = "build" /\ last = "none"
  /\ dl = [p \in Packages |-> "todo"]
  /\ pc = [p \in Packages |-> "todo"]
  /\ faults = 0
-----------------------------------------------------------------------------
(* Scheduling: make starts a job only when it has a slot and no job failed.*)

DownloadJobs == {p \in Packages : dl[p] \in Fetching}
PackageJobs == {p \in Packages : pc[p] \in Working}

Slot ==
  /\ phase = "running"
  /\ Cardinality(DownloadJobs) + Cardinality(PackageJobs) < Jobs

(* The prerequisites of __build are considered from left to right:         *)
(* $(download-target) comes before $(subproject-y).  Under a serial make   *)
(* one package's chain is finished before the next one is opened.          *)
MutInOrder(p) ==
  /\ goal = "build"
  /\ Jobs = 1 => \A q \in Packages \ {p} : pc[q] \in {"todo", "done"}
InOrder(p) ==
  /\ goal = "build"
  /\ \A q \in Packages : dl[q] # "todo"
  /\ Jobs = 1 => \A q \in Packages \ {p} : pc[q] \in {"todo", "done"}

(* Parsing: what exists is looked up once, before any recipe runs.         *)
MutInvoke(g) ==
  /\ phase = "idle"
  /\ phase' = "running" /\ goal' = g /\ last' = "none"
  /\ missing' = Packages \ marked
  /\ dl' = [p \in Packages |-> IF p \in dwl THEN "done" ELSE "todo"]
  /\ pc' = [p \in Packages |-> "todo"]
  /\ UNCHANGED <<disk, faults>>
Invoke(g) ==
  /\ phase = "idle"
  /\ phase' = "running" /\ goal' = g /\ last' = "none"
  /\ missing' = {p \in Packages : dest[p] = "absent"}
  /\ dl' = [p \in Packages |-> IF p \in dwl THEN "done" ELSE "todo"]
  /\ pc' = [p \in Packages |-> "todo"]
  /\ UNCHANGED <<disk, faults>>

MutSucceed ==
  /\ phase = "running"
  /\ \A p \in Packages : dl[p] = "done"
  /\ phase' = "idle" /\ last' = "ok"
  /\ UNCHANGED <<disk, goal, missing, dl, pc, faults>>
Succeed ==
  /\ phase = "running"
  /\ \A p \in Packages : dl[p] = "done"
  /\ goal = "build" => \A p \in Packages : pc[p] = "done"
  /\ phase' = "idle" /\ last' = "ok"
  /\ UNCHANGED <<disk, goal, missing, dl, pc, faults>>

(* After a failure make waits for the jobs it started, then exits.         *)
MutGiveUp ==
  /\ phase = "failed"
  /\ phase' = "idle" /\ last' = "error"
  /\ UNCHANGED <<disk, goal, missing, dl, pc, faults>>
GiveUp ==
  /\ phase = "failed"
  /\ DownloadJobs = {} /\ PackageJobs = {}
  /\ phase' = "idle" /\ last' = "error"
  /\ UNCHANGED <<disk, goal, missing, dl, pc, faults>>
-----------------------------------------------------------------------------
(* Fetching: the rule for $(obj)/.%.dwl.                                   *)

(* The rule looks for $(src)/<pkg>: sprj-version is not set where it is    *)
(* expanded, so the versioned directory of an archive is never seen.       *)
MutTreeSeen(p) == tree[p] # "absent"
TreeSeen(p) == Method[p] \in {"file", "git"} /\ tree[p] # "absent"

SkipDownload(p) ==
  /\ Slot /\ dl[p] = "todo" /\ TreeSeen(p)
  /\ dl' = [dl EXCEPT ![p] = "done"]
  /\ dwl' = dwl \cup {p}
  /\ UNCHANGED <<tree, copy, dest, marked, sysroot, phase, goal, last,
                 missing, pc, faults>>

(* download-short prefers a copy already kept; tee keeps one of what wget  *)
(* brings; git clone writes the tree itself.                               *)
StartDownload(p) ==
  LET from == IF Method[p] = "git" THEN "clone"
              ELSE IF copy[p] # "absent" THEN "cat" ELSE "wget"
  IN /\ Slot /\ dl[p] = "todo" /\ ~TreeSeen(p)
     /\ dl' = [dl EXCEPT ![p] = from]
     /\ tree' = [tree EXCEPT ![p] = "partial"]
     /\ copy' = IF from = "wget" /\ KeepCopy
                THEN [copy EXCEPT ![p] = "partial"] ELSE copy
     /\ UNCHANGED <<dwl, dest, marked, sysroot, phase, goal, last, missing,
                    pc, faults>>

(* The pipe reached its end; tar refuses a truncated archive, a plain      *)
(* redirection does not.                                                   *)
FinishDownload(p) ==
  LET whole == dl[p] = "cat" => copy[p] = "complete"
  IN /\ dl[p] \in Fetching
     /\ whole \/ Method[p] = "file"
     /\ dl' = [dl EXCEPT ![p] = "done"]
     /\ dwl' = dwl \cup {p}
     /\ tree' = [tree EXCEPT ![p] = IF whole THEN "complete" ELSE "partial"]
     /\ copy' = IF dl[p] = "wget" /\ KeepCopy
                THEN [copy EXCEPT ![p] = "complete"] ELSE copy
     /\ UNCHANGED <<dest, marked, sysroot, phase, goal, last, missing, pc,
                    faults>>

(* tar fails on the truncated copy that an earlier make left behind.       *)
RefuseCopy(p) ==
  /\ dl[p] = "cat" /\ Method[p] = "tar" /\ copy[p] = "partial"
  /\ dl' = [dl EXCEPT ![p] = "todo"]
  /\ phase' = "failed"
  /\ UNCHANGED <<disk, goal, last, missing, pc, faults>>

(* The transfer stops early.  The status of a pipeline is that of its last *)
(* command: tar and a lone wget report it, tee does not.  git removes the  *)
(* clone it could not finish.                                              *)
BreakDownload(p) ==
  LET unnoticed == Method[p] = "file" /\ KeepCopy
  IN /\ dl[p] \in {"wget", "clone"}
     /\ "download" \in Breakable /\ faults < MaxFaults
     /\ faults' = faults + 1
     /\ dl' = [dl EXCEPT ![p] = IF unnoticed THEN "done" ELSE "todo"]
     /\ dwl' = IF unnoticed THEN dwl \cup {p} ELSE dwl
     /\ phase' = IF unnoticed THEN phase ELSE "failed"
     /\ tree' = IF Method[p] = "git" THEN [tree EXCEPT ![p] = "absent"]
                ELSE tree
     /\ UNCHANGED <<copy, dest, marked, sysroot, goal, last, missing, pc>>
-----------------------------------------------------------------------------
(* The chain <pkg>-configure, <pkg>-build, staging directory, <pkg>.       *)

(* The only mention of the staging directory among the prerequisites of    *)
(* <pkg> is dropped when parsing found it.                                 *)
InChain(p) == p \in missing

MutStartConfigure(p) ==
  /\ Slot /\ InOrder(p) /\ InChain(p) /\ pc[p] = "todo"
  /\ pc' = [pc EXCEPT ![p] = "configuring"]
  /\ UNCHANGED <<disk, phase, goal, last, missing, dl, faults>>
StartConfigure(p) ==
  /\ Slot /\ InOrder(p) /\ InChain(p)
  /\ pc[p] = "todo" /\ \A d \in Dependances[p] : pc[d] = "done"
  /\ pc' = [pc EXCEPT ![p] = "configuring"]
  /\ UNCHANGED <<disk, phase, goal, last, missing, dl, faults>>

FinishConfigure(p) ==
  /\ pc[p] = "configuring"
  /\ pc' = [pc EXCEPT ![p] = "configured"]
  /\ UNCHANGED <<disk, phase, goal, last, missing, dl, faults>>

StartBuild(p) ==
  /\ Slot /\ InOrder(p) /\ pc[p] = "configured"
  /\ pc' = [pc EXCEPT ![p] = "building"]
  /\ dest' = IF p \in DestInBuild THEN [dest EXCEPT ![p] = "partial"] ELSE dest
  /\ UNCHANGED <<tree, copy, dwl, marked, sysroot, phase, goal, last, missing,
                 dl, faults>>

FinishBuild(p) ==
  /\ pc[p] = "building"
  /\ pc' = [pc EXCEPT ![p] = "built"]
  /\ UNCHANGED <<disk, phase, goal, last, missing, dl, faults>>

(* The recipe makes the directory before it runs the package's own install.*)
MutStartInstall(p) ==
  /\ Slot /\ InOrder(p) /\ pc[p] = "built"
  /\ pc' = [pc EXCEPT ![p] = "installing"]
  /\ dest' = [dest EXCEPT ![p] = "partial"]
  /\ marked' = marked \cup {p}
  /\ UNCHANGED <<tree, copy, dwl, sysroot, phase, goal, last, missing, dl,
                 faults>>
StartInstall(p) ==
  /\ Slot /\ InOrder(p) /\ pc[p] = "built"
  /\ pc' = [pc EXCEPT ![p] = "installing"]
  /\ dest' = [dest EXCEPT ![p] = "partial"]
  /\ UNCHANGED <<tree, copy, dwl, marked, sysroot, phase, goal, last, missing,
                 dl, faults>>

FinishInstall(p) ==
  /\ pc[p] = "installing"
  /\ pc' = [pc EXCEPT ![p] = "installed"]
  /\ dest' = [dest EXCEPT ![p] = "complete"]
  /\ UNCHANGED <<tree, copy, dwl, marked, sysroot, phase, goal, last, missing,
                 dl, faults>>

TouchPostInstall(p) ==
  /\ pc[p] = "installed"
  /\ pc' = [pc EXCEPT ![p] = "ready"]
  /\ marked' = marked \cup {p}
  /\ UNCHANGED <<tree, copy, dwl, dest, sysroot, phase, goal, last, missing,
                 dl, faults>>

(* post-install-project reads .post-install when its recipe is expanded.   *)
StartPublish(p) ==
  /\ Slot /\ InOrder(p)
  /\ pc[p] = "ready" \/ (pc[p] = "todo" /\ ~InChain(p))
  /\ pc' = [pc EXCEPT ![p] = IF p \in marked THEN "publishing" ELSE "done"]
  /\ sysroot' = IF p \in marked THEN [sysroot EXCEPT ![p] = "partial"]
                ELSE sysroot
  /\ UNCHANGED <<tree, copy, dwl, dest, marked, phase, goal, last, missing,
                 dl, faults>>

FinishPublish(p) ==
  /\ pc[p] = "publishing"
  /\ pc' = [pc EXCEPT ![p] = "published"]
  /\ sysroot' = [sysroot EXCEPT ![p] = dest[p]]
  /\ UNCHANGED <<tree, copy, dwl, dest, marked, phase, goal, last, missing,
                 dl, faults>>

MutRemovePostInstall(p) ==
  /\ pc[p] \in {"publishing", "published"}
  /\ pc' = [pc EXCEPT ![p] = "done"]
  /\ marked' = marked \ {p}
  /\ UNCHANGED <<tree, copy, dwl, dest, sysroot, phase, goal, last, missing,
                 dl, faults>>
RemovePostInstall(p) ==
  /\ pc[p] = "published"
  /\ pc' = [pc EXCEPT ![p] = "done"]
  /\ marked' = marked \ {p}
  /\ UNCHANGED <<tree, copy, dwl, dest, sysroot, phase, goal, last, missing,
                 dl, faults>>
-----------------------------------------------------------------------------
(* Faults of the chain, and of make as a whole.                            *)

StepOf(p) ==
  CASE pc[p] = "configuring" -> "configure"
    [] pc[p] = "building" -> "build"
    [] pc[p] \in {"installing", "installed"} -> "install"
    [] OTHER -> "publish"

(* A command of the recipe fails: what it wrote stays.                     *)
BreakPackage(p) ==
  /\ p \in PackageJobs /\ StepOf(p) \in Breakable /\ faults < MaxFaults
  /\ faults' = faults + 1
  /\ phase' = "failed"
  /\ pc' = [pc EXCEPT ![p] = "todo"]
  /\ UNCHANGED <<disk, goal, last, missing, dl>>

(* make and all its jobs are killed, or the host goes down.                *)
Kill ==
  /\ phase # "idle" /\ faults < MaxFaults
  /\ DownloadJobs # {} => "download" \in Breakable
  /\ \A p \in PackageJobs : StepOf(p) \in Breakable
  /\ faults' = faults + 1
  /\ phase' = "idle" /\ last' = "killed"
  /\ dl' = [p \in Packages |-> "todo"]
  /\ pc' = [p \in Packages |-> "todo"]
  /\ UNCHANGED <<disk, goal, missing>>
-----------------------------------------------------------------------------
Download(p) == SkipDownload(p) \/ StartDownload(p) \/ FinishDownload(p)
                 \/ RefuseCopy(p)
Chain(p) == \/ StartConfigure(p) \/ FinishConfigure(p)
            \/ StartBuild(p) \/ FinishBuild(p)
            \/ StartInstall(p) \/ FinishInstall(p) \/ TouchPostInstall(p)
            \/ StartPublish(p) \/ FinishPublish(p) \/ RemovePostInstall(p)
End == Succeed \/ GiveUp

Next ==
  \/ \E g \in {"build", "download"} : Invoke(g)
  \/ End
  \/ \E p \in Packages : Download(p) \/ Chain(p)
  \/ \E p \in Packages : BreakDownload(p) \/ BreakPackage(p)
  \/ Kill

Spec == Init /\ [][Next]_vars

(* make never stops while it has something to do, every command returns,   *)
(* and the user runs make again for as long as it is needed, not only      *)
(* "make download".                                                        *)
Fairness ==
  /\ SF_vars(Invoke("build"))
  /\ WF_vars(End)
  /\ \A p \in Packages : WF_vars(Download(p)) /\ WF_vars(Chain(p))

FairSpec == Spec /\ Fairness
-----------------------------------------------------------------------------
(* Properties.                                                             *)

(* A .post-install stamp, the only thing post-install-project looks at     *)
(* before it copies a staging directory into the root file system, never   *)
(* stands in a directory whose installation was cut short.                 *)
MarkedIsInstalled == \A p \in marked : dest[p] = "complete"

(* A staging directory, whose mere existence makes every later make skip   *)
(* the package, either still waits for its publication, has been           *)
(* published, or is being filled by a job that is not over.                *)
NothingLost ==
  \A p \in Packages : dest[p] # "absent" =>
    \/ p \in marked
    \/ sysroot[p] = "complete"
    \/ pc[p] \in {"installing", "installed"}

(* When a package is configured, built or installed, all it needs is in    *)
(* the sysroot, whatever became of earlier makes.                          *)
NeedsArePublished ==
  \A p \in Packages : pc[p] \in Opened =>
    \A d \in Dependances[p] : sysroot[d] = "complete" /\ d \notin marked

(* When make ends well after "make", every package is in the sysroot.      *)
SuccessMeansPublished ==
  last = "ok" /\ goal = "build" => \A p \in Packages : sysroot[p] = "complete"

(* The .dwl stamp, which stops every later fetch, covers a whole tree.     *)
StampIsFetched == \A p \in dwl : tree[p] = "complete"

(* A package is configured only after its sources have been fetched.       *)
ConfiguredIsFetched == \A p \in Packages : pc[p] = "configuring" => p \in dwl

(* .post-install is removed only from a package that is all in the sysroot *)
(* and root file system: an interrupted copy is done again.                *)
UnmarkedOnlyWhenPublished ==
  [][\A p \in Packages : p \in marked \ marked' => sysroot[p] = "complete"]_vars

(* However often make fails or is killed before an installation starts,    *)
(* running it again ends with every package published.                     *)
EventuallyPublished ==
  <>[](\A p \in Packages : sysroot[p] = "complete" /\ p \notin marked)

(* The life of a package seen from the disk.                               *)
stageBar ==
  [p \in Packages |-> IF p \in marked THEN "installed"
                      ELSE IF sysroot[p] = "complete" THEN "published"
                      ELSE "none"]
Life == INSTANCE PackageLife WITH stage <- stageBar

(* Together the recipes implement the abstract life of packages.           *)
ImplementsLife == Life!LifeSafety

(* ... and, under fairness, its progress.                                  *)
ImplementsLifeFairly == Life!LifeSpec
=============================================================================
