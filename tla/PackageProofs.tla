--------------------------- MODULE PackageProofs ---------------------------
(***************************************************************************)
(* Proofs about Package, for any set of packages, any dependances, any     *)
(* number of jobs and any number of faults.                                *)
(***************************************************************************)
EXTENDS Package, FiniteSetTheorems, TLAPS

(* The steps that fetch touch neither the staging directories, nor the     *)
(* sysroot, nor the chains.                                                *)
FetchOnly ==
  /\ UNCHANGED <<dest, marked, sysroot, missing, pc, goal, last>>
  /\ phase # "idle"
  /\ phase' \in {phase, "failed"}

(* What holds whatever fails.                                              *)
SafeInv ==
  /\ TypeOK
  /\ MarkedIsInstalled
  /\ \A p \in Packages :
       /\ pc[p] \in Opened => p \notin marked
       /\ phase = "running" /\ pc[p] = "todo" /\ p \in missing => p \notin marked
       /\ pc[p] \in {"publishing", "published"} => p \in marked
       /\ pc[p] = "installed" => dest[p] = "complete"
       /\ pc[p] = "published" => sysroot[p] = "complete"

(* What holds when nothing fails during an installation and no build step  *)
(* writes the staging directory.                                           *)
InstallIsSafe == "install" \notin Breakable /\ DestInBuild = {}

LifeInv ==
  /\ NothingLost
  /\ \A p \in Packages :
       /\ pc[p] = "done" => sysroot[p] = "complete" /\ p \notin marked
       /\ pc[p] \in Opened =>
            /\ sysroot[p] = "absent"
            /\ \A d \in Dependances[p] : pc[d] = "done"
       /\ phase = "running" /\ pc[p] = "todo" /\ p \in missing
            => sysroot[p] = "absent"
       /\ sysroot[p] # "absent" => dest[p] = "complete"
       /\ phase # "idle" /\ p \notin missing => dest[p] # "absent"
       /\ pc[p] = "ready" => p \in marked
  /\ last = "ok" => phase = "idle"
  /\ SuccessMeansPublished
-----------------------------------------------------------------------------
LEMMA FetchStep ==
  ASSUME TypeOK, NEW p \in Packages, Download(p) \/ BreakDownload(p)
  PROVE  FetchOnly
  BY DEF TypeOK, Download, SkipDownload, StartDownload, FinishDownload,
         RefuseCopy, BreakDownload, FetchOnly, Slot, disk, Fetching

LEMMA TypeInit == Init => TypeOK
  BY PackagesAssumption DEF Init, TypeOK, Extent, Fetching, Working

(* Every action keeps the variables in their sets.                         *)
LEMMA TypeStep == TypeOK /\ [Next]_vars => TypeOK'
<1> SUFFICES ASSUME TypeOK, [Next]_vars PROVE TypeOK'
  OBVIOUS
<1> USE DEF TypeOK, Extent, Fetching, Working, disk
<1>1. ASSUME NEW g \in {"build", "download"}, Invoke(g) PROVE TypeOK'
  BY <1>1 DEF Invoke
<1>2. CASE End
  <2>1. CASE Succeed
    BY <2>1 DEF Succeed
  <2>2. CASE GiveUp
    BY <2>2 DEF GiveUp, DownloadJobs, PackageJobs
  <2> QED
    BY <1>2, <2>1, <2>2 DEF End
<1>3. ASSUME NEW p \in Packages, Download(p) PROVE TypeOK'
  <2>1. CASE SkipDownload(p)
    BY <2>1 DEF SkipDownload, Slot
  <2>2. CASE StartDownload(p)
    BY <2>2 DEF StartDownload, Slot
  <2>3. CASE FinishDownload(p)
    BY <2>3 DEF FinishDownload
  <2>4. CASE RefuseCopy(p)
    BY <2>4 DEF RefuseCopy
  <2> QED
    BY <1>3, <2>1, <2>2, <2>3, <2>4 DEF Download
<1>4. ASSUME NEW p \in Packages, Chain(p) PROVE TypeOK'
  <2>1. CASE StartConfigure(p) \/ FinishConfigure(p)
    BY <2>1 DEF StartConfigure, FinishConfigure, Slot, InOrder
  <2>2. CASE StartBuild(p) \/ FinishBuild(p)
    BY <2>2 DEF StartBuild, FinishBuild, Slot, InOrder
  <2>3. CASE StartInstall(p)
    BY <2>3 DEF StartInstall, Slot, InOrder
  <2>4. CASE FinishInstall(p) \/ TouchPostInstall(p)
    BY <2>4 DEF FinishInstall, TouchPostInstall
  <2>5. CASE StartPublish(p)
    BY <2>5 DEF StartPublish, Slot, InOrder
  <2>6. CASE FinishPublish(p) \/ RemovePostInstall(p)
    BY <2>6 DEF FinishPublish, RemovePostInstall
  <2> QED
    BY <1>4, <2>1, <2>2, <2>3, <2>4, <2>5, <2>6 DEF Chain
<1>5. ASSUME NEW p \in Packages, BreakDownload(p) PROVE TypeOK'
  BY <1>5 DEF BreakDownload
<1>6. ASSUME NEW p \in Packages, BreakPackage(p) PROVE TypeOK'
  BY <1>6 DEF BreakPackage, PackageJobs
<1>7. CASE Kill
  BY <1>7 DEF Kill
<1>8. CASE UNCHANGED vars
  BY <1>8 DEF vars
<1> QED
  BY <1>1, <1>2, <1>3, <1>4, <1>5, <1>6, <1>7, <1>8 DEF Next

(* The state of every make, of any width and with any faults, is           *)
(* consistent, and an idle make leaves no job behind.                      *)
THEOREM TypeCorrect == Spec => []TypeOK
  BY TypeInit, TypeStep, PTL DEF Spec
-----------------------------------------------------------------------------
LEMMA SafeInit == Init => SafeInv
  BY TypeInit DEF Init, SafeInv, MarkedIsInstalled, Opened

LEMMA SafeStep == SafeInv /\ [Next]_vars => SafeInv'
<1> SUFFICES ASSUME SafeInv, [Next]_vars PROVE SafeInv'
  OBVIOUS
<1>0. TypeOK /\ TypeOK'
  BY TypeStep DEF SafeInv
<1> USE <1>0 DEF SafeInv, MarkedIsInstalled, Opened, disk
<1>1. ASSUME NEW g \in {"build", "download"}, Invoke(g) PROVE SafeInv'
  BY <1>1 DEF Invoke, TypeOK
<1>2. CASE End
  BY <1>2 DEF End, Succeed, GiveUp
<1>3. ASSUME NEW p \in Packages, Download(p) \/ BreakDownload(p) PROVE SafeInv'
  BY <1>3, FetchStep DEF FetchOnly
<1>4. ASSUME NEW p \in Packages, Chain(p) PROVE SafeInv'
  <2> USE DEF TypeOK
  <2>1. CASE StartConfigure(p)
    BY <2>1 DEF StartConfigure, Slot, InChain
  <2>2. CASE FinishConfigure(p) \/ FinishBuild(p)
    BY <2>2 DEF FinishConfigure, FinishBuild
  <2>3. CASE StartBuild(p)
    BY <2>3 DEF StartBuild
  <2>4. CASE StartInstall(p)
    BY <2>4 DEF StartInstall
  <2>5. CASE FinishInstall(p)
    BY <2>5 DEF FinishInstall
  <2>6. CASE TouchPostInstall(p)
    BY <2>6 DEF TouchPostInstall
  <2>7. CASE StartPublish(p)
    BY <2>7 DEF StartPublish
  <2>8. CASE FinishPublish(p)
    BY <2>8 DEF FinishPublish
  <2>9. CASE RemovePostInstall(p)
    BY <2>9 DEF RemovePostInstall
  <2> QED
    BY <1>4, <2>1, <2>2, <2>3, <2>4, <2>5, <2>6, <2>7, <2>8, <2>9 DEF Chain
<1>5. ASSUME NEW p \in Packages, BreakPackage(p) PROVE SafeInv'
  BY <1>5 DEF BreakPackage, TypeOK
<1>6. CASE Kill
  BY <1>6 DEF Kill
<1>7. CASE UNCHANGED vars
  BY <1>7 DEF vars
<1> QED
  BY <1>1, <1>2, <1>3, <1>4, <1>5, <1>6, <1>7 DEF Next

LEMMA SafeAlways == Spec => []SafeInv
  BY SafeInit, SafeStep, PTL DEF Spec

(* Whatever fails or is killed, in an installation too, a .post-install    *)
(* stamp is never found in a half-filled staging directory, so half a      *)
(* package is never copied into the root file system.                      *)
THEOREM NoPartialPublication == Spec => []MarkedIsInstalled
  BY SafeAlways, PTL DEF SafeInv

(* Whatever fails or is killed, the .post-install stamp outlives every     *)
(* copy that is not whole.                                                 *)
THEOREM PublicationIsRetried == Spec => UnmarkedOnlyWhenPublished
<1>1. SafeInv /\ [Next]_vars =>
        [\A p \in Packages : p \in marked \ marked' => sysroot[p] = "complete"]_vars
  <2> SUFFICES ASSUME SafeInv, Next,
                      NEW q \in Packages, q \in marked, q \notin marked'
               PROVE  sysroot[q] = "complete"
    OBVIOUS
  <2>1. ASSUME NEW p \in Packages, Chain(p) PROVE RemovePostInstall(q)
    BY <2>1 DEF Chain, StartConfigure, FinishConfigure, StartBuild,
         FinishBuild, StartInstall, FinishInstall, TouchPostInstall,
         StartPublish, FinishPublish, RemovePostInstall, disk
  <2>2. RemovePostInstall(q)
    <3>1. ASSUME NEW p \in Packages, Download(p) \/ BreakDownload(p) PROVE FALSE
      BY <3>1, FetchStep DEF FetchOnly, SafeInv
    <3> QED
      BY <2>1, <3>1 DEF Next, Invoke, End, Succeed, GiveUp, BreakPackage,
           Kill, disk
  <2> QED
    BY <2>2 DEF SafeInv, RemovePostInstall
<1> QED
  BY <1>1, SafeAlways, PTL DEF Spec, UnmarkedOnlyWhenPublished
-----------------------------------------------------------------------------
LEMMA LifeInitially == Init => LifeInv
  BY DEF Init, LifeInv, NothingLost, SuccessMeansPublished, Opened

(* FinishPublish copies a directory that SafeInv knows to be whole, and    *)
(* no fault strikes while the directory is neither absent nor whole.       *)
LEMMA LifeStep ==
  ASSUME InstallIsSafe, SafeInv, LifeInv, [Next]_vars
  PROVE  LifeInv'
<1>0. TypeOK /\ TypeOK'
  BY TypeStep DEF SafeInv
<1> USE <1>0, PackagesAssumption
    DEF LifeInv, NothingLost, SuccessMeansPublished, Opened, disk
<1>1. ASSUME NEW g \in {"build", "download"}, Invoke(g) PROVE LifeInv'
  <2>1. \A p \in Packages : pc[p] \notin Working
    BY <1>1 DEF Invoke, TypeOK
  <2> QED
    BY <1>1, <2>1 DEF Invoke, TypeOK, Working
<1>2. CASE End
  <2>1. CASE Succeed
    BY <2>1 DEF Succeed
  <2>2. CASE GiveUp
    BY <2>2 DEF GiveUp
  <2> QED
    BY <1>2, <2>1, <2>2 DEF End
<1>3. ASSUME NEW p \in Packages, Download(p) \/ BreakDownload(p) PROVE LifeInv'
  BY <1>3, FetchStep DEF FetchOnly
<1>4. ASSUME NEW p \in Packages, Chain(p) PROVE LifeInv'
  <2> USE DEF TypeOK
  <2>0. phase # "idle" \/ pc[p] \notin Working
    BY DEF SafeInv
  <2>1. CASE StartConfigure(p)
    BY <2>1 DEF StartConfigure, Slot, InChain
  <2>2. CASE FinishConfigure(p) \/ FinishBuild(p)
    BY <2>2 DEF FinishConfigure, FinishBuild
  <2>3. CASE StartBuild(p)
    BY <2>3 DEF StartBuild, InstallIsSafe
  <2>4. CASE StartInstall(p)
    BY <2>4 DEF StartInstall
  <2>5. CASE FinishInstall(p)
    BY <2>5 DEF FinishInstall
  <2>6. CASE TouchPostInstall(p)
    BY <2>6 DEF TouchPostInstall
  <2>7. CASE StartPublish(p)
    BY <2>7 DEF StartPublish, Slot, InChain, SafeInv, MarkedIsInstalled
  <2>8. CASE FinishPublish(p)
    BY <2>8 DEF FinishPublish, SafeInv, MarkedIsInstalled
  <2>9. CASE RemovePostInstall(p)
    BY <2>9 DEF RemovePostInstall, SafeInv
  <2> QED
    BY <1>4, <2>1, <2>2, <2>3, <2>4, <2>5, <2>6, <2>7, <2>8, <2>9 DEF Chain
<1>5. ASSUME NEW p \in Packages, BreakPackage(p) PROVE LifeInv'
  <2>1. pc[p] \notin {"installing", "installed"}
    BY <1>5 DEF BreakPackage, StepOf, InstallIsSafe
  <2> QED
    BY <1>5, <2>1 DEF BreakPackage, PackageJobs, TypeOK, Working
<1>6. CASE Kill
  <2>1. \A p \in Packages : pc[p] \notin {"installing", "installed"}
    BY <1>6 DEF Kill, StepOf, InstallIsSafe, PackageJobs, Working
  <2> QED
    BY <1>6, <2>1 DEF Kill
<1>7. CASE UNCHANGED vars
  BY <1>7 DEF vars
<1> QED
  BY <1>1, <1>2, <1>3, <1>4, <1>5, <1>6, <1>7 DEF Next

LEMMA LifeAlways == ASSUME InstallIsSafe PROVE Spec => [](SafeInv /\ LifeInv)
<1>1. Init => SafeInv /\ LifeInv
  BY SafeInit, LifeInitially
<1>2. SafeInv /\ LifeInv /\ [Next]_vars => (SafeInv /\ LifeInv)'
  BY SafeStep, LifeStep
<1> QED
  BY <1>1, <1>2, PTL DEF Spec

(* As long as installations are not cut short, no staging directory hides  *)
(* from later makes a package that was never published.                    *)
THEOREM NothingIsLost == ASSUME InstallIsSafe PROVE Spec => []NothingLost
  BY LifeAlways, PTL DEF LifeInv

(* ... a package is only configured, built and installed on top of all     *)
(* that it needs, in parallel makes and after any earlier failure ...      *)
THEOREM NeedsComeFirst == ASSUME InstallIsSafe PROVE Spec => []NeedsArePublished
<1>1. SafeInv /\ LifeInv => NeedsArePublished
  BY PackagesAssumption DEF LifeInv, NeedsArePublished
<1> QED
  BY <1>1, LifeAlways, PTL

(* ... and a make that ends well has published everything.                 *)
THEOREM SuccessIsReal == ASSUME InstallIsSafe PROVE Spec => []SuccessMeansPublished
  BY LifeAlways, PTL DEF LifeInv
-----------------------------------------------------------------------------
(* A chain step either leaves the stage of every package alone, or is the  *)
(* touch of .post-install, which is Install, or its removal, which is      *)
(* Publish.                                                                *)
LEMMA LifeMapsStep ==
  ASSUME InstallIsSafe, SafeInv, LifeInv, [Next]_vars
  PROVE  [Life!LifeNext]_stageBar
<1> USE DEF disk, Opened
<1>0. TypeOK /\ LifeInv'
  BY LifeStep DEF SafeInv
<1>1. ASSUME UNCHANGED <<marked, sysroot>> PROVE stageBar' = stageBar
  BY <1>1 DEF stageBar
<1>2. ASSUME NEW p \in Packages, TouchPostInstall(p) PROVE Life!Install(p)
  <2>1. /\ p \notin marked /\ sysroot[p] # "complete"
        /\ \A d \in Dependances[p] : sysroot[d] = "complete" /\ d \notin marked
    BY <1>2, PackagesAssumption DEF TouchPostInstall, SafeInv, LifeInv
  <2>2. \A d \in Dependances[p] : d \in Packages
    BY PackagesAssumption
  <2>3. stageBar' = [stageBar EXCEPT ![p] = "installed"]
    BY <1>2 DEF TouchPostInstall, stageBar
  <2> QED
    BY <2>1, <2>2, <2>3 DEF Life!Install, stageBar
<1>3. ASSUME NEW p \in Packages, RemovePostInstall(p) PROVE Life!Publish(p)
  BY <1>3 DEF RemovePostInstall, SafeInv, Life!Publish, stageBar
<1>4. ASSUME NEW p \in Packages, StartPublish(p) PROVE stageBar' = stageBar
  BY <1>4 DEF StartPublish, stageBar
<1>5. ASSUME NEW p \in Packages, FinishPublish(p) PROVE stageBar' = stageBar
  BY <1>5 DEF FinishPublish, SafeInv, stageBar
<1>6. ASSUME NEW p \in Packages, Chain(p) PROVE [Life!LifeNext]_stageBar
  <2>1. CASE TouchPostInstall(p) \/ RemovePostInstall(p)
    BY <2>1, <1>2, <1>3 DEF Life!LifeNext
  <2>2. CASE StartPublish(p) \/ FinishPublish(p)
    BY <2>2, <1>4, <1>5
  <2>3. CASE \/ StartConfigure(p) \/ FinishConfigure(p) \/ StartBuild(p)
             \/ FinishBuild(p) \/ StartInstall(p) \/ FinishInstall(p)
    BY <2>3, <1>1 DEF StartConfigure, FinishConfigure, StartBuild,
         FinishBuild, StartInstall, FinishInstall
  <2> QED
    BY <1>6, <2>1, <2>2, <2>3 DEF Chain
<1>7. ASSUME NEW p \in Packages, Download(p) \/ BreakDownload(p)
      PROVE stageBar' = stageBar
  BY <1>0, <1>1, <1>7, FetchStep DEF FetchOnly
<1> QED
  BY <1>1, <1>6, <1>7 DEF Next, Invoke, End, Succeed, GiveUp, BreakPackage,
       Kill, vars

(* The recipes of project.mk, with failures, kills and parallel jobs,      *)
(* implement the abstract life of packages: none is installed before all   *)
(* it needs is published, and none ever goes back.                         *)
THEOREM RecipesImplementLife == ASSUME InstallIsSafe PROVE Spec => ImplementsLife
<1>1. Init => Life!LifeInit
  BY DEF Init, Life!LifeInit, stageBar
<1>2. SafeInv /\ LifeInv /\ [Next]_vars => [Life!LifeNext]_stageBar
  BY LifeMapsStep
<1> QED
  BY <1>1, <1>2, LifeAlways, PTL DEF Spec, ImplementsLife, Life!LifeSafety
-----------------------------------------------------------------------------
(* A download target that make holds for done has its stamp.               *)
DoneIsStamped == \A p \in Packages : dl[p] = "done" => p \in dwl

(* A make of one job starts a recipe only when no other one runs.          *)
LEMMA SerialSlot == ASSUME Jobs = 1, Slot PROVE DownloadJobs = {} /\ PackageJobs = {}
<1>1. IsFiniteSet(DownloadJobs) /\ IsFiniteSet(PackageJobs)
  BY FS_Subset, PackagesAssumption DEF DownloadJobs, PackageJobs
<1>2. Cardinality(DownloadJobs) \in Nat /\ Cardinality(PackageJobs) \in Nat
  BY <1>1, FS_CardinalityType
<1>3. Cardinality(DownloadJobs) = 0 /\ Cardinality(PackageJobs) = 0
  BY <1>2 DEF Slot
<1> QED
  BY <1>1, <1>3, FS_EmptySet

(* A serial make configures no package before its sources are there: the   *)
(* order of the prerequisites of __build is enough when one job is over    *)
(* before the next begins (scripts/Makefile).                              *)
THEOREM SerialConfigure == ASSUME Jobs = 1 PROVE Spec => []ConfiguredIsFetched
<1> USE DEF DoneIsStamped, ConfiguredIsFetched, disk
<1>1. Init => DoneIsStamped /\ ConfiguredIsFetched
  BY DEF Init
<1>2. ASSUME TypeOK, DoneIsStamped, ConfiguredIsFetched, [Next]_vars
      PROVE  (DoneIsStamped /\ ConfiguredIsFetched)'
  <2> USE <1>2 DEF TypeOK
  <2>1. ASSUME NEW g \in {"build", "download"}, Invoke(g) PROVE (DoneIsStamped /\ ConfiguredIsFetched)'
    BY <2>1 DEF Invoke
  <2>2. CASE End
    BY <2>2 DEF End, Succeed, GiveUp
  <2>3. ASSUME NEW p \in Packages, Download(p) \/ BreakDownload(p)
        PROVE  (DoneIsStamped /\ ConfiguredIsFetched)'
    BY <2>3 DEF Download, SkipDownload, StartDownload, FinishDownload, RefuseCopy,
         BreakDownload
  <2>4. ASSUME NEW p \in Packages, Chain(p) PROVE (DoneIsStamped /\ ConfiguredIsFetched)'
    <3>1. UNCHANGED <<dl, dwl>>
      BY <2>4 DEF Chain, StartConfigure, FinishConfigure, StartBuild, FinishBuild,
           StartInstall, FinishInstall, TouchPostInstall, StartPublish,
           FinishPublish, RemovePostInstall
    <3>2. CASE StartConfigure(p)
      <4>1. dl[p] \notin Fetching /\ dl[p] # "todo"
        BY <3>2, SerialSlot DEF StartConfigure, InOrder, DownloadJobs
      <4> QED
        BY <3>1, <3>2, <4>1 DEF StartConfigure
    <3>3. CASE FinishConfigure(p) \/ StartBuild(p) \/ FinishBuild(p)
      BY <3>1, <3>3 DEF FinishConfigure, StartBuild, FinishBuild
    <3>4. CASE StartInstall(p) \/ FinishInstall(p) \/ TouchPostInstall(p)
      BY <3>1, <3>4 DEF StartInstall, FinishInstall, TouchPostInstall
    <3>5. CASE StartPublish(p) \/ FinishPublish(p) \/ RemovePostInstall(p)
      BY <3>1, <3>5 DEF StartPublish, FinishPublish, RemovePostInstall
    <3> QED
      BY <2>4, <3>2, <3>3, <3>4, <3>5 DEF Chain
  <2>5. ASSUME NEW p \in Packages, BreakPackage(p) PROVE (DoneIsStamped /\ ConfiguredIsFetched)'
    BY <2>5 DEF BreakPackage
  <2>6. CASE Kill
    BY <2>6 DEF Kill
  <2>7. CASE UNCHANGED vars
    BY <2>7 DEF vars
  <2> QED
    BY <2>1, <2>2, <2>3, <2>4, <2>5, <2>6, <2>7 DEF Next
<1>3. TypeOK /\ DoneIsStamped /\ ConfiguredIsFetched /\ [Next]_vars
        => (DoneIsStamped /\ ConfiguredIsFetched)'
  BY <1>2
<1> QED
  BY <1>1, <1>3, TypeCorrect, PTL DEF Spec
-----------------------------------------------------------------------------
(* An archive that tar unpacks may break anywhere; a plain file or a clone *)
(* may not, for a later make takes what it finds of it for the whole.      *)
FetchIsSafe == "download" \in Breakable => \A p \in Packages : Method[p] = "tar"

(* A running make still fetches only what has no stamp; what tar does not  *)
(* check is incomplete only while the job that brings it runs.             *)
FetchInv ==
  /\ StampIsFetched
  /\ \A p \in Packages :
       /\ phase # "idle" /\ dl[p] # "done" => p \notin dwl
       /\ Method[p] # "tar" =>
            /\ tree[p] = "partial" => dl[p] \in Fetching
            /\ copy[p] = "partial" => dl[p] = "wget" /\ KeepCopy
            /\ dl[p] = "cat" => copy[p] # "absent"

LEMMA FetchInvStep ==
  ASSUME FetchIsSafe, TypeOK, FetchInv, [Next]_vars
  PROVE  FetchInv'
<1> USE PackagesAssumption
    DEF FetchInv, StampIsFetched, TypeOK, Extent, Fetching, disk
<1>1. ASSUME NEW g \in {"build", "download"}, Invoke(g) PROVE FetchInv'
  BY <1>1 DEF Invoke
<1>2. CASE End
  BY <1>2 DEF End, Succeed, GiveUp
<1>3. ASSUME NEW p \in Packages, Download(p) PROVE FetchInv'
  <2>1. CASE SkipDownload(p)
    BY <2>1 DEF SkipDownload, TreeSeen, Slot
  <2>2. CASE StartDownload(p)
    BY <2>2 DEF StartDownload, Slot
  <2>3. CASE FinishDownload(p)
    <3>1. dl[p] = "cat" => copy[p] = "complete"
      BY <2>3 DEF FinishDownload
    <3>2. /\ tree' = [tree EXCEPT ![p] = "complete"]
          /\ dl' = [dl EXCEPT ![p] = "done"] /\ dwl' = dwl \cup {p}
          /\ copy' = IF dl[p] = "wget" /\ KeepCopy
                      THEN [copy EXCEPT ![p] = "complete"] ELSE copy
          /\ UNCHANGED phase
      BY <2>3, <3>1 DEF FinishDownload
    <3> QED
      BY <3>2
  <2>4. CASE RefuseCopy(p)
    BY <2>4 DEF RefuseCopy
  <2> QED
    BY <1>3, <2>1, <2>2, <2>3, <2>4 DEF Download
<1>4. ASSUME NEW p \in Packages, BreakDownload(p) PROVE FetchInv'
  <2>1. \A q \in Packages : Method[q] = "tar"
    BY <1>4 DEF BreakDownload, FetchIsSafe
  <2>2. dwl' = dwl /\ dl'[p] = "todo" /\ p \notin dwl
    BY <1>4, <2>1 DEF BreakDownload
  <2> QED
    BY <1>4, <2>1, <2>2 DEF BreakDownload
<1>5. ASSUME NEW p \in Packages, Chain(p) \/ BreakPackage(p) PROVE FetchInv'
  <2>1. UNCHANGED <<tree, copy, dwl, dl>> /\ phase # "idle"
    BY <1>5 DEF Chain, StartConfigure, FinishConfigure, StartBuild, FinishBuild,
         StartInstall, FinishInstall, TouchPostInstall, StartPublish,
         FinishPublish, RemovePostInstall, BreakPackage, Slot, PackageJobs, Working
  <2> QED
    BY <2>1
<1>6. CASE Kill
  <2>1. CASE "download" \in Breakable
    BY <1>6, <2>1 DEF Kill, FetchIsSafe
  <2>2. CASE "download" \notin Breakable
    <3>1. \A p \in Packages : dl[p] \notin Fetching
      BY <1>6, <2>2 DEF Kill, DownloadJobs
    <3> QED
      BY <1>6, <3>1 DEF Kill
  <2> QED
    BY <2>1, <2>2
<1>7. CASE UNCHANGED vars
  BY <1>7 DEF vars
<1> QED
  BY <1>1, <1>2, <1>3, <1>4, <1>5, <1>6, <1>7 DEF Next

(* A .dwl stamp stands beside a whole tree, whatever is killed and however *)
(* many jobs run, for packages that come as archives: a truncated copy is  *)
(* refused and the tree of a fetch that broke is unpacked again.           *)
THEOREM StampsAreTrue == ASSUME FetchIsSafe PROVE Spec => []StampIsFetched
<1>1. Init => FetchInv
  BY DEF Init, FetchInv, StampIsFetched
<1>2. TypeOK /\ FetchInv /\ [Next]_vars => FetchInv'
  BY FetchInvStep
<1>3. FetchInv => StampIsFetched
  BY DEF FetchInv
<1> QED
  BY <1>1, <1>2, <1>3, TypeCorrect, PTL DEF Spec
=============================================================================
