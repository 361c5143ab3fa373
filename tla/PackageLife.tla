---------------------------- MODULE PackageLife ----------------------------
(***************************************************************************)
(* What scripts/project.mk promises for the packages of one directory:     *)
(* each package is installed in its staging directory once all the         *)
(* packages it needs are published, is then published to the sysroot and   *)
(* the root file system, and never goes back, whatever fails on the way.   *)
(***************************************************************************)

CONSTANTS Packages,     \* $(subproject-y)
          Dependances   \* $(<pkg>-dependances), a set of packages for each

VARIABLE stage          \* "none", "installed" or "published", per package

LifeInit == stage = [p \in Packages |-> "none"]

Install(p) ==
  /\ stage[p] = "none"
  /\ \A d \in Dependances[p] : stage[d] = "published"
  /\ stage' = [stage EXCEPT ![p] = "installed"]

Publish(p) ==
  /\ stage[p] = "installed"
  /\ stage' = [stage EXCEPT ![p] = "published"]

LifeNext == \E p \in Packages : Install(p) \/ Publish(p)

LifeSafety == LifeInit /\ [][LifeNext]_stage

LifeFairness ==
  \A p \in Packages : WF_stage(Install(p)) /\ WF_stage(Publish(p))

LifeSpec == LifeSafety /\ LifeFairness
=============================================================================
