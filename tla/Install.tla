------------------------------ MODULE Install ------------------------------
(***************************************************************************)
(* tools/install: the program "install", with which packages put their     *)
(* files below the staging directory (scripts/project.mk: INSTALL=).       *)
(* Several runs of it meet there under "make -j".  A run may be killed, a  *)
(* write or an unlink may fail; then "make install" is asked for again.    *)
(*                                                                         *)
(* A step is a system call that other runs can tell apart.  Directories    *)
(* copied with their contents (-r), links copied as links (-P), owners,    *)
(* and what strip and gzip do to a file are left out.                      *)
(***************************************************************************)
EXTENDS Integers, FiniteSets, FiniteSetsExt, SequencesExt, Functions

CONSTANTS
  Jobs,      \* runs of install that one "make install" starts
  Command,   \* of each: [kind, dir, name, from, deep, backup, preserve]
  Before,    \* directories there are at first
  Olds,      \* files there are at first
  Faults,    \* of "kill", "write" and "unlink"
  MaxFaults, \* bound on the faults
  None       \* no file, no name

VARIABLES
  dirs,   \* directories, each a sequence of names
  entry,  \* the inode a file name is a link to
  inode,  \* what each inode holds: [from, whole, mode], in the order made
  at,     \* where each job is
  depth,  \* make_path: how many components of the directory it has dealt with
  into,   \* the name a job installs under
  backup, \* dst_backup
  fd,     \* the inode a job has open
  faults, \* faults so far
  hurt    \* history: jobs that met a fault since they were started

vars == <<dirs, entry, inode, at, depth, into, backup, fd, faults, hurt>>
files == <<dirs, entry, inode>>

(* Names of files: a directory, a name in it and a suffix, 0 for none, n   *)
(* for ".~n~" and -1 for "~".                                              *)
Name(d, n) == [dir |-> d, name |-> n, suffix |-> 0]
IsFile(n) == n \in DOMAIN entry
IsDir(p) == p \in dirs
Occupied(p) == IsDir(p) \/ IsFile(Name(Front(p), Last(p)))

Ended == {"idle", "done", "failed", "killed"}
Failed(j) == at[j] \in {"failed", "killed"}

Init ==
  /\ dirs = Before
  /\ inode = [i \in 1..Cardinality(Olds) |-> [from |-> "old", whole |-> TRUE, mode |-> "final"]]
  /\ entry \in {f \in [Olds -> DOMAIN inode] : IsInjective(f)}
  /\ at = [j \in Jobs |-> "idle"]
  /\ depth = [j \in Jobs |-> 0]
  /\ into = [j \in Jobs |-> None] /\ backup = into /\ fd = into
  /\ faults = 0 /\ hurt = {}

Go(j, where) == at' = [at EXCEPT ![j] = where]
-----------------------------------------------------------------------------
(* main, install_file_to_path and install_file_in_dir: under which name.   *)
(* With -D and a directory that is missing, that of the source.            *)
Start(j) ==
  LET c == Command[j]
      dest == Append(c.dir, c.name)
      strange == c.deep /\ ~IsDir(dest) /\ ~IsDir(c.dir)
  IN /\ at[j] = "idle" /\ \A k \in Jobs : ~Failed(k)
     /\ into' = [into EXCEPT ![j] =
          IF c.kind = "directory" THEN None
          ELSE IF IsDir(dest) THEN Name(dest, c.from)
          ELSE IF strange THEN Name(c.dir, c.from)
          ELSE Name(c.dir, c.name)]
     /\ Go(j, IF c.kind = "directory" \/ strange THEN "path" ELSE "copy")
     /\ UNCHANGED <<files, depth, backup, fd, faults, hurt>>

(* make_path *)
Made(j) == IF Command[j].kind = "directory" THEN "done" ELSE "copy"
Component(j) == SubSeq(Command[j].dir, 1, depth[j] + 1)
IsLast(j) == depth[j] + 1 = Len(Command[j].dir)
Deeper(j) == depth' = [depth EXCEPT ![j] = @ + 1]

Path(j) ==
  /\ at[j] = "path"
  /\ LET p == Command[j].dir
     IN Go(j, IF IsDir(p) THEN Made(j) ELSE IF Occupied(p) THEN "failed" ELSE "leading")
  /\ UNCHANGED <<files, depth, into, backup, fd, faults, hurt>>

(* A leading component is made, and looked at where that fails; the last   *)
(* one is looked at, and made where that fails.                            *)
MutLeading(j) ==
  /\ at[j] = "leading"
  /\ IF Occupied(Component(j))
     THEN Go(j, IF IsLast(j) THEN Made(j) ELSE "leading") /\ Deeper(j)
     ELSE Go(j, "mkdir") /\ UNCHANGED depth
  /\ UNCHANGED <<files, into, backup, fd, faults, hurt>>
MutLeadingExists(j) ==
  /\ at[j] = "leading"
  /\ IF IsLast(j) THEN
       /\ Go(j, IF Occupied(Component(j)) THEN Made(j) ELSE "mkdir")
       /\ UNCHANGED <<files, depth>>
     ELSE IF Occupied(Component(j)) THEN
       Go(j, "failed") /\ UNCHANGED <<files, depth>>
     ELSE
       /\ dirs' = dirs \cup {Component(j)} /\ Deeper(j)
       /\ UNCHANGED <<entry, inode, at>>
  /\ UNCHANGED <<into, backup, fd, faults, hurt>>
Leading(j) ==
  /\ at[j] = "leading"
  /\ IF IsLast(j) THEN
       /\ Go(j, IF Occupied(Component(j)) THEN Made(j) ELSE "mkdir")
       /\ UNCHANGED <<files, depth>>
     ELSE IF Occupied(Component(j)) /\ ~IsDir(Component(j)) THEN
       Go(j, "failed") /\ UNCHANGED <<files, depth>>
     ELSE
       /\ dirs' = dirs \cup {Component(j)} /\ Deeper(j)
       /\ UNCHANGED <<entry, inode, at>>
  /\ UNCHANGED <<into, backup, fd, faults, hurt>>

Mkdir(j) ==
  /\ at[j] = "mkdir"
  /\ IF Occupied(Component(j)) THEN Go(j, "failed") /\ UNCHANGED <<files, depth>>
     ELSE /\ dirs' = dirs \cup {Component(j)} /\ Deeper(j)
          /\ Go(j, IF IsLast(j) THEN Made(j) ELSE "leading")
          /\ UNCHANGED <<entry, inode>>
  /\ UNCHANGED <<into, backup, fd, faults, hurt>>
-----------------------------------------------------------------------------
(* copy_internal *)

(* find_backup_file_name *)
MutBackupName(n, how) ==
  LET highest == Max({e.suffix : e \in {f \in DOMAIN entry :
                         f.dir = n.dir /\ f.name = n.name /\ f.suffix > 0}} \cup {0})
  IN [n EXCEPT !.suffix = IF how = "simple" THEN -1 ELSE Max({highest, 1})]
BackupName(n, how) ==
  LET highest == Max({e.suffix : e \in {f \in DOMAIN entry :
                         f.dir = n.dir /\ f.name = n.name /\ f.suffix > 0}} \cup {0})
  IN [n EXCEPT !.suffix =
        IF how = "simple" \/ (how = "existing" /\ highest = 0) THEN -1 ELSE highest + 1]

Copy(j) ==
  LET n == into[j]
      how == Command[j].backup
  IN /\ at[j] = "copy"
     /\ IF IsDir(Append(n.dir, n.name)) THEN Go(j, "failed") /\ UNCHANGED backup
        ELSE IF ~IsFile(n) THEN Go(j, "open") /\ UNCHANGED backup
        ELSE IF how = "none" THEN Go(j, "unlink") /\ UNCHANGED backup
        ELSE Go(j, "rename") /\ backup' = [backup EXCEPT ![j] = BackupName(n, how)]
     /\ UNCHANGED <<files, depth, into, fd, faults, hurt>>

(* What rename(2) makes of the names.                                      *)
Renamed(n, to) == [e \in (DOMAIN entry \cup {to}) \ {n} |-> entry[IF e = to THEN n ELSE e]]

Rename(j) ==
  /\ at[j] = "rename" /\ Go(j, "open")
  /\ IF IsFile(into[j])
     THEN entry' = Renamed(into[j], backup[j]) /\ UNCHANGED backup
     ELSE backup' = [backup EXCEPT ![j] = None] /\ UNCHANGED entry
  /\ UNCHANGED <<dirs, inode, depth, into, fd, faults, hurt>>

Fault(j, kind) ==
  kind \in Faults /\ faults < MaxFaults /\ faults' = faults + 1 /\ hurt' = hurt \cup {j}

(* A failing unlink is told of, and install goes on.                       *)
Unlink(j) ==
  /\ at[j] = "unlink" /\ Go(j, "open")
  /\ \/ /\ entry' = Restrict(entry, DOMAIN entry \ {into[j]})
        /\ UNCHANGED <<faults, hurt>>
     \/ Fault(j, "unlink") /\ UNCHANGED entry
  /\ UNCHANGED <<dirs, inode, depth, into, backup, fd>>

(* copy_reg: O_CREAT and O_TRUNC, so an inode that is there stays.         *)
Open(j) ==
  LET n == into[j]
      new == [from |-> Command[j].from, whole |-> FALSE, mode |-> "private"]
  IN /\ at[j] = "open"
     /\ IF ~IsDir(n.dir) \/ IsDir(Append(n.dir, n.name)) THEN
          Go(j, "unbackup") /\ UNCHANGED <<entry, inode, fd>>
        ELSE IF IsFile(n) THEN
          /\ inode' = [inode EXCEPT ![entry[n]] = [new EXCEPT !.mode = inode[entry[n]].mode]]
          /\ fd' = [fd EXCEPT ![j] = entry[n]]
          /\ Go(j, "write") /\ UNCHANGED entry
        ELSE
          /\ inode' = Append(inode, new)
          /\ entry' = [e \in DOMAIN entry \cup {n} |->
                         IF e = n THEN Len(inode) + 1 ELSE entry[e]]
          /\ fd' = [fd EXCEPT ![j] = Len(inode) + 1]
          /\ Go(j, "write")
     /\ UNCHANGED <<dirs, depth, into, backup, faults, hurt>>

(* Two that write different things to one inode leave neither.             *)
MutWrite(j) ==
  /\ at[j] = "write" /\ fd' = [fd EXCEPT ![j] = None] /\ Go(j, "mode")
  /\ \/ /\ inode' = [inode EXCEPT ![fd[j]] =
             IF @.from = Command[j].from THEN [@ EXCEPT !.whole = TRUE]
             ELSE [@ EXCEPT !.from = None, !.whole = FALSE]]
        /\ UNCHANGED <<faults, hurt>>
     \/ Fault(j, "write") /\ UNCHANGED inode
  /\ UNCHANGED <<dirs, entry, depth, into, backup>>
Write(j) ==
  /\ at[j] = "write" /\ fd' = [fd EXCEPT ![j] = None]
  /\ \/ /\ inode' = [inode EXCEPT ![fd[j]] =
             IF @.from = Command[j].from THEN [@ EXCEPT !.whole = TRUE]
             ELSE [@ EXCEPT !.from = None, !.whole = FALSE]]
        /\ Go(j, "mode") /\ UNCHANGED <<faults, hurt>>
     \/ Fault(j, "write") /\ Go(j, "unbackup") /\ UNCHANGED inode
  /\ UNCHANGED <<dirs, entry, depth, into, backup>>

UnBackup(j) ==
  /\ at[j] = "unbackup" /\ Go(j, "failed")
  /\ IF backup[j] # None /\ IsFile(backup[j])
     THEN entry' = Renamed(backup[j], into[j])
     ELSE UNCHANGED entry
  /\ UNCHANGED <<dirs, inode, depth, into, backup, fd, faults, hurt>>

SetMode(j, m) == inode' = [inode EXCEPT ![entry[into[j]]].mode = m]

(* The end of copy_internal: with -p the mode of the source, and a failure *)
(* is only told of.                                                        *)
Mode(j) ==
  LET p == Command[j].preserve
  IN /\ at[j] = "mode"
     /\ IF IsFile(into[j])
        THEN Go(j, "attributes") /\ SetMode(j, IF p THEN "source" ELSE "private")
        ELSE Go(j, IF p THEN "attributes" ELSE "failed") /\ UNCHANGED inode
     /\ UNCHANGED <<dirs, entry, depth, into, backup, fd, faults, hurt>>

(* change_attributes, which takes no notice of a file that is gone, and    *)
(* change_timestamps, which does.                                          *)
Attributes(j) ==
  /\ at[j] = "attributes"
  /\ IF IsFile(into[j]) THEN Go(j, "done") /\ SetMode(j, "final")
     ELSE Go(j, IF Command[j].preserve THEN "failed" ELSE "done") /\ UNCHANGED inode
  /\ UNCHANGED <<dirs, entry, depth, into, backup, fd, faults, hurt>>
-----------------------------------------------------------------------------
Kill(j) ==
  /\ at[j] \notin Ended /\ Go(j, "killed") /\ Fault(j, "kill")
  /\ fd' = [fd EXCEPT ![j] = None]
  /\ UNCHANGED <<files, depth, into, backup>>

(* make: a job that failed keeps others from being started; when all have  *)
(* ended it ends, and is run again.                                        *)
Again ==
  /\ \A j \in Jobs : at[j] \in Ended
  /\ \E j \in Jobs : Failed(j)
  /\ at' = [j \in Jobs |-> "idle"] /\ depth' = [j \in Jobs |-> 0]
  /\ into' = [j \in Jobs |-> None] /\ backup' = into' /\ hurt' = {}
  /\ UNCHANGED <<files, fd, faults>>

Step(j) ==
  \/ Start(j) \/ Path(j) \/ Leading(j) \/ Mkdir(j)
  \/ Copy(j) \/ Rename(j) \/ Unlink(j) \/ Open(j) \/ Write(j) \/ UnBackup(j)
  \/ Mode(j) \/ Attributes(j)

Next == Again \/ \E j \in Jobs : Step(j) \/ Kill(j)

Fairness == WF_vars(Again) /\ \A j \in Jobs : WF_vars(Step(j))

Spec == Init /\ [][Next]_vars /\ Fairness
-----------------------------------------------------------------------------
(* Properties.                                                             *)

(* Runs that meet in the directories they make do not make each other      *)
(* fail: install fails only when it met a fault itself.                    *)
NoFalseFailure == \A j \in Jobs : at[j] = "failed" => j \in hurt

(* With numbered backups a file that was there at first stays, whole,      *)
(* under some name, however often install is stopped, fails and is run     *)
(* again.                                                                  *)
OldIsKept ==
  \A n \in Olds :
    (\A j \in Jobs : Command[j].kind = "file" /\ Name(Command[j].dir, Command[j].name) = n
                       => Command[j].backup = "numbered")
    => \E e \in DOMAIN entry : /\ e.dir = n.dir /\ e.name = n.name
                               /\ inode[entry[e]].from = "old" /\ inode[entry[e]].whole

(* A run that ended well has installed: its directory is there, or its     *)
(* file, whole and with its mode, under the name it was installed under.   *)
SuccessIsInstalled ==
  \A j \in Jobs : at[j] = "done" =>
    IF Command[j].kind = "directory" THEN Command[j].dir \in dirs
    ELSE /\ IsFile(into[j])
         /\ inode[entry[into[j]]] = [from |-> Command[j].from, whole |-> TRUE, mode |-> "final"]

(* What a run that was stopped left behind keeps no later one from         *)
(* installing: in the end everything is.                                   *)
InstalledInTheEnd == <>[](\A j \in Jobs : at[j] = "done")
=============================================================================
