----------------------------- MODULE ConfWrite -----------------------------
(***************************************************************************)
(* conf_write (scripts/kconfig/confdata.c), as the files see it: a new     *)
(* configuration is written beside the old one, which then gives way by    *)
(* renames.  The program may be killed anywhere; on a full disk a file is  *)
(* cut short, and nobody looks at the result of a write or of fclose.      *)
(*                                                                         *)
(* What a file says is the number of the save that wrote it.               *)
(***************************************************************************)
EXTENDS Naturals

CONSTANTS
  Targets,  \* configurations: .config, and files named to mconf's "save"
  Default,  \* .config, with which the C header is written
  Kept,     \* those that leave a copy with ".old" behind
  MaxSaves, \* bound on the saves begun
  MaxFull,  \* bound on those that meet a full disk
  Absent    \* no such file

ASSUME ConfWriteAssumption ==
  Default \in Targets /\ Default \in Kept /\ MaxSaves \in Nat /\ MaxFull \in Nat
    /\ Absent \notin [save : Nat, whole : BOOLEAN]

VARIABLES
  include,    \* whether there is a directory "include"
  file,       \* each configuration
  old,        \* the copy beside it
  temp,       \* .tmpconfig.<pid>
  header,     \* include/autoconf.h
  tempHeader, \* .tmpconfig.h
  target,     \* what is being written
  step,       \* what comes next, or "idle"
  saves,      \* saves begun
  full,       \* history: saves that met a full disk
  cut,        \* history: some save did not end, or could leave no copy
  saved       \* history: the last save reported done that is whole, or 0

saveVars == <<include, file, old, temp, header, tempHeader, target, step, saves, full, cut, saved>>

File == [save : Nat, whole : BOOLEAN] \cup {Absent}
New(w) == [save |-> saves, whole |-> w]

TypeOK ==
  /\ file \in [Targets -> File] /\ old \in [Targets -> File]
  /\ temp \in File /\ header \in File /\ tempHeader \in File
  /\ target \in Targets
  /\ step \in {"idle", "header", "fill", "renameHeader", "keep", "replace"}
  /\ saves \in Nat /\ full \in Nat /\ saved \in [Targets -> Nat]
  /\ include \in BOOLEAN /\ cut \in BOOLEAN

SaveInit ==
  /\ include \in BOOLEAN
  /\ file = [t \in Targets |-> Absent] /\ old = file
  /\ temp = Absent /\ header = Absent /\ tempHeader = Absent
  /\ target = Default /\ step = "idle" /\ saves = 0 /\ full = 0 /\ cut = FALSE
  /\ saved = [t \in Targets |-> 0]

(* The new configuration is opened; where that fails nothing happens.      *)
OpenTemp(t) ==
  /\ step = "idle" /\ saves < MaxSaves
  /\ saves' = saves + 1 /\ target' = t
  /\ temp' = [save |-> saves + 1, whole |-> FALSE]
  /\ step' = IF t = Default THEN "header" ELSE "fill"
  /\ UNCHANGED <<include, file, old, header, tempHeader, full, cut, saved>>

(* An early return, or the end of the program.                             *)
Stop == step' = "idle" /\ cut' = TRUE

OpenHeader ==
  /\ step = "header"
  /\ \/ tempHeader' = New(FALSE) /\ step' = "fill" /\ UNCHANGED cut
     \/ Stop /\ UNCHANGED tempHeader
  /\ UNCHANGED <<include, file, old, temp, header, target, saves, full, saved>>

(* The walk over the menus, up to both calls of fclose.                    *)
Fill ==
  /\ step = "fill"
  /\ \E config, c \in BOOLEAN :
       /\ IF config /\ c THEN UNCHANGED full ELSE full < MaxFull /\ full' = full + 1
       /\ temp' = New(config)
       /\ tempHeader' = IF target = Default THEN New(c) ELSE tempHeader
  /\ step' = IF target = Default THEN "renameHeader" ELSE "keep"
  /\ UNCHANGED <<include, file, old, header, target, saves, cut, saved>>

(* Nobody looks whether this rename fails.                                 *)
MutRenameHeader ==
  /\ step = "renameHeader" /\ step' = "keep"
  /\ IF include /\ header = Absent THEN header' = tempHeader /\ tempHeader' = Absent
     ELSE UNCHANGED <<header, tempHeader>>
  /\ UNCHANGED <<include, file, old, temp, target, saves, full, cut, saved>>
RenameHeader ==
  /\ step = "renameHeader" /\ step' = "keep"
  /\ IF include THEN header' = tempHeader /\ tempHeader' = Absent
     ELSE UNCHANGED <<header, tempHeader>>
  /\ UNCHANGED <<include, file, old, temp, target, saves, full, cut, saved>>

(* A configuration that is not there is no error here, nor is one that     *)
(* cannot be renamed: nobody looks.                                        *)
MutKeep ==
  /\ step = "keep" /\ step' = "replace"
  /\ IF target \in Kept
     THEN /\ old' = [old EXCEPT ![target] = file[target]]
          /\ file' = [file EXCEPT ![target] = Absent]
     ELSE UNCHANGED <<file, old>>
  /\ UNCHANGED <<include, temp, header, tempHeader, target, saves, full, cut, saved>>
MutKeepNone ==
  /\ step = "keep" /\ step' = "replace"
  /\ UNCHANGED <<include, file, old, temp, header, tempHeader, target, saves, full, cut, saved>>
Keep ==
  /\ step = "keep" /\ step' = "replace"
  /\ IF target \in Kept /\ file[target] # Absent
     THEN \/ /\ old' = [old EXCEPT ![target] = file[target]]
             /\ file' = [file EXCEPT ![target] = Absent]
             /\ UNCHANGED cut
          \/ cut' = TRUE /\ UNCHANGED <<file, old>>
     ELSE UNCHANGED <<file, old, cut>>
  /\ UNCHANGED <<include, temp, header, tempHeader, target, saves, full, saved>>

Replace ==
  /\ step = "replace"
  /\ \/ /\ file' = [file EXCEPT ![target] = temp] /\ temp' = Absent
        /\ saved' = IF temp.whole THEN [saved EXCEPT ![target] = saves] ELSE saved
        /\ step' = "idle" /\ UNCHANGED cut
     \/ Stop /\ UNCHANGED <<file, temp, saved>>
  /\ UNCHANGED <<include, old, header, tempHeader, target, saves, full>>

KillConf ==
  /\ step # "idle" /\ Stop
  /\ UNCHANGED <<include, file, old, temp, header, tempHeader, target, saves, full, saved>>

SaveNext ==
  \/ \E t \in Targets : OpenTemp(t)
  \/ OpenHeader \/ Fill \/ RenameHeader \/ Keep \/ Replace \/ KillConf

SaveSpec == SaveInit /\ [][SaveNext]_saveVars
-----------------------------------------------------------------------------
(* Properties.                                                             *)

Whole(f) == f # Absent /\ f.whole
Holds(f, t) == Whole(f) /\ f.save >= saved[t]
IsKept(t) == saved[t] # 0 => Holds(file[t], t) \/ Holds(old[t], t)

(* Where no disk was full, what was last saved whole, or something newer,  *)
(* is in the configuration or in the copy beside it: stopped at any moment,*)
(* again and again, conf_write loses no configuration.                     *)
SavedIsSomewhere == full = 0 => \A t \in Targets : IsKept(t)

(* A truncated file that replaced a whole one after a full disk leaves the *)
(* whole one beside it, up to the renames of the next save, where every    *)
(* save could rename the old file.                                         *)
OneBeforeIsKept ==
  full <= 1 /\ ~cut /\ step # "replace" => \A t \in Kept \cap Targets : IsKept(t)

(* The C header is never older than the .config it was made with: code is  *)
(* compiled for what make reads, or for something newer that a save which  *)
(* did not end has left.                                                   *)
HeaderFollows ==
  include /\ file[Default] # Absent =>
    header # Absent /\ header.save >= file[Default].save
=============================================================================
