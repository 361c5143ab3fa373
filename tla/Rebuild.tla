------------------------------ MODULE Rebuild ------------------------------
(***************************************************************************)
(* One compiled target under if_changed_dep (scripts/include.mk): when     *)
(* make runs its recipe, when the recipe compiles, and what the .cmd file  *)
(* that fixdep writes lets the next make know.  The rules that use it are  *)
(* in builtin.mk and host.mk; scripts/Makefile loads the .cmd files.       *)
(*                                                                         *)
(* Two clocks are kept apart: changed is what the target does not reflect, *)
(* newer is what the time stamps show of it.                               *)
(***************************************************************************)
CONSTANTS
  Headers,    \* files the source may include
  Source,     \* the prerequisite the rule names
  Commands,   \* command lines the makefiles may yield for the target
  None,       \* no command line: the .cmd file is missing or not found
  Forced,     \* the rule has FORCE among its prerequisites
  Suffixed,   \* the target has an extension: its .cmd file is written under
              \* another name than the one looked for
  Faults      \* "cc" the compiler fails, "fixdep" fixdep fails, "interrupt"
              \* make gets a signal, "kill" make and its jobs disappear

ASSUME RebuildAssumption ==
  /\ Source \notin Headers
  /\ Commands # {} /\ None \notin Commands
  /\ Forced \in BOOLEAN /\ Suffixed \in BOOLEAN
  /\ Faults \subseteq {"cc", "fixdep", "interrupt", "kill"}

Files == Headers \cup {Source}

VARIABLES
  uses,     \* the headers that the source includes now
  cmd,      \* the command line that the makefiles yield now
  obj,      \* the target: "absent", "partial" or "whole"
  objCmd,   \* the command line that made the target
  objUses,  \* the headers that were read to make it
  changed,  \* files edited since the compiler read them for the target
  newer,    \* files with a time stamp later than the target's
  cmdFile,  \* .cmd file: the command line and the headers it records
  ended,    \* history: the headers read for the last recipe that ended well
  seen,     \* what the running make loaded from it when it started
  pc,       \* "idle", "compiling", "writing", "compiled", "fixed"
  last      \* "ok" after a make that ended well, until something is edited

inputs == <<uses, cmd>>
target == <<obj, objCmd, objUses, changed, newer>>
written == <<cmdFile, ended>>
vars == <<inputs, target, written, seen, pc, last>>

Record == [cmd : Commands \cup {None}, deps : SUBSET Files]
NoRecord == [cmd |-> None, deps |-> {}]

TypeOK ==
  /\ uses \subseteq Headers /\ cmd \in Commands
  /\ obj \in {"absent", "partial", "whole"}
  /\ objCmd \in Commands \cup {None} /\ objUses \subseteq Headers
  /\ changed \subseteq Files /\ newer \subseteq Files
  /\ cmdFile \in Record /\ seen \in Record /\ ended \subseteq Headers
  /\ pc \in {"idle", "compiling", "writing", "compiled", "fixed"}
  /\ last \in {"none", "ok"}

Init ==
  /\ uses \in SUBSET Headers /\ cmd \in Commands
  /\ obj = "absent" /\ objCmd = None /\ objUses = {}
  /\ changed = Files /\ newer = Files
  /\ cmdFile = NoRecord /\ seen = NoRecord /\ ended = {}
  /\ pc = "idle" /\ last = "none"

(* The target is what compiling the tree now would give.                   *)
Fresh ==
  /\ obj = "whole" /\ objCmd = cmd
  /\ changed \cap (objUses \cup {Source}) = {}
-----------------------------------------------------------------------------
(* The developer, between two makes.  Only an edit of the source changes   *)
(* what it includes.                                                       *)
EditHeader(h) ==
  /\ pc = "idle"
  /\ changed' = changed \cup {h} /\ newer' = newer \cup {h}
  /\ last' = "none"
  /\ UNCHANGED <<inputs, obj, objCmd, objUses, written, seen, pc>>

EditSource(u) ==
  /\ pc = "idle"
  /\ uses' = u
  /\ changed' = changed \cup {Source} /\ newer' = newer \cup {Source}
  /\ last' = "none"
  /\ UNCHANGED <<cmd, obj, objCmd, objUses, written, seen, pc>>

EditCommand(c) ==
  /\ pc = "idle" /\ c # cmd
  /\ cmd' = c
  /\ last' = "none"
  /\ UNCHANGED <<uses, target, written, seen, pc>>
-----------------------------------------------------------------------------
(* make loads .<name>.cmd of the targets that exist; dot-target strips the *)
(* extension when it writes the file, cmd_files does not when it looks.    *)
MutLoaded == IF Suffixed THEN NoRecord ELSE [cmdFile EXCEPT !.deps = {}]
Loaded == IF Suffixed \/ obj = "absent" THEN NoRecord ELSE cmdFile

(* make's own test, on the prerequisites it knows.                         *)
OutOfDate(record) ==
  obj = "absent" \/ newer \cap (record.deps \cup {Source}) # {}

(* $(any-prereq) $(arg-check), expanded when the recipe runs.              *)
IfChanged(record) == OutOfDate(record) \/ record.cmd # cmd

MustCompile(record) == (Forced \/ OutOfDate(record)) /\ IfChanged(record)

StartCompile ==
  /\ pc = "idle" /\ MustCompile(Loaded)
  /\ seen' = Loaded /\ pc' = "compiling" /\ last' = "none"
  /\ UNCHANGED <<inputs, target, written>>

NothingToDo ==
  /\ pc = "idle" /\ ~MustCompile(Loaded)
  /\ seen' = Loaded /\ last' = "ok"
  /\ UNCHANGED <<inputs, target, written, pc>>

(* The target now has a fresh time stamp.                                  *)
Write ==
  /\ pc = "compiling"
  /\ pc' = "writing"
  /\ obj' = "partial" /\ newer' = {}
  /\ UNCHANGED <<inputs, objCmd, objUses, changed, written, seen, last>>

(* The compiler has written the target and the depfile.                    *)
Compiled ==
  /\ pc = "writing"
  /\ pc' = "compiled"
  /\ obj' = "whole" /\ objCmd' = cmd /\ objUses' = uses
  /\ changed' = {}
  /\ UNCHANGED <<inputs, newer, written, seen, last>>

(* fixdep turns the depfile into .<name>.tmp ...                           *)
Fixdep ==
  /\ pc = "compiled"
  /\ pc' = "fixed"
  /\ UNCHANGED <<inputs, target, written, seen, last>>

(* ... which is renamed to the .cmd file once the depfile is gone.         *)
MutRename ==
  /\ pc = "fixed"
  /\ pc' = "idle" /\ last' = "ok"
  /\ cmdFile' = [cmd |-> cmd, deps |-> objUses \cup {Source} \cup seen.deps]
  /\ ended' = objUses
  /\ UNCHANGED <<inputs, target, seen>>
Rename ==
  /\ pc = "fixed"
  /\ pc' = "idle" /\ last' = "ok"
  /\ cmdFile' = [cmd |-> cmd, deps |-> objUses \cup {Source}]
  /\ ended' = objUses
  /\ UNCHANGED <<inputs, target, seen>>
-----------------------------------------------------------------------------
(* set -e ends the recipe at the first command that fails, and make ends.  *)
(* The compiler removes the output it could not finish.                    *)
CompilerFails ==
  /\ "cc" \in Faults /\ pc \in {"compiling", "writing"}
  /\ obj' = "absent" /\ pc' = "idle"
  /\ UNCHANGED <<inputs, objCmd, objUses, changed, newer, written, seen, last>>

MutFixdepFails ==
  /\ "fixdep" \in Faults /\ pc = "compiled"
  /\ pc' = "idle"
  /\ cmdFile' = [cmd |-> cmd, deps |-> {Source}]
  /\ UNCHANGED <<inputs, target, ended, seen, last>>
FixdepFails ==
  /\ "fixdep" \in Faults /\ pc = "compiled"
  /\ pc' = "idle"
  /\ UNCHANGED <<inputs, target, written, seen, last>>

(* On a signal make deletes the target if the recipe has touched it.       *)
Interrupt ==
  /\ "interrupt" \in Faults /\ pc # "idle"
  /\ pc' = "idle"
  /\ obj' = IF pc = "compiling" THEN obj ELSE "absent"
  /\ UNCHANGED <<inputs, objCmd, objUses, changed, newer, written, seen, last>>

(* Nobody cleans up after a kill.                                          *)
Kill ==
  /\ "kill" \in Faults /\ pc # "idle"
  /\ pc' = "idle"
  /\ UNCHANGED <<inputs, target, written, seen, last>>
-----------------------------------------------------------------------------
Make == StartCompile \/ NothingToDo \/ Write \/ Compiled \/ Fixdep \/ Rename

Next ==
  \/ \E h \in Headers : EditHeader(h)
  \/ \E u \in SUBSET Headers : EditSource(u)
  \/ \E c \in Commands : EditCommand(c)
  \/ Make
  \/ CompilerFails \/ FixdepFails \/ Interrupt \/ Kill

Spec == Init /\ [][Next]_vars
-----------------------------------------------------------------------------
(* A make that ended well leaves a target that reflects every file it is   *)
(* made from and the command line (the promise of if_changed_dep).         *)
SuccessMeansFresh == last = "ok" => Fresh

(* A make that ended well over a whole target may have missed edits, but   *)
(* only of headers that no recipe that ended well had read: those that     *)
(* joined in compilations whose fixdep failed, or that were killed before  *)
(* the .cmd file was renamed.  The record left by an earlier compilation   *)
(* still tells of every edit of the source and of the headers it names     *)
(* (include.mk:190-204, set -e).                                           *)
OnlyNewHeadersAreMissed ==
  last = "ok" /\ obj = "whole" =>
    changed \cap (objUses \cup {Source}) \subseteq objUses \ ended

(* The compiler is only started when the target does not reflect the tree. *)
NoNeedlessCompile ==
  [][pc = "idle" /\ pc' = "compiling" => ~Fresh]_vars
=============================================================================
