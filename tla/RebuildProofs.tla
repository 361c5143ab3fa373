--------------------------- MODULE RebuildProofs ---------------------------
(***************************************************************************)
(* Proofs about Rebuild, for any headers and any command lines.            *)
(***************************************************************************)
EXTENDS Rebuild, TLAPS

LEMMA TypeStep == TypeOK /\ [Next]_vars => TypeOK'
<1> SUFFICES ASSUME TypeOK, [Next]_vars PROVE TypeOK'
  OBVIOUS
<1> USE RebuildAssumption
    DEF TypeOK, inputs, target, written, Record, NoRecord, Files
<1>1. ASSUME NEW h \in Headers, EditHeader(h) PROVE TypeOK'
  BY <1>1 DEF EditHeader
<1>2. ASSUME NEW u \in SUBSET Headers, EditSource(u) PROVE TypeOK'
  BY <1>2 DEF EditSource
<1>3. ASSUME NEW c \in Commands, EditCommand(c) PROVE TypeOK'
  BY <1>3 DEF EditCommand
<1>4. CASE Make
  <2>1. CASE StartCompile \/ NothingToDo
    BY <2>1 DEF StartCompile, NothingToDo, Loaded
  <2>2. CASE Write \/ Compiled \/ Fixdep
    BY <2>2 DEF Write, Compiled, Fixdep
  <2>3. CASE Rename
    BY <2>3 DEF Rename
  <2> QED
    BY <1>4, <2>1, <2>2, <2>3 DEF Make
<1>5. CASE CompilerFails \/ FixdepFails \/ Interrupt \/ Kill
  BY <1>5 DEF CompilerFails, FixdepFails, Interrupt, Kill
<1>6. CASE UNCHANGED vars
  BY <1>6 DEF vars
<1> QED
  BY <1>1, <1>2, <1>3, <1>4, <1>5, <1>6 DEF Next

THEOREM TypeCorrect == Spec => []TypeOK
<1>1. Init => TypeOK
  BY RebuildAssumption DEF Init, TypeOK, Record, NoRecord, Files
<1> QED
  BY <1>1, TypeStep, PTL DEF Spec
-----------------------------------------------------------------------------
(* Between the compilation and the end of the recipe nothing is edited,    *)
(* and the recipe has no verdict yet.                                      *)
Building ==
  /\ pc # "idle" => last = "none"
  /\ pc \in {"compiled", "fixed"} => Fresh
  /\ SuccessMeansFresh

(* The rules of builtin.mk and library.mk have FORCE, and their .cmd file  *)
(* is never found: the recipe compiles in every make.  Whatever fails or   *)
(* is killed, a make that ends well leaves a fresh target.                 *)
THEOREM ForcedIsFresh ==
  ASSUME Forced, Suffixed PROVE Spec => []SuccessMeansFresh
<1> USE DEF Building, SuccessMeansFresh, Fresh, inputs, target, written
<1>1. Init => TypeOK /\ Building
  BY RebuildAssumption DEF Init, TypeOK, Record, NoRecord, Files
<1>2. ASSUME TypeOK, Building, [Next]_vars PROVE Building'
  <2>1. ASSUME \/ \E h \in Headers : EditHeader(h)
               \/ \E u \in SUBSET Headers : EditSource(u)
               \/ \E c \in Commands : EditCommand(c)
        PROVE  Building'
    BY <1>2, <2>1 DEF EditHeader, EditSource, EditCommand
  <2>2. CASE Make
    <3>1. ~NothingToDo
      BY <1>2, RebuildAssumption
         DEF NothingToDo, MustCompile, IfChanged, Loaded, NoRecord, TypeOK
    <3> QED
      BY <1>2, <2>2, <3>1 DEF Make, StartCompile, Write, Compiled, Fixdep, Rename
  <2>3. CASE CompilerFails \/ FixdepFails \/ Interrupt \/ Kill
    BY <1>2, <2>3 DEF CompilerFails, FixdepFails, Interrupt, Kill
  <2>4. CASE UNCHANGED vars
    BY <1>2, <2>4 DEF vars
  <2> QED
    BY <1>2, <2>1, <2>2, <2>3, <2>4 DEF Next
<1>3. TypeOK /\ Building /\ [Next]_vars => (TypeOK /\ Building)'
  BY <1>2, TypeStep
<1>4. Building => SuccessMeansFresh
  OBVIOUS
<1> QED
  BY <1>1, <1>3, <1>4, PTL DEF Spec
-----------------------------------------------------------------------------
(* No step leaves a target without the .cmd file that describes it.        *)
NoOrphan == ~Suffixed /\ "fixdep" \notin Faults /\ "kill" \notin Faults

(* A change of the command line is noticed, or there is none to notice.    *)
CommandSeen == Forced \/ \A c, d \in Commands : c = d

Described ==
  /\ obj = "whole" /\ objCmd \in Commands
  /\ cmdFile = [cmd |-> objCmd, deps |-> objUses \cup {Source}]
  /\ changed \subseteq newer

HostInv ==
  /\ pc \in {"idle", "compiling"} /\ obj # "absent" => Described
  /\ pc = "compiled" \/ pc = "fixed" =>
       obj = "whole" /\ objCmd = cmd /\ changed = {}
  /\ pc # "idle" => last = "none"
  /\ SuccessMeansFresh

(* The target is described by its .cmd file whenever make starts, so what  *)
(* is up to date for make is up to date.                                   *)
LEMMA HostStep ==
  ASSUME NoOrphan, CommandSeen, TypeOK, HostInv, [Next]_vars
  PROVE  HostInv'
<1> USE DEF HostInv, Described, SuccessMeansFresh, inputs, target, written, TypeOK
<1>1. ASSUME NEW h \in Headers, EditHeader(h) PROVE HostInv'
  BY <1>1 DEF EditHeader
<1>2. ASSUME NEW u \in SUBSET Headers, EditSource(u) PROVE HostInv'
  BY <1>2 DEF EditSource
<1>3. ASSUME NEW c \in Commands, EditCommand(c) PROVE HostInv'
  BY <1>3 DEF EditCommand
<1>4. CASE StartCompile
  BY <1>4 DEF StartCompile
<1>5. CASE NothingToDo
  <2>1. /\ obj # "absent" /\ ~OutOfDate(cmdFile)
        /\ Forced => cmdFile.cmd = cmd
    BY <1>5 DEF NothingToDo, MustCompile, IfChanged, OutOfDate, Loaded, NoOrphan
  <2>2. objCmd = cmd
    BY <1>5, <2>1 DEF NothingToDo, CommandSeen
  <2>3. changed \cap (objUses \cup {Source}) = {}
    BY <1>5, <2>1 DEF NothingToDo, OutOfDate
  <2> QED
    BY <1>5, <2>1, <2>2, <2>3 DEF NothingToDo, Fresh
<1>6. CASE Write \/ Compiled \/ Fixdep
  BY <1>6 DEF Write, Compiled, Fixdep
<1>7. CASE Rename
  BY <1>7 DEF Rename, Fresh
<1>8. CASE CompilerFails \/ Interrupt
  BY <1>8 DEF CompilerFails, Interrupt
<1>9. ~FixdepFails /\ ~Kill
  BY DEF FixdepFails, Kill, NoOrphan
<1>10. CASE UNCHANGED vars
  BY <1>10 DEF vars, Fresh
<1> QED
  BY <1>1, <1>2, <1>3, <1>4, <1>5, <1>6, <1>7, <1>8, <1>9, <1>10 DEF Next, Make

(* A program compiled from one file (host.mk) is fresh after every make    *)
(* that ends well as long as its command line cannot change, or the rule   *)
(* had FORCE, and nothing parts it from its .cmd file.                     *)
THEOREM DescribedIsFresh ==
  ASSUME NoOrphan, CommandSeen PROVE Spec => []SuccessMeansFresh
<1>1. Init => TypeOK /\ HostInv
  BY RebuildAssumption DEF Init, TypeOK, Record, NoRecord, Files, HostInv,
       SuccessMeansFresh
<1>2. TypeOK /\ HostInv /\ [Next]_vars => (TypeOK /\ HostInv)'
  BY TypeStep, HostStep
<1>3. HostInv => SuccessMeansFresh
  BY DEF HostInv
<1> QED
  BY <1>1, <1>2, <1>3, PTL DEF Spec
-----------------------------------------------------------------------------
(* What holds when fixdep may fail and make be killed: the .cmd file names *)
(* what the last recipe that ended well read, perhaps an earlier one than  *)
(* made the target, and the time stamps show every edit since the target   *)
(* was made whole.                                                         *)
PartedInv ==
  /\ (cmdFile = NoRecord /\ ended = {}) \/ cmdFile.deps = ended \cup {Source}
  /\ pc \in {"idle", "compiling"} /\ obj = "whole" => changed \subseteq newer
  /\ pc \in {"compiled", "fixed"} => changed = {}
  /\ pc = "writing" => obj = "partial"
  /\ pc # "idle" => last = "none"
  /\ OnlyNewHeadersAreMissed

LEMMA PartedStep ==
  ASSUME ~Suffixed, TypeOK, PartedInv, [Next]_vars
  PROVE  PartedInv'
<1> USE DEF PartedInv, OnlyNewHeadersAreMissed, inputs, target, written, TypeOK
<1>1. ASSUME NEW h \in Headers, EditHeader(h) PROVE PartedInv'
  BY <1>1 DEF EditHeader
<1>2. ASSUME NEW u \in SUBSET Headers, EditSource(u) PROVE PartedInv'
  BY <1>2 DEF EditSource
<1>3. ASSUME NEW c \in Commands, EditCommand(c) PROVE PartedInv'
  BY <1>3 DEF EditCommand
<1>4. CASE StartCompile
  BY <1>4 DEF StartCompile
<1>5. CASE NothingToDo
  <2>1. obj # "absent" /\ newer \cap (cmdFile.deps \cup {Source}) = {}
    BY <1>5 DEF NothingToDo, MustCompile, IfChanged, OutOfDate, Loaded
  <2>2. ended \subseteq cmdFile.deps
    BY DEF NoRecord
  <2>3. obj = "whole" => changed \cap (objUses \cup {Source}) \subseteq objUses \ ended
    BY <1>5, <2>1, <2>2 DEF NothingToDo
  <2> QED
    BY <1>5, <2>3 DEF NothingToDo
<1>6. CASE Write \/ Compiled \/ Fixdep
  BY <1>6 DEF Write, Compiled, Fixdep
<1>7. CASE Rename
  BY <1>7 DEF Rename
<1>8. CASE CompilerFails \/ FixdepFails
  BY <1>8 DEF CompilerFails, FixdepFails
<1>9. CASE Interrupt \/ Kill
  BY <1>9 DEF Interrupt, Kill
<1>10. CASE UNCHANGED vars
  BY <1>10 DEF vars
<1> QED
  BY <1>1, <1>2, <1>3, <1>4, <1>5, <1>6, <1>7, <1>8, <1>9, <1>10 DEF Next, Make

(* Whatever fails in the recipe and whatever is killed, a make that ends   *)
(* well over a whole target misses edits only of headers that joined in a  *)
(* compilation which left no record: no edit of the source, nor of a       *)
(* header that a recipe which ended had recorded.                          *)
THEOREM RecordedIsNotMissed ==
  ASSUME ~Suffixed PROVE Spec => []OnlyNewHeadersAreMissed
<1>1. Init => TypeOK /\ PartedInv
  BY RebuildAssumption DEF Init, TypeOK, Record, NoRecord, Files, PartedInv,
       OnlyNewHeadersAreMissed
<1>2. TypeOK /\ PartedInv /\ [Next]_vars => (TypeOK /\ PartedInv)'
  BY TypeStep, PartedStep
<1>3. PartedInv => OnlyNewHeadersAreMissed
  BY DEF PartedInv
<1> QED
  BY <1>1, <1>2, <1>3, PTL DEF Spec
-----------------------------------------------------------------------------
(* What make knows when it starts: a target that exists has the .cmd file  *)
(* of its last compilation, and no prerequisite looks newer that is not.   *)
Known ==
  /\ obj = "whole" /\ newer \subseteq changed
  /\ cmdFile = [cmd |-> objCmd, deps |-> objUses \cup {Source}]

KnownInv ==
  /\ pc \in {"idle", "compiling"} /\ obj # "absent" => Known
  /\ pc \in {"writing", "compiled", "fixed"} => newer = {}
  /\ pc \in {"compiled", "fixed"} => obj = "whole" /\ objCmd = cmd

LEMMA KnownStep ==
  ASSUME NoOrphan, TypeOK, KnownInv, [Next]_vars
  PROVE  KnownInv'
<1> USE DEF KnownInv, Known, inputs, target, written, TypeOK
<1>1. ASSUME NEW h \in Headers, EditHeader(h) PROVE KnownInv'
  BY <1>1 DEF EditHeader
<1>2. ASSUME NEW u \in SUBSET Headers, EditSource(u) PROVE KnownInv'
  BY <1>2 DEF EditSource
<1>3. ASSUME NEW c \in Commands, EditCommand(c) PROVE KnownInv'
  BY <1>3 DEF EditCommand
<1>4. CASE StartCompile \/ NothingToDo
  BY <1>4 DEF StartCompile, NothingToDo
<1>5. CASE Write \/ Compiled \/ Fixdep
  BY <1>5 DEF Write, Compiled, Fixdep
<1>6. CASE Rename
  BY <1>6 DEF Rename
<1>7. CASE CompilerFails \/ Interrupt
  BY <1>7 DEF CompilerFails, Interrupt
<1>8. ~FixdepFails /\ ~Kill
  BY DEF FixdepFails, Kill, NoOrphan
<1>9. CASE UNCHANGED vars
  BY <1>9 DEF vars
<1> QED
  BY <1>1, <1>2, <1>3, <1>4, <1>5, <1>6, <1>7, <1>8, <1>9 DEF Next, Make

(* A target that nothing parts from its .cmd file is compiled again only   *)
(* when it does not reflect the tree, whatever is edited, whatever fails   *)
(* in the compiler and whoever interrupts make: the file names just the    *)
(* headers that were read and just the command line that read them.        *)
THEOREM CompiledForAReason ==
  ASSUME NoOrphan PROVE Spec => NoNeedlessCompile
<1>1. Init => TypeOK /\ KnownInv
  BY RebuildAssumption DEF Init, TypeOK, Record, NoRecord, Files, KnownInv
<1>2. TypeOK /\ KnownInv /\ [Next]_vars => (TypeOK /\ KnownInv)'
  BY TypeStep, KnownStep
<1>3. KnownInv /\ [Next]_vars =>
        [pc = "idle" /\ pc' = "compiling" => ~Fresh]_vars
  <2> SUFFICES ASSUME KnownInv, [Next]_vars, pc = "idle", pc' = "compiling"
               PROVE  ~Fresh
    OBVIOUS
  <2>1. StartCompile
    BY DEF Next, Make, EditHeader, EditSource, EditCommand, StartCompile, NothingToDo,
         Write, Compiled, Fixdep, Rename, CompilerFails, FixdepFails, Interrupt, Kill,
         vars
  <2>2. OutOfDate(Loaded) \/ Loaded.cmd # cmd
    BY <2>1 DEF StartCompile, MustCompile, IfChanged
  <2>3. ASSUME Fresh PROVE FALSE
    <3>1. Known /\ obj # "absent" /\ Loaded = cmdFile
      BY <2>3 DEF Fresh, KnownInv, Loaded, NoOrphan
    <3>2. Loaded.cmd = cmd /\ Loaded.deps = objUses \cup {Source}
      BY <2>3, <3>1 DEF Known, Fresh
    <3>3. newer \cap (objUses \cup {Source}) = {}
      BY <2>3, <3>1 DEF Known, Fresh
    <3> QED
      BY <2>2, <3>1, <3>2, <3>3 DEF OutOfDate
  <2> QED
    BY <2>3
<1> QED
  BY <1>1, <1>2, <1>3, PTL DEF Spec, NoNeedlessCompile
=============================================================================
