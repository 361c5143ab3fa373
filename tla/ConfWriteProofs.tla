-------------------------- MODULE ConfWriteProofs --------------------------
(* Proofs about ConfWrite, for every set of configurations and any number  *)
(* of saves, of full disks and of kills.                                   *)
EXTENDS ConfWrite, TLAPS

USE ConfWriteAssumption DEF ConfWriteAssumption

(* The variables keep their types.                                         *)
THEOREM TypeCorrect == SaveSpec => []TypeOK
<1>1. SaveInit => TypeOK
  <2> SUFFICES ASSUME SaveInit PROVE TypeOK
    OBVIOUS
  <2>1. include \in BOOLEAN /\ cut \in BOOLEAN
    BY DEF SaveInit
  <2>2. file \in [Targets -> File] /\ old \in [Targets -> File] /\ saved \in [Targets -> Nat]
    BY DEF SaveInit, File
  <2>3. temp \in File /\ header \in File /\ tempHeader \in File
    BY DEF SaveInit, File
  <2>4. target \in Targets /\ step = "idle" /\ saves \in Nat /\ full \in Nat
    BY DEF SaveInit
  <2> QED
    BY <2>1, <2>2, <2>3, <2>4 DEF TypeOK
<1>2. TypeOK /\ [SaveNext]_saveVars => TypeOK'
  <2> SUFFICES ASSUME TypeOK, [SaveNext]_saveVars PROVE TypeOK'
    OBVIOUS
  <2> USE DEF TypeOK, File
  <2>1. ASSUME NEW t \in Targets, OpenTemp(t) PROVE TypeOK'
    BY <2>1 DEF OpenTemp
  <2>2. CASE OpenHeader
    <3>1. CASE tempHeader' = New(FALSE) /\ step' = "fill" /\ UNCHANGED cut
      BY <2>2, <3>1 DEF OpenHeader, New
    <3>2. CASE Stop /\ UNCHANGED tempHeader
      BY <2>2, <3>2 DEF OpenHeader, Stop
    <3> QED
      BY <2>2, <3>1, <3>2 DEF OpenHeader
  <2>3. CASE Fill
    BY <2>3 DEF Fill, New
  <2>4. CASE RenameHeader
    BY <2>4 DEF RenameHeader
  <2>5. CASE Keep
    BY <2>5 DEF Keep
  <2>6. CASE Replace
    <3>1. CASE Stop /\ UNCHANGED <<file, temp, saved>>
      BY <2>6, <3>1 DEF Replace, Stop
    <3>2. CASE /\ file' = [file EXCEPT ![target] = temp] /\ temp' = Absent
               /\ saved' = IF temp.whole THEN [saved EXCEPT ![target] = saves] ELSE saved
               /\ step' = "idle" /\ UNCHANGED cut
      <4>1. saved' \in [Targets -> Nat]
        BY <3>2
      <4>2. file' \in [Targets -> File] /\ temp' \in File
        BY <3>2
      <4>3. UNCHANGED <<include, old, header, tempHeader, target, saves, full, cut>>
        BY <2>6, <3>2 DEF Replace
      <4> QED
        BY <3>2, <4>1, <4>2, <4>3
    <3> QED
      BY <2>6, <3>1, <3>2 DEF Replace
  <2>7. CASE KillConf
    BY <2>7 DEF KillConf, Stop
  <2>8. CASE UNCHANGED saveVars
    BY <2>8 DEF saveVars
  <2> QED
    BY <2>1, <2>2, <2>3, <2>4, <2>5, <2>6, <2>7, <2>8 DEF SaveNext
<1> QED
  BY <1>1, <1>2, PTL DEF SaveSpec
-----------------------------------------------------------------------------
(* What a step of conf_write relies on: the new configuration is the one of*)
(* this save, and whole once its file is closed; a configuration in place  *)
(* is at least as new as anything saved, and one that is not in place has  *)
(* left its like beside it.                                                *)
Closed == step \in {"renameHeader", "keep", "replace"}

SaveInv ==
  full = 0 =>
    /\ Closed => Whole(temp) /\ temp.save = saves
    /\ \A t \in Targets :
         /\ saved[t] <= saves
         /\ file[t] # Absent => Holds(file[t], t)
         /\ file[t] = Absent /\ saved[t] # 0 => Holds(old[t], t)

(* Killed at any moment, conf_write has lost no configuration that was     *)
(* saved, unless a disk was full (confdata.c: fclose to the last rename).  *)
THEOREM NoConfigurationIsLost == SaveSpec => []SavedIsSomewhere
<1>1. SaveInit => SaveInv
  BY DEF SaveInit, SaveInv, Closed
<1>2. TypeOK /\ SaveInv /\ [SaveNext]_saveVars => SaveInv'
  <2> SUFFICES ASSUME TypeOK, SaveInv, [SaveNext]_saveVars, full' = 0
               PROVE  /\ Closed' => Whole(temp)' /\ (temp.save = saves)'
                      /\ \A t \in Targets :
                           /\ (saved[t] <= saves)'
                           /\ (file[t] # Absent => Holds(file[t], t))'
                           /\ (file[t] = Absent /\ saved[t] # 0 => Holds(old[t], t))'
    BY DEF SaveInv
  <2> USE DEF Whole, Holds, Closed
  <2>0. full = 0
    <3>1. full' = full \/ full' = full + 1
      BY DEF SaveNext, OpenTemp, OpenHeader, Fill, RenameHeader, Keep, Replace, KillConf, saveVars
    <3> QED
      BY <3>1 DEF TypeOK
  <2>1. ASSUME NEW t \in Targets, OpenTemp(t) PROVE SaveInv'
    BY <2>0, <2>1 DEF OpenTemp, SaveInv, TypeOK
  <2>2. CASE OpenHeader
    BY <2>0, <2>2 DEF OpenHeader, Stop, SaveInv, TypeOK
  <2>3. CASE Fill
    BY <2>0, <2>3 DEF Fill, New, SaveInv, TypeOK
  <2>4. CASE RenameHeader
    BY <2>0, <2>4 DEF RenameHeader, SaveInv, TypeOK
  <2>5. CASE Keep
    BY <2>0, <2>5 DEF Keep, SaveInv, TypeOK, File
  <2>6. CASE Replace
    BY <2>0, <2>6 DEF Replace, Stop, SaveInv, TypeOK, File
  <2>7. CASE KillConf
    BY <2>0, <2>7 DEF KillConf, Stop, SaveInv, TypeOK
  <2>8. CASE UNCHANGED saveVars
    BY <2>0, <2>8 DEF saveVars, SaveInv, TypeOK
  <2> QED
    BY <2>1, <2>2, <2>3, <2>4, <2>5, <2>6, <2>7, <2>8 DEF SaveNext, SaveInv
<1>3. TypeOK /\ SaveInv => SavedIsSomewhere
  BY DEF TypeOK, SaveInv, SavedIsSomewhere, IsKept
<1> QED
  BY <1>1, <1>2, <1>3, TypeCorrect, PTL DEF SaveSpec
-----------------------------------------------------------------------------
(* The header is replaced before .config is moved away: from then on it is *)
(* of this save, and until then .config is older.                          *)
HeaderInv ==
  /\ \A t \in Targets : file[t] # Absent => file[t].save <= saves
  /\ step # "idle" => temp # Absent /\ temp.save = saves
  /\ step = "renameHeader" => tempHeader # Absent /\ tempHeader.save = saves
  /\ include /\ step \in {"keep", "replace"} /\ target = Default =>
       header # Absent /\ header.save = saves
  /\ HeaderFollows

(* The header that make compiles with is never older than .config.         *)
THEOREM HeaderIsNotOlder == SaveSpec => []HeaderFollows
<1>1. SaveInit => HeaderInv
  BY DEF SaveInit, HeaderInv, HeaderFollows
<1>2. TypeOK /\ HeaderInv /\ [SaveNext]_saveVars => HeaderInv'
  <2> SUFFICES ASSUME TypeOK, HeaderInv, [SaveNext]_saveVars PROVE HeaderInv'
    OBVIOUS
  <2>0. \A u \in Targets : file[u] # Absent => file[u].save \in Nat
    BY DEF TypeOK, File
  <2> USE DEF HeaderInv, HeaderFollows, TypeOK
  <2>1. ASSUME NEW t \in Targets, OpenTemp(t) PROVE HeaderInv'
    <3>1. temp' \in [save : Nat, whole : BOOLEAN] /\ temp'.save = saves'
      BY <2>1 DEF OpenTemp
    <3>2. temp' # Absent
      BY <3>1
    <3>3. \A u \in Targets : file'[u] # Absent => file'[u].save <= saves'
      BY <2>0, <2>1 DEF OpenTemp
    <3>4. UNCHANGED <<include, file, header>> /\ step' \in {"header", "fill"}
      BY <2>1 DEF OpenTemp
    <3> QED
      BY <3>1, <3>2, <3>3, <3>4
  <2>2. CASE OpenHeader
    <3>1. CASE tempHeader' = New(FALSE) /\ step' = "fill" /\ UNCHANGED cut
      BY <2>2, <3>1 DEF OpenHeader, New
    <3>2. CASE Stop /\ UNCHANGED tempHeader
      BY <2>2, <3>2 DEF OpenHeader, Stop
    <3> QED
      BY <2>2, <3>1, <3>2 DEF OpenHeader
  <2>3. CASE Fill
    BY <2>3 DEF Fill, New
  <2>4. CASE RenameHeader
    BY <2>4 DEF RenameHeader
  <2>5. CASE Keep
    BY <2>5 DEF Keep
  <2>6. CASE Replace
    BY <2>6 DEF Replace, Stop
  <2>7. CASE KillConf
    BY <2>7 DEF KillConf, Stop
  <2>8. CASE UNCHANGED saveVars
    BY <2>8 DEF saveVars
  <2> QED
    BY <2>1, <2>2, <2>3, <2>4, <2>5, <2>6, <2>7, <2>8 DEF SaveNext
<1>3. HeaderInv => HeaderFollows
  BY DEF HeaderInv
<1> QED
  BY <1>1, <1>2, <1>3, TypeCorrect, PTL DEF SaveSpec
-----------------------------------------------------------------------------
(* What one full disk leaves: until the truncated file takes its place the *)
(* configuration is as good as if no disk had been full, and the save that *)
(* moves a whole copy away is one that has a whole file to put in place.   *)
InPlace(t) ==
  /\ file[t] # Absent => Holds(file[t], t)
  /\ file[t] = Absent /\ saved[t] # 0 => Holds(old[t], t)

BeforeInv ==
  full <= 1 /\ ~cut =>
    /\ step # "idle" => temp # Absent /\ temp.save = saves
    /\ full = 0 /\ Closed => temp.whole
    /\ \A t \in Kept \cap Targets :
         /\ saved[t] <= saves
         /\ step # "replace" \/ t # target => IsKept(t)
         /\ step = "replace" /\ t = target =>
              saved[t] = 0 \/ Holds(old[t], t) \/ Whole(temp)
         /\ full = 0 \/ (Closed /\ ~temp.whole) => InPlace(t)

(* A disk that was full once, in saves that all ran to their end, leaves   *)
(* the last whole configuration in place or beside it (confdata.c: the two *)
(* renames after fclose).                                                  *)
THEOREM OneBefore == SaveSpec => []OneBeforeIsKept
<1>1. SaveInit => BeforeInv
  BY DEF SaveInit, BeforeInv, Closed, IsKept, InPlace
<1>2. TypeOK /\ BeforeInv /\ [SaveNext]_saveVars => BeforeInv'
  <2> SUFFICES ASSUME TypeOK, BeforeInv, [SaveNext]_saveVars, full' <= 1, ~cut'
               PROVE  BeforeInv'
    BY DEF BeforeInv
  <2>0. full <= 1 /\ ~cut /\ full \in Nat
    <3>1. full' = full \/ full' = full + 1
      BY DEF SaveNext, OpenTemp, OpenHeader, Fill, RenameHeader, Keep, Replace, KillConf, saveVars
    <3>2. cut => cut'
      BY DEF SaveNext, OpenTemp, OpenHeader, Fill, RenameHeader, Keep, Replace, KillConf, Stop, saveVars
    <3> QED
      BY <3>1, <3>2 DEF TypeOK
  <2> USE DEF Whole, Holds, Closed, IsKept, InPlace
  <2>1. ASSUME NEW t \in Targets, OpenTemp(t) PROVE BeforeInv'
    <3>1. temp' \in [save : Nat, whole : BOOLEAN] /\ temp'.save = saves'
      BY <2>1 DEF OpenTemp, TypeOK
    <3>2. temp' # Absent
      BY <3>1
    <3> QED
      BY <2>0, <2>1, <3>1, <3>2 DEF OpenTemp, BeforeInv, TypeOK
  <2>2. CASE OpenHeader
    BY <2>0, <2>2 DEF OpenHeader, Stop, BeforeInv, TypeOK
  <2>3. CASE Fill
    BY <2>0, <2>3 DEF Fill, New, BeforeInv, TypeOK
  <2>4. CASE RenameHeader
    BY <2>0, <2>4 DEF RenameHeader, BeforeInv, TypeOK
  <2>5. CASE Keep
    BY <2>0, <2>5 DEF Keep, BeforeInv, TypeOK, File
  <2>6. CASE Replace
    BY <2>0, <2>6 DEF Replace, Stop, BeforeInv, TypeOK, File
  <2>8. CASE UNCHANGED saveVars
    BY <2>0, <2>8 DEF saveVars, BeforeInv, TypeOK
  <2> QED
    BY <2>1, <2>2, <2>3, <2>4, <2>5, <2>6, <2>8 DEF SaveNext, KillConf, Stop
<1>3. BeforeInv => OneBeforeIsKept
  BY DEF BeforeInv, OneBeforeIsKept
<1> QED
  BY <1>1, <1>2, <1>3, TypeCorrect, PTL DEF SaveSpec
=============================================================================
