--------------------------- MODULE InstallProofs ---------------------------
(***************************************************************************)
(* Proofs about Install, for any number of runs, any arguments and any     *)
(* number of faults.                                                       *)
(***************************************************************************)
EXTENDS Install, SequenceTheorems, FiniteSetTheorems, TLAPS

CONSTANT Words \* names of files and directories

FileName == [dir : Seq(Words), name : Words, suffix : Int]
Inode == [from : Words \cup {"old", None}, whole : BOOLEAN,
          mode : {"final", "private", "source"}]

(* What the runs are given, and no backup among the files at first.        *)
Arguments ==
  /\ \A j \in Jobs : Command[j] \in
       [kind : {"directory", "file"}, dir : Seq(Words) \ {<<>>}, name : Words,
        from : Words, deep : BOOLEAN, preserve : BOOLEAN,
        backup : {"none", "simple", "existing", "numbered"}]
  /\ IsFiniteSet(Olds) /\ Olds \subseteq {n \in FileName : n.suffix = 0}
  /\ None \notin FileName

(* The names a run may install under.                                      *)
Targets(j) ==
  LET c == Command[j]
  IN {Name(c.dir, c.name), Name(c.dir, c.from), Name(Append(c.dir, c.name), c.from)}

(* Each file is installed by one run.                                      *)
Apart ==
  \A j, k \in Jobs :
    j # k /\ Command[j].kind = "file" /\ Command[k].kind = "file"
      => Targets(j) \cap Targets(k) = {}

Making == {"path", "leading", "mkdir"}
Copying == {"copy", "rename", "unlink", "open", "write", "unbackup", "mode", "attributes"}

(* Files are links to inodes, no two to one; the names in use have an end. *)
Bounded == \E b \in Nat : \A e \in DOMAIN entry : e.suffix <= b
FilesOK ==
  /\ inode \in Seq(Inode)
  /\ entry \in [DOMAIN entry -> 1..Len(inode)]
  /\ DOMAIN entry \subseteq FileName
  /\ IsInjective(entry)
  /\ Bounded

JobsOK ==
  /\ at \in [Jobs -> Making \cup Copying \cup Ended]
  /\ depth \in [Jobs -> Nat]
  /\ into \in [Jobs -> FileName \cup {None}]
  /\ backup \in [Jobs -> FileName \cup {None}]
  /\ fd \in [Jobs -> Nat \cup {None}]

(* A run works with its target and with a backup of it.                    *)
NamesOK(j) ==
  /\ at[j] \in Copying => Command[j].kind = "file"
  /\ Command[j].kind = "file" /\ at[j] # "idle" => into[j] \in Targets(j)
  /\ at[j] = "idle" => backup[j] = None
  /\ backup[j] # None =>
       /\ Command[j].kind = "file"
       /\ backup[j].suffix # 0
       /\ backup[j] = [into[j] EXCEPT !.suffix = backup[j].suffix]
  /\ at[j] = "rename" => backup[j] # None
  /\ at[j] = "write" =>
       IsFile(into[j]) /\ fd[j] = entry[into[j]] /\ inode[fd[j]].from = Command[j].from

BaseInv == FilesOK /\ JobsOK /\ \A j \in Jobs : NamesOK(j)
-----------------------------------------------------------------------------
(* A bounded set of integers has a greatest element.                       *)
LEMMA MaxIs ==
  ASSUME NEW S \in SUBSET Int, S # {}, NEW b \in Int, \A x \in S : x <= b
  PROVE  Max(S) \in S /\ \A x \in S : x <= Max(S)
<1> DEFINE T == {b - x : x \in S}
<1>1. T \subseteq Nat /\ T # {}
  <2>1. PICK x \in S : TRUE
    OBVIOUS
  <2>2. b - x \in T
    OBVIOUS
  <2>3. \A y \in S : b - y \in Nat
    OBVIOUS
  <2> QED
    BY <2>2, <2>3
<1>2. PICK m \in T : \A y \in T : m <= y
  <2> DEFINE R == {p \in Nat \X Nat : p[1] < p[2]}
  <2>1. IsWellFoundedOn(R, Nat)
    BY NatLessThanWellFounded DEF OpToRel
  <2> HIDE DEF T
  <2>2. PICK m \in T : \A y \in T : ~(<<y, m>> \in R)
    BY <1>1, <2>1, WFMin
  <2>3. \A y \in T : ~(y < m)
    BY <1>1, <2>2
  <2> QED
    BY <1>1, <2>3
<1>4. PICK x \in S : m = b - x
  OBVIOUS
<1>5. \A y \in S : x >= y
  BY <1>2, <1>4
<1>6. Max(S) \in S /\ \A y \in S : Max(S) >= y
  BY <1>5 DEF Max
<1> QED
  BY <1>6

(* What rename(2) leaves.                                                  *)
LEMMA RenamedIs ==
  ASSUME FilesOK, NEW n \in DOMAIN entry, NEW to \in FileName, n # to
  PROVE  /\ DOMAIN Renamed(n, to) = (DOMAIN entry \cup {to}) \ {n}
         /\ Renamed(n, to)[to] = entry[n]
         /\ \A e \in DOMAIN entry \ {n, to} : Renamed(n, to)[e] = entry[e]
         /\ Renamed(n, to) \in [DOMAIN Renamed(n, to) -> 1..Len(inode)]
         /\ IsInjective(Renamed(n, to))
         /\ \E b \in Nat : \A e \in DOMAIN Renamed(n, to) : e.suffix <= b
<1> DEFINE r == Renamed(n, to)
<1>1. DOMAIN r = (DOMAIN entry \cup {to}) \ {n}
  BY DEF Renamed
<1>2. r[to] = entry[n] /\ \A e \in DOMAIN entry \ {n, to} : r[e] = entry[e]
  BY DEF Renamed
<1>3. r = [e \in DOMAIN r |-> r[e]]
  BY DEF Renamed
<1> HIDE DEF r
<1>4. \A e \in DOMAIN r : r[e] \in 1..Len(inode)
  BY <1>1, <1>2 DEF FilesOK
<1>5. r \in [DOMAIN r -> 1..Len(inode)]
  BY <1>3, <1>4
<1>6. IsInjective(r)
  BY <1>1, <1>2 DEF IsInjective, FilesOK
<1>7. \E b \in Nat : \A e \in DOMAIN r : e.suffix <= b
  <2>1. PICK b \in Nat : \A e \in DOMAIN entry : e.suffix <= b
    BY DEF FilesOK, Bounded
  <2>2. to.suffix \in Int
    BY DEF FileName
  <2>3. CASE to.suffix <= b
    BY <1>1, <2>1, <2>3
  <2>4. CASE to.suffix > b
    <3>1. to.suffix \in Nat /\ \A e \in DOMAIN entry : e.suffix <= to.suffix
      BY <2>1, <2>2, <2>4 DEF FilesOK, FileName
    <3> QED
      BY <1>1, <2>2, <3>1
  <2> QED
    BY <2>2, <2>3, <2>4
<1> QED
  BY <1>1, <1>2, <1>5, <1>6, <1>7 DEF r

(* A backup gets a name of its file, never the file's own, and a numbered  *)
(* one a name beyond all in use.                                           *)
LEMMA BackupNameIs ==
  ASSUME FilesOK, NEW n \in FileName,
         NEW how, NEW b, b = BackupName(n, how)
  PROVE  /\ b \in FileName /\ b.suffix # 0 /\ b = [n EXCEPT !.suffix = b.suffix]
         /\ how = "numbered" =>
              \A e \in DOMAIN entry :
                e.dir = n.dir /\ e.name = n.name => e.suffix < b.suffix
<1> DEFINE S == {e.suffix : e \in {f \in DOMAIN entry :
                   f.dir = n.dir /\ f.name = n.name /\ f.suffix > 0}} \cup {0}
           highest == Max(S)
<1>1. S \subseteq Nat /\ 0 \in S
  BY DEF FilesOK, FileName
<1>2. PICK most \in Nat : \A e \in DOMAIN entry : e.suffix <= most
  BY DEF FilesOK, Bounded
<1>3. highest \in S /\ \A x \in S : x <= highest
  <2>1. \A x \in S : x <= most
    BY <1>2
  <2> HIDE DEF S
  <2>2. S \in SUBSET Int /\ S # {} /\ most \in Int
    BY <1>1
  <2> QED
    BY <2>1, <2>2, MaxIs
<1>4. \A e \in DOMAIN entry :
        e.dir = n.dir /\ e.name = n.name => e.suffix < highest + 1
  <2> SUFFICES ASSUME NEW e \in DOMAIN entry, e.dir = n.dir, e.name = n.name
               PROVE  e.suffix < highest + 1
    OBVIOUS
  <2>1. e.suffix \in Int /\ highest \in Nat
    BY <1>1, <1>3 DEF FilesOK, FileName
  <2>2. CASE e.suffix > 0
    <3>1. e.suffix \in S
      BY <2>2
    <3> HIDE DEF S, highest
    <3> QED
      BY <1>3, <2>1, <3>1
  <2> HIDE DEF S, highest
  <2> QED
    BY <2>1, <2>2
<1>5. b = [n EXCEPT !.suffix =
        IF how = "simple" \/ (how = "existing" /\ highest = 0) THEN -1 ELSE highest + 1]
  BY DEF BackupName
<1>6. highest \in Nat
  BY <1>1, <1>3
<1> HIDE DEF highest, S
<1>7. PICK x \in Int : /\ x # 0 /\ b = [n EXCEPT !.suffix = x]
                       /\ how = "numbered" => x = highest + 1
  BY <1>5, <1>6
<1>8. b.suffix = x /\ b \in FileName
  BY <1>7 DEF FileName
<1> QED
  BY <1>4, <1>7, <1>8
-----------------------------------------------------------------------------
(* All that a step of a run does to files.                                 *)
Rewrites(j) ==
  /\ IsFile(into[j]) /\ UNCHANGED entry
  /\ \E r \in Inode : inode' = [inode EXCEPT ![entry[into[j]]] = r]
Moves(n, to) == IsFile(n) /\ entry' = Renamed(n, to) /\ UNCHANGED inode
Drops(j) == entry' = Restrict(entry, DOMAIN entry \ {into[j]}) /\ UNCHANGED inode
Creates(j) ==
  /\ ~IsFile(into[j])
  /\ \E r \in Inode : inode' = Append(inode, r)
  /\ entry' = [e \in DOMAIN entry \cup {into[j]} |->
                 IF e = into[j] THEN Len(inode) + 1 ELSE entry[e]]

Touches(j) ==
  /\ at[j] \in Copying /\ into[j] \in FileName
  /\ \/ Rewrites(j) \/ Drops(j) \/ Creates(j)
     \/ backup[j] # None /\ (Moves(into[j], backup[j]) \/ Moves(backup[j], into[j]))

LEMMA InodeIs ==
  ASSUME FilesOK, NEW n \in DOMAIN entry
  PROVE  entry[n] \in 1..Len(inode) /\ inode[entry[n]] \in Inode
<1>1. entry[n] \in 1..Len(inode)
  BY DEF FilesOK
<1>2. inode \in Seq(Inode)
  BY DEF FilesOK
<1> QED
  BY <1>1, <1>2, ElementOfSeq

LEMMA TargetIs ==
  ASSUME Arguments, NEW j \in Jobs, NEW n \in Targets(j)
  PROVE  n \in FileName /\ n.suffix = 0 /\ n # None
<1>1. Command[j].dir \in Seq(Words) /\ Command[j].name \in Words /\ Command[j].from \in Words
  BY DEF Arguments
<1>2. Append(Command[j].dir, Command[j].name) \in Seq(Words)
  BY <1>1
<1>3. n \in FileName /\ n.suffix = 0
  BY <1>1, <1>2 DEF Targets, Name, FileName
<1> QED
  BY <1>3 DEF Arguments

LEMMA StepTouches ==
  ASSUME Arguments, BaseInv, NEW j \in Jobs, Step(j) \/ Kill(j)
  PROVE  UNCHANGED <<entry, inode>> \/ Touches(j)
<1>1. CASE Start(j) \/ Path(j) \/ Leading(j) \/ Mkdir(j) \/ Copy(j) \/ Kill(j)
  BY <1>1 DEF Start, Path, Leading, Mkdir, Copy, Kill, files
<1>2. ASSUME Rename(j) \/ Unlink(j) \/ Open(j) \/ Write(j) \/ UnBackup(j)
             \/ Mode(j) \/ Attributes(j)
      PROVE  at[j] \in Copying /\ into[j] \in FileName
  <2>1. at[j] \in Copying
    BY <1>2 DEF Rename, Unlink, Open, Write, UnBackup, Mode, Attributes, Copying
  <2>2. into[j] \in Targets(j)
    BY <2>1 DEF BaseInv, NamesOK, Copying
  <2> QED
    BY <2>1, <2>2, TargetIs
<1>3. CASE Rename(j)
  <2>1. backup[j] # None
    BY <1>3 DEF Rename, BaseInv, NamesOK
  <2> QED
    BY <1>2, <1>3, <2>1 DEF Rename, Touches, Moves
<1>4. CASE Unlink(j)
  BY <1>2, <1>4 DEF Unlink, Touches, Drops
<1>5. CASE Open(j)
  <2> DEFINE new == [from |-> Command[j].from, whole |-> FALSE, mode |-> "private"]
  <2>1. new \in Inode
    BY DEF Arguments, Inode
  <2>2. CASE IsFile(into[j]) /\ ~UNCHANGED <<entry, inode>>
    <3> DEFINE r == [new EXCEPT !.mode = inode[entry[into[j]]].mode]
    <3>1. inode[entry[into[j]]] \in Inode
      BY <2>2, InodeIs DEF BaseInv, IsFile
    <3>2. r \in Inode
      BY <2>1, <3>1 DEF Inode
    <3>3. inode' = [inode EXCEPT ![entry[into[j]]] = r] /\ UNCHANGED entry
      BY <1>5, <2>2 DEF Open
    <3> QED
      BY <1>2, <1>5, <2>2, <3>2, <3>3 DEF Touches, Rewrites
  <2>3. CASE ~IsFile(into[j]) /\ ~UNCHANGED <<entry, inode>>
    BY <1>2, <1>5, <2>1, <2>3 DEF Open, Touches, Creates
  <2> QED
    BY <2>2, <2>3
<1>6. CASE Write(j)
  <2>1. IsFile(into[j]) /\ fd[j] = entry[into[j]]
    BY <1>6 DEF Write, BaseInv, NamesOK
  <2> DEFINE o == inode[entry[into[j]]]
             r == IF o.from = Command[j].from THEN [o EXCEPT !.whole = TRUE]
                  ELSE [o EXCEPT !.from = None, !.whole = FALSE]
  <2>2. o \in Inode
    BY <2>1, InodeIs DEF BaseInv, IsFile
  <2>3. r \in Inode
    BY <2>2 DEF Inode
  <2>4. inode' = [inode EXCEPT ![entry[into[j]]] = r] \/ UNCHANGED inode
    BY <1>6, <2>1 DEF Write
  <2>5. UNCHANGED entry
    BY <1>6 DEF Write
  <2> QED
    BY <1>2, <1>6, <2>1, <2>3, <2>4, <2>5 DEF Touches, Rewrites
<1>7. CASE UnBackup(j)
  BY <1>2, <1>7 DEF UnBackup, Touches, Moves
<1>8. CASE Mode(j) \/ Attributes(j)
  <2>1. CASE IsFile(into[j])
    <3>1. PICK m \in {"final", "private", "source"} :
            inode' = [inode EXCEPT ![entry[into[j]]].mode = m]
      BY <1>8, <2>1 DEF Mode, Attributes, SetMode
    <3> DEFINE r == [inode[entry[into[j]]] EXCEPT !.mode = m]
    <3>2. inode[entry[into[j]]] \in Inode
      BY <2>1, InodeIs DEF BaseInv, IsFile
    <3>3. r \in Inode
      BY <3>2 DEF Inode
    <3>4. inode' = [inode EXCEPT ![entry[into[j]]] = r] /\ UNCHANGED entry
      BY <1>8, <3>1 DEF Mode, Attributes
    <3> QED
      BY <1>2, <1>8, <2>1, <3>3, <3>4 DEF Touches, Rewrites
  <2>2. CASE ~IsFile(into[j])
    BY <1>8, <2>2 DEF Mode, Attributes
  <2> QED
    BY <2>1, <2>2
<1> QED
  BY <1>1, <1>3, <1>4, <1>5, <1>6, <1>7, <1>8 DEF Step

(* A run touches no file but under its target and the backup of it.        *)
SameFile(e) ==
  /\ e \in DOMAIN entry <=> e \in DOMAIN entry'
  /\ e \in DOMAIN entry => entry'[e] = entry[e] /\ inode'[entry[e]] = inode[entry[e]]

LEMMA EditsOne ==
  ASSUME FilesOK, NEW j \in Jobs, Rewrites(j) \/ Drops(j) \/ Creates(j),
         NEW e, e # into[j]
  PROVE  SameFile(e)
<1> USE DEF SameFile
<1>1. CASE Rewrites(j)
  <2>1. PICK r \in Inode : inode' = [inode EXCEPT ![entry[into[j]]] = r]
    BY <1>1 DEF Rewrites
  <2>2. e \in DOMAIN entry => entry[e] # entry[into[j]]
    BY <1>1 DEF Rewrites, FilesOK, IsInjective, IsFile
  <2>3. inode \in Seq(Inode) /\ entry[into[j]] \in 1..Len(inode)
    BY <1>1, InodeIs DEF Rewrites, FilesOK, IsFile
  <2>4. e \in DOMAIN entry => entry[e] \in 1..Len(inode)
    BY InodeIs
  <2>5. e \in DOMAIN entry => inode'[entry[e]] = inode[entry[e]]
    BY <2>1, <2>2, <2>3, <2>4, ExceptSeq
  <2> QED
    BY <1>1, <2>5 DEF Rewrites
<1>2. CASE Drops(j)
  BY <1>2 DEF Drops, Restrict
<1>3. CASE Creates(j)
  <2>1. PICK r \in Inode : inode' = Append(inode, r)
    BY <1>3 DEF Creates
  <2>2. inode \in Seq(Inode)
    BY DEF FilesOK
  <2>3. e \in DOMAIN entry => inode'[entry[e]] = inode[entry[e]]
    BY <2>1, <2>2, InodeIs, AppendProperties
  <2>4. entry' = [x \in DOMAIN entry \cup {into[j]} |->
                   IF x = into[j] THEN Len(inode) + 1 ELSE entry[x]]
    BY <1>3 DEF Creates
  <2> QED
    BY <2>3, <2>4
<1> QED
  BY <1>1, <1>2, <1>3

LEMMA OthersAreSame ==
  ASSUME FilesOK, NEW j \in Jobs, UNCHANGED <<entry, inode>> \/ Touches(j),
         NEW e, e # into[j], e # backup[j]
  PROVE  SameFile(e)
<1>1. CASE UNCHANGED <<entry, inode>>
  BY <1>1 DEF SameFile
<1>2. ASSUME NEW n, NEW to, Moves(n, to), e # n, e # to PROVE SameFile(e)
  BY <1>2 DEF Moves, Renamed, SameFile
<1> QED
  BY <1>1, <1>2, EditsOne DEF Touches

LEMMA TouchedIsOK ==
  ASSUME Arguments, FilesOK, JobsOK, NEW j \in Jobs, NamesOK(j),
         UNCHANGED <<entry, inode>> \/ Touches(j)
  PROVE  FilesOK'
<1>0. \A b \in Nat : (\A e \in DOMAIN entry' : e.suffix <= b) => Bounded'
  BY DEF Bounded
<1>1. CASE UNCHANGED <<entry, inode>>
  BY <1>1 DEF FilesOK, Bounded
<1>2. CASE Rewrites(j)
  <2>1. PICK r \in Inode : inode' = [inode EXCEPT ![entry[into[j]]] = r]
    BY <1>2 DEF Rewrites
  <2>2. inode \in Seq(Inode) /\ entry[into[j]] \in 1..Len(inode)
    BY <1>2, InodeIs DEF Rewrites, FilesOK, IsFile
  <2>3. inode' \in Seq(Inode) /\ Len(inode') = Len(inode)
    BY <2>1, <2>2, ExceptSeq
  <2> QED
    BY <1>2, <2>3 DEF Rewrites, FilesOK, Bounded
<1>3. CASE Drops(j)
  <2>1. \A e \in DOMAIN entry' : e \in DOMAIN entry /\ entry'[e] = entry[e]
    BY <1>3 DEF Drops, Restrict
  <2>2. entry' = [e \in DOMAIN entry' |-> entry'[e]] /\ UNCHANGED inode
    BY <1>3 DEF Drops, Restrict
  <2>3. Bounded'
    BY <1>0, <2>1 DEF FilesOK, Bounded
  <2>4. entry' \in [DOMAIN entry' -> 1..Len(inode)]
    BY <2>1, <2>2 DEF FilesOK
  <2>5. IsInjective(entry')
    BY <2>1 DEF FilesOK, IsInjective
  <2>6. DOMAIN entry' \subseteq FileName
    BY <2>1 DEF FilesOK
  <2> QED
    BY <2>2, <2>3, <2>4, <2>5, <2>6 DEF FilesOK
<1>4. CASE Creates(j) /\ into[j] \in FileName
  <2>1. PICK r \in Inode : inode' = Append(inode, r)
    BY <1>4 DEF Creates
  <2>2. inode \in Seq(Inode) /\ Len(inode) \in Nat
    BY LenProperties DEF FilesOK
  <2>3. inode' \in Seq(Inode) /\ Len(inode') = Len(inode) + 1
    BY <2>1, <2>2, AppendProperties
  <2>4. into[j] \notin DOMAIN entry
    BY <1>4 DEF Creates, IsFile
  <2>5. entry' = [x \in DOMAIN entry \cup {into[j]} |->
                   IF x = into[j] THEN Len(inode) + 1 ELSE entry[x]]
    BY <1>4 DEF Creates
  <2>6. \A x \in DOMAIN entry : entry[x] \in 1..Len(inode)
    BY InodeIs
  <2>7. entry' \in [DOMAIN entry' -> 1..Len(inode')]
    BY <2>2, <2>3, <2>5, <2>6
  <2>8. IsInjective(entry')
    <3>1. \A x \in DOMAIN entry : entry[x] # Len(inode) + 1
      BY <2>2, <2>6
    <3>2. \A a, b \in DOMAIN entry : entry[a] = entry[b] => a = b
      BY DEF FilesOK, IsInjective
    <3> QED
      BY <2>4, <2>5, <3>1, <3>2 DEF IsInjective
  <2>9. Bounded'
    <3>1. PICK b \in Nat : \A e \in DOMAIN entry : e.suffix <= b
      BY DEF FilesOK, Bounded
    <3>2. into[j].suffix \in Int
      BY <1>4 DEF FileName
    <3>3. PICK c \in Nat : b <= c /\ into[j].suffix <= c
      BY <3>2
    <3>4. \A e \in DOMAIN entry : e.suffix \in Int
      BY DEF FilesOK, FileName
    <3>5. \A e \in DOMAIN entry' : e.suffix <= c
      BY <2>5, <3>1, <3>2, <3>3, <3>4
    <3> QED
      BY <1>0, <3>5
  <2> QED
    BY <1>4, <2>3, <2>5, <2>7, <2>8, <2>9 DEF FilesOK
<1>5. ASSUME NEW n, NEW to \in FileName, n # to, Moves(n, to) PROVE FilesOK'
  <2>1. n \in DOMAIN entry /\ entry' = Renamed(n, to) /\ UNCHANGED inode
    BY <1>5 DEF Moves, IsFile
  <2>2. /\ Renamed(n, to) \in [DOMAIN Renamed(n, to) -> 1..Len(inode)]
        /\ IsInjective(Renamed(n, to))
        /\ \E b \in Nat : \A e \in DOMAIN Renamed(n, to) : e.suffix <= b
    BY <1>5, <2>1, RenamedIs
  <2>3. Bounded'
    BY <2>1, <2>2 DEF Bounded
  <2>4. IsInjective(entry') /\ entry' \in [DOMAIN entry' -> 1..Len(inode)]
    BY <2>1, <2>2
  <2>5. DOMAIN Renamed(n, to) = (DOMAIN entry \cup {to}) \ {n}
    BY <1>5, <2>1, RenamedIs
  <2>6. DOMAIN entry' \subseteq FileName
    BY <2>1, <2>5 DEF FilesOK
  <2> QED
    BY <2>1, <2>3, <2>4, <2>6 DEF FilesOK
<1>6. CASE /\ into[j] \in FileName /\ backup[j] # None
           /\ Moves(into[j], backup[j]) \/ Moves(backup[j], into[j])
  <2>1. backup[j] \in FileName
    BY <1>6 DEF JobsOK
  <2>2. into[j] \in Targets(j)
    BY <1>6 DEF NamesOK
  <2>3. into[j] # backup[j]
    BY <1>6, <2>2, TargetIs DEF NamesOK
  <2> QED
    BY <1>5, <1>6, <2>1, <2>3
<1> QED
  BY <1>1, <1>2, <1>3, <1>4, <1>6 DEF Touches

(* A step of a run leaves the state of the others.                         *)
Same(k) ==
  /\ at'[k] = at[k] /\ depth'[k] = depth[k] /\ into'[k] = into[k]
  /\ backup'[k] = backup[k] /\ fd'[k] = fd[k]

LEMMA StepIsLocal ==
  ASSUME Arguments, BaseInv, NEW j \in Jobs, Step(j) \/ Kill(j)
  PROVE  JobsOK' /\ \A k \in Jobs \ {j} : Same(k)
<1> USE DEF Same, JobsOK, Go, Ended, Making, Copying
<1>0. JobsOK /\ at[j] \in Making \cup Copying \cup Ended
  BY DEF BaseInv
<1>1. CASE Start(j)
  <2>1. PICK n \in Targets(j) \cup {None} : into' = [into EXCEPT ![j] = n]
    BY <1>1 DEF Start, Targets
  <2>2. n \in FileName \cup {None}
    BY <2>1, TargetIs
  <2>3. into' \in [Jobs -> FileName \cup {None}] /\ \A k \in Jobs \ {j} : into'[k] = into[k]
    BY <1>0, <2>1, <2>2
  <2>4. at' \in [Jobs -> Making \cup Copying \cup Ended] /\ \A k \in Jobs \ {j} : at'[k] = at[k]
    BY <1>0, <1>1 DEF Start
  <2> QED
    BY <1>0, <1>1, <2>3, <2>4 DEF Start
<1>2. CASE Path(j) \/ Leading(j)
  BY <1>0, <1>2 DEF Path, Leading, Made, Deeper
<1>3. CASE Mkdir(j)
  BY <1>0, <1>3 DEF Mkdir, Made, Deeper
<1>4. CASE Copy(j)
  <2>1. UNCHANGED backup \/ backup' = [backup EXCEPT ![j] = BackupName(into[j], Command[j].backup)]
    BY <1>4 DEF Copy
  <2>2. BackupName(into[j], Command[j].backup) \in FileName
    <3>1. into[j] \in FileName
      BY <1>4, TargetIs DEF Copy, BaseInv, NamesOK
    <3> QED
      BY <3>1, BackupNameIs DEF BaseInv
  <2>3. /\ backup' \in [Jobs -> FileName \cup {None}]
        /\ \A k \in Jobs \ {j} : backup'[k] = backup[k]
    BY <1>0, <2>1, <2>2
  <2>4. at' \in [Jobs -> Making \cup Copying \cup Ended] /\ \A k \in Jobs \ {j} : at'[k] = at[k]
    BY <1>0, <1>4 DEF Copy
  <2> QED
    BY <1>0, <1>4, <2>3, <2>4 DEF Copy
<1>5. CASE Rename(j) \/ Unlink(j)
  BY <1>0, <1>5 DEF Rename, Unlink
<1>6. CASE Open(j)
  <2>1. \A x \in DOMAIN entry : entry[x] \in Nat
    BY InodeIs DEF BaseInv
  <2>2. Len(inode) \in Nat
    BY LenProperties DEF BaseInv, FilesOK
  <2>3. UNCHANGED fd \/ \E i \in Nat : fd' = [fd EXCEPT ![j] = i]
    <3>1. \/ UNCHANGED fd
          \/ IsFile(into[j]) /\ fd' = [fd EXCEPT ![j] = entry[into[j]]]
          \/ fd' = [fd EXCEPT ![j] = Len(inode) + 1]
      BY <1>6 DEF Open
    <3> QED
      BY <2>1, <2>2, <3>1 DEF IsFile
  <2>4. fd' \in [Jobs -> Nat \cup {None}] /\ \A k \in Jobs \ {j} : fd'[k] = fd[k]
    BY <1>0, <2>3
  <2>5. at' \in [Jobs -> Making \cup Copying \cup Ended] /\ \A k \in Jobs \ {j} : at'[k] = at[k]
    BY <1>0, <1>6 DEF Open
  <2> QED
    BY <1>0, <1>6, <2>4, <2>5 DEF Open
<1>7. CASE Write(j) \/ UnBackup(j)
  BY <1>0, <1>7 DEF Write, UnBackup
<1>8. CASE Mode(j) \/ Attributes(j) \/ Kill(j)
  BY <1>0, <1>8 DEF Mode, Attributes, Kill
<1> QED
  BY <1>1, <1>2, <1>3, <1>4, <1>5, <1>6, <1>7, <1>8 DEF Step

(* ... and the files they work with.                                       *)
LEMMA NotMine ==
  ASSUME Arguments, Apart, BaseInv, NEW j \in Jobs, at[j] \in Copying,
         NEW k \in Jobs \ {j}, Command[k].kind = "file", NEW n \in Targets(k)
  PROVE  n # into[j] /\ n # backup[j]
<1>1. Command[j].kind = "file" /\ into[j] \in Targets(j)
  BY DEF BaseInv, NamesOK, Copying
<1>2. n # into[j]
  BY <1>1 DEF Apart
<1>3. n.suffix = 0 /\ n # None
  BY TargetIs
<1> QED
  BY <1>2, <1>3 DEF BaseInv, NamesOK

LEMMA TargetsAreSame ==
  ASSUME Arguments, Apart, BaseInv, NEW j \in Jobs, Step(j) \/ Kill(j),
         NEW k \in Jobs \ {j}, Command[k].kind = "file", NEW n \in Targets(k)
  PROVE  SameFile(n)
<1>1. CASE UNCHANGED <<entry, inode>>
  BY <1>1 DEF SameFile
<1>2. CASE Touches(j)
  BY <1>2, NotMine, OthersAreSame DEF Touches, BaseInv
<1> QED
  BY <1>1, <1>2, StepTouches

LEMMA OwnNames ==
  ASSUME Arguments, BaseInv, NEW j \in Jobs, Step(j) \/ Kill(j)
  PROVE  NamesOK(j)'
<1> USE DEF NamesOK, Go, Making, Copying
<1>0. /\ at \in [Jobs -> Making \cup Copying \cup Ended] /\ NamesOK(j)
      /\ into \in [Jobs -> FileName \cup {None}] /\ backup \in [Jobs -> FileName \cup {None}]
      /\ fd \in [Jobs -> Nat \cup {None}] /\ Command[j].kind \in {"directory", "file"}
  BY DEF BaseInv, JobsOK, Arguments
<1>1. CASE Start(j)
  BY <1>0, <1>1 DEF Start, Targets
<1>2. CASE Path(j) \/ Leading(j)
  BY <1>0, <1>2 DEF Path, Leading, Made
<1>3. CASE Mkdir(j)
  BY <1>0, <1>3 DEF Mkdir, Made
<1>4. CASE Copy(j)
  <2>1. CASE UNCHANGED backup /\ at'[j] # "rename"
    BY <1>0, <1>4, <2>1 DEF Copy
  <2>2. CASE /\ backup' = [backup EXCEPT ![j] = BackupName(into[j], Command[j].backup)]
             /\ at' = [at EXCEPT ![j] = "rename"]
    <3>1. into[j] \in Targets(j) /\ Command[j].kind = "file"
      BY <1>0, <1>4 DEF Copy
    <3>2. into[j] \in FileName
      BY <3>1, TargetIs
    <3> DEFINE b == BackupName(into[j], Command[j].backup)
    <3>3. b \in FileName /\ b.suffix # 0 /\ b = [into[j] EXCEPT !.suffix = b.suffix]
      BY <3>2, BackupNameIs DEF BaseInv
    <3>4. b # None
      BY <3>3 DEF Arguments
    <3>5. backup'[j] = b /\ at'[j] = "rename" /\ UNCHANGED into
      BY <1>0, <1>4, <2>2 DEF Copy
    <3> HIDE DEF b
    <3> QED
      BY <1>0, <3>1, <3>3, <3>4, <3>5
  <2> QED
    BY <1>0, <1>4, <2>1, <2>2 DEF Copy
<1>5. CASE Rename(j) \/ Unlink(j)
  BY <1>0, <1>5 DEF Rename, Unlink
<1>6. CASE Open(j)
  <2>1. UNCHANGED <<into, backup>> /\ at[j] = "open"
    BY <1>6 DEF Open
  <2>2. CASE at'[j] # "write"
    BY <1>0, <1>6, <2>1, <2>2 DEF Open
  <2>3. CASE at'[j] = "write"
    <3>1. inode \in Seq(Inode) /\ Len(inode) \in Nat
      BY LenProperties DEF BaseInv, FilesOK
    <3>2. into[j] \in DOMAIN entry' /\ fd'[j] = entry'[into[j]] /\ inode'[fd'[j]].from = Command[j].from
      <4> DEFINE new == [from |-> Command[j].from, whole |-> FALSE, mode |-> "private"]
      <4>1. CASE IsFile(into[j])
        <5>1. entry[into[j]] \in 1..Len(inode)
          BY <4>1, InodeIs DEF BaseInv, IsFile
        <5>2. /\ inode' = [inode EXCEPT ![entry[into[j]]] = [new EXCEPT !.mode = inode[entry[into[j]]].mode]]
              /\ fd' = [fd EXCEPT ![j] = entry[into[j]]] /\ UNCHANGED entry
          BY <1>0, <1>6, <2>3, <4>1 DEF Open
        <5>3. DOMAIN inode = 1..Len(inode)
          BY <3>1
        <5>4. fd'[j] = entry[into[j]] /\ inode'[entry[into[j]]] = [new EXCEPT !.mode = inode[entry[into[j]]].mode]
          BY <1>0, <5>1, <5>2, <5>3
        <5> QED
          BY <4>1, <5>2, <5>4 DEF IsFile
      <4>2. CASE ~IsFile(into[j])
        <5>1. /\ inode' = Append(inode, new) /\ fd' = [fd EXCEPT ![j] = Len(inode) + 1]
              /\ entry' = [e \in DOMAIN entry \cup {into[j]} |->
                             IF e = into[j] THEN Len(inode) + 1 ELSE entry[e]]
          BY <1>0, <1>6, <2>3, <4>2 DEF Open
        <5>2. new \in Inode
          BY DEF Arguments, Inode
        <5>3. inode'[Len(inode) + 1] = new
          <6> HIDE DEF new
          <6> QED
            BY <3>1, <5>1, <5>2, AppendProperties
        <5> QED
          BY <1>0, <5>1, <5>3
      <4> QED
        BY <4>1, <4>2
    <3> QED
      BY <1>0, <2>1, <2>3, <3>2 DEF IsFile
  <2> QED
    BY <2>2, <2>3
<1>7. CASE Write(j) \/ UnBackup(j)
  BY <1>0, <1>7 DEF Write, UnBackup
<1>8. CASE Mode(j) \/ Attributes(j) \/ Kill(j)
  BY <1>0, <1>8 DEF Mode, Attributes, Kill
<1> QED
  BY <1>1, <1>2, <1>3, <1>4, <1>5, <1>6, <1>7, <1>8 DEF Step

LEMMA BaseInit == ASSUME Arguments, Init PROVE BaseInv
<1>1. Cardinality(Olds) \in Nat
  BY FS_CardinalityType DEF Arguments
<1>2. inode \in Seq(Inode) /\ Len(inode) = Cardinality(Olds) /\ DOMAIN inode = 1..Len(inode)
  <2> DEFINE old == [from |-> "old", whole |-> TRUE, mode |-> "final"]
  <2>1. old \in Inode
    BY DEF Inode
  <2>2. inode = [i \in 1..Cardinality(Olds) |-> old]
    BY DEF Init
  <2> HIDE DEF old
  <2> QED
    BY <1>1, <2>1, <2>2
<1>3. entry \in [Olds -> 1..Len(inode)] /\ IsInjective(entry)
  BY <1>2 DEF Init
<1>4. Bounded
  <2>1. \A e \in DOMAIN entry : e.suffix <= 0
    BY <1>3 DEF Arguments, FileName
  <2> QED
    BY <2>1 DEF Bounded
<1>5. FilesOK
  BY <1>2, <1>3, <1>4 DEF FilesOK, Arguments
<1> QED
  BY <1>5 DEF BaseInv, Init, JobsOK, NamesOK, Ended, Copying, Making

LEMMA BaseStep == ASSUME Arguments, Apart, BaseInv, [Next]_vars PROVE BaseInv'
<1>1. CASE Again
  BY <1>1 DEF Again, BaseInv, FilesOK, Bounded, JobsOK, NamesOK, files, Ended, Copying
<1>2. ASSUME NEW j \in Jobs, Step(j) \/ Kill(j) PROVE BaseInv'
  <2>1. FilesOK'
    BY <1>2, StepTouches, TouchedIsOK DEF BaseInv
  <2>2. JobsOK'
    BY <1>2, StepIsLocal
  <2>3. NamesOK(j)'
    BY <1>2, OwnNames
  <2>4. ASSUME NEW k \in Jobs \ {j} PROVE NamesOK(k)'
    <3>1. Same(k) /\ NamesOK(k)
      BY <1>2, StepIsLocal DEF BaseInv
    <3>2. ASSUME at[k] = "write" PROVE SameFile(into[k])
      <4>1. Command[k].kind = "file" /\ into[k] \in Targets(k)
        BY <3>1, <3>2 DEF NamesOK, Copying
      <4> QED
        BY <1>2, <4>1, TargetsAreSame
    <3> QED
      BY <3>1, <3>2 DEF Same, NamesOK, SameFile, IsFile
  <2> QED
    BY <2>1, <2>2, <2>3, <2>4 DEF BaseInv
<1>3. CASE UNCHANGED vars
  BY <1>3 DEF vars, files, BaseInv, FilesOK, Bounded, JobsOK, NamesOK, IsFile
<1> QED
  BY <1>1, <1>2, <1>3 DEF Next
-----------------------------------------------------------------------------
(* A run with numbered backups never meets a file it would truncate, and   *)
(* moves the one there is to a name that no file has.                      *)
Family(n) == {e \in FileName : e.dir = n.dir /\ e.name = n.name}

Careful(j) ==
  Command[j].backup = "numbered" =>
    /\ at[j] # "unlink"
    /\ at[j] = "open" => ~IsFile(into[j])
    /\ at[j] = "rename" =>
         \A e \in DOMAIN entry \cap Family(into[j]) : e.suffix < backup[j].suffix

(* Names of the same file are touched only by the run that installs it.    *)
LEMMA FamilyIsSame ==
  ASSUME Arguments, BaseInv, NEW j \in Jobs, Step(j) \/ Kill(j),
         NEW n \in FileName, n.suffix = 0, n # into[j], NEW e \in Family(n)
  PROVE  SameFile(e)
<1>1. CASE UNCHANGED <<entry, inode>>
  BY <1>1 DEF SameFile
<1>2. CASE Touches(j)
  <2>1. into[j] \in FileName /\ into[j].suffix = 0
    BY <1>2, TargetIs DEF Touches, BaseInv, NamesOK, Copying
  <2>2. e \in FileName /\ e.dir = n.dir /\ e.name = n.name
    BY DEF Family
  <2>3. e # into[j]
    BY <2>1, <2>2 DEF FileName
  <2>4. e # backup[j]
    <3>1. CASE backup[j] = None
      BY <2>2, <3>1 DEF Arguments
    <3>2. CASE backup[j] # None
      <4>1. backup[j] = [into[j] EXCEPT !.suffix = backup[j].suffix]
        BY <3>2 DEF BaseInv, NamesOK
      <4>2. backup[j].dir = into[j].dir /\ backup[j].name = into[j].name
        BY <2>1, <4>1 DEF FileName
      <4> QED
        BY <2>1, <2>2, <4>2 DEF FileName
    <3> QED
      BY <3>1, <3>2
  <2> QED
    BY <1>2, <2>3, <2>4, OthersAreSame DEF BaseInv
<1> QED
  BY <1>1, <1>2, StepTouches

LEMMA CarefulStep ==
  ASSUME Arguments, Apart, BaseInv, \A j \in Jobs : Careful(j), [Next]_vars
  PROVE  \A j \in Jobs : Careful(j)'
<1> SUFFICES ASSUME NEW j \in Jobs, Command[j].backup = "numbered" PROVE Careful(j)'
  BY DEF Careful
<1> USE DEF Careful, Go
<1>0. /\ at \in [Jobs -> Making \cup Copying \cup Ended] /\ Careful(j)
      /\ backup \in [Jobs -> FileName \cup {None}]
  BY DEF BaseInv, JobsOK
<1>1. CASE Again
  BY <1>1 DEF Again
<1>2. CASE Step(j) \/ Kill(j)
  <2>1. CASE Start(j) \/ Kill(j)
    BY <1>0, <2>1 DEF Start, Kill
  <2>2. CASE Path(j) \/ Leading(j) \/ Mkdir(j)
    BY <1>0, <2>2 DEF Path, Leading, Mkdir, Made
  <2>3. CASE Copy(j)
    <3>1. into[j] \in FileName
      BY <2>3, TargetIs DEF Copy, BaseInv, NamesOK, Copying
    <3>2. UNCHANGED <<into, entry>>
      BY <2>3 DEF Copy, files
    <3>3. CASE at'[j] = "open"
      BY <1>0, <2>3, <3>2, <3>3 DEF Copy, IsFile
    <3>4. CASE at'[j] = "rename"
      <4>1. backup'[j] = BackupName(into[j], "numbered")
        BY <1>0, <2>3, <3>4 DEF Copy
      <4>2. \A e \in DOMAIN entry \cap Family(into[j]) : e.suffix < backup'[j].suffix
        BY <3>1, <4>1, BackupNameIs DEF BaseInv, Family
      <4> QED
        BY <3>2, <3>4, <4>2 DEF Family
    <3>5. at'[j] # "unlink"
      BY <1>0, <2>3 DEF Copy
    <3> QED
      BY <3>3, <3>4, <3>5
  <2>4. CASE Rename(j)
    <3>1. at'[j] = "open" /\ UNCHANGED into
      BY <1>0, <2>4 DEF Rename
    <3>2. into[j] \in Targets(j) /\ backup[j] # None
      BY <2>4 DEF Rename, BaseInv, NamesOK, Copying
    <3>3. into[j] # backup[j]
      BY <3>2, TargetIs DEF BaseInv, NamesOK
    <3>4. ~IsFile(into[j])'
      BY <2>4, <3>1, <3>3 DEF Rename, IsFile, Renamed
    <3> QED
      BY <3>1, <3>4
  <2>5. CASE Open(j) \/ Write(j) \/ UnBackup(j)
    BY <1>0, <2>5 DEF Open, Write, UnBackup
  <2>6. CASE Unlink(j) \/ Mode(j) \/ Attributes(j)
    BY <1>0, <2>6 DEF Unlink, Mode, Attributes
  <2> QED
    BY <1>2, <2>1, <2>2, <2>3, <2>4, <2>5, <2>6 DEF Step
<1>3. ASSUME NEW k \in Jobs, k # j, Step(k) \/ Kill(k) PROVE Careful(j)'
  <2>1. Same(j)
    BY <1>3, StepIsLocal
  <2>2. ASSUME at[j] \in {"open", "rename"}
        PROVE  \A e \in Family(into[j]) : SameFile(e)
    <3>1. Command[j].kind = "file" /\ into[j] \in Targets(j)
      BY <2>2 DEF BaseInv, NamesOK, Copying
    <3>2. into[j] \in FileName /\ into[j].suffix = 0
      BY <3>1, TargetIs
    <3>3. CASE at[k] \in Copying
      <4>1. into[j] # into[k]
        BY <1>3, <3>1, <3>3, NotMine
      <4> QED
        BY <1>3, <3>2, <4>1, FamilyIsSame
    <3>4. CASE at[k] \notin Copying
      BY <1>3, <3>4, StepTouches DEF Touches, SameFile
    <3> QED
      BY <3>3, <3>4
  <2>3. at[j] \in {"open", "rename"} => into[j] \in Family(into[j])
    BY TargetIs DEF BaseInv, NamesOK, Copying, Family
  <2> QED
    BY <1>0, <2>1, <2>2, <2>3 DEF Same, SameFile, IsFile, Family
<1>4. CASE UNCHANGED vars
  BY <1>0, <1>4 DEF vars, files, IsFile, Family
<1> QED
  BY <1>1, <1>2, <1>3, <1>4 DEF Next

(* A run that would install over an old file because a directory is there, *)
(* or is not, keeps backups as well.                                       *)
Numbered ==
  \A j \in Jobs : Command[j].kind = "file" =>
    \A n \in Olds \cap Targets(j) :
      n = Name(Command[j].dir, Command[j].name) \/ Command[j].backup = "numbered"

(* The old file has a name at which no run is writing.                     *)
IsOld(e) == e \in DOMAIN entry /\ inode[entry[e]].from = "old" /\ inode[entry[e]].whole
Writing(n) == \E j \in Jobs : Command[j].kind = "file" /\ at[j] \in {"write", "unbackup"} /\ into[j] = n
Kept(n) == \E e \in Family(n) : IsOld(e) /\ (Writing(n) => e # n)

LEMMA KeptStep ==
  ASSUME Arguments, Apart, BaseInv, \A j \in Jobs : Careful(j), [Next]_vars,
         NEW n \in FileName, n.suffix = 0, Kept(n),
         \A j \in Jobs : Command[j].kind = "file" /\ n \in Targets(j)
                         => Command[j].backup = "numbered"
  PROVE  Kept(n)'
<1> USE DEF Go
<1>0. PICK e \in Family(n) : IsOld(e) /\ (Writing(n) => e # n)
  BY DEF Kept
<1>1. CASE Again
  BY <1>0, <1>1 DEF Again, Kept, IsOld, Writing, files, Family
<1>2. CASE UNCHANGED vars
  BY <1>0, <1>2 DEF vars, files, Kept, IsOld, Writing, Family
<1>3. ASSUME NEW j \in Jobs, Step(j) \/ Kill(j), n # into[j] PROVE Kept(n)'
  <2>1. SameFile(e)
    BY <1>3, FamilyIsSame
  <2>2. IsOld(e)'
    BY <1>0, <2>1 DEF SameFile, IsOld
  <2>3. Writing(n)' => Writing(n)
    <3> SUFFICES ASSUME NEW k \in Jobs, Command[k].kind = "file",
                        at'[k] \in {"write", "unbackup"}, into'[k] = n
                 PROVE  Writing(n)
      BY DEF Writing
    <3>1. k # j
      <4>1. ASSUME k = j PROVE UNCHANGED into
        BY <1>3, <4>1 DEF BaseInv, JobsOK, Step, Kill, Start, Path, Leading, Mkdir, Copy,
             Rename, Unlink, Open, Write, UnBackup, Mode, Attributes, Made
      <4> QED
        BY <1>3, <4>1
    <3>2. Same(k)
      BY <1>3, <3>1, StepIsLocal
    <3> QED
      BY <3>2 DEF Same, Writing
  <2> QED
    BY <1>0, <2>2, <2>3 DEF Kept, Family
<1>4. ASSUME NEW j \in Jobs, Step(j) \/ Kill(j), n = into[j] PROVE Kept(n)'
  <2>0. /\ at \in [Jobs -> Making \cup Copying \cup Ended]
        /\ into \in [Jobs -> FileName \cup {None}] /\ backup \in [Jobs -> FileName \cup {None}]
        /\ Careful(j) /\ NamesOK(j)
    BY DEF BaseInv, JobsOK
  <2>1. ASSUME NEW k \in Jobs, k # j, Command[k].kind = "file", at'[k] \in {"write", "unbackup"}, into'[k] = n, at[j] \in Copying
        PROVE  FALSE
    <3>1. Same(k)
      BY <1>4, <2>1, StepIsLocal
    <3>2. into[k] = n /\ n \in Targets(k)
      BY <2>1, <3>1 DEF Same, BaseInv, NamesOK
    <3> QED
      BY <1>4, <2>1, <3>2, NotMine
  <2>2. ASSUME at[j] \in Copying, UNCHANGED into, at'[j] \notin {"write", "unbackup"}
        PROVE  ~Writing(n)'
    BY <2>1, <2>2 DEF Writing
  <2>3. ASSUME at[j] \in Copying
        PROVE  Command[j].backup = "numbered" /\ Command[j].kind = "file"
    BY <1>4, <2>0, <2>3 DEF NamesOK, Copying
  <2>4. ASSUME NEW k \in Jobs, at[k] \in {"write", "unbackup"}, Command[k].kind = "file", into[k] = n
        PROVE  Writing(n)
    BY <2>4 DEF Writing
  <2>5. CASE Start(j) \/ Path(j) \/ Leading(j) \/ Mkdir(j) \/ Copy(j) \/ Kill(j)
    <3>1. UNCHANGED <<entry, inode>>
      BY <2>5 DEF Start, Path, Leading, Mkdir, Copy, Kill, files
    <3>2. at'[j] \notin {"write", "unbackup"}
      BY <2>0, <2>5 DEF Start, Path, Leading, Mkdir, Copy, Kill, Made
    <3>3. Writing(n)' => Writing(n)
      BY <1>4, <2>4, <3>2, StepIsLocal DEF Same, Writing
    <3> QED
      BY <1>0, <3>1, <3>3 DEF Kept, IsOld, Family
  <2>6. CASE Rename(j)
    <3>1. at[j] \in Copying /\ UNCHANGED into /\ at'[j] = "open" /\ backup[j] # None
      BY <2>0, <2>6 DEF Rename, Copying, NamesOK
    <3>2. ~Writing(n)'
      BY <2>2, <3>1
    <3>3. CASE ~IsFile(n)
      BY <1>0, <1>4, <2>6, <3>2, <3>3 DEF Rename, Kept, IsOld, Family
    <3>4. CASE IsFile(n)
      <4>0. PICK b : b = backup[j]
        OBVIOUS
      <4>1. entry' = Renamed(n, b) /\ UNCHANGED inode
        BY <1>4, <2>6, <3>4, <4>0 DEF Rename
      <4>2. b = [n EXCEPT !.suffix = b.suffix] /\ b.suffix # 0 /\ b \in FileName
        BY <1>4, <2>0, <3>1, <4>0 DEF NamesOK
      <4>3. b \in Family(n) /\ b # n
        BY <4>2 DEF Family, FileName
      <4>4. n \in DOMAIN entry
        BY <3>4 DEF IsFile
      <4>5. /\ DOMAIN entry' = (DOMAIN entry \cup {b}) \ {n}
            /\ entry'[b] = entry[n]
            /\ \A x \in DOMAIN entry \ {n, b} : entry'[x] = entry[x]
        <5>1. /\ DOMAIN Renamed(n, b) = (DOMAIN entry \cup {b}) \ {n}
              /\ Renamed(n, b)[b] = entry[n]
              /\ \A x \in DOMAIN entry \ {n, b} : Renamed(n, b)[x] = entry[x]
          BY <4>2, <4>3, <4>4, RenamedIs DEF BaseInv
        <5> QED
          BY <4>1, <5>1
      <4>6. CASE e = n
        <5>1. IsOld(b)'
          BY <1>0, <4>1, <4>3, <4>5, <4>6 DEF IsOld
        <5> QED
          BY <3>2, <4>3, <5>1 DEF Kept, Family
      <4>7. CASE e # n
        <5>1. b \notin DOMAIN entry
          BY <1>4, <2>0, <2>3, <2>6, <3>1, <4>0, <4>3 DEF Careful, Rename, FileName, Family
        <5>2. IsOld(e)'
          BY <1>0, <4>1, <4>5, <4>7, <5>1 DEF IsOld
        <5> QED
          BY <3>2, <5>2 DEF Kept, Family
      <4> QED
        BY <4>6, <4>7
    <3> QED
      BY <3>3, <3>4
  <2>7. ~Unlink(j)
    BY <2>0, <2>3 DEF Unlink, Careful, Copying
  <2>8. CASE Open(j) \/ Write(j)
    <3>1. at[j] \in Copying
      BY <2>8 DEF Open, Write, Copying
    <3>2. e # n
      <4>1. CASE Open(j)
        BY <1>0, <1>4, <2>0, <2>3, <3>1, <4>1 DEF Open, Careful, IsFile, IsOld
      <4>2. CASE Write(j)
        BY <1>0, <1>4, <2>3, <2>4, <3>1, <4>2 DEF Write
      <4> QED
        BY <2>8, <4>1, <4>2
    <3>3. UNCHANGED <<entry, inode>> \/ Rewrites(j) \/ Creates(j)
      <4>1. CASE Open(j)
        <5>1. ~IsFile(into[j])
          BY <2>0, <2>3, <3>1, <4>1 DEF Open, Careful
        <5>2. UNCHANGED <<entry, inode>> \/ Touches(j)
          BY <1>4, StepTouches
        <5>3. Len(inode) \in Nat /\ inode \in Seq(Inode)
          BY LenProperties DEF BaseInv, FilesOK
        <5>4. [from |-> Command[j].from, whole |-> FALSE, mode |-> "private"] \in Inode
          BY DEF Arguments, Inode
        <5> QED
          BY <4>1, <5>1, <5>4 DEF Open, Creates
      <4>2. CASE Write(j)
        <5>1. UNCHANGED entry
          BY <4>2 DEF Write
        <5>2. CASE UNCHANGED inode
          BY <5>1, <5>2
        <5>3. CASE ~UNCHANGED inode
          BY <1>4, <4>2, <5>1, <5>3, StepTouches DEF Touches, Drops, Moves, Creates, Write
        <5> QED
          BY <5>2, <5>3
      <4> QED
        BY <2>8, <4>1, <4>2
    <3>4. SameFile(e)
      BY <1>4, <3>2, <3>3, EditsOne DEF BaseInv, SameFile
    <3> QED
      BY <1>0, <3>2, <3>4 DEF SameFile, Kept, IsOld, Family
  <2>9. CASE UnBackup(j)
    <3>1. at[j] \in Copying /\ UNCHANGED into /\ at'[j] = "failed"
      BY <2>0, <2>9 DEF UnBackup, Copying
    <3>2. ~Writing(n)'
      BY <2>2, <3>1
    <3>3. e # n
      BY <1>0, <1>4, <2>3, <2>4, <2>9, <3>1 DEF UnBackup
    <3>4. CASE UNCHANGED entry
      BY <1>0, <2>9, <3>2, <3>4 DEF UnBackup, Kept, IsOld, Family
    <3>5. CASE backup[j] # None /\ IsFile(backup[j])
      <4>0. PICK b : b = backup[j]
        OBVIOUS
      <4>1. entry' = Renamed(b, n) /\ UNCHANGED inode
        BY <1>4, <2>9, <3>5, <4>0 DEF UnBackup
      <4>2. b.suffix # 0 /\ b # n /\ b \in DOMAIN entry
        BY <2>0, <3>5, <4>0 DEF NamesOK, IsFile
      <4>3. /\ DOMAIN entry' = (DOMAIN entry \cup {n}) \ {b}
            /\ entry'[n] = entry[b]
            /\ \A x \in DOMAIN entry \ {n, b} : entry'[x] = entry[x]
        <5>1. /\ DOMAIN Renamed(b, n) = (DOMAIN entry \cup {n}) \ {b}
              /\ Renamed(b, n)[n] = entry[b]
              /\ \A x \in DOMAIN entry \ {b, n} : Renamed(b, n)[x] = entry[x]
          BY <4>2, RenamedIs DEF BaseInv
        <5> QED
          BY <4>1, <5>1
      <4>4. n \in Family(n)
        BY DEF Family
      <4>5. CASE e = b
        <5>1. IsOld(n)'
          BY <1>0, <4>1, <4>2, <4>3, <4>5 DEF IsOld
        <5> QED
          BY <3>2, <4>4, <5>1 DEF Kept, Family
      <4>6. CASE e # b
        <5>1. IsOld(e)'
          BY <1>0, <3>3, <4>1, <4>3, <4>6 DEF IsOld
        <5> QED
          BY <3>2, <5>1 DEF Kept, Family
      <4> QED
        BY <4>5, <4>6
    <3> QED
      BY <2>9, <3>4, <3>5 DEF UnBackup
  <2>10. CASE Mode(j) \/ Attributes(j)
    <3>1. at[j] \in Copying /\ UNCHANGED <<into, entry>> /\ at'[j] \notin {"write", "unbackup"}
      BY <2>0, <2>10 DEF Mode, Attributes, Copying
    <3>2. ~Writing(n)'
      BY <2>2, <3>1
    <3>3. CASE UNCHANGED inode
      BY <1>0, <3>1, <3>2, <3>3 DEF Kept, IsOld, Family
    <3>4. ASSUME IsFile(n), NEW m, inode' = [inode EXCEPT ![entry[n]].mode = m]
          PROVE  IsOld(e)'
      <4>1. inode \in Seq(Inode) /\ DOMAIN inode = 1..Len(inode)
        BY LenProperties DEF BaseInv, FilesOK
      <4>2. entry[e] \in 1..Len(inode) /\ inode[entry[e]] \in Inode
        BY <1>0, InodeIs DEF IsOld, BaseInv
      <4>3. inode'[entry[e]] = IF entry[e] = entry[n] THEN [inode[entry[e]] EXCEPT !.mode = m]
                               ELSE inode[entry[e]]
        BY <3>4, <4>1, <4>2
      <4>4. inode'[entry[e]].from = inode[entry[e]].from /\ inode'[entry[e]].whole = inode[entry[e]].whole
        BY <4>2, <4>3 DEF Inode
      <4> QED
        BY <1>0, <3>1, <4>4 DEF IsOld
    <3>5. CASE ~UNCHANGED inode
      BY <1>4, <2>10, <3>2, <3>4, <3>5 DEF Mode, Attributes, SetMode, Kept, Family
    <3> QED
      BY <3>3, <3>5
  <2> QED
    BY <1>4, <2>5, <2>6, <2>7, <2>8, <2>9, <2>10 DEF Step
<1> QED
  BY <1>1, <1>2, <1>3, <1>4 DEF Next

OldInv ==
  /\ BaseInv
  /\ \A j \in Jobs : Careful(j)
  /\ \A n \in Olds :
       (\A j \in Jobs : Command[j].kind = "file" /\ n \in Targets(j)
                         => Command[j].backup = "numbered") => Kept(n)

(* Where each file is installed by one run, a file that was there at first *)
(* outlives, whole, any number of installations over it with numbered      *)
(* backups, however they are stopped (copy.c: rename, open, rename back).  *)
THEOREM OldsAreKept ==
  ASSUME Arguments, Apart, Numbered PROVE Spec => []OldIsKept
<1>1. Init => OldInv
  <2> SUFFICES ASSUME Init PROVE OldInv
    OBVIOUS
  <2>1. BaseInv
    BY BaseInit
  <2>2. \A j \in Jobs : Careful(j)
    BY DEF Init, Careful
  <2>3. ASSUME NEW n \in Olds PROVE Kept(n)
    <3>1. n \in DOMAIN entry /\ n \in FileName /\ entry[n] \in DOMAIN inode
      BY <2>3 DEF Init, Arguments
    <3>2. inode[entry[n]] = [from |-> "old", whole |-> TRUE, mode |-> "final"]
      BY <3>1 DEF Init
    <3>3. ~Writing(n)
      BY DEF Init, Writing
    <3> QED
      BY <3>1, <3>2, <3>3 DEF Kept, IsOld, Family
  <2> QED
    BY <2>1, <2>2, <2>3 DEF OldInv
<1>2. OldInv /\ [Next]_vars => OldInv'
  <2> SUFFICES ASSUME OldInv, [Next]_vars PROVE OldInv'
    OBVIOUS
  <2>1. BaseInv'
    BY BaseStep DEF OldInv
  <2>2. \A j \in Jobs : Careful(j)'
    BY CarefulStep DEF OldInv
  <2>3. ASSUME NEW n \in Olds,
               \A j \in Jobs : Command[j].kind = "file" /\ n \in Targets(j)
                               => Command[j].backup = "numbered"
        PROVE  Kept(n)'
    <3>1. n \in FileName /\ n.suffix = 0
      BY DEF Arguments
    <3>2. Kept(n)
      BY <2>3 DEF OldInv
    <3> QED
      BY <2>3, <3>1, <3>2, KeptStep DEF OldInv
  <2> QED
    BY <2>1, <2>2, <2>3 DEF OldInv
<1>3. OldInv => OldIsKept
  <2> SUFFICES ASSUME OldInv, NEW n \in Olds,
                 \A j \in Jobs :
                   Command[j].kind = "file" /\ Name(Command[j].dir, Command[j].name) = n
                     => Command[j].backup = "numbered"
               PROVE  \E e \in DOMAIN entry : /\ e.dir = n.dir /\ e.name = n.name
                        /\ inode[entry[e]].from = "old" /\ inode[entry[e]].whole
    BY DEF OldIsKept
  <2>1. Kept(n)
    BY DEF OldInv, Numbered
  <2> QED
    BY <2>1 DEF Kept, IsOld, Family
<1> QED
  BY <1>1, <1>2, <1>3, PTL DEF Spec
-----------------------------------------------------------------------------
(* The directories a run makes, and no file with the name of one.          *)
Makes(j) == Command[j].kind = "directory" \/ Command[j].deep
Way(j, i) == SubSeq(Command[j].dir, 1, i)
AsFile(p) == Name(Front(p), Last(p))

NoFileInWay ==
  \A j \in Jobs : Makes(j) => \A i \in 1..Len(Command[j].dir) :
    /\ AsFile(Way(j, i)) \notin Olds
    /\ \A k \in Jobs : Command[k].kind = "file" => AsFile(Way(j, i)) \notin Targets(k)

(* Files have the names they were installed under.                         *)
Known ==
  \A e \in DOMAIN entry : e.suffix = 0 =>
    e \in Olds \/ \E k \in Jobs : Command[k].kind = "file" /\ e \in Targets(k)

(* What make_path has left to do.                                          *)
OnItsWay(j) ==
  /\ at[j] \in Making => Makes(j)
  /\ at[j] \in {"idle", "path"} => depth[j] = 0
  /\ at[j] \in {"leading", "mkdir"} => depth[j] < Len(Command[j].dir)
  /\ at[j] = "mkdir" => IsLast(j)

Installed(j) ==
  /\ Command[j].kind = "directory" /\ at[j] = "done" => Command[j].dir \in dirs
  /\ at[j] \in {"mode", "attributes"} =>
       /\ IsFile(into[j]) /\ inode[entry[into[j]]].whole = TRUE
       /\ inode[entry[into[j]]].from = Command[j].from
  /\ Command[j].kind = "file" /\ at[j] = "done" =>
       /\ IsFile(into[j])
       /\ inode[entry[into[j]]] = [from |-> Command[j].from, whole |-> TRUE, mode |-> "final"]

LEMMA WayIs ==
  ASSUME Arguments, NEW j \in Jobs
  PROVE  /\ Len(Command[j].dir) \in Nat \ {0}
         /\ \A i \in 1..Len(Command[j].dir) : AsFile(Way(j, i)).suffix = 0
         /\ Way(j, Len(Command[j].dir)) = Command[j].dir
<1>1. Command[j].dir \in Seq(Words) /\ Command[j].dir # <<>>
  BY DEF Arguments
<1> QED
  BY <1>1, EmptySeq, SubSeqFull DEF Way, AsFile, Name

(* In the way of make_path there are only directories.                     *)
LEMMA OnlyDirs ==
  ASSUME Arguments, NoFileInWay, Known, NEW j \in Jobs, Makes(j),
         NEW i \in 1..Len(Command[j].dir)
  PROVE  Occupied(Way(j, i)) <=> Way(j, i) \in dirs
<1>1. AsFile(Way(j, i)) \notin DOMAIN entry
  BY WayIs DEF Known, NoFileInWay
<1> QED
  BY <1>1 DEF Occupied, IsDir, IsFile, AsFile

LEMMA KnownStep ==
  ASSUME Arguments, BaseInv, Known, [Next]_vars PROVE Known'
<1>1. ASSUME NEW j \in Jobs, Step(j) \/ Kill(j) PROVE Known'
  <2>1. CASE UNCHANGED <<entry, inode>>
    BY <2>1 DEF Known
  <2>2. CASE Touches(j)
    <3>1. Command[j].kind = "file" /\ into[j] \in Targets(j)
      BY <2>2 DEF Touches, BaseInv, NamesOK, Copying
    <3>2. \A e \in DOMAIN entry' : e \in DOMAIN entry \/ e = into[j] \/ e = backup[j]
      BY <2>2, OthersAreSame DEF BaseInv, SameFile
    <3>3. DOMAIN entry' \subseteq FileName
      BY <1>1, StepTouches, TouchedIsOK DEF BaseInv, FilesOK
    <3>4. backup[j] \in DOMAIN entry' => backup[j].suffix # 0
      <4>1. backup[j] \in DOMAIN entry' => backup[j] # None
        BY <3>3 DEF Arguments
      <4> QED
        BY <4>1 DEF BaseInv, NamesOK
    <3> QED
      BY <3>1, <3>2, <3>4 DEF Known
  <2> QED
    BY <1>1, <2>1, <2>2, StepTouches
<1>2. CASE Again \/ UNCHANGED vars
  BY <1>2 DEF Again, vars, files, Known
<1> QED
  BY <1>1, <1>2 DEF Next

LEMMA OnItsWayStep ==
  ASSUME Arguments, JobsOK, \A j \in Jobs : OnItsWay(j), [Next]_vars
  PROVE  \A j \in Jobs : OnItsWay(j)'
<1> SUFFICES ASSUME NEW j \in Jobs PROVE OnItsWay(j)'
  OBVIOUS
<1>0. /\ at \in [Jobs -> Making \cup Copying \cup Ended] /\ depth \in [Jobs -> Nat]
      /\ OnItsWay(j) /\ Len(Command[j].dir) \in Nat \ {0}
  BY WayIs DEF JobsOK
<1> USE DEF OnItsWay, Go, Making, Ended, Copying
<1>1. CASE Start(j)
  BY <1>0, <1>1 DEF Start, Makes
<1>2. CASE Path(j)
  BY <1>0, <1>2 DEF Path, Made
<1>3. CASE Leading(j)
  <2>1. CASE IsLast(j)
    BY <1>0, <1>3, <2>1 DEF Leading, Made, IsLast
  <2>2. CASE ~IsLast(j)
    BY <1>0, <1>3, <2>2 DEF Leading, Deeper, IsLast
  <2> QED
    BY <2>1, <2>2
<1>4. CASE Mkdir(j)
  BY <1>0, <1>4 DEF Mkdir, Made, Deeper
<1>5. CASE \/ Copy(j) \/ Rename(j) \/ Unlink(j) \/ Open(j) \/ Write(j) \/ UnBackup(j)
           \/ Mode(j) \/ Attributes(j) \/ Kill(j)
  BY <1>0, <1>5 DEF Copy, Rename, Unlink, Open, Write, UnBackup, Mode, Attributes, Kill
<1>6. ASSUME NEW k \in Jobs, k # j, Step(k) \/ Kill(k) PROVE OnItsWay(j)'
  <2>1. at'[j] = at[j] /\ depth'[j] = depth[j]
    BY <1>0, <1>6 DEF Step, Kill, Start, Path, Leading, Mkdir, Copy, Rename, Unlink, Open,
         Write, UnBackup, Mode, Attributes, Made, Deeper
  <2> QED
    BY <1>0, <2>1 DEF IsLast
<1>7. CASE Again \/ UNCHANGED vars
  BY <1>0, <1>7 DEF Again, vars, IsLast
<1> QED
  BY <1>1, <1>2, <1>3, <1>4, <1>5, <1>6, <1>7 DEF Next, Step

(* Directories only ever come.                                             *)
LEMMA DirsStay == ASSUME [Next]_vars PROVE dirs \subseteq dirs'
  BY DEF Next, Again, Step, Kill, Start, Path, Leading, Mkdir, Copy, Rename, Unlink, Open,
       Write, UnBackup, Mode, Attributes, vars, files

WayInv == BaseInv /\ Known /\ \A j \in Jobs : OnItsWay(j)

LEMMA InstalledStep ==
  ASSUME Arguments, Apart, NoFileInWay, WayInv, \A j \in Jobs : Installed(j), [Next]_vars
  PROVE  \A j \in Jobs : Installed(j)'
<1> SUFFICES ASSUME NEW j \in Jobs PROVE Installed(j)'
  OBVIOUS
<1>0. /\ at \in [Jobs -> Making \cup Copying \cup Ended] /\ NamesOK(j) /\ Installed(j)
      /\ OnItsWay(j) /\ Command[j].kind \in {"directory", "file"}
      /\ Len(Command[j].dir) \in Nat \ {0} /\ depth \in [Jobs -> Nat]
  BY WayIs DEF WayInv, BaseInv, JobsOK, Arguments
<1> USE DEF Installed, Go
<1>1. CASE Start(j) \/ Copy(j) \/ Kill(j)
  BY <1>0, <1>1 DEF Start, Copy, Kill
<1>2. CASE Path(j)
  <2>1. UNCHANGED <<dirs, into>> /\ at'[j] \in {"done", "copy", "failed", "leading"}
    BY <1>0, <1>2 DEF Path, Made, files
  <2>2. at'[j] = "done" => Command[j].kind = "directory" /\ Command[j].dir \in dirs
    BY <1>0, <1>2 DEF Path, Made, IsDir
  <2> QED
    BY <2>1, <2>2
<1>3. CASE Leading(j)
  <2>1. CASE IsLast(j) /\ Occupied(Component(j))
    <3>1. Component(j) = Command[j].dir
      BY <1>0, <2>1, WayIs DEF Component, IsLast, Way
    <3>2. Component(j) \in dirs
      <4>1. depth[j] + 1 \in 1..Len(Command[j].dir)
        BY <1>0, <2>1 DEF IsLast
      <4>2. Makes(j)
        BY <1>0, <1>3 DEF Leading, OnItsWay, Making
      <4> QED
        BY <2>1, <4>1, <4>2, OnlyDirs DEF WayInv, Component, Way
    <3> QED
      BY <1>0, <1>3, <2>1, <3>1, <3>2 DEF Leading, Made, files
  <2>2. CASE ~(IsLast(j) /\ Occupied(Component(j)))
    BY <1>0, <1>3, <2>2 DEF Leading
  <2> QED
    BY <2>1, <2>2
<1>4. CASE Mkdir(j)
  <2>1. IsLast(j) /\ Component(j) = Command[j].dir
    BY <1>0, <1>4, WayIs DEF Mkdir, OnItsWay, Component, IsLast, Way
  <2> QED
    BY <1>0, <1>4, <2>1 DEF Mkdir, Made
<1>5. CASE Rename(j) \/ Unlink(j) \/ Open(j) \/ UnBackup(j)
  BY <1>0, <1>5 DEF Rename, Unlink, Open, UnBackup
<1>6. CASE Write(j)
  <2>1. Command[j].kind = "file" /\ IsFile(into[j]) /\ fd[j] = entry[into[j]]
    BY <1>0, <1>6 DEF Write, NamesOK, Copying
  <2>2. inode[fd[j]].from = Command[j].from
    BY <1>0, <1>6 DEF Write, NamesOK
  <2>3. UNCHANGED <<entry, into>>
    BY <1>6 DEF Write
  <2>4. CASE at'[j] # "mode"
    BY <1>0, <1>6, <2>1, <2>4 DEF Write
  <2>5. CASE at'[j] = "mode"
    <3>1. inode' = [inode EXCEPT ![fd[j]] = [inode[fd[j]] EXCEPT !.whole = TRUE]]
      BY <1>0, <1>6, <2>2, <2>5 DEF Write
    <3>2. inode[fd[j]] \in Inode /\ fd[j] \in DOMAIN inode
      <4>1. inode[fd[j]] \in Inode /\ fd[j] \in 1..Len(inode)
        BY <2>1, InodeIs DEF IsFile, WayInv, BaseInv
      <4> QED
        BY <4>1, LenProperties DEF WayInv, BaseInv, FilesOK
    <3>3. inode'[fd[j]].whole = TRUE /\ inode'[fd[j]].from = Command[j].from
      BY <2>2, <3>1, <3>2 DEF Inode
    <3> QED
      BY <2>1, <2>3, <2>5, <3>3 DEF IsFile
  <2> QED
    BY <2>4, <2>5
<1>7. CASE Mode(j) \/ Attributes(j)
  <2>1. Command[j].kind = "file" /\ at[j] \in {"mode", "attributes"} /\ IsFile(into[j])
    BY <1>0, <1>7 DEF Mode, Attributes, NamesOK, Copying
  <2>2. UNCHANGED <<entry, into>>
    BY <1>7 DEF Mode, Attributes
  <2>3. PICK m : /\ inode' = [inode EXCEPT ![entry[into[j]]].mode = m]
                 /\ at'[j] = "done" => m = "final"
                 /\ at'[j] \in {"attributes", "done"}
    BY <1>0, <1>7, <2>1 DEF Mode, Attributes, SetMode
  <2>4. inode[entry[into[j]]] \in Inode /\ entry[into[j]] \in DOMAIN inode
    <3>1. inode[entry[into[j]]] \in Inode /\ entry[into[j]] \in 1..Len(inode)
      BY <2>1, InodeIs DEF IsFile, WayInv, BaseInv
    <3> QED
      BY <3>1, LenProperties DEF WayInv, BaseInv, FilesOK
  <2>5. inode'[entry[into[j]]] = [inode[entry[into[j]]] EXCEPT !.mode = m]
    BY <2>3, <2>4
  <2>6. inode[entry[into[j]]].whole = TRUE /\ inode[entry[into[j]]].from = Command[j].from
    BY <1>0, <2>1
  <2>7. inode'[entry[into[j]]] = [from |-> Command[j].from, whole |-> TRUE, mode |-> m]
    BY <2>4, <2>5, <2>6 DEF Inode
  <2>8. /\ inode'[entry[into[j]]].whole = TRUE
        /\ inode'[entry[into[j]]].from = Command[j].from
    BY <2>7
  <2>9. CASE at'[j] = "attributes"
    BY <2>1, <2>2, <2>8, <2>9 DEF IsFile
  <2>10. CASE at'[j] = "done"
    BY <2>1, <2>2, <2>3, <2>7, <2>10 DEF IsFile
  <2> QED
    BY <2>3, <2>9, <2>10
<1>8. ASSUME NEW k \in Jobs, k # j, Step(k) \/ Kill(k) PROVE Installed(j)'
  <2>1. Same(j)
    BY <1>8, StepIsLocal DEF WayInv
  <2>2. ASSUME Command[j].kind = "file", at[j] \in {"mode", "attributes", "done"}
        PROVE  SameFile(into[j])
    <3>1. into[j] \in Targets(j)
      BY <1>0, <2>2 DEF NamesOK
    <3> QED
      BY <1>8, <2>2, <3>1, TargetsAreSame DEF WayInv
  <2>3. at[j] \in {"mode", "attributes"} => Command[j].kind = "file"
    BY <1>0 DEF NamesOK, Copying
  <2> QED
    BY <1>0, <2>1, <2>2, <2>3, DirsStay DEF Same, SameFile, IsFile
<1>9. CASE Again \/ UNCHANGED vars
  BY <1>0, <1>9 DEF Again, vars, files, IsFile
<1> QED
  BY <1>1, <1>2, <1>3, <1>4, <1>5, <1>6, <1>7, <1>8, <1>9 DEF Next, Step

LEMMA WayInit == ASSUME Arguments, Init PROVE WayInv /\ \A j \in Jobs : Installed(j)
  BY BaseInit DEF WayInv, Init, Known, OnItsWay, Installed, Making

LEMMA WayStep ==
  ASSUME Arguments, Apart, WayInv, [Next]_vars PROVE WayInv'
  BY BaseStep, KnownStep, OnItsWayStep DEF WayInv, BaseInv

(* A run that ends well has installed, whatever the others do at the same  *)
(* time and however often it was stopped before, where no two install one  *)
(* file and no file has the name of a directory that is to be made.        *)
THEOREM SuccessIsTrue ==
  ASSUME Arguments, Apart, NoFileInWay PROVE Spec => []SuccessIsInstalled
<1>1. Init => WayInv /\ \A j \in Jobs : Installed(j)
  BY WayInit
<1>2. WayInv /\ (\A j \in Jobs : Installed(j)) /\ [Next]_vars
        => (WayInv /\ \A j \in Jobs : Installed(j))'
  BY WayStep, InstalledStep
<1>3. (\A j \in Jobs : Installed(j)) => SuccessIsInstalled
  BY DEF Arguments, Installed, SuccessIsInstalled
<1> QED
  BY <1>1, <1>2, <1>3, PTL DEF Spec
-----------------------------------------------------------------------------
(* The directories there may be.                                           *)
Directories ==
  Before \cup UNION {{Way(j, i) : i \in 1..Len(Command[j].dir)} : j \in {k \in Jobs : Makes(k)}}

(* A directory that is missing is made by one run, and is no parent of one *)
(* that another run makes.                                                 *)
OwnDirs ==
  \A j, k \in Jobs :
    j # k /\ Makes(j) /\ Makes(k) /\ Command[j].dir \notin Before
      => \A i \in 1..Len(Command[k].dir) : Way(k, i) # Command[j].dir

(* There is a directory for each file, or it is made, and it has no other  *)
(* of the name of the file.                                                *)
Room ==
  \A j \in Jobs : Command[j].kind = "file" =>
    LET c == Command[j]
        dest == Append(c.dir, c.name)
    IN IF dest \in Before THEN Append(dest, c.from) \notin Directories
       ELSE /\ dest \notin Directories
            /\ IF c.deep THEN Append(c.dir, c.from) \notin Directories ELSE c.dir \in Before

Clean(j) ==
  /\ at[j] \in {"failed", "unbackup"} => j \in hurt
  /\ at[j] = "mkdir" => Command[j].dir \notin dirs
  /\ at[j] \in Making /\ Command[j].kind = "file" =>
       /\ into[j] = Name(Command[j].dir, Command[j].from)
       /\ Append(Command[j].dir, Command[j].from) \notin Directories
  /\ at[j] \in Copying =>
       into[j].dir \in dirs /\ Append(into[j].dir, into[j].name) \notin Directories

CleanInv ==
  /\ Before \subseteq dirs /\ dirs \subseteq Directories
  /\ \A j \in Jobs : Clean(j)

LEMMA ComponentIs ==
  ASSUME Arguments, WayInv, NEW j \in Jobs, at[j] \in {"leading", "mkdir"}
  PROVE  /\ depth[j] + 1 \in 1..Len(Command[j].dir) /\ Makes(j)
         /\ Component(j) = Way(j, depth[j] + 1) /\ Component(j) \in Directories
<1>1. depth[j] \in Nat /\ Len(Command[j].dir) \in Nat
  BY WayIs DEF WayInv, BaseInv, JobsOK
<1>2. depth[j] + 1 \in 1..Len(Command[j].dir) /\ Makes(j)
  BY <1>1 DEF WayInv, OnItsWay, Making
<1>3. Component(j) = Way(j, depth[j] + 1)
  BY DEF Component, Way
<1> QED
  BY <1>2, <1>3 DEF Directories

LEMMA CleanStep ==
  ASSUME Arguments, NoFileInWay, OwnDirs, Room, WayInv, \A j \in Jobs : Installed(j),
         CleanInv, [Next]_vars
  PROVE  CleanInv'
<1>0. /\ at \in [Jobs -> Making \cup Copying \cup Ended]
      /\ into \in [Jobs -> FileName \cup {None}]
  BY DEF WayInv, BaseInv, JobsOK
<1> USE DEF Go
<1>1. ASSUME NEW j \in Jobs, Step(j) \/ Kill(j)
      PROVE  dirs' = dirs \/ (at[j] \in {"leading", "mkdir"} /\ dirs' = dirs \cup {Component(j)})
  BY <1>1 DEF Step, Kill, Start, Path, Leading, Mkdir, Copy, Rename, Unlink, Open, Write,
       UnBackup, Mode, Attributes, files
<1>2. Before \subseteq dirs' /\ dirs' \subseteq Directories
  <2>1. CASE Again \/ UNCHANGED vars
    BY <2>1 DEF CleanInv, Again, vars, files
  <2>2. ASSUME NEW j \in Jobs, Step(j) \/ Kill(j) PROVE dirs' \subseteq Directories
    BY <1>1, <2>2, ComponentIs DEF CleanInv
  <2> QED
    BY <2>1, <2>2, DirsStay DEF CleanInv, Next
<1>3. ASSUME NEW j \in Jobs, Step(j) \/ Kill(j) PROVE Clean(j)'
  <2>0. /\ Clean(j) /\ OnItsWay(j) /\ Installed(j) /\ NamesOK(j)
        /\ Command[j].kind \in {"directory", "file"}
        /\ Before \subseteq dirs /\ dirs \subseteq Directories
    BY DEF CleanInv, WayInv, BaseInv, Arguments
  <2> USE DEF Clean, Making, Copying, Ended
  <2>1. CASE Start(j)
    <3>1. Room!(j) /\ UNCHANGED <<dirs, hurt>>
      BY <2>1 DEF Room, Start, files
    <3> QED
      BY <1>0, <2>0, <2>1, <3>1 DEF Start, IsDir, Name
  <2>2. CASE Path(j)
    <3>1. Makes(j) /\ Len(Command[j].dir) \in 1..Len(Command[j].dir)
      BY <1>0, <2>0, <2>2, WayIs DEF Path, OnItsWay
    <3>2. Occupied(Command[j].dir) <=> Command[j].dir \in dirs
      BY <3>1, WayIs, OnlyDirs DEF WayInv
    <3>3. /\ UNCHANGED <<dirs, into, hurt>> /\ at[j] = "path"
          /\ at'[j] = IF Command[j].dir \in dirs THEN Made(j) ELSE "leading"
      BY <1>0, <2>2, <3>2 DEF Path, files, IsDir
    <3> QED
      BY <2>0, <3>3 DEF Made, Name
  <2>3. CASE Leading(j)
    <3>1. /\ depth[j] + 1 \in 1..Len(Command[j].dir) /\ Makes(j)
          /\ Component(j) = Way(j, depth[j] + 1)
      BY <2>3, ComponentIs DEF Leading
    <3>2. Occupied(Component(j)) <=> Component(j) \in dirs
      BY <3>1, OnlyDirs DEF WayInv
    <3>3. CASE IsLast(j)
      <4>1. Component(j) = Command[j].dir
        BY <3>1, <3>3, WayIs DEF IsLast
      <4>2. /\ UNCHANGED <<dirs, into, hurt>> /\ at[j] = "leading"
            /\ at'[j] = IF Command[j].dir \in dirs THEN Made(j) ELSE "mkdir"
        BY <1>0, <2>3, <3>2, <3>3, <4>1 DEF Leading, files
      <4> QED
        BY <2>0, <4>2 DEF Made, Name
    <3>4. CASE ~IsLast(j)
      <4>1. UNCHANGED <<at, into, hurt>> /\ at[j] = "leading"
        BY <2>3, <3>2, <3>4 DEF Leading, IsDir
      <4> QED
        BY <2>0, <4>1
    <3> QED
      BY <3>3, <3>4
  <2>4. CASE Mkdir(j)
    <3>1. /\ depth[j] + 1 \in 1..Len(Command[j].dir) /\ Makes(j)
          /\ Component(j) = Way(j, depth[j] + 1)
      BY <2>4, ComponentIs DEF Mkdir
    <3>2. Occupied(Component(j)) <=> Component(j) \in dirs
      BY <3>1, OnlyDirs DEF WayInv
    <3>3. IsLast(j) /\ Component(j) = Command[j].dir
      BY <2>0, <2>4, <3>1, WayIs DEF Mkdir, OnItsWay, IsLast
    <3>4. /\ UNCHANGED <<into, hurt>> /\ at[j] = "mkdir" /\ at'[j] = Made(j)
          /\ dirs' = dirs \cup {Command[j].dir}
      BY <1>0, <2>0, <2>4, <3>2, <3>3 DEF Mkdir
    <3> QED
      BY <2>0, <3>4 DEF Made, Name
  <2>5. CASE Copy(j)
    <3>1. /\ UNCHANGED <<dirs, into, hurt>> /\ at[j] = "copy"
          /\ at'[j] \in {"open", "unlink", "rename"}
      BY <1>0, <2>0, <2>5 DEF Copy, IsDir, files
    <3> QED
      BY <2>0, <3>1
  <2>6. CASE Rename(j) \/ Unlink(j)
    <3>1. /\ UNCHANGED <<dirs, into>> /\ hurt \subseteq hurt'
          /\ at[j] \in Copying /\ at'[j] = "open"
      BY <1>0, <2>6 DEF Rename, Unlink, Fault
    <3> QED
      BY <2>0, <3>1
  <2>7. CASE Open(j)
    <3>1. into[j].dir \in dirs /\ Append(into[j].dir, into[j].name) \notin dirs
      BY <2>0, <2>7 DEF Open
    <3>2. UNCHANGED <<dirs, into, hurt>> /\ at[j] = "open" /\ at'[j] = "write"
      BY <1>0, <2>7, <3>1 DEF Open, IsDir
    <3> QED
      BY <2>0, <3>2
  <2>8. CASE Write(j)
    <3>1. UNCHANGED <<dirs, into>> /\ at[j] = "write" /\ at'[j] \in {"mode", "unbackup"}
      BY <1>0, <2>8 DEF Write
    <3>2. at'[j] = "unbackup" => j \in hurt'
      <4>1. CASE Fault(j, "write")
        BY <4>1 DEF Fault
      <4>2. CASE ~Fault(j, "write")
        BY <1>0, <2>8, <4>2 DEF Write
      <4> QED
        BY <4>1, <4>2
    <3> QED
      BY <2>0, <3>1, <3>2
  <2>9. CASE UnBackup(j)
    BY <1>0, <2>0, <2>9 DEF UnBackup
  <2>10. CASE Mode(j)
    <3>1. UNCHANGED <<dirs, into>> /\ at[j] = "mode" /\ at'[j] = "attributes"
      BY <1>0, <2>0, <2>10 DEF Mode, Installed
    <3> QED
      BY <2>0, <3>1
  <2>11. CASE Attributes(j)
    <3>1. at'[j] = "done"
      BY <1>0, <2>0, <2>11 DEF Attributes, Installed
    <3> QED
      BY <3>1
  <2>12. CASE Kill(j)
    <3>1. at'[j] = "killed"
      BY <1>0, <2>12 DEF Kill
    <3> QED
      BY <3>1
  <2> QED
    BY <1>3, <2>1, <2>2, <2>3, <2>4, <2>5, <2>6, <2>7, <2>8, <2>9, <2>10, <2>11, <2>12 DEF Step
<1>4. ASSUME NEW j \in Jobs, NEW k \in Jobs, k # j, Step(k) \/ Kill(k)
      PROVE  Clean(j)'
  <2>1. at'[j] = at[j] /\ into'[j] = into[j]
    BY <1>4, StepIsLocal DEF WayInv, Same
  <2>2. hurt \subseteq hurt'
    BY <1>4 DEF Step, Kill, Start, Path, Leading, Mkdir, Copy, Rename, Unlink, Open, Write,
         UnBackup, Mode, Attributes, Fault
  <2>3. Clean(j) /\ OnItsWay(j) /\ Before \subseteq dirs
    BY DEF CleanInv, WayInv
  <2>4. at[j] = "mkdir" => Command[j].dir \notin dirs'
    <3> SUFFICES ASSUME at[j] = "mkdir", at[k] \in {"leading", "mkdir"},
                        dirs' = dirs \cup {Component(k)}
                 PROVE  Command[j].dir \notin dirs'
      BY <1>1, <1>4, <2>3 DEF Clean
    <3>1. Command[j].dir \notin dirs /\ Makes(j)
      BY <2>3 DEF Clean, OnItsWay, Making
    <3>2. /\ depth[k] + 1 \in 1..Len(Command[k].dir) /\ Makes(k)
          /\ Component(k) = Way(k, depth[k] + 1)
      BY ComponentIs
    <3>3. Component(k) # Command[j].dir
      BY <1>4, <2>3, <3>1, <3>2 DEF OwnDirs
    <3> QED
      BY <3>1, <3>3
  <2> QED
    BY <2>1, <2>2, <2>3, <2>4, DirsStay DEF Clean
<1>5. ASSUME Again \/ UNCHANGED vars, NEW j \in Jobs PROVE Clean(j)'
  BY <1>5 DEF Again, vars, files, Clean, CleanInv, Making, Copying
<1> QED
  BY <1>2, <1>3, <1>4, <1>5 DEF CleanInv, Next

(* Runs that make different directories beside each other fail only of     *)
(* what befell them, where no file is in the way of a directory and no     *)
(* directory in that of a file.                                            *)
THEOREM FailuresAreReal ==
  ASSUME Arguments, Apart, NoFileInWay, OwnDirs, Room PROVE Spec => []NoFalseFailure
<1> DEFINE I == WayInv /\ (\A j \in Jobs : Installed(j)) /\ CleanInv
<1>1. Init => I
  BY WayInit DEF Init, CleanInv, Clean, Directories, Making, Copying
<1>2. I /\ [Next]_vars => I'
  BY WayStep, InstalledStep, CleanStep
<1>3. I => NoFalseFailure
  BY DEF CleanInv, Clean, NoFalseFailure
<1> QED
  BY <1>1, <1>2, <1>3, PTL DEF Spec
=============================================================================
