----------------------------- MODULE ConfigFile -----------------------------
(***************************************************************************)
(* The lines of a .config file and what scripts/kconfig/confdata.c takes   *)
(* from them: the user values, wishes and SYMBOL_NEW flags that            *)
(* conf_read_simple leaves, and what conf_read forgets of them again.      *)
(***************************************************************************)
EXTENDS Kconfig

CONSTANT Unset  \* no line for the symbol

ASSUME UnsetAssumption == Unset \notin Tri

(* What a line may say of an option; "m" for a bool is warned of and passed*)
(* over.                                                                   *)
Lines(s) == {Unset} \cup (IF s \in Tristate THEN Tri ELSE {No, Yes})
Files == {f \in [Options -> Tri \cup {Unset}] : \A s \in Options : f[s] \in Lines(s)}

(* The line of choice value m: the choice gathers what its values ask for. *)
MutGather(file, c, m) ==
  IF file[m] = Unset THEN c
  ELSE [c EXCEPT !.tri = Max({@, file[m]})]
Gather(file, c, m) ==
  IF file[m] = Unset THEN c
  ELSE [tri |-> Max({c.tri, file[m]}),
        wish |-> IF file[m] = Yes /\ c.tri = No THEN m ELSE c.wish,
        fresh |-> \/ c.fresh
                  \/ file[m] = Mod /\ c.tri = Yes
                  \/ file[m] = Yes /\ c.tri # No]
Gathered(file, c) ==
  FoldLeft(LAMBDA sum, m : Gather(file, sum, m),
           [tri |-> No, wish |-> None, fresh |-> FALSE], Members[c])

LoadedUser(file) ==
  [s \in Symbols |-> IF s \in ChoiceSymbols THEN Gathered(file, s).tri
                     ELSE IF file[s] = Unset THEN No ELSE file[s]]
LoadedWish(file) == [c \in ChoiceSymbols |-> Gathered(file, c).wish]
LoadedFresh(file) ==
  {s \in Options : file[s] = Unset} \cup {c \in ChoiceSymbols : Gathered(file, c).fresh}

(* conf_read: what was asked of a symbol without a prompt is forgotten, and*)
(* a choice with a value nobody was asked about is asked again.            *)
MutForgotten(fresh, visible) == fresh \cup {s \in Symbols \ MemberSet : visible[s] = No}
Forgotten(fresh, visible) ==
  fresh \cup {s \in Symbols \ MemberSet : visible[s] = No}
        \cup {c \in ChoiceSymbols : \E m \in Range(Members[c]) :
                                      visible[m] # No /\ m \in fresh}
=============================================================================
