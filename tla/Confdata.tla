------------------------------ MODULE Confdata ------------------------------
(***************************************************************************)
(* A session of a configuration program over one .config file:             *)
(* scripts/kconfig/confdata.c reads and writes the file, symbol.c (module  *)
(* Symbol) answers the front end.  The three run in one thread: a call of  *)
(* sym_calc_value ends before anything else happens.                       *)
(***************************************************************************)
EXTENDS Symbol, ConfigFile, FiniteSets

CONSTANT MaxSets  \* bound on the number of answers the user gives

ASSUME SetsAssumption == MaxSets \in Nat

VARIABLES
  file,      \* .config: a value for each option, or Unset
  phase,     \* "idle", "loading" in conf_read or "saving" in conf_write
  written,   \* the file was made by conf_write ...
  edited,    \* ... and something was set since it was written or read
  answer,    \* the last value that was accepted: [sym, val], or None
  sets       \* number of values accepted so far

fileVars == <<file, written>>
vars == <<symbolVars, fileVars, phase, edited, answer, sets>>

TypeOK ==
  /\ SymbolTypeOK
  /\ file \in Files /\ phase \in {"idle", "loading", "saving"}
  /\ written \in BOOLEAN /\ edited \in BOOLEAN
  /\ answer \in [sym : Symbols, val : Tri] \cup {None}
  /\ sets \in 0..MaxSets

Init ==
  /\ SymbolInit
  /\ file \in Files /\ phase = "idle" /\ written = FALSE /\ edited = FALSE
  /\ answer = None /\ sets = 0
-----------------------------------------------------------------------------
(* conf_read_simple.                                                       *)
StartLoad ==
  /\ phase = "idle" /\ stack = <<>>
  /\ phase' = "loading"
  /\ user' = LoadedUser(file) /\ wish' = LoadedWish(file) /\ fresh' = LoadedFresh(file)
  /\ ClearAllValid
  /\ edited' = FALSE /\ answer' = None
  /\ UNCHANGED <<kept, fileVars, sets>>

(* conf_read calculates every symbol, the choices last; what the user asked*)
(* of a symbol without a prompt is forgotten, and a choice with a value    *)
(* nobody was asked about is asked again.                                  *)
EndLoad ==
  /\ phase = "loading" /\ stack = <<>> /\ valid = Symbols
  /\ phase' = "idle"
  /\ fresh' = Forgotten(fresh, visible)
  /\ UNCHANGED <<user, wish, valid, kept, stack, fileVars, edited, answer,
                 sets>>

(* conf_write: unless something changed, every symbol is calculated again. *)
StartSave ==
  /\ phase = "idle" /\ stack = <<>>
  /\ phase' = "saving"
  /\ ClearAllValid \/ UNCHANGED <<valid, stack>>
  /\ UNCHANGED <<asked, kept, fileVars, edited, answer, sets>>

(* Every option is written, the choices are not.                           *)
EndSave ==
  /\ phase = "saving" /\ stack = <<>> /\ Options \subseteq valid
  /\ phase' = "idle"
  /\ file' = [s \in Options |-> tri[s]]
  /\ written' = TRUE /\ edited' = FALSE
  /\ UNCHANGED <<symbolVars, answer, sets>>

(* The front end sets what it has shown.                                   *)
Set(s, val) ==
  /\ phase = "idle" /\ sets < MaxSets
  /\ SetTristate(s, val)
  /\ sets' = sets + 1
  /\ edited' = TRUE /\ answer' = [sym |-> s, val |-> val]
  /\ UNCHANGED <<fileVars, phase>>

Calculation ==
  /\ Calculate \/ \E s \in Symbols : CalcSymbol(s)
  /\ UNCHANGED <<fileVars, phase, edited, answer, sets>>

Next ==
  \/ StartLoad \/ EndLoad \/ StartSave \/ EndSave
  \/ \E s \in Symbols, val \in Tri : Set(s, val)
  \/ Calculation

Spec == Init /\ [][Next]_vars
-----------------------------------------------------------------------------
(* Properties.                                                             *)

AtRest == stack = <<>> /\ phase = "idle"

(* A call never meets an unfinished call for its own symbol, so that the   *)
(* recursion ends however the values of a choice refer to it.              *)
NoReentry ==
  \A i, j \in DOMAIN stack : i # j => stack[i].sym # stack[j].sym

(* A value that is kept is the one the language gives to what the user     *)
(* asked for: no order of calculations and no skipped sym_clear_all_valid  *)
(* leaves a stale one.                                                     *)
KeptIsMeant ==
  AtRest => LET meant == Meaning(user, fresh, wish)
            IN \A s \in valid : tri[s] = meant[s].tri

(* An answer the program accepts (sym_set_tristate_value returns true) is  *)
(* the value it then shows; but a choice none of whose values can be seen  *)
(* is "n", or at its lower limit, whatever was answered.                   *)
AnswerHolds ==
  AtRest /\ answer # None /\ answer.sym \in valid =>
    \/ tri[answer.sym] = answer.val
    \/ /\ answer.sym \in ChoiceSymbols
       /\ \A m \in Range(Members[answer.sym]) : visible[m] = No

(* "a boolean choice only allows a single config entry to be selected, a   *)
(* tristate choice also allows any number of entries to be set to 'm'."    *)
ChoiceIsExclusive ==
  AtRest => \A c \in ChoiceSymbols \cap valid :
    LET built == {m \in Range(Members[c]) : tri[m] = Yes}
    IN Range(Members[c]) \subseteq valid =>
         /\ Cardinality(built) <= 1
         /\ tri[c] # Yes => built = {}
         /\ tri[c] = Yes /\ c \notin Tristate => built = {pick[c]}

(* "The value of the current menu symbol is used as the minimal value      *)
(* <symbol> can be set to", where the condition of the select holds.       *)
SelectIsLowerLimit ==
  AtRest => \A d \in Selects :
    {d.by, d.target} \cup Atoms(d.when) \subseteq valid \cup {M} =>
      tri[d.target] >= Min({tri[d.by], Now(d.when)})

(* "normal dependencies reduce the upper limit of a symbol", unless it is  *)
(* selected; a bool is "y" where its dependencies are "m".                 *)
DependsIsUpperLimit ==
  AtRest => \A s \in Options \cap valid :
    Atoms(Base(s)) \subseteq valid \cup {M} =>
      \/ \E d \in Selects : d.target = s
      \/ tri[s] <= Promote(Now(Base(s)), s \notin Tristate \/ modulesVal = No)

(* A file that was saved is read back as it was meant.                     *)
SavedIsReread ==
  AtRest /\ written /\ ~edited =>
    \A s \in Options \cap valid : tri[s] = file[s]
=============================================================================
