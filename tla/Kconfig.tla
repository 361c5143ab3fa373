------------------------------ MODULE Kconfig ------------------------------
(***************************************************************************)
(* A parsed tree of Config.in files, as scripts/kconfig keeps it after     *)
(* menu_finalize, and the meaning that kconfig-language.txt gives to it:   *)
(* the value of each symbol as a function of what the user asked for.      *)
(* Only bool and tristate symbols and choices are considered.              *)
(*                                                                         *)
(* An expression is kept in normal form, a set of conjunctions, each a set *)
(* of literals <<atom, map>>: !A is <<A, Negated>> and A=y is <<A, IsYes>>.*)
(***************************************************************************)
EXTENDS Naturals, Sequences, SequencesExt, FiniteSets

CONSTANTS
  Options,        \* symbols declared by "config"
  ChoiceSymbols,  \* the nameless symbols declared by "choice"
  None,           \* no symbol
  Tristate,       \* the tristate ones; the others are bool
  Members,        \* Members[c]: the values of choice c, in order
  Optional,       \* choices declared "optional"
  Depends,        \* "depends on", with that of the menus around the symbol
  Asks,           \* "prompt ... if"; Never when there is no prompt
  Defaults,       \* the defaults in order: [when, value]; [when, pick] of a
                  \* choice
  Selects,        \* the "select" statements: [by, target, when]
  Modules         \* the symbol MODULES, or None

No == 0
Mod == 1
Yes == 2
Tri == {No, Mod, Yes}

Symbols == Options \cup ChoiceSymbols
MemberSet == UNION {Range(Members[c]) : c \in ChoiceSymbols}
ChoiceOf(s) == CHOOSE c \in ChoiceSymbols : s \in Range(Members[c])

Identity == [t \in Tri |-> t]
Negated == [t \in Tri |-> 2 - t]
IsYes == [t \in Tri |-> IF t = Yes THEN Yes ELSE No]

Always == {{}}
Never == {}
If(s) == {{<<s, Identity>>}}
And(e, f) == {a \cup b : a \in e, b \in f}
Or(e, f) == e \cup f
M == "m"      \* symbol_mod

Atoms(e) == {literal[1] : literal \in UNION e}

ASSUME SymbolsAssumption ==
  /\ Options \cap ChoiceSymbols = {} /\ None \notin Symbols /\ M \notin Symbols
  /\ Tristate \subseteq Symbols /\ Optional \subseteq ChoiceSymbols
  /\ Members \in [ChoiceSymbols -> Seq(Options)]
  /\ \A c, d \in ChoiceSymbols :
       c # d => Range(Members[c]) \cap Range(Members[d]) = {}

Expressions == SUBSET SUBSET ((Symbols \cup {M}) \X [Tri -> Tri])

ASSUME ExpressionsAssumption ==
  /\ \A s \in Symbols :
       /\ Depends[s] \in Expressions /\ Asks[s] \in Expressions
       /\ Defaults[s] \in Seq(IF s \in Options THEN [when : Expressions, value : Expressions]
                              ELSE [when : Expressions, pick : Range(Members[s])])
  /\ Selects \subseteq [by : Options, target : Options, when : Expressions]

(* menu_finalize: a symbol's dependencies are added to the condition of    *)
(* each of its properties; a choice value depends on its choice.           *)
Base(s) == IF s \in MemberSet THEN And(If(ChoiceOf(s)), Depends[s])
           ELSE Depends[s]
Prompt == [s \in Symbols |-> And(Base(s), Asks[s])]
Default == [s \in Symbols |->
              [i \in DOMAIN Defaults[s] |->
                 [Defaults[s][i] EXCEPT !.when = And(Base(s), @)]]]

(* rev_dep: a symbol is selected by others; a choice that is not optional  *)
(* is at least "m" wherever it is visible.                                 *)
Select == [s \in Symbols |->
             Or(UNION {And(If(d.by), And(Base(d.by), d.when)) :
                         d \in {d \in Selects : d.target = s}},
                IF s \in ChoiceSymbols \ Optional
                THEN And(Prompt[s], {{<<M, Identity>>}}) ELSE Never)]

(* The usual MODULES: a bool whose value depends on nothing but the user.  *)
ASSUME ModulesAssumption ==
  Modules # None =>
    /\ Modules \in Options \ (Tristate \cup MemberSet)
    /\ Prompt[Modules] \in {Always, Never} /\ Select[Modules] = Never

MaxOf(S) == Max(S \cup {No})
MinOf(S) == Min(S \cup {Yes})

(* E_OR is the maximum, E_AND the minimum; v gives the value of each atom. *)
Eval(e, v) == MaxOf({MinOf({l[2][v[l[1]]] : l \in conj}) : conj \in e})

(* A bool has no "m".                                                      *)
MutPromote(t, bool) == t
Promote(t, bool) == IF t = Mod /\ bool THEN Yes ELSE t

(* The place of the first default whose condition, of the values given, is *)
(* not "n"; 0 if there is none.                                            *)
FirstDefault(conditions) ==
  MaxOf({i \in DOMAIN conditions :
           conditions[i] # No /\ \A j \in 1..(i - 1) : conditions[j] = No})

(* Whom a choice may fall on, the one the user wished first.               *)
Candidates(c, wish) ==
  (IF wish[c] = None THEN <<>> ELSE << [when |-> Always, pick |-> wish[c]] >>)
    \o Default[c]
    \o [i \in DOMAIN Members[c] |-> [when |-> Always, pick |-> Members[c][i]]]
-----------------------------------------------------------------------------
(* A symbol is calculated after those its prompt, its selects and its      *)
(* defaults name; a choice after whatever its values need besides it.      *)
Needs == [s \in Symbols |->
  LET defaults == UNION {Atoms(d.when) \cup (IF s \in Options THEN Atoms(d.value) ELSE {}) :
                           d \in Range(Default[s])}
      values == IF s \in ChoiceSymbols
                THEN UNION {Atoms(Prompt[m]) \ {s} : m \in Range(Members[s])} ELSE {}
  IN (Atoms(Prompt[s]) \cup Atoms(Select[s]) \cup defaults \cup values) \ {M}]
IsRank(r) == \A s \in Symbols : \A d \in Needs[s] : r[d] < r[s]
Rank == CHOOSE r \in [Symbols -> 1..Cardinality(Symbols)] : IsRank(r)

(* The meaning, for given values of MODULES and of what the user set: user *)
(* values, symbols the user has not set (fresh), wishes for the choices.   *)
(* of is the meaning of the symbols that s needs.                          *)
MeaningOf(s, of, mods, user, fresh, wish) ==
  LET Among(e, c) == Eval(e, [a \in Atoms(e) |->
                         IF a = M THEN Mod ELSE IF a = c THEN Yes ELSE of[a].tri])
      Value(e) == Among(e, None)
      bool == s \notin Tristate \/ mods = No
      shown == Promote(Value(Prompt[s]), bool)
      least == Promote(Value(Select[s]), bool)
      limited(t) == Promote(Max({Min({t, shown}), least}), bool)
      first == FirstDefault([i \in DOMAIN Default[s] |-> Value(Default[s][i].when)])
      default == IF first = 0 THEN No ELSE Value(Default[s][first].value)
      whom == Candidates(s, wish)
      open == {i \in DOMAIN whom :
                 Among(whom[i].when, s) # No /\ Among(Prompt[whom[i].pick], s) # No}
      asked == IF s \in fresh THEN No ELSE user[s]
      Is(val) == [tri |-> val, pick |-> None]
  IN CASE s \in ChoiceSymbols /\ limited(asked) # Yes -> Is(limited(asked))
       [] s \in ChoiceSymbols /\ limited(asked) = Yes ->
            IF open = {} THEN Is(No) ELSE [tri |-> Yes, pick |-> whom[Min(open)].pick]
       [] s \in MemberSet /\ shown = Yes ->
            Is(IF of[ChoiceOf(s)].pick = s THEN Yes ELSE No)
       [] s \in MemberSet /\ shown # Yes ->
            Is(Promote(Min({IF s \in fresh THEN default ELSE user[s], shown}), bool))
       [] OTHER ->
            Is(IF shown = No /\ least = No THEN Promote(default, bool)
               ELSE limited(IF s \in fresh THEN default ELSE user[s]))

(* Symbols of higher and higher rank are given their meaning.              *)
MeaningWith(mods, user, fresh, wish) ==
  LET after[n \in 0..Cardinality(Symbols)] ==   \* a set of one function
        IF n = 0 THEN {[s \in Symbols |-> [tri |-> No, pick |-> None]]}
        ELSE {[s \in Symbols |-> IF Rank[s] = n
                                 THEN MeaningOf(s, of, mods, user, fresh, wish)
                                 ELSE of[s]] : of \in after[n - 1]}
  IN CHOOSE of \in after[Cardinality(Symbols)] : TRUE

Meaning(user, fresh, wish) ==
  MeaningWith(IF Modules = None THEN No
              ELSE MeaningWith(No, user, fresh, wish)[Modules].tri,
              user, fresh, wish)
=============================================================================
