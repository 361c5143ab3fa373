------------------------------- MODULE Symbol -------------------------------
(***************************************************************************)
(* scripts/kconfig/symbol.c: how the value of a symbol is calculated on    *)
(* demand, kept until something is set, and set.  A call of sym_calc_value *)
(* is a frame on a stack, because the calls nest wherever an expression    *)
(* names a symbol that is not valid, and meet each other inside a choice.  *)
(* The symbols of an expression may be calculated in any order.            *)
(*                                                                         *)
(* SYMBOL_WRITE and SYMBOL_CHANGED, which decide no value, are left out.   *)
(***************************************************************************)
EXTENDS Kconfig

VARIABLES
  user,        \* user.tri: what the user, or .config, asked for
  wish,        \* user.val of a choice: the value asked for
  fresh,       \* symbols with SYMBOL_NEW: nothing was asked
  valid,       \* symbols with SYMBOL_VALID
  tri,         \* curr.tri
  pick,        \* curr.val of a choice
  visible,     \* visible
  least,       \* rev_dep.tri
  modulesVal,  \* modules_val
  stack        \* calls of sym_calc_value, the innermost first

asked == <<user, wish, fresh>>
kept == <<tri, pick, visible, least, modulesVal>>
symbolVars == <<asked, valid, kept, stack>>

Frame == [sym : Symbols, stage : {"visible", "reverse", "value", "choose"},
          at : Nat]
Call(s) == [sym |-> s, stage |-> "visible", at |-> 1]

SymbolTypeOK ==
  /\ user \in [Symbols -> Tri] /\ wish \in [ChoiceSymbols -> Options \cup {None}]
  /\ fresh \subseteq Symbols /\ valid \subseteq Symbols
  /\ tri \in [Symbols -> Tri] /\ pick \in [ChoiceSymbols -> Options \cup {None}]
  /\ visible \in [Symbols -> Tri] /\ least \in [Symbols -> Tri]
  /\ \A s \in Symbols \ Tristate : Mod \notin {tri[s], visible[s], least[s]}
  /\ modulesVal \in Tri
  /\ stack \in Seq(Frame)

SymbolInit ==
  /\ user = [s \in Symbols |-> No] /\ wish = [c \in ChoiceSymbols |-> None]
  /\ fresh = Symbols /\ valid = {}
  /\ tri = [s \in Symbols |-> No] /\ pick = [c \in ChoiceSymbols |-> None]
  /\ visible = [s \in Symbols |-> No] /\ least = [s \in Symbols |-> No]
  /\ modulesVal = No /\ stack = <<>>
-----------------------------------------------------------------------------
(* expr_calc_value, once the symbols of the expression have been calculated*)
Now(e) == Eval(e, [a \in Atoms(e) |-> IF a = M THEN Mod ELSE tri[a]])

(* sym_get_type                                                            *)
IsBool(s) ==
  \/ s \notin Tristate
  \/ s \in MemberSet /\ visible[s] = Yes
  \/ modulesVal = No

(* The first half of sym_calc_visibility.                                  *)
Visible(s) == Promote(Now(Prompt[s]), s \notin Tristate \/ modulesVal = No)

(* Whether sym_calc_value looks at the defaults of s.                      *)
UsesDefault(s) ==
  /\ s \notin ChoiceSymbols
  /\ ~(s \in MemberSet /\ visible[s] = Yes)
  /\ (visible[s] = No /\ least[s] = No) \/ s \in fresh

(* sym_get_default_prop: the conditions are tried until one holds.         *)
DefaultAtoms(s) ==
  LET unknown(e) == Atoms(e) \ (valid \cup {M})
      stop == {i \in DOMAIN Default[s] :
                 unknown(Default[s][i].when) # {} \/ Now(Default[s][i].when) # No}
      first == Min(stop)
  IN CASE stop = {} -> {}
       [] stop # {} /\ unknown(Default[s][first].when) # {} ->
            unknown(Default[s][first].when)
       [] OTHER -> unknown(Default[s][first].value)
DefaultValue(s) ==
  LET first == FirstDefault([i \in DOMAIN Default[s] |-> Now(Default[s][i].when)])
  IN IF first = 0 THEN No ELSE Now(Default[s][first].value)

(* The switch of sym_calc_value.                                           *)
MutNewValueFree(s) ==
  LET base == IF UsesDefault(s) THEN DefaultValue(s)
              ELSE IF s \in fresh THEN No ELSE user[s]
  IN CASE visible[s] = No /\ least[s] = No -> Promote(base, IsBool(s))
       [] OTHER ->
            Promote(Max({Min({base, visible[s]}), least[s]}), IsBool(s))
MutNewValueLow(s) ==
  LET base == IF UsesDefault(s) THEN DefaultValue(s)
              ELSE IF s \in fresh THEN No ELSE user[s]
  IN CASE s \in MemberSet /\ visible[s] = Yes ->
            IF pick[ChoiceOf(s)] = s THEN Yes ELSE No
       [] OTHER -> Promote(Min({base, visible[s]}), IsBool(s))
NewValue(s) ==
  LET base == IF UsesDefault(s) THEN DefaultValue(s)
              ELSE IF s \in fresh THEN No ELSE user[s]
  IN CASE s \in MemberSet /\ visible[s] = Yes ->
            IF pick[ChoiceOf(s)] = s THEN Yes ELSE No
       [] visible[s] = No /\ least[s] = No ->
            Promote(IF s \in ChoiceSymbols THEN No ELSE base, IsBool(s))
       [] OTHER ->
            Promote(Max({Min({base, visible[s]}), least[s]}), IsBool(s))
-----------------------------------------------------------------------------
(* One step of the innermost call.                                         *)
Top == Head(stack)
Running(stage) == stack # <<>> /\ Top.stage = stage
Goto(stage) == stack' = << [Top EXCEPT !.stage = stage] >> \o Tail(stack)
Return == stack' = Tail(stack)

(* sym_calc_choice: the candidate under consideration.                     *)
Exhausted == Top.at > Len(Candidates(Top.sym, wish))
Candidate == Candidates(Top.sym, wish)[Top.at]

(* The symbols that must be calculated before the call can go on.          *)
Needed ==
  LET s == Top.sym
      unknown(e) == Atoms(e) \ (valid \cup {M})
  IN CASE Top.stage = "visible" -> unknown(Prompt[s])
       [] Top.stage = "reverse" -> unknown(Select[s])
       [] Top.stage = "value" -> IF UsesDefault(s) THEN DefaultAtoms(s) ELSE {}
       [] Top.stage = "choose" ->
            IF Exhausted THEN {}
            ELSE IF unknown(Candidate.when) # {} THEN unknown(Candidate.when)
            ELSE IF Now(Candidate.when) = No THEN {}
            ELSE unknown(Prompt[Candidate.pick])

(* A call marks its symbol valid before anything else.                     *)
MutEnter(d) ==
  /\ valid' = IF d \in ChoiceSymbols THEN valid ELSE valid \cup {d}
  /\ stack' = <<Call(d)>> \o stack
Enter(d) ==
  /\ valid' = valid \cup {d}
  /\ stack' = <<Call(d)>> \o stack

Recurse ==
  /\ stack # <<>>
  /\ \E d \in Needed : Enter(d)
  /\ UNCHANGED <<asked, kept>>

(* A choice value has no rev_dep.  "set default if recursively called"     *)
Reset(s) ==
  /\ tri' = [tri EXCEPT ![s] = No]
  /\ pick' = IF s \in ChoiceSymbols THEN [pick EXCEPT ![s] = None] ELSE pick

CalcVisible ==
  LET s == Top.sym
  IN /\ Running("visible") /\ Needed = {}
     /\ visible' = [visible EXCEPT ![s] = Visible(s)]
     /\ IF s \in MemberSet THEN Goto("value") /\ Reset(s)
        ELSE Goto("reverse") /\ UNCHANGED <<tri, pick>>
     /\ UNCHANGED <<asked, valid, least, modulesVal>>

CalcReverse ==
  LET s == Top.sym
  IN /\ Running("reverse") /\ Needed = {}
     /\ least' = [least EXCEPT ![s] = Promote(Now(Select[s]), IsBool(s))]
     /\ Reset(s)
     /\ Goto("value")
     /\ UNCHANGED <<asked, valid, visible, modulesVal>>

CalcValue ==
  LET s == Top.sym
  IN /\ Running("value") /\ Needed = {}
     /\ tri' = [tri EXCEPT ![s] = NewValue(s)]
     /\ IF s \in ChoiceSymbols /\ NewValue(s) = Yes THEN Goto("choose") ELSE Return
     /\ modulesVal' = IF s = Modules THEN NewValue(s) ELSE modulesVal
     /\ UNCHANGED <<asked, valid, pick, visible, least>>

(* sym_calc_choice: the first visible candidate; "no choice? reset".       *)
Choose ==
  LET c == Top.sym
      next == stack' = << [Top EXCEPT !.at = @ + 1] >> \o Tail(stack)
  IN /\ Running("choose") /\ Needed = {}
     /\ \/ /\ Exhausted
           /\ tri' = [tri EXCEPT ![c] = No]
           /\ Return
           /\ UNCHANGED <<pick, visible>>
        \/ /\ ~Exhausted /\ Now(Candidate.when) = No
           /\ next
           /\ UNCHANGED <<tri, pick, visible>>
        \/ /\ ~Exhausted /\ Now(Candidate.when) # No
           /\ LET v == Visible(Candidate.pick)
              IN /\ visible' = [visible EXCEPT ![Candidate.pick] = v]
                 /\ IF v = No THEN next /\ UNCHANGED pick
                    ELSE Return /\ pick' = [pick EXCEPT ![c] = Candidate.pick]
           /\ UNCHANGED tri
     /\ UNCHANGED <<asked, valid, least, modulesVal>>

Calculate == Recurse \/ CalcVisible \/ CalcReverse \/ CalcValue \/ Choose

(* sym_calc_value, called from outside.                                    *)
CalcSymbol(s) ==
  /\ stack = <<>> /\ s \notin valid
  /\ Enter(s)
  /\ UNCHANGED <<asked, kept>>
-----------------------------------------------------------------------------
(* sym_clear_all_valid: MODULES is calculated at once.                     *)
ClearAllValid ==
  IF Modules = None THEN valid' = {} /\ stack' = <<>>
  ELSE valid' = {Modules} /\ stack' = <<Call(Modules)>>

(* sym_tristate_within_range                                               *)
MutWithinRange(s, val) ==
  /\ visible[s] # No
  /\ ~(IsBool(s) /\ val = Mod)
  /\ IF s \in MemberSet /\ visible[s] = Yes THEN val = Yes
     ELSE val <= visible[s]
WithinRange(s, val) ==
  /\ visible[s] > least[s]
  /\ ~(IsBool(s) /\ val = Mod)
  /\ IF s \in MemberSet /\ visible[s] = Yes THEN val = Yes
     ELSE least[s] <= val /\ val <= visible[s]

(* sym_set_tristate_value; a front end only sets a symbol it has just      *)
(* calculated to show it.                                                  *)
MutSetTristate(s, val) ==
  /\ stack = <<>> /\ s \in valid
  /\ tri[s] # val => WithinRange(s, val)
  /\ user' = [user EXCEPT ![s] = val]
  /\ fresh' = fresh \ {s}
  /\ wish' = IF s \in MemberSet /\ val = Yes
             THEN [wish EXCEPT ![ChoiceOf(s)] = s] ELSE wish
  /\ valid' = valid \ {s}
  /\ UNCHANGED <<kept, stack>>
SetTristate(s, val) ==
  LET chosen == s \in MemberSet /\ val = Yes
      c == ChoiceOf(s)
  IN /\ stack = <<>> /\ s \in valid
     /\ tri[s] # val => WithinRange(s, val)
     /\ user' = [user EXCEPT ![s] = val]
     /\ fresh' = fresh \ IF chosen
                   THEN {s, c} \cup {m \in Range(Members[c]) : visible[m] # No}
                   ELSE {s}
     /\ wish' = IF chosen THEN [wish EXCEPT ![c] = s] ELSE wish
     /\ IF tri[s] # val THEN ClearAllValid ELSE UNCHANGED <<valid, stack>>
     /\ UNCHANGED kept
=============================================================================
