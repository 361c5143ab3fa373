---------------------------- MODULE SymbolProofs ----------------------------
(***************************************************************************)
(* sym_calc_value in a session of Confdata, for every tree, file and order *)
(* of calculation: its recursion and its types; then its cache, what is    *)
(* known of a symbol whose value is kept and of a call that is under way.  *)
(***************************************************************************)
EXTENDS Confdata, KconfigProofs

(* A call on the stack has marked its symbol valid; a call is only made for*)
(* a symbol that is not.                                                   *)
Calls(S) == [sym : S, stage : {"visible", "reverse", "value", "choose"}, at : Nat]
StackInv == stack \in Seq(Calls(valid)) /\ NoReentry

LEMMA NeededIsNotValid ==
  ASSUME StackInv, stack # <<>>, NEW d \in Needed
  PROVE  d \notin valid
<1> DEFINE call == Top
<1>0. call \in Calls(valid)
  BY DEF StackInv, Top
<1>1. Top.stage \in {"visible", "reverse", "value", "choose"}
  BY <1>0 DEF Calls
<1>2. CASE Top.stage = "visible"
  BY <1>2 DEF Needed
<1>3. CASE Top.stage = "reverse"
  BY <1>3 DEF Needed
<1>4. CASE Top.stage = "value"
  BY <1>4 DEF Needed, DefaultAtoms
<1>5. CASE Top.stage = "choose"
  BY <1>5 DEF Needed
<1> QED BY <1>1, <1>2, <1>3, <1>4, <1>5

(* The frames after one is pushed.                                        *)
LEMMA PushedIs ==
  ASSUME NEW T, NEW s \in Seq(T), NEW e \in T
  PROVE  /\ Len(s) \in Nat
         /\ Len(<<e>> \o s) = Len(s) + 1
         /\ (<<e>> \o s)[1] = e
         /\ \A i \in 2..Len(<<e>> \o s) : (<<e>> \o s)[i] = s[i - 1]
<1>1. <<e>> \in Seq(T) /\ Len(<<e>>) = 1 /\ <<e>>[1] = e
  OBVIOUS
<1>2. /\ Len(s) \in Nat /\ Len(<<e>> \o s) = 1 + Len(s)
      /\ \A i \in 1..(1 + Len(s)) :
           (<<e>> \o s)[i] = IF i <= 1 THEN <<e>>[i] ELSE s[i - 1]
  BY <1>1, ConcatProperties
<1> QED BY <1>1, <1>2

(* A new call.                                                             *)
LEMMA EnterKeeps ==
  ASSUME StackInv, NEW d, d \notin valid, Enter(d)
  PROVE  StackInv'
<1>1. stack \in Seq(Calls(valid')) /\ Call(d) \in Calls(valid')
  <2>1. valid \subseteq valid' /\ d \in valid'
    BY DEF Enter
  <2>2. Calls(valid) \subseteq Calls(valid') /\ Call(d) \in Calls(valid')
    BY <2>1 DEF Calls, Call
  <2>3. stack \in Seq(Calls(valid))
    BY DEF StackInv
  <2> QED BY <2>2, <2>3
<1>2. stack' = <<Call(d)>> \o stack
  BY DEF Enter
<1>3. stack' \in Seq(Calls(valid'))
  BY <1>1, <1>2
<1>4. /\ Len(stack) \in Nat /\ Len(stack') = Len(stack) + 1
      /\ stack'[1] = Call(d)
      /\ \A i \in 2..Len(stack') : stack'[i] = stack[i - 1]
  <2> DEFINE S == Calls(valid')
             e == Call(d)
  <2>1. stack \in Seq(S) /\ e \in S /\ stack' = <<e>> \o stack
    BY <1>1, <1>2
  <2> HIDE DEF S, e
  <2>2. /\ Len(stack) \in Nat /\ Len(stack') = Len(stack) + 1
        /\ stack'[1] = e
        /\ \A i \in 2..Len(stack') : stack'[i] = stack[i - 1]
    BY <2>1, PushedIs
  <2> QED BY <2>2 DEF e
<1>5. \A i \in 1..Len(stack) : stack[i].sym \in valid
  <2>1. \A i \in 1..Len(stack) : stack[i] \in Calls(valid)
    BY DEF StackInv
  <2>2. \A call \in Calls(valid) : call.sym \in valid
    BY DEF Calls
  <2> QED BY <2>1, <2>2
<1>6. Call(d).sym = d
  BY DEF Call
<1>7. ASSUME NEW i \in DOMAIN stack', NEW j \in DOMAIN stack', i < j
      PROVE  stack'[i].sym # stack'[j].sym
  <2>0. DOMAIN stack' = 1..Len(stack')
    BY <1>3
  <2>1. i \in 1..Len(stack') /\ j \in 2..Len(stack') /\ j - 1 \in 1..Len(stack)
    BY <1>4, <1>7, <2>0
  <2>2. CASE i = 1
    BY <1>4, <1>5, <1>6, <2>1, <2>2
  <2>3. CASE i # 1
    <3>1. i - 1 \in 1..Len(stack) /\ i - 1 # j - 1
      BY <1>1, <1>4, <1>7, <2>1, <2>3
    <3>2. stack[i - 1].sym # stack[j - 1].sym
      BY <2>1, <3>1, <1>1 DEF StackInv, NoReentry
    <3> QED BY <1>4, <2>1, <2>3, <3>2
  <2> QED BY <2>2, <2>3
<1>8. NoReentry'
  <2> SUFFICES ASSUME NEW i \in DOMAIN stack', NEW j \in DOMAIN stack', i # j
               PROVE  stack'[i].sym # stack'[j].sym
    BY DEF NoReentry
  <2>1. i \in Nat /\ j \in Nat /\ (i < j \/ j < i)
    BY <1>3
  <2> QED BY <2>1, <1>7
<1> QED BY <1>3, <1>8 DEF StackInv

(* The innermost call goes on, for the same symbol.                        *)
LEMMA GoingOnKeeps ==
  ASSUME StackInv, stack # <<>>, valid' = valid,
         NEW call \in Calls(valid), call.sym = Top.sym,
         stack' = <<call>> \o Tail(stack)
  PROVE  StackInv'
<1>1. stack \in Seq(Calls(valid))
  BY DEF StackInv
<1>2. stack' \in Seq(Calls(valid))
  BY <1>1
<1>3. /\ Len(stack') = Len(stack) /\ stack'[1] = call /\ Top = stack[1]
      /\ \A i \in 2..Len(stack) : stack'[i] = stack[i]
  BY <1>1 DEF Top
<1>4. \A i \in 1..Len(stack) : stack'[i].sym = stack[i].sym
  BY <1>1, <1>3
<1>5. NoReentry'
  BY <1>1, <1>2, <1>3, <1>4 DEF StackInv, NoReentry
<1> QED BY <1>2, <1>5 DEF StackInv

(* It returns.                                                             *)
LEMMA ReturnKeeps ==
  ASSUME StackInv, stack # <<>>, valid' = valid, Return
  PROVE  StackInv'
<1>1. stack \in Seq(Calls(valid)) /\ stack' = Tail(stack)
  BY DEF StackInv, Return
<1>2. stack' \in Seq(Calls(valid))
  BY <1>1
<1>3. \A i \in 1..Len(stack') : i + 1 \in 1..Len(stack) /\ stack'[i] = stack[i + 1]
  BY <1>1
<1>4. NoReentry'
  <2> SUFFICES ASSUME NEW i \in 1..Len(stack'), NEW j \in 1..Len(stack'), i # j
               PROVE  stack'[i].sym # stack'[j].sym
    BY <1>2 DEF NoReentry
  <2>1. i + 1 \in 1..Len(stack) /\ j + 1 \in 1..Len(stack) /\ i + 1 # j + 1
    BY <1>3
  <2> QED BY <1>1, <1>3, <2>1 DEF StackInv, NoReentry
<1> QED BY <1>2, <1>4 DEF StackInv

LEMMA ClearKeeps ==
  ASSUME ClearAllValid PROVE StackInv'
<1>1. CASE Modules = None
  <2>1. stack' = <<>>
    BY <1>1 DEF ClearAllValid
  <2> QED BY <2>1 DEF StackInv, NoReentry
<1>2. CASE Modules # None
  <2>1. valid' = {Modules} /\ stack' = <<Call(Modules)>>
    BY <1>2 DEF ClearAllValid
  <2>2. Call(Modules) \in Calls({Modules})
    BY DEF Call, Calls
  <2>3. stack' \in Seq(Calls(valid')) /\ DOMAIN stack' = {1}
    BY <2>1, <2>2
  <2> QED BY <2>3 DEF StackInv, NoReentry
<1> QED BY <1>1, <1>2

LEMMA UnchangedKeeps ==
  ASSUME StackInv, UNCHANGED <<valid, stack>> PROVE StackInv'
BY DEF StackInv, NoReentry
-----------------------------------------------------------------------------
LEMMA CalculateKeeps ==
  ASSUME StackInv, Calculate PROVE StackInv'
<1>1. CASE Recurse
  <2>1. PICK d \in Needed : Enter(d)
    BY <1>1 DEF Recurse
  <2>2. d \notin valid
    BY <1>1, NeededIsNotValid DEF Recurse
  <2> QED BY <2>1, <2>2, EnterKeeps
<1>2. ASSUME NEW stage \in {"visible", "reverse", "value", "choose"},
             stack # <<>>, valid' = valid, Goto(stage)
      PROVE  StackInv'
  <2>1. Top \in Calls(valid)
    BY <1>2 DEF StackInv, Top
  <2>2. [Top EXCEPT !.stage = stage] \in Calls(valid)
          /\ [Top EXCEPT !.stage = stage].sym = Top.sym
    BY <2>1 DEF Calls
  <2> QED BY <1>2, <2>2, GoingOnKeeps DEF Goto
<1>3. CASE CalcVisible
  BY <1>2, <1>3 DEF CalcVisible, Running
<1>4. CASE CalcReverse
  BY <1>2, <1>4 DEF CalcReverse, Running
<1>5. CASE CalcValue
  BY <1>2, <1>5, ReturnKeeps DEF CalcValue, Running
<1>6. CASE Choose
  <2>1. stack # <<>> /\ valid' = valid
    BY <1>6 DEF Choose, Running
  <2>2. CASE Return
    BY <2>1, <2>2, ReturnKeeps
  <2>3. CASE stack' = << [Top EXCEPT !.at = @ + 1] >> \o Tail(stack)
    <3>1. Top \in Calls(valid)
      BY <2>1 DEF StackInv, Top
    <3>2. [Top EXCEPT !.at = @ + 1] \in Calls(valid)
            /\ [Top EXCEPT !.at = @ + 1].sym = Top.sym
      BY <3>1 DEF Calls
    <3> QED BY <2>1, <2>3, <3>2, GoingOnKeeps
  <2> QED BY <1>6, <2>2, <2>3 DEF Choose
<1> QED BY <1>1, <1>3, <1>4, <1>5, <1>6 DEF Calculate

LEMMA StackInvKept ==
  ASSUME StackInv, [Next]_vars PROVE StackInv'
<1>1. CASE StartLoad
  BY <1>1, ClearKeeps DEF StartLoad
<1>2. CASE EndLoad
  BY <1>2, UnchangedKeeps DEF EndLoad
<1>3. CASE StartSave
  BY <1>3, ClearKeeps, UnchangedKeeps DEF StartSave
<1>4. CASE EndSave
  BY <1>4, UnchangedKeeps DEF EndSave, symbolVars
<1>5. ASSUME NEW s \in Symbols, NEW val \in Tri, Set(s, val) PROVE StackInv'
  <2>1. ClearAllValid \/ UNCHANGED <<valid, stack>>
    BY <1>5 DEF Set, SetTristate
  <2> QED BY <2>1, ClearKeeps, UnchangedKeeps
<1>6. CASE Calculation
  <2>1. CASE Calculate
    BY <2>1, CalculateKeeps
  <2>2. ASSUME NEW s \in Symbols, CalcSymbol(s) PROVE StackInv'
    BY <2>2, EnterKeeps DEF CalcSymbol
  <2> QED BY <1>6, <2>1, <2>2 DEF Calculation
<1>7. CASE UNCHANGED vars
  BY <1>7, UnchangedKeeps DEF vars, symbolVars
<1> QED BY <1>1, <1>2, <1>3, <1>4, <1>5, <1>6, <1>7 DEF Next

(* A call of sym_calc_value never meets an unfinished call for its own     *)
(* symbol: in every tree, also one in which symbols depend on each other in*)
(* a circle, the recursion is no deeper than there are symbols.            *)
THEOREM NoReentryEver == Spec => []NoReentry
<1>1. Init => StackInv
  BY DEF Init, SymbolInit, StackInv, NoReentry
<1>2. StackInv => NoReentry
  BY DEF StackInv
<1> QED BY <1>1, <1>2, StackInvKept, PTL DEF Spec
-----------------------------------------------------------------------------
(* Calls that are under way: only of a choice is there a stage "choose".   *)
Calling == {f \in Frame : f.at # 0 /\ (f.stage = "choose" => f.sym \in ChoiceSymbols)}

(* A choice is wished to fall on one of its values.                        *)
WishOK == \A c \in ChoiceSymbols : wish[c] \in Range(Members[c]) \cup {None}

TypeInv == TypeOK /\ stack \in Seq(Calling) /\ WishOK

LEMMA NowIs ==
  ASSUME tri \in [Symbols -> Tri], NEW e \in Expressions
  PROVE  Now(e) \in Tri
<1> DEFINE v == [a \in Atoms(e) |-> IF a = M THEN Mod ELSE tri[a]]
<1>1. \A a \in Atoms(e) : v[a] \in Tri
  BY AtomsAre DEF Atom, Tri
<1>2. Eval(e, v) \in Tri
  <2> HIDE DEF v
  <2> QED
    BY <1>1, EvalIs
<1> QED
  BY <1>2 DEF Now

LEMMA VisibleIs ==
  ASSUME SymbolTypeOK, NEW s \in Symbols
  PROVE  Visible(s) \in Tri /\ (s \notin Tristate => Visible(s) # Mod)
<1>1. Now(Prompt[s]) \in Tri
  BY NowIs, PromptIs DEF SymbolTypeOK
<1> QED
  BY <1>1, PromoteIs DEF Visible

LEMMA LeastIs ==
  ASSUME SymbolTypeOK, NEW s \in Symbols
  PROVE  /\ Promote(Now(Select[s]), IsBool(s)) \in Tri
         /\ s \notin Tristate => Promote(Now(Select[s]), IsBool(s)) # Mod
<1>1. Now(Select[s]) \in Tri
  BY NowIs, SelectIs DEF SymbolTypeOK
<1>2. IsBool(s) \in BOOLEAN /\ (s \notin Tristate => IsBool(s))
  BY DEF IsBool
<1> QED
  BY <1>1, <1>2, PromoteIs

LEMMA DefaultValueIs ==
  ASSUME tri \in [Symbols -> Tri], NEW s \in Options
  PROVE  DefaultValue(s) \in Tri
<1> DEFINE f == [i \in DOMAIN Default[s] |-> Now(Default[s][i].when)]
<1>0. s \in Symbols
  BY DEF Symbols
<1>1. PICK n \in Nat : n = Len(Default[s]) /\ DOMAIN Default[s] = 1..n
  BY <1>0, DefaultIs
<1>2. FirstDefault(f) = 0 \/ FirstDefault(f) \in DOMAIN Default[s]
  <2>1. DOMAIN f = 1..n
    BY <1>1
  <2> HIDE DEF f
  <2> QED
    BY <1>1, <2>1, FirstDefaultIs
<1>3. \A i \in DOMAIN Default[s] : Now(Default[s][i].value) \in Tri
  BY <1>0, DefaultIs, NowIs
<1>4. DefaultValue(s) = IF FirstDefault(f) = 0 THEN No ELSE Now(Default[s][FirstDefault(f)].value)
  BY DEF DefaultValue
<1> HIDE DEF f
<1> QED
  BY <1>2, <1>3, <1>4 DEF Tri

(* What sym_calc_value gives, before a choice falls on a value.            *)
LEMMA NewValueIs ==
  ASSUME SymbolTypeOK, NEW s \in Symbols
  PROVE  NewValue(s) \in Tri /\ (s \notin Tristate => NewValue(s) # Mod)
<1> DEFINE base == IF UsesDefault(s) THEN DefaultValue(s)
                   ELSE IF s \in fresh THEN No ELSE user[s]
<1>1. base \in Tri
  <2>1. UsesDefault(s) => s \in Options
    BY DEF UsesDefault, Symbols
  <2>2. UsesDefault(s) => DefaultValue(s) \in Tri
    BY <2>1, DefaultValueIs DEF SymbolTypeOK
  <2> QED
    BY <2>2 DEF SymbolTypeOK, Tri
<1>2. IsBool(s) \in BOOLEAN /\ (s \notin Tristate => IsBool(s))
  BY DEF IsBool
<1>3. Max({Min({base, visible[s]}), least[s]}) \in Tri
  <2>1. visible[s] \in Tri /\ least[s] \in Tri
    BY DEF SymbolTypeOK
  <2>2. Min({base, visible[s]}) \in Tri
    BY <1>1, <2>1, TwoAre
  <2> QED
    BY <2>1, <2>2, TwoAre
<1> HIDE DEF base
<1>4. /\ Promote(Max({Min({base, visible[s]}), least[s]}), IsBool(s)) \in Tri
      /\ IsBool(s) => Promote(Max({Min({base, visible[s]}), least[s]}), IsBool(s)) # Mod
  BY <1>2, <1>3, PromoteIs
<1>5. /\ Promote(IF s \in ChoiceSymbols THEN No ELSE base, IsBool(s)) \in Tri
      /\ IsBool(s) => Promote(IF s \in ChoiceSymbols THEN No ELSE base, IsBool(s)) # Mod
  <2>1. (IF s \in ChoiceSymbols THEN No ELSE base) \in Tri
    BY <1>1 DEF Tri
  <2> QED
    BY <1>2, <2>1, PromoteIs
<1>6. \/ NewValue(s) \in {Yes, No}
      \/ NewValue(s) = Promote(IF s \in ChoiceSymbols THEN No ELSE base, IsBool(s))
      \/ NewValue(s) = Promote(Max({Min({base, visible[s]}), least[s]}), IsBool(s))
  BY DEF NewValue, base
<1> QED
  BY <1>2, <1>4, <1>5, <1>6 DEF Tri, Yes, No, Mod
-----------------------------------------------------------------------------
LEMMA CallIs ==
  ASSUME TypeInv, stack # <<>>
  PROVE  /\ Top \in Calling /\ Top.sym \in Symbols /\ Tail(stack) \in Seq(Calling)
         /\ Top.stage \in {"visible", "reverse", "value", "choose"}
         /\ Top.at \in Nat \ {0} /\ (Top.stage = "choose" => Top.sym \in ChoiceSymbols)
<1>1. stack \in Seq(Calling)
  BY DEF TypeInv
<1>2. Top \in Calling /\ Tail(stack) \in Seq(Calling)
  <2> HIDE DEF Calling
  <2> QED
    BY <1>1 DEF Top
<1> QED
  BY <1>2 DEF Calling, Frame

LEMMA CandidateIs ==
  ASSUME TypeInv, stack # <<>>, Top.stage = "choose", ~Exhausted
  PROVE  /\ Candidate.when \in Expressions /\ Candidate.pick \in Range(Members[Top.sym])
         /\ Candidate.pick \in Options
<1>1. Top.sym \in ChoiceSymbols /\ Top.at \in Nat \ {0}
  BY CallIs
<1>2. wish[Top.sym] \in Range(Members[Top.sym]) \cup {None}
  BY <1>1 DEF TypeInv, WishOK
<1>3. Len(Candidates(Top.sym, wish)) \in Nat
  BY <1>1, <1>2, CandidatesAre
<1>4. Top.at \in 1..Len(Candidates(Top.sym, wish))
  BY <1>1, <1>3 DEF Exhausted
<1>5. Range(Members[Top.sym]) \subseteq Options
  BY <1>1, MembersAre
<1> QED
  BY <1>1, <1>2, <1>4, <1>5, CandidatesAre DEF Candidate

LEMMA NeededAre ==
  ASSUME TypeInv, stack # <<>> PROVE Needed \subseteq Symbols
<1> DEFINE s == Top.sym
<1>0. s \in Symbols /\ Top.stage \in {"visible", "reverse", "value", "choose"}
  BY CallIs
<1>1. ASSUME NEW e \in Expressions PROVE Atoms(e) \ (valid \cup {M}) \subseteq Symbols
  BY AtomsAre DEF Atom
<1>2. CASE Top.stage = "visible"
  BY <1>0, <1>1, <1>2, PromptIs DEF Needed
<1>3. CASE Top.stage = "reverse"
  BY <1>0, <1>1, <1>3, SelectIs DEF Needed
<1>4. CASE Top.stage = "value"
  <2>1. UsesDefault(s) => s \in Options
    BY <1>0 DEF UsesDefault, Symbols
  <2>2. s \in Options => DefaultAtoms(s) \subseteq Symbols
    <3> DEFINE unknown(e) == Atoms(e) \ (valid \cup {M})
               stop == {i \in DOMAIN Default[s] :
                          unknown(Default[s][i].when) # {} \/ Now(Default[s][i].when) # No}
               first == Min(stop)
    <3> SUFFICES ASSUME s \in Options PROVE DefaultAtoms(s) \subseteq Symbols
      OBVIOUS
    <3>1. \A i \in DOMAIN Default[s] :
            unknown(Default[s][i].when) \subseteq Symbols /\ unknown(Default[s][i].value) \subseteq Symbols
      BY <1>0, <1>1, DefaultIs
    <3>2. stop \subseteq DOMAIN Default[s] /\ DOMAIN Default[s] \subseteq Nat
      BY <1>0, DefaultIs
    <3>3. stop # {} => first \in stop
      <4> HIDE DEF stop
      <4>1. stop # {} => \E x \in stop : \A y \in stop : x <= y
        BY <3>2, LeastExists
      <4> QED
        BY <4>1 DEF Min
    <3>4. DefaultAtoms(s) = CASE stop = {} -> {}
            [] stop # {} /\ unknown(Default[s][first].when) # {} -> unknown(Default[s][first].when)
            [] OTHER -> unknown(Default[s][first].value)
      BY DEF DefaultAtoms
    <3> HIDE DEF stop, unknown, first
    <3> QED
      BY <3>1, <3>2, <3>3, <3>4
  <2> QED
    BY <1>4, <2>1, <2>2 DEF Needed
<1>5. CASE Top.stage = "choose"
  <2>1. ~Exhausted => Candidate.when \in Expressions /\ Prompt[Candidate.pick] \in Expressions
    <3>1. ~Exhausted => Candidate.when \in Expressions /\ Candidate.pick \in Symbols
      BY <1>5, CandidateIs, MembersAre
    <3> QED
      BY <3>1, PromptIs
  <2> QED
    BY <1>1, <1>5, <2>1 DEF Needed
<1> QED
  BY <1>0, <1>2, <1>3, <1>4, <1>5

LEMMA EnterIs ==
  ASSUME TypeInv, NEW d \in Symbols, Enter(d)
  PROVE  stack' \in Seq(Calling) /\ valid' \subseteq Symbols
<1>1. Call(d) \in Calling
  BY DEF Call, Calling, Frame
<1>2. stack \in Seq(Calling) /\ valid \subseteq Symbols
  BY DEF TypeInv, TypeOK, SymbolTypeOK
<1> HIDE DEF Calling
<1> QED
  BY <1>1, <1>2 DEF Enter

LEMMA GotoIs ==
  ASSUME TypeInv, stack # <<>>, NEW stage \in {"visible", "reverse", "value", "choose"},
         stage = "choose" => Top.sym \in ChoiceSymbols, Goto(stage)
  PROVE  stack' \in Seq(Calling)
<1>1. [Top EXCEPT !.stage = stage] \in Calling /\ Tail(stack) \in Seq(Calling)
  BY CallIs DEF Calling, Frame
<1> HIDE DEF Calling
<1> QED
  BY <1>1 DEF Goto

LEMMA ClearIs ==
  ASSUME ClearAllValid PROVE stack' \in Seq(Calling) /\ valid' \subseteq Symbols
<1>1. Modules # None => Modules \in Symbols
  BY ModulesAssumption, MembersAre
<1>2. Modules # None => Call(Modules) \in Calling
  BY <1>1 DEF Call, Calling, Frame
<1> HIDE DEF Calling
<1>3. CASE Modules = None
  BY <1>3 DEF ClearAllValid
<1>4. CASE Modules # None
  BY <1>1, <1>2, <1>4 DEF ClearAllValid
<1> QED
  BY <1>3, <1>4

LEMMA CallsAreFrames == Seq(Calling) \subseteq Seq(Frame)
<1>1. Calling \subseteq Frame
  BY DEF Calling
<1> HIDE DEF Calling
<1> QED
  BY <1>1, SeqMonotonic

(* Values in their ranges, one of them changed.                            *)
Limits(f) == f \in [Symbols -> Tri] /\ \A s \in Symbols \ Tristate : f[s] # Mod

LEMMA LimitsKept ==
  ASSUME NEW f, Limits(f), NEW s \in Symbols, NEW t \in Tri, s \notin Tristate => t # Mod
  PROVE  Limits([f EXCEPT ![s] = t])
BY DEF Limits

LEMMA TypesAre ==
  SymbolTypeOK <=>
    /\ user \in [Symbols -> Tri] /\ wish \in [ChoiceSymbols -> Options \cup {None}]
    /\ fresh \subseteq Symbols /\ valid \subseteq Symbols
    /\ pick \in [ChoiceSymbols -> Options \cup {None}]
    /\ Limits(tri) /\ Limits(visible) /\ Limits(least)
    /\ modulesVal \in Tri /\ stack \in Seq(Frame)
BY DEF SymbolTypeOK, Limits

LEMMA CalculateTypes ==
  ASSUME TypeInv, Calculate
  PROVE  SymbolTypeOK' /\ stack' \in Seq(Calling) /\ UNCHANGED asked
<1>0. /\ SymbolTypeOK /\ stack \in Seq(Calling)
      /\ Limits(tri) /\ Limits(visible) /\ Limits(least)
      /\ pick \in [ChoiceSymbols -> Options \cup {None}]
      /\ No \in Tri /\ No # Mod /\ Yes \in Tri
  BY TypesAre DEF TypeInv, TypeOK, Tri, No, Mod, Yes
<1>a. stack' \in Seq(Calling) => stack' \in Seq(Frame)
  BY CallsAreFrames
<1>1. CASE Recurse
  <2>1. PICK d \in Needed : Enter(d)
    BY <1>1 DEF Recurse
  <2>2. d \in Symbols
    BY <1>1, <2>1, NeededAre DEF Recurse
  <2>3. stack' \in Seq(Calling) /\ valid' \subseteq Symbols
    BY <2>1, <2>2, EnterIs
  <2>4. UNCHANGED <<asked, kept>>
    BY <1>1 DEF Recurse
  <2> QED
    BY <1>0, <1>a, <2>3, <2>4 DEF asked, kept, SymbolTypeOK
<1>b. ASSUME stack # <<>>
      PROVE  /\ Top.sym \in Symbols /\ Tail(stack) \in Seq(Calling)
             /\ Limits([tri EXCEPT ![Top.sym] = No])
             /\ \A p : p = (IF Top.sym \in ChoiceSymbols THEN [pick EXCEPT ![Top.sym] = None]
                            ELSE pick) => p \in [ChoiceSymbols -> Options \cup {None}]
  BY <1>0, <1>b, CallIs, LimitsKept
<1>2. CASE CalcVisible
  <2>1. stack # <<>> /\ Top.sym \in Symbols
    BY <1>2, <1>b DEF CalcVisible, Running
  <2>2. stack' \in Seq(Calling)
    BY <1>2, <2>1, GotoIs DEF CalcVisible
  <2>3. Limits(visible')
    BY <1>0, <1>2, <2>1, VisibleIs, LimitsKept DEF CalcVisible
  <2>4. Limits(tri') /\ pick' \in [ChoiceSymbols -> Options \cup {None}]
    BY <1>0, <1>2, <1>b, <2>1 DEF CalcVisible, Reset
  <2>5. UNCHANGED <<asked, valid, least, modulesVal>>
    BY <1>2 DEF CalcVisible
  <2> QED
    BY <1>0, <1>a, <2>2, <2>3, <2>4, <2>5 DEF asked, SymbolTypeOK, Limits
<1>3. CASE CalcReverse
  <2>1. stack # <<>> /\ Top.sym \in Symbols
    BY <1>3, <1>b DEF CalcReverse, Running
  <2>2. stack' \in Seq(Calling)
    BY <1>3, <2>1, GotoIs DEF CalcReverse
  <2>3. Limits(least')
    BY <1>0, <1>3, <2>1, LeastIs, LimitsKept DEF CalcReverse
  <2>4. Limits(tri') /\ pick' \in [ChoiceSymbols -> Options \cup {None}]
    BY <1>0, <1>3, <1>b, <2>1 DEF CalcReverse, Reset
  <2>5. UNCHANGED <<asked, valid, visible, modulesVal>>
    BY <1>3 DEF CalcReverse
  <2> QED
    BY <1>0, <1>a, <2>2, <2>3, <2>4, <2>5 DEF asked, SymbolTypeOK, Limits
<1>4. CASE CalcValue
  <2>1. stack # <<>> /\ Top.sym \in Symbols
    BY <1>4, <1>b DEF CalcValue, Running
  <2>2. stack' \in Seq(Calling)
    BY <1>4, <1>b, <2>1, GotoIs DEF CalcValue, Return
  <2>3. NewValue(Top.sym) \in Tri /\ Limits(tri')
    BY <1>0, <1>4, <2>1, NewValueIs, LimitsKept DEF CalcValue
  <2>4. modulesVal' \in Tri
    BY <1>0, <1>4, <2>3, TypesAre DEF CalcValue
  <2>5. UNCHANGED <<asked, valid, visible, pick, least>>
    BY <1>4 DEF CalcValue
  <2> QED
    BY <1>0, <1>a, <2>2, <2>3, <2>4, <2>5 DEF asked, SymbolTypeOK, Limits
<1>5. CASE Choose
  <2>1. stack # <<>> /\ Top.stage = "choose" /\ Top.sym \in ChoiceSymbols /\ Top.sym \in Symbols
    BY <1>5, <1>b, CallIs DEF Choose, Running
  <2>2. UNCHANGED <<asked, valid, least, modulesVal>>
    BY <1>5 DEF Choose
  <2>3. << [Top EXCEPT !.at = @ + 1] >> \o Tail(stack) \in Seq(Calling)
    <3>1. [Top EXCEPT !.at = @ + 1] \in Calling /\ Tail(stack) \in Seq(Calling)
      BY <2>1, CallIs DEF Calling, Frame
    <3> HIDE DEF Calling
    <3> QED
      BY <3>1
  <2>4. stack' \in Seq(Calling)
    BY <1>5, <1>b, <2>1, <2>3 DEF Choose, Return
  <2>5. ~Exhausted => /\ Candidate.pick \in Options
                      /\ Limits([visible EXCEPT ![Candidate.pick] = Visible(Candidate.pick)])
    <3> SUFFICES ASSUME ~Exhausted
                 PROVE  /\ Candidate.pick \in Options
                        /\ Limits([visible EXCEPT ![Candidate.pick] = Visible(Candidate.pick)])
      OBVIOUS
    <3>1. Candidate.pick \in Options /\ Candidate.pick \in Symbols
      BY <2>1, CandidateIs, MembersAre
    <3> QED
      BY <1>0, <3>1, VisibleIs, LimitsKept
  <2>6. Limits(tri') /\ Limits(visible')
    BY <1>0, <1>5, <1>b, <2>1, <2>5 DEF Choose
  <2>7. pick' \in [ChoiceSymbols -> Options \cup {None}]
    BY <1>0, <1>5, <2>1, <2>5 DEF Choose
  <2> QED
    BY <1>0, <1>a, <2>2, <2>4, <2>6, <2>7 DEF asked, SymbolTypeOK, Limits
<1> QED
  BY <1>1, <1>2, <1>3, <1>4, <1>5 DEF Calculate

LEMMA ForgottenAre ==
  ASSUME NEW f \in SUBSET Symbols, NEW v PROVE Forgotten(f, v) \subseteq Symbols
BY DEF Forgotten, Symbols

LEMMA TypeStep ==
  ASSUME TypeInv, [Next]_vars PROVE TypeInv'
<1>0. /\ TypeOK /\ SymbolTypeOK /\ stack \in Seq(Calling) /\ WishOK
      /\ stack' \in Seq(Calling) => stack' \in Seq(Frame)
  BY CallsAreFrames DEF TypeInv, TypeOK
<1> HIDE DEF Calling
<1>1. CASE StartLoad
  <2>1. stack' \in Seq(Calling) /\ valid' \subseteq Symbols
    BY <1>1, ClearIs DEF StartLoad
  <2>2. /\ user' \in [Symbols -> Tri] /\ wish' \in [ChoiceSymbols -> Options \cup {None}]
        /\ fresh' \subseteq Symbols /\ WishOK'
    BY <1>0, <1>1, LoadedIs DEF StartLoad, TypeOK, WishOK
  <2>3. UNCHANGED <<kept, file, written, sets>>
        /\ edited' = FALSE /\ answer' = None /\ phase' = "loading"
    BY <1>1 DEF StartLoad, fileVars
  <2> QED
    BY <1>0, <2>1, <2>2, <2>3 DEF TypeInv, TypeOK, SymbolTypeOK, kept
<1>2. CASE EndLoad
  <2>1. fresh' \subseteq Symbols
    BY <1>0, <1>2, ForgottenAre DEF EndLoad, SymbolTypeOK
  <2> QED
    BY <1>0, <1>2, <2>1 DEF EndLoad, TypeInv, TypeOK, SymbolTypeOK, kept, fileVars, WishOK
<1>3. CASE StartSave
  <2>1. stack' \in Seq(Calling) /\ valid' \subseteq Symbols
    <3>1. CASE ClearAllValid
      BY <3>1, ClearIs
    <3>2. CASE UNCHANGED <<valid, stack>>
      BY <1>0, <3>2 DEF SymbolTypeOK
    <3> QED
      BY <1>3, <3>1, <3>2 DEF StartSave
  <2> QED
    BY <1>0, <1>3, <2>1 DEF StartSave, TypeInv, TypeOK, SymbolTypeOK, asked, kept, fileVars, WishOK
<1>4. CASE EndSave
  <2>1. file' \in Files
    <3>1. \A s \in Options : tri[s] \in Tri /\ (s \notin Tristate => tri[s] # Mod)
      BY <1>0, MembersAre DEF SymbolTypeOK
    <3>2. \A s \in Options : tri[s] \in Lines(s)
      BY <3>1 DEF Lines, Tri
    <3> QED
      BY <1>4, <3>1, <3>2 DEF EndSave, Files
  <2> QED
    BY <1>0, <1>4, <2>1 DEF EndSave, TypeInv, TypeOK, SymbolTypeOK, symbolVars, asked, kept, WishOK
<1>5. ASSUME NEW s \in Symbols, NEW val \in Tri, Set(s, val) PROVE TypeInv'
  <2>1. stack' \in Seq(Calling) /\ valid' \subseteq Symbols
    <3>1. CASE ClearAllValid
      BY <3>1, ClearIs
    <3>2. CASE UNCHANGED <<valid, stack>>
      BY <1>0, <3>2 DEF SymbolTypeOK
    <3> QED
      BY <1>5, <3>1, <3>2 DEF Set, SetTristate
  <2>2. user' \in [Symbols -> Tri] /\ fresh' \subseteq Symbols /\ UNCHANGED kept
    BY <1>0, <1>5 DEF Set, SetTristate, SymbolTypeOK
  <2>3. wish' \in [ChoiceSymbols -> Options \cup {None}] /\ WishOK'
    <3>1. CASE s \in MemberSet /\ val = Yes
      <4>1. wish' = [wish EXCEPT ![ChoiceOf(s)] = s]
        BY <1>5, <3>1 DEF Set, SetTristate
      <4>2. s \in Options /\ ChoiceOf(s) \in ChoiceSymbols /\ s \in Range(Members[ChoiceOf(s)])
        BY <3>1, MembersAre
      <4> QED
        BY <1>0, <4>1, <4>2 DEF SymbolTypeOK, WishOK
    <3>2. CASE ~(s \in MemberSet /\ val = Yes)
      BY <1>0, <1>5, <3>2 DEF Set, SetTristate, SymbolTypeOK, WishOK
    <3> QED
      BY <3>1, <3>2
  <2>4. /\ UNCHANGED <<file, written, phase>> /\ edited' = TRUE
        /\ answer' \in [sym : Symbols, val : Tri] /\ sets' \in 0..MaxSets
    BY <1>0, <1>5, SetsAssumption DEF Set, fileVars, TypeOK
  <2> QED
    BY <1>0, <2>1, <2>2, <2>3, <2>4 DEF TypeInv, TypeOK, SymbolTypeOK, kept
<1>6. CASE Calculation
  <2>0. UNCHANGED <<file, written, phase, edited, answer, sets>>
    BY <1>6 DEF Calculation, fileVars
  <2>1. CASE Calculate
    <3>1. SymbolTypeOK' /\ stack' \in Seq(Calling) /\ UNCHANGED asked
      BY <2>1, CalculateTypes
    <3> QED
      BY <1>0, <2>0, <3>1 DEF TypeInv, TypeOK, asked, WishOK
  <2>2. ASSUME NEW s \in Symbols, CalcSymbol(s) PROVE TypeInv'
    <3>1. stack' \in Seq(Calling) /\ valid' \subseteq Symbols
      BY <2>2, EnterIs DEF CalcSymbol
    <3>2. UNCHANGED <<asked, kept>>
      BY <2>2 DEF CalcSymbol
    <3> QED
      BY <1>0, <2>0, <3>1, <3>2 DEF TypeInv, TypeOK, SymbolTypeOK, asked, kept, WishOK
  <2> QED
    BY <1>6, <2>1, <2>2 DEF Calculation
<1>7. CASE UNCHANGED vars
  BY <1>0, <1>7 DEF vars, symbolVars, asked, kept, fileVars, TypeInv, TypeOK, SymbolTypeOK, WishOK
<1> QED
  BY <1>1, <1>2, <1>3, <1>4, <1>5, <1>6, <1>7 DEF Next

LEMMA TypeInit == ASSUME Init PROVE TypeInv
<1>1. stack = <<>> /\ stack \in Seq(Calling) /\ stack \in Seq(Frame)
  BY DEF Init, SymbolInit
<1>2. No \in Tri /\ No # Mod
  BY DEF Tri, No, Mod
<1>3. SymbolTypeOK /\ WishOK
  BY <1>1, <1>2 DEF Init, SymbolInit, SymbolTypeOK, WishOK
<1>4. TypeOK
  <2>1. 0 \in 0..MaxSets
    BY SetsAssumption
  <2> QED
    BY <1>3, <2>1 DEF Init, TypeOK
<1> QED
  BY <1>1, <1>3, <1>4 DEF TypeInv

(* Whatever the tree, the file and the order of the calculations, values   *)
(* are values of their symbol's type: no bool is ever "m", neither shown   *)
(* nor saved, and a choice falls on an option.                             *)
THEOREM Typed == Spec => []TypeOK
<1>1. TypeInv => TypeOK
  BY DEF TypeInv
<1> QED
  BY <1>1, TypeInit, TypeStep, PTL DEF Spec
-----------------------------------------------------------------------------
(* menu.c and symbol.c warn of trees that are not so: symbols that depend  *)
(* on themselves; values of another type than their choice.                *)
Acyclic == \E r : Ranked(r)
ValuesAreOfType == \A m \in MemberSet : m \in Tristate => ChoiceOf(m) \in Tristate

(* Symbols whose calculation is over, and expressions that only name such. *)
Open == {stack[i] : i \in DOMAIN stack}
OnStack == {f.sym : f \in Open}
Settled == valid \ OnStack
Fixed(e) == Atoms(e) \subseteq Settled \cup {M}

(* The two halves of sym_calc_visibility.                                  *)
Seen(s) == Fixed(Prompt[s]) /\ visible[s] = Visible(s)
Bounded(s) == s \notin MemberSet =>
  Fixed(Select[s]) /\ least[s] = Promote(Now(Select[s]), IsBool(s))

(* The switch of sym_calc_value.                                           *)
Conditions(s) == [i \in DOMAIN Default[s] |-> Now(Default[s][i].when)]
First(s) == FirstDefault(Conditions(s))
FixedDefault(s) ==
  /\ \A i \in DOMAIN Default[s] : First(s) = 0 \/ i <= First(s) => Fixed(Default[s][i].when)
  /\ First(s) # 0 => Fixed(Default[s][First(s)].value)
Valued(s) == (UsesDefault(s) => FixedDefault(s)) /\ tri[s] = NewValue(s)

(* sym_calc_choice: values are seen as while the choice is "y".            *)
Whom(c) == Candidates(c, wish)
FixedFor(c, e) == Atoms(e) \subseteq Settled \cup {M, c}
Among(c, e) ==
  Eval(e, [a \in Atoms(e) |-> IF a = M THEN Mod ELSE IF a = c THEN Yes ELSE tri[a]])
Known(c, k) == /\ Fixed(Whom(c)[k].when)
               /\ Now(Whom(c)[k].when) # No => FixedFor(c, Prompt[Whom(c)[k].pick])
IsOpen(c, k) ==
  Now(Whom(c)[k].when) # No /\ Among(c, Prompt[Whom(c)[k].pick]) # No
Passed(c, k) == \A j \in 1..(k - 1) : Known(c, j) /\ ~IsOpen(c, j)
FallsOn(c, k) == /\ Known(c, k) /\ IsOpen(c, k) /\ Passed(c, k)
                 /\ pick[c] = Whom(c)[k].pick
Decided(c) == \/ tri[c] # Yes /\ pick[c] = None
              \/ tri[c] = Yes /\ \E k \in 1..Len(Whom(c)) : FallsOn(c, k)

(* What a call has found so far.                                           *)
CallOK(f) ==
  /\ f.sym \in valid
  /\ f.stage # "choose" => f.at = 1
  /\ f.stage = "reverse" => f.sym \notin MemberSet
  /\ f.stage # "visible" => Seen(f.sym)
  /\ f.stage \in {"value", "choose"} =>
       Bounded(f.sym) /\ (f.sym \in ChoiceSymbols => pick[f.sym] = None)
  /\ f.stage = "choose" =>
       tri[f.sym] = Yes /\ f.at <= Len(Whom(f.sym)) + 1 /\ Passed(f.sym, f.at)

(* What is kept of a symbol.                                               *)
SymbolOK(s) == /\ Seen(s) /\ Bounded(s)
               /\ s \notin ChoiceSymbols => Valued(s)
               /\ s \in ChoiceSymbols => Decided(s)

(* modules_val: of the last calculation of MODULES; before the first one   *)
(* nobody was asked.                                                       *)
ModulesOK ==
  Modules # None =>
    \/ Modules \notin Settled /\ modulesVal = No /\ Modules \in fresh
    \/ stack # <<>> /\ Tail(stack) = <<>> /\ Top.sym = Modules /\ Settled = {}
    \/ Modules \in Settled /\ modulesVal = tri[Modules]

Below(r) == \A i, j \in DOMAIN stack : i < j => r[stack[i].sym] < r[stack[j].sym]

CacheInv ==
  /\ \A f \in Open : CallOK(f)
  /\ \A s \in Settled : SymbolOK(s)
  /\ \A m \in MemberSet : least[m] = No /\ (m \in fresh => user[m] = No)
  /\ ModulesOK
-----------------------------------------------------------------------------
(* The value of an expression is that of its symbols.                      *)
LEMMA NowSame ==
  ASSUME NEW e, \A a \in Atoms(e) : a = M \/ tri'[a] = tri[a]
  PROVE  Now(e)' = Now(e)
<1> DEFINE v == [a \in Atoms(e) |-> IF a = M THEN Mod ELSE tri[a]]
           w == [a \in Atoms(e) |-> IF a = M THEN Mod ELSE tri'[a]]
<1>1. \A a \in Atoms(e) : v[a] = w[a]
  OBVIOUS
<1>2. Now(e) = Eval(e, v) /\ Now(e)' = Eval(e, w)
  BY DEF Now
<1> HIDE DEF v, w
<1> QED
  BY <1>1, <1>2, EvalSame

LEMMA AmongSame ==
  ASSUME NEW c, NEW e, \A a \in Atoms(e) : a = M \/ a = c \/ tri'[a] = tri[a]
  PROVE  Among(c, e)' = Among(c, e)
<1> DEFINE v == [a \in Atoms(e) |-> IF a = M THEN Mod ELSE IF a = c THEN Yes ELSE tri[a]]
           w == [a \in Atoms(e) |-> IF a = M THEN Mod ELSE IF a = c THEN Yes ELSE tri'[a]]
<1>1. \A a \in Atoms(e) : v[a] = w[a]
  OBVIOUS
<1>2. Among(c, e) = Eval(e, v) /\ Among(c, e)' = Eval(e, w)
  BY DEF Among
<1> HIDE DEF v, w
<1> QED
  BY <1>1, <1>2, EvalSame

LEMMA AmongIsNow ==
  ASSUME NEW c, NEW e, tri[c] = Yes
  PROVE  Among(c, e) = Now(e)
<1> DEFINE v == [a \in Atoms(e) |-> IF a = M THEN Mod ELSE IF a = c THEN Yes ELSE tri[a]]
           w == [a \in Atoms(e) |-> IF a = M THEN Mod ELSE tri[a]]
<1>1. \A a \in Atoms(e) : v[a] = w[a]
  OBVIOUS
<1>2. Among(c, e) = Eval(e, v) /\ Now(e) = Eval(e, w)
  BY DEF Among, Now
<1> HIDE DEF v, w
<1> QED
  BY <1>1, <1>2, EvalSame

(* What is hidden has no symbols, what is never asked no value.            *)
LEMMA NeverIs == Now(Never) = No
<1>1. {MinOf({l[2][[a \in Atoms({}) |-> IF a = M THEN Mod ELSE tri[a]][l[1]]] : l \in conj}) : conj \in {}} = {}
  OBVIOUS
<1>2. MaxOf({}) = No
  BY DEF MaxOf, Max, No
<1> QED
  BY <1>1, <1>2 DEF Now, Never, Eval

LEMMA SomeConjunct ==
  ASSUME NEW e, Now(e) # No PROVE e # {}
<1> SUFFICES ASSUME e = {} PROVE FALSE
  OBVIOUS
<1> QED
  BY NeverIs DEF Never

LEMMA ValueNamesChoice ==
  ASSUME NEW m \in MemberSet, Now(Prompt[m]) # No
  PROVE  ChoiceOf(m) \in Atoms(Prompt[m])
BY SomeConjunct, PromptNamesChoice
-----------------------------------------------------------------------------
(* A step that only touches what is kept of symbol T, whose calculation is *)
(* not over; sym_calc_choice also sets what can be seen of another.        *)
Quiet(T) ==
  /\ T \notin Settled /\ Settled \subseteq Settled' /\ valid \subseteq valid'
  /\ UNCHANGED <<asked, modulesVal>>
  /\ \A x \in Symbols \ {T} : /\ tri'[x] = tri[x] /\ least'[x] = least[x]
                              /\ visible'[x] = visible[x] \/ visible'[x] = Visible(x)
  /\ \A c \in ChoiceSymbols \ {T} : pick'[c] = pick[c]

LEMMA SettledAre ==
  ASSUME TypeInv PROVE Settled \subseteq valid /\ valid \subseteq Symbols /\ M \notin Symbols
BY SymbolsAssumption DEF Settled, TypeInv, TypeOK, SymbolTypeOK

LEMMA FixedKept ==
  ASSUME TypeInv, NEW T, Quiet(T), NEW e, Fixed(e)
  PROVE  Fixed(e)' /\ Now(e)' = Now(e)
<1>1. \A a \in Atoms(e) : a = M \/ (a \in Settled /\ a \in Symbols /\ a # T)
  BY SettledAre DEF Fixed, Quiet
<1>2. \A a \in Atoms(e) : a = M \/ tri'[a] = tri[a]
  BY <1>1 DEF Quiet
<1>3. Now(e)' = Now(e)
  BY <1>2, NowSame
<1>4. Fixed(e)'
  BY DEF Fixed, Quiet
<1> QED
  BY <1>3, <1>4

LEMMA VisibleKept ==
  ASSUME TypeInv, NEW T, Quiet(T), NEW s \in Symbols, Fixed(Prompt[s])
  PROVE  Fixed(Prompt[s])' /\ Visible(s)' = Visible(s)
<1>1. Fixed(Prompt[s])' /\ Now(Prompt[s])' = Now(Prompt[s])
  BY FixedKept
<1>2. modulesVal' = modulesVal
  BY DEF Quiet
<1> QED
  BY <1>1, <1>2 DEF Visible

LEMMA SeenKept ==
  ASSUME TypeInv, NEW T, Quiet(T), NEW s \in Symbols \ {T}, Seen(s)
  PROVE  Seen(s)' /\ visible'[s] = visible[s] /\ least'[s] = least[s]
<1>1. Fixed(Prompt[s])' /\ Visible(s)' = Visible(s)
  BY VisibleKept DEF Seen
<1>2. visible'[s] = visible[s]
  BY DEF Quiet, Seen
<1>3. least'[s] = least[s]
  BY DEF Quiet
<1> QED
  BY <1>1, <1>2, <1>3 DEF Seen

LEMMA IsBoolKept ==
  ASSUME NEW T, Quiet(T), NEW s, visible'[s] = visible[s] \/ s \notin MemberSet
  PROVE  IsBool(s)' = IsBool(s)
<1>1. modulesVal' = modulesVal
  BY DEF Quiet
<1>2. CASE s \in MemberSet
  BY <1>1, <1>2 DEF IsBool
<1>3. CASE s \notin MemberSet
  BY <1>1, <1>3 DEF IsBool
<1> QED
  BY <1>2, <1>3

LEMMA BoundedKept ==
  ASSUME TypeInv, NEW T, Quiet(T), NEW s \in Symbols, Bounded(s), least'[s] = least[s]
  PROVE  Bounded(s)'
<1> SUFFICES ASSUME s \notin MemberSet PROVE Bounded(s)'
  BY DEF Bounded
<1>1. Fixed(Select[s])' /\ Now(Select[s])' = Now(Select[s])
  BY FixedKept DEF Bounded
<1>2. IsBool(s)' = IsBool(s)
  BY IsBoolKept
<1> QED
  BY <1>1, <1>2 DEF Bounded

(* Of the defaults only the first that holds decides.                      *)
LEMMA FirstIs ==
  ASSUME NEW n \in Nat, NEW f, NEW g, DOMAIN f = 1..n, DOMAIN g = 1..n,
         \A i \in 1..n : FirstDefault(f) = 0 \/ i <= FirstDefault(f) => g[i] = f[i]
  PROVE  FirstDefault(g) = FirstDefault(f)
<1>1. PICK a : a = FirstDefault(f)
  OBVIOUS
<1>2. PICK b : b = FirstDefault(g)
  OBVIOUS
<1>3. \/ a = 0 /\ \A i \in 1..n : f[i] = No
      \/ a \in 1..n /\ f[a] # No /\ \A j \in 1..(a - 1) : f[j] = No
  BY <1>1, FirstDefaultIs
<1>4. \/ b = 0 /\ \A i \in 1..n : g[i] = No
      \/ b \in 1..n /\ g[b] # No /\ \A j \in 1..(b - 1) : g[j] = No
  BY <1>2, FirstDefaultIs
<1>5. \A i \in 1..n : a = 0 \/ i <= a => g[i] = f[i]
  BY <1>1
<1>6. a = b
  <2>1. CASE a = 0
    BY <1>3, <1>4, <1>5, <2>1
  <2>2. CASE a # 0
    <3>1. a \in 1..n /\ g[a] # No /\ \A j \in 1..(a - 1) : g[j] = No
      BY <1>3, <1>5, <2>2
    <3>2. b \in 1..n /\ g[b] # No /\ \A j \in 1..(b - 1) : g[j] = No
      BY <1>4, <3>1
    <3>3. ~(a < b) /\ ~(b < a)
      BY <3>1, <3>2
    <3> QED
      BY <3>1, <3>2, <3>3
  <2> QED
    BY <2>1, <2>2
<1> QED
  BY <1>1, <1>2, <1>6

LEMMA DefaultKept ==
  ASSUME TypeInv, NEW T, Quiet(T), NEW s \in Options, FixedDefault(s)
  PROVE  FixedDefault(s)' /\ DefaultValue(s)' = DefaultValue(s)
<1>0. s \in Symbols
  BY MembersAre
<1>1. PICK n \in Nat : DOMAIN Default[s] = 1..n
  BY <1>0, DefaultIs
<1>2. \A i \in 1..n : First(s) = 0 \/ i <= First(s) => /\ Fixed(Default[s][i].when)'
                                                       /\ Now(Default[s][i].when)' = Now(Default[s][i].when)
  BY <1>1, FixedKept DEF FixedDefault
<1>3. /\ DOMAIN Conditions(s) = 1..n /\ DOMAIN Conditions(s)' = 1..n
      /\ \A i \in 1..n : /\ Conditions(s)[i] = Now(Default[s][i].when)
                         /\ Conditions(s)'[i] = Now(Default[s][i].when)'
  BY <1>1 DEF Conditions
<1>4. First(s)' = First(s)
  <2>1. PICK f : f = Conditions(s)
    OBVIOUS
  <2>2. PICK g : g = Conditions(s)'
    OBVIOUS
  <2>3. \A i \in 1..n : FirstDefault(f) = 0 \/ i <= FirstDefault(f) => g[i] = f[i]
    BY <1>2, <1>3, <2>1, <2>2 DEF First
  <2>4. DOMAIN f = 1..n /\ DOMAIN g = 1..n
    BY <1>3, <2>1, <2>2
  <2>5. FirstDefault(g) = FirstDefault(f)
    BY <2>3, <2>4, FirstIs
  <2> QED
    BY <2>1, <2>2, <2>5 DEF First
<1>5. PICK k : k = First(s)
  OBVIOUS
<1>6. k # 0 => /\ Fixed(Default[s][k].value)'
               /\ Now(Default[s][k].value)' = Now(Default[s][k].value)
  BY <1>5, FixedKept DEF FixedDefault
<1>7. FixedDefault(s)'
  <2>1. \A i \in DOMAIN Default[s] : k = 0 \/ i <= k => Fixed(Default[s][i].when)'
    BY <1>1, <1>2, <1>5
  <2> QED
    BY <1>4, <1>5, <1>6, <2>1 DEF FixedDefault
<1>8. DefaultValue(s) = IF k = 0 THEN No ELSE Now(Default[s][k].value)
  BY <1>5 DEF DefaultValue, First, Conditions
<1>9. DefaultValue(s)' = IF k = 0 THEN No ELSE Now(Default[s][k].value)'
  BY <1>4, <1>5 DEF DefaultValue, First, Conditions
<1> QED
  BY <1>6, <1>7, <1>8, <1>9

(* The value stays what it was calculated from.                            *)
LEMMA NewValueKept ==
  ASSUME TypeInv, NEW T, Quiet(T), NEW s \in Symbols \ ChoiceSymbols,
         visible'[s] = visible[s], least'[s] = least[s],
         UsesDefault(s) => FixedDefault(s),
         s \in MemberSet /\ visible[s] = Yes => pick'[ChoiceOf(s)] = pick[ChoiceOf(s)]
  PROVE  /\ NewValue(s)' = NewValue(s)
         /\ UsesDefault(s)' => FixedDefault(s)'
<1>0. s \in Options
  BY DEF Symbols
<1>1. /\ user'[s] = user[s] /\ (s \in fresh' <=> s \in fresh)
      /\ IsBool(s)' = IsBool(s)
  BY IsBoolKept DEF Quiet, asked
<1>2. UsesDefault(s)' <=> UsesDefault(s)
  BY <1>1 DEF UsesDefault
<1>3. UsesDefault(s) => FixedDefault(s)' /\ DefaultValue(s)' = DefaultValue(s)
  BY <1>0, DefaultKept
<1>4. PICK base : base = IF UsesDefault(s) THEN DefaultValue(s)
                         ELSE IF s \in fresh THEN No ELSE user[s]
  OBVIOUS
<1>5. base = (IF UsesDefault(s) THEN DefaultValue(s)
              ELSE IF s \in fresh THEN No ELSE user[s])'
  <2>1. CASE UsesDefault(s)
    BY <1>2, <1>3, <1>4, <2>1
  <2>2. CASE ~UsesDefault(s) /\ s \in fresh
    BY <1>1, <1>2, <1>4, <2>2
  <2>3. CASE ~UsesDefault(s) /\ s \notin fresh
    BY <1>1, <1>2, <1>4, <2>3
  <2> QED
    BY <2>1, <2>2, <2>3
<1>6. CASE s \in MemberSet /\ visible[s] = Yes
  <2>1. NewValue(s) = IF pick[ChoiceOf(s)] = s THEN Yes ELSE No
    BY <1>6 DEF NewValue, Yes, No
  <2>2. NewValue(s)' = IF pick'[ChoiceOf(s)] = s THEN Yes ELSE No
    BY <1>6 DEF NewValue, Yes, No
  <2> QED
    BY <1>2, <1>3, <1>6, <2>1, <2>2
<1>7. CASE ~(s \in MemberSet /\ visible[s] = Yes) /\ visible[s] = No /\ least[s] = No
  <2>1. NewValue(s) = Promote(base, IsBool(s))
    BY <1>4, <1>7 DEF NewValue
  <2>2. NewValue(s)' = Promote(base, IsBool(s)')
    BY <1>5, <1>7 DEF NewValue
  <2> QED
    BY <1>1, <1>2, <1>3, <2>1, <2>2
<1>8. CASE ~(s \in MemberSet /\ visible[s] = Yes) /\ ~(visible[s] = No /\ least[s] = No)
  <2>1. NewValue(s) = Promote(Max({Min({base, visible[s]}), least[s]}), IsBool(s))
    BY <1>4, <1>8 DEF NewValue
  <2>2. NewValue(s)' = Promote(Max({Min({base, visible[s]}), least[s]}), IsBool(s)')
    BY <1>5, <1>8 DEF NewValue
  <2> QED
    BY <1>1, <1>2, <1>3, <2>1, <2>2
<1> QED
  BY <1>6, <1>7, <1>8

LEMMA ValuedKept ==
  ASSUME TypeInv, NEW T, Quiet(T), NEW s \in Symbols \ ChoiceSymbols, s # T,
         Seen(s), Valued(s)
  PROVE  Valued(s)'
<1>1. visible'[s] = visible[s] /\ least'[s] = least[s] /\ tri'[s] = tri[s]
  BY SeenKept DEF Quiet
<1>2. ASSUME s \in MemberSet, visible[s] = Yes
      PROVE  pick'[ChoiceOf(s)] = pick[ChoiceOf(s)]
  <2>1. Now(Prompt[s]) # No
    BY <1>2 DEF Seen, Visible, Promote, Yes, Mod, No
  <2>2. ChoiceOf(s) \in Settled \cup {M} /\ ChoiceOf(s) \in ChoiceSymbols
    BY <1>2, <2>1, ValueNamesChoice, MembersAre DEF Seen, Fixed
  <2>3. ChoiceOf(s) # T
    BY <2>2, SettledAre, MembersAre DEF Quiet
  <2> QED
    BY <2>2, <2>3 DEF Quiet
<1>3. NewValue(s)' = NewValue(s) /\ (UsesDefault(s)' => FixedDefault(s)')
  BY <1>1, <1>2, NewValueKept DEF Valued
<1> QED
  BY <1>1, <1>3 DEF Valued

(* The candidates that a choice has looked at.                             *)
LEMMA KnownKept ==
  ASSUME TypeInv, NEW T, Quiet(T), NEW c \in ChoiceSymbols, NEW k, Known(c, k)
  PROVE  Known(c, k)' /\ (IsOpen(c, k)' <=> IsOpen(c, k)) /\ Whom(c)' = Whom(c)
<1>1. Whom(c)' = Whom(c)
  BY DEF Whom, Candidates, Quiet, asked
<1>2. PICK when : when = Whom(c)[k].when
  OBVIOUS
<1>3. PICK prompt : prompt = Prompt[Whom(c)[k].pick]
  OBVIOUS
<1>4. when = (Whom(c)[k].when)' /\ prompt = (Prompt[Whom(c)[k].pick])'
  BY <1>1, <1>2, <1>3
<1>5. Fixed(when) /\ (Now(when) # No => FixedFor(c, prompt))
  BY <1>2, <1>3 DEF Known
<1>6. Fixed(when)' /\ Now(when)' = Now(when)
  BY <1>5, FixedKept
<1>7. ASSUME FixedFor(c, prompt) PROVE FixedFor(c, prompt)' /\ Among(c, prompt)' = Among(c, prompt)
  <2>1. \A a \in Atoms(prompt) : a = M \/ a = c \/ (a \in Settled /\ a \in Symbols /\ a # T)
    BY <1>7, SettledAre DEF FixedFor, Quiet
  <2>2. \A a \in Atoms(prompt) : a = M \/ a = c \/ tri'[a] = tri[a]
    BY <2>1 DEF Quiet
  <2>3. FixedFor(c, prompt)'
    BY <1>7 DEF FixedFor, Quiet
  <2> QED
    BY <2>2, <2>3, AmongSame
<1>8. /\ Known(c, k)' <=> Fixed(when)' /\ (Now(when)' # No => FixedFor(c, prompt)')
      /\ IsOpen(c, k)' <=> Now(when)' # No /\ Among(c, prompt)' # No
      /\ IsOpen(c, k) <=> Now(when) # No /\ Among(c, prompt) # No
  BY <1>2, <1>3, <1>4 DEF Known, IsOpen
<1> QED
  BY <1>1, <1>5, <1>6, <1>7, <1>8

LEMMA PassedKept ==
  ASSUME TypeInv, NEW T, Quiet(T), NEW c \in ChoiceSymbols, NEW k, Passed(c, k)
  PROVE  Passed(c, k)'
BY KnownKept DEF Passed

LEMMA DecidedKept ==
  ASSUME TypeInv, NEW T, Quiet(T), NEW c \in ChoiceSymbols, c # T, Decided(c)
  PROVE  Decided(c)'
<1>1. tri'[c] = tri[c] /\ pick'[c] = pick[c] /\ Whom(c)' = Whom(c)
  BY DEF Quiet, Symbols, Whom, Candidates, asked
<1>2. CASE tri[c] # Yes
  BY <1>1, <1>2 DEF Decided
<1>3. CASE tri[c] = Yes
  <2>1. PICK k \in 1..Len(Whom(c)) : FallsOn(c, k)
    BY <1>3 DEF Decided
  <2>2. Known(c, k)' /\ IsOpen(c, k)' /\ Passed(c, k)'
    BY <2>1, KnownKept, PassedKept DEF FallsOn
  <2>3. FallsOn(c, k)'
    BY <1>1, <2>1, <2>2 DEF FallsOn
  <2> QED
    BY <1>1, <1>3, <2>1, <2>3 DEF Decided
<1> QED
  BY <1>2, <1>3

LEMMA SymbolKept ==
  ASSUME TypeInv, NEW T, Quiet(T), NEW s \in Symbols \ {T}, SymbolOK(s)
  PROVE  SymbolOK(s)'
<1>1. Seen(s)' /\ Bounded(s)'
  BY SeenKept, BoundedKept DEF SymbolOK
<1>2. s \notin ChoiceSymbols => Valued(s)'
  BY ValuedKept DEF SymbolOK
<1>3. s \in ChoiceSymbols => Decided(s)'
  BY DecidedKept DEF SymbolOK
<1> QED
  BY <1>1, <1>2, <1>3 DEF SymbolOK

LEMMA CallKept ==
  ASSUME TypeInv, NEW T, Quiet(T), NEW f \in Calling, f.sym # T, CallOK(f)
  PROVE  CallOK(f)'
<1> DEFINE s == f.sym
<1>0. s \in Symbols \ {T} /\ (f.stage = "choose" => s \in ChoiceSymbols)
  BY DEF Calling, Frame
<1>1. f.stage # "visible" => Seen(s)' /\ visible'[s] = visible[s] /\ least'[s] = least[s]
  BY <1>0, SeenKept DEF CallOK
<1>2. f.stage \in {"value", "choose"} =>
        Bounded(s)' /\ (s \in ChoiceSymbols => pick'[s] = None)
  BY <1>0, <1>1, BoundedKept DEF CallOK, Quiet
<1>3. f.stage = "choose" => /\ tri'[s] = Yes /\ f.at <= Len(Whom(s)') + 1
                            /\ Passed(s, f.at)'
  <2>1. Whom(s)' = Whom(s)
    BY DEF Whom, Candidates, Quiet, asked
  <2> QED
    BY <1>0, <2>1, PassedKept DEF CallOK, Quiet
<1>4. s \in valid'
  BY DEF CallOK, Quiet
<1> QED
  BY <1>1, <1>2, <1>3, <1>4 DEF CallOK
-----------------------------------------------------------------------------
(* The symbols that are needed before s.                                   *)
-----------------------------------------------------------------------------
(* The calls in the order of their symbols: the innermost is for the least.*)
LEMMA InnermostIs ==
  ASSUME TypeInv, NEW r, Ranked(r), Below(r), stack # <<>>
  PROVE  /\ Len(stack) \in Nat \ {0} /\ DOMAIN stack = 1..Len(stack) /\ Top = stack[1]
         /\ Top.sym \in Symbols /\ Top.sym \in OnStack /\ Top.sym \notin Settled
         /\ \A i \in 2..Len(stack) : r[Top.sym] < r[stack[i].sym] /\ stack[i].sym # Top.sym
         /\ \A d \in Symbols : r[d] < r[Top.sym] => d \notin OnStack
<1>1. stack \in Seq(Calling)
  BY DEF TypeInv
<1>2. Len(stack) \in Nat \ {0} /\ DOMAIN stack = 1..Len(stack) /\ Top = stack[1]
  <2> HIDE DEF Calling
  <2> QED
    BY <1>1 DEF Top
<1>3. \A i \in 1..Len(stack) : stack[i] \in Calling
  <2> HIDE DEF Calling
  <2> QED
    BY <1>1
<1>4. \A i \in 1..Len(stack) : stack[i].sym \in Symbols /\ r[stack[i].sym] \in Nat
  BY <1>3 DEF Calling, Frame, Ranked
<1>5. \A i \in 2..Len(stack) : r[Top.sym] < r[stack[i].sym]
  BY <1>2 DEF Below
<1>6. \A i \in 2..Len(stack) : stack[i].sym # Top.sym
  BY <1>2, <1>4, <1>5
<1>7. ASSUME NEW d \in Symbols, r[d] < r[Top.sym], d \in OnStack PROVE FALSE
  <2>1. PICK i \in 1..Len(stack) : d = stack[i].sym
    BY <1>2, <1>7 DEF OnStack, Open
  <2>2. i = 1 \/ i \in 2..Len(stack)
    BY <1>2
  <2> QED
    BY <1>2, <1>4, <1>5, <1>7, <2>1, <2>2
<1>8. Top.sym \in OnStack
  BY <1>2 DEF OnStack, Open
<1> QED
  BY <1>2, <1>4, <1>5, <1>6, <1>7, <1>8 DEF Settled

LEMMA FixedIs ==
  ASSUME TypeInv, NEW r, Ranked(r), Below(r), stack # <<>>,
         NEW e, Atoms(e) \subseteq Needs[Top.sym] \cup {M}, Atoms(e) \ (valid \cup {M}) = {}
  PROVE  Fixed(e)
<1>1. Top.sym \in Symbols
  BY InnermostIs
<1>2. \A d \in Needs[Top.sym] : d \in Symbols /\ r[d] < r[Top.sym]
  BY <1>1, NeedsAre DEF Ranked, IsRank
<1>3. \A d \in Needs[Top.sym] : d \notin OnStack
  BY <1>2, InnermostIs
<1> QED
  BY <1>3 DEF Fixed, Settled

LEMMA FixedForIs ==
  ASSUME TypeInv, NEW r, Ranked(r), Below(r), stack # <<>>,
         NEW e, Atoms(e) \subseteq Needs[Top.sym] \cup {M, Top.sym}, Atoms(e) \ (valid \cup {M}) = {}
  PROVE  FixedFor(Top.sym, e)
<1>1. Top.sym \in Symbols
  BY InnermostIs
<1>2. \A d \in Needs[Top.sym] : d \in Symbols /\ r[d] < r[Top.sym]
  BY <1>1, NeedsAre DEF Ranked, IsRank
<1>3. \A d \in Needs[Top.sym] : d \notin OnStack
  BY <1>2, InnermostIs
<1> QED
  BY <1>3 DEF FixedFor, Settled

(* A new call.                                                             *)
LEMMA EnterIsQuiet ==
  ASSUME TypeInv, NEW r, Ranked(r), Below(r), CacheInv, NEW d \in Symbols, d \notin valid,
         stack # <<>> => r[d] < r[Top.sym], Enter(d), UNCHANGED <<asked, kept>>
  PROVE  /\ Quiet(d) /\ Settled' = Settled /\ Below(r)' /\ OnStack' = OnStack \cup {d}
         /\ \A f \in Open' : CallOK(f)'
<1>1. stack' = <<Call(d)>> \o stack /\ valid' = valid \cup {d}
  BY DEF Enter
<1>2. stack \in Seq(Calling) /\ Call(d) \in Calling
  BY DEF TypeInv, Call, Calling, Frame
<1>3. /\ Len(stack) \in Nat /\ DOMAIN stack = 1..Len(stack)
      /\ Len(stack') = Len(stack) + 1 /\ DOMAIN stack' = 1..(Len(stack) + 1)
      /\ stack'[1] = Call(d)
      /\ \A i \in 2..(Len(stack) + 1) : stack'[i] = stack[i - 1] /\ i - 1 \in 1..Len(stack)
      /\ \A i \in 1..Len(stack) : stack[i] = stack'[i + 1] /\ i + 1 \in 2..(Len(stack) + 1)
  <2> HIDE DEF Calling
  <2>1. stack' \in Seq(Calling)
    BY <1>1, <1>2
  <2> DEFINE e == Call(d)
             T == Calling
  <2>2. stack \in Seq(T) /\ e \in T /\ stack' = <<e>> \o stack
    BY <1>1, <1>2
  <2> HIDE DEF e, T
  <2>3. /\ Len(stack) \in Nat /\ Len(stack') = Len(stack) + 1
        /\ stack'[1] = e
        /\ \A i \in 2..Len(stack') : stack'[i] = stack[i - 1]
    BY <2>2, PushedIs
  <2>4. DOMAIN stack = 1..Len(stack) /\ DOMAIN stack' = 1..Len(stack')
    BY <1>2, <2>1
  <2>5. \A i \in 2..(Len(stack) + 1) : i - 1 \in 1..Len(stack)
    BY <2>3
  <2>6. \A i \in 1..Len(stack) : i + 1 \in 2..(Len(stack) + 1) /\ stack'[i + 1] = stack[(i + 1) - 1]
    BY <2>3
  <2>7. \A i \in 1..Len(stack) : (i + 1) - 1 = i
    BY <2>3
  <2> QED
    BY <2>3, <2>4, <2>5, <2>6, <2>7 DEF e
<1>4. Call(d).sym = d /\ Call(d).stage = "visible" /\ Call(d).at = 1
  BY DEF Call
<1>5. Open' = Open \cup {Call(d)} /\ OnStack' = OnStack \cup {d}
  <2>1. ASSUME NEW i \in DOMAIN stack' PROVE stack'[i] \in Open \cup {Call(d)}
    <3>1. i = 1 \/ i \in 2..(Len(stack) + 1)
      BY <1>3
    <3> QED
      BY <1>3, <3>1 DEF Open
  <2>2. ASSUME NEW i \in DOMAIN stack PROVE stack[i] \in Open'
    <3>1. i + 1 \in DOMAIN stack' /\ stack[i] = stack'[i + 1]
      BY <1>3
    <3> QED
      BY <3>1 DEF Open
  <2>3. Call(d) \in Open'
    <3>1. 1 \in DOMAIN stack'
      BY <1>3
    <3> QED
      BY <1>3, <3>1 DEF Open
  <2>4. Open' = Open \cup {Call(d)}
    BY <2>1, <2>2, <2>3 DEF Open
  <2> QED
    BY <1>4, <2>4 DEF OnStack
<1>6. Settled' = Settled
  BY <1>1, <1>5 DEF Settled
<1>7. Quiet(d)
  BY <1>1, <1>6 DEF Quiet, kept, Settled
<1>8. Below(r)'
  <2> SUFFICES ASSUME NEW i \in DOMAIN stack', NEW j \in DOMAIN stack', i < j
               PROVE  r[stack'[i].sym] < r[stack'[j].sym]
    BY DEF Below
  <2>1. j \in 2..(Len(stack) + 1) /\ j - 1 \in 1..Len(stack) /\ stack'[j] = stack[j - 1] /\ stack # <<>>
    BY <1>3
  <2>2. CASE i = 1
    <3>1. r[d] \in Nat /\ r[Top.sym] \in Nat /\ r[stack[j - 1].sym] \in Nat
      <4>1. stack[j - 1] \in Calling
        BY <1>2, <2>1
      <4> QED
        BY <2>1, <4>1, InnermostIs DEF Ranked, Calling, Frame
    <3>2. r[Top.sym] <= r[stack[j - 1].sym]
      <4>1. j - 1 = 1 \/ j - 1 \in 2..Len(stack)
        BY <1>3, <2>1
      <4> QED
        BY <2>1, <3>1, <4>1, InnermostIs
    <3> QED
      BY <1>3, <1>4, <2>1, <2>2, <3>1, <3>2
  <2>3. CASE i # 1
    <3>1. i \in 2..(Len(stack) + 1) /\ i - 1 \in DOMAIN stack /\ i - 1 < j - 1 /\ j - 1 \in DOMAIN stack
      BY <1>3, <2>1, <2>3
    <3> QED
      BY <1>3, <2>1, <3>1 DEF Below
  <2> QED
    BY <2>2, <2>3
<1>9. ASSUME NEW f \in Open' PROVE CallOK(f)'
  <2>1. CASE f = Call(d)
    BY <1>1, <1>4, <2>1 DEF CallOK
  <2>2. CASE f \in Open
    <3>1. f \in Calling /\ CallOK(f)
      BY <1>2, <1>3, <2>2 DEF CacheInv, Open
    <3>2. f.sym # d
      BY <3>1 DEF CallOK
    <3> QED
      BY <1>7, <3>1, <3>2, CallKept
  <2> QED
    BY <1>5, <2>1, <2>2
<1> QED
  BY <1>5, <1>6, <1>7, <1>8, <1>9

(* The innermost call goes on.                                             *)
LEMMA GoingOnIs ==
  ASSUME TypeInv, NEW r, Ranked(r), Below(r), stack # <<>>, valid' = valid,
         NEW g \in Calling, g.sym = Top.sym, stack' = <<g>> \o Tail(stack)
  PROVE  /\ Below(r)' /\ OnStack' = OnStack /\ Settled' = Settled
         /\ \A f \in Open' : f = g \/ (f \in Open /\ f.sym # Top.sym)
<1>1. stack \in Seq(Calling)
  BY DEF TypeInv
<1>2. /\ Len(stack') = Len(stack) /\ DOMAIN stack' = 1..Len(stack) /\ stack'[1] = g
      /\ \A i \in 2..Len(stack) : stack'[i] = stack[i]
  <2> HIDE DEF Calling
  <2> QED
    BY <1>1
<1>3. /\ Len(stack) \in Nat \ {0} /\ DOMAIN stack = 1..Len(stack) /\ Top = stack[1]
      /\ \A i \in 2..Len(stack) : stack[i].sym # Top.sym
  BY InnermostIs
<1>4. \A i \in 1..Len(stack) : i = 1 \/ i \in 2..Len(stack)
  BY <1>3
<1>5. \A i \in 1..Len(stack) : stack'[i].sym = stack[i].sym
  BY <1>2, <1>3, <1>4
<1>6. Below(r)'
  BY <1>2, <1>3, <1>5 DEF Below
<1>7. OnStack' = OnStack
  <2>1. OnStack = {stack[i].sym : i \in 1..Len(stack)}
    BY <1>3 DEF OnStack, Open
  <2>2. OnStack' = {stack'[i].sym : i \in 1..Len(stack)}
    BY <1>2 DEF OnStack, Open
  <2> QED
    BY <1>5, <2>1, <2>2
<1>8. \A f \in Open' : f = g \/ (f \in Open /\ f.sym # Top.sym)
  BY <1>2, <1>3, <1>4 DEF Open
<1> QED
  BY <1>6, <1>7, <1>8 DEF Settled

(* It returns.                                                             *)
LEMMA ReturnIs ==
  ASSUME TypeInv, NEW r, Ranked(r), Below(r), CacheInv, stack # <<>>, valid' = valid, Return
  PROVE  /\ Below(r)' /\ Settled' = Settled \cup {Top.sym}
         /\ \A f \in Open' : f \in Open /\ f.sym # Top.sym
<1>1. stack \in Seq(Calling) /\ stack' = Tail(stack)
  BY DEF TypeInv, Return
<1>2. /\ Len(stack) \in Nat \ {0} /\ DOMAIN stack = 1..Len(stack) /\ Top = stack[1]
      /\ \A i \in 2..Len(stack) : stack[i].sym # Top.sym
  BY InnermostIs
<1>3. /\ DOMAIN stack' = 1..(Len(stack) - 1)
      /\ \A i \in 1..(Len(stack) - 1) : i + 1 \in 2..Len(stack) /\ stack'[i] = stack[i + 1]
      /\ \A i \in 2..Len(stack) : i - 1 \in 1..(Len(stack) - 1) /\ stack[i] = stack'[i - 1]
  <2> HIDE DEF Calling
  <2>1. Len(stack') = Len(stack) - 1 /\ stack' \in Seq(Calling)
    BY <1>1, <1>2
  <2>2. \A i \in 1..(Len(stack) - 1) : stack'[i] = stack[i + 1] /\ i + 1 \in 2..Len(stack)
    BY <1>1, <1>2
  <2>3. \A i \in 2..Len(stack) : i - 1 \in 1..(Len(stack) - 1) /\ (i - 1) + 1 = i
    BY <1>2
  <2> QED
    BY <2>1, <2>2, <2>3
<1>4. Below(r)'
  <2> SUFFICES ASSUME NEW i \in DOMAIN stack', NEW j \in DOMAIN stack', i < j
               PROVE  r[stack'[i].sym] < r[stack'[j].sym]
    BY DEF Below
  <2>1. i + 1 \in DOMAIN stack /\ j + 1 \in DOMAIN stack /\ i + 1 < j + 1
    BY <1>2, <1>3
  <2>2. r[stack[i + 1].sym] < r[stack[j + 1].sym]
    BY <2>1 DEF Below
  <2>3. stack'[i] = stack[i + 1] /\ stack'[j] = stack[j + 1]
    BY <1>3
  <2> QED
    BY <2>2, <2>3
<1>5. \A f \in Open' : f \in Open /\ f.sym # Top.sym
  <2> SUFFICES ASSUME NEW i \in DOMAIN stack' PROVE stack'[i] \in Open /\ stack'[i].sym # Top.sym
    BY DEF Open
  <2>1. i + 1 \in DOMAIN stack /\ i + 1 \in 2..Len(stack) /\ stack'[i] = stack[i + 1]
    BY <1>2, <1>3
  <2> QED
    BY <1>2, <2>1 DEF Open
<1>6. \A f \in Open : f = Top \/ f \in Open'
  <2> SUFFICES ASSUME NEW i \in DOMAIN stack PROVE stack[i] = Top \/ stack[i] \in Open'
    BY DEF Open
  <2>1. i = 1 \/ i \in 2..Len(stack)
    BY <1>2
  <2>2. i \in 2..Len(stack) => i - 1 \in DOMAIN stack' /\ stack[i] = stack'[i - 1]
    BY <1>3
  <2> QED
    BY <1>2, <2>1, <2>2 DEF Open
<1>7. Top \in Open /\ Top.sym \in valid
  <2>1. Top \in Open
    BY <1>2 DEF Open
  <2> QED
    BY <2>1 DEF CacheInv, CallOK
<1>8. OnStack' = OnStack \ {Top.sym}
  BY <1>5, <1>6 DEF OnStack
<1>9. Top.sym \in OnStack
  BY <1>7 DEF OnStack
<1> QED
  BY <1>4, <1>5, <1>7, <1>8, <1>9 DEF Settled

(* What a step leaves alone stays true; the rest must be shown.            *)
LEMMA RestKept ==
  ASSUME TypeInv, CacheInv, NEW T, Quiet(T),
         \A f \in Open' : (f \in Open /\ f.sym # T) \/ CallOK(f)',
         \A s \in Settled' : s \in Settled \/ SymbolOK(s)'
  PROVE  (\A f \in Open' : CallOK(f)') /\ (\A s \in Settled' : SymbolOK(s)')
<1>1. Open \subseteq Calling
  <2>1. stack \in Seq(Calling)
    BY DEF TypeInv
  <2> HIDE DEF Calling
  <2> QED
    BY <2>1 DEF Open
<1>2. ASSUME NEW f \in Open, f.sym # T PROVE CallOK(f)'
  BY <1>1, <1>2, CallKept DEF CacheInv
<1>3. ASSUME NEW s \in Settled PROVE SymbolOK(s)'
  BY SettledAre, SymbolKept DEF CacheInv, Quiet
<1> QED
  BY <1>2, <1>3
-----------------------------------------------------------------------------
LEMMA NeededIn ==
  ASSUME TypeInv, CacheInv, stack # <<>> PROVE Needed \subseteq Needs[Top.sym]
<1> DEFINE s == Top.sym
<1>0. s \in Symbols /\ Top.stage \in {"visible", "reverse", "value", "choose"}
      /\ s \in valid /\ Top \in Open
  <2>1. stack \in Seq(Calling)
    BY DEF TypeInv
  <2>2. Top \in Open
    <3> HIDE DEF Calling
    <3> QED
      BY <2>1 DEF Top, Open
  <2> QED
    BY <2>2, CallIs DEF CacheInv, CallOK
<1>1. CASE Top.stage = "visible"
  BY <1>0, <1>1, NeedsAre DEF Needed
<1>2. CASE Top.stage = "reverse"
  BY <1>0, <1>2, NeedsAre DEF Needed
<1>3. CASE Top.stage = "value"
  <2>1. UsesDefault(s) => s \in Options
    BY <1>0 DEF UsesDefault, Symbols
  <2>2. s \in Options => DefaultAtoms(s) \subseteq Needs[s]
    <3> DEFINE unknown(e) == Atoms(e) \ (valid \cup {M})
               stop == {i \in DOMAIN Default[s] :
                          unknown(Default[s][i].when) # {} \/ Now(Default[s][i].when) # No}
               first == Min(stop)
    <3> SUFFICES ASSUME s \in Options PROVE DefaultAtoms(s) \subseteq Needs[s]
      OBVIOUS
    <3>1. \A i \in DOMAIN Default[s] :
            unknown(Default[s][i].when) \subseteq Needs[s] /\ unknown(Default[s][i].value) \subseteq Needs[s]
      BY <1>0, NeedsAre
    <3>2. stop \subseteq DOMAIN Default[s] /\ DOMAIN Default[s] \subseteq Nat
      BY <1>0, DefaultIs
    <3>3. stop # {} => first \in stop
      <4> HIDE DEF stop
      <4>1. stop # {} => \E x \in stop : \A y \in stop : x <= y
        BY <3>2, LeastExists
      <4> QED
        BY <4>1 DEF Min
    <3>4. DefaultAtoms(s) = CASE stop = {} -> {}
            [] stop # {} /\ unknown(Default[s][first].when) # {} -> unknown(Default[s][first].when)
            [] OTHER -> unknown(Default[s][first].value)
      BY DEF DefaultAtoms
    <3> HIDE DEF stop, unknown, first
    <3> QED
      BY <3>1, <3>2, <3>3, <3>4
  <2> QED
    BY <1>3, <2>1, <2>2 DEF Needed
<1>4. CASE Top.stage = "choose"
  <2>1. s \in ChoiceSymbols /\ wish[s] \in Range(Members[s]) \cup {None}
    BY <1>0, <1>4, CallIs DEF TypeInv, WishOK
  <2>2. ~Exhausted => Top.at \in 1..Len(Whom(s))
    <3>1. Len(Whom(s)) \in Nat /\ Top.at \in Nat \ {0}
      BY <2>1, CallIs, CandidatesAre DEF Whom
    <3> QED
      BY <3>1 DEF Exhausted, Whom
  <2>3. ~Exhausted => /\ Atoms(Candidate.when) \subseteq Needs[s] \cup {M}
                      /\ Atoms(Prompt[Candidate.pick]) \subseteq Needs[s] \cup {M, s}
    BY <2>1, <2>2, WhomNeeds DEF Candidate, Whom
  <2> QED
    BY <1>0, <1>4, <2>3 DEF Needed
<1> QED
  BY <1>0, <1>1, <1>2, <1>3, <1>4

(* It has no default either.                                                *)
LEMMA ModulesDefault ==
  ASSUME ModulesIsPlain, Modules # None
  PROVE  /\ DefaultValue(Modules) = No /\ FixedDefault(Modules)
         /\ DefaultValue(Modules)' = No /\ FixedDefault(Modules)'
<1>1. DOMAIN Default[Modules] = {}
  BY ModulesNeeds
<1>2. PICK f : f = Conditions(Modules)
  OBVIOUS
<1>3. PICK g : g = Conditions(Modules)'
  OBVIOUS
<1>4. DOMAIN f = {} /\ DOMAIN g = {}
  BY <1>1, <1>2, <1>3 DEF Conditions
<1>5. FirstDefault(f) = 0 /\ FirstDefault(g) = 0
  BY <1>4, NoFirst
<1>6. First(Modules) = 0 /\ First(Modules)' = 0
  BY <1>2, <1>3, <1>5 DEF First
<1> QED
  BY <1>1, <1>6 DEF DefaultValue, First, Conditions, FixedDefault
-----------------------------------------------------------------------------
(* Each step of a calculation keeps what is known.                         *)
Cached == /\ \A f \in Open : CallOK(f)
          /\ \A s \in Settled : SymbolOK(s)
          /\ \A m \in MemberSet : least[m] = No /\ (m \in fresh => user[m] = No)

LEMMA CachedIs == (CacheInv <=> Cached /\ ModulesOK) /\ (CacheInv' <=> Cached' /\ ModulesOK')
BY DEF CacheInv, Cached

LEMMA InnermostOK ==
  ASSUME TypeInv, CacheInv, stack # <<>>
  PROVE  Top \in Open /\ Top \in Calling /\ CallOK(Top)
<1>1. stack \in Seq(Calling)
  BY DEF TypeInv
<1>2. Top \in Open
  <2> HIDE DEF Calling
  <2> QED
    BY <1>1 DEF Top, Open
<1> QED
  BY <1>2, CallIs DEF CacheInv

LEMMA StageIs ==
  ASSUME NEW f \in Calling, NEW stage \in {"visible", "reverse", "value", "choose"},
         stage = "choose" => f.sym \in ChoiceSymbols, NEW g, g = [f EXCEPT !.stage = stage]
  PROVE  g \in Calling /\ g.sym = f.sym /\ g.stage = stage /\ g.at = f.at
BY DEF Calling, Frame

LEMMA NewCallKept ==
  ASSUME TypeInv, CacheInv, NEW r, Ranked(r), Below(r), NEW d \in Symbols, d \notin valid,
         stack # <<>> => r[d] < r[Top.sym], Enter(d), UNCHANGED <<asked, kept>>
  PROVE  Cached' /\ Below(r)' /\ Quiet(d) /\ Settled' = Settled
<1>1. /\ Quiet(d) /\ Settled' = Settled /\ Below(r)'
      /\ \A f \in Open' : CallOK(f)'
  BY EnterIsQuiet
<1>2. \A s \in Settled' : SymbolOK(s)'
  BY <1>1, RestKept
<1>3. least' = least /\ user' = user /\ fresh' = fresh
  BY DEF kept, asked
<1> QED
  BY <1>1, <1>2, <1>3 DEF Cached, CacheInv

LEMMA CalcVisibleKeeps ==
  ASSUME TypeInv, CacheInv, NEW r, Ranked(r), Below(r), NEW s, s = Top.sym, CalcVisible
  PROVE  Cached' /\ Below(r)' /\ Quiet(s) /\ Settled' = Settled
<1> DEFINE stage == IF s \in MemberSet THEN "value" ELSE "reverse"
<1>0. stack # <<>> /\ Top.stage = "visible" /\ Needed = {} /\ UNCHANGED <<asked, valid, least, modulesVal>>
  BY DEF CalcVisible, Running
<1>1. /\ s \in Symbols /\ s \notin Settled /\ Top \in Calling /\ CallOK(Top)
  BY <1>0, InnermostIs, InnermostOK
<1>2. Fixed(Prompt[s])
  <2>1. Atoms(Prompt[s]) \ (valid \cup {M}) = {}
    BY <1>0 DEF Needed
  <2> QED
    BY <1>0, <1>1, <2>1, NeedsAre, FixedIs
<1>3. PICK g : g = [Top EXCEPT !.stage = stage]
  OBVIOUS
<1>4. g \in Calling /\ g.sym = s /\ g.stage = stage /\ g.at = Top.at
  BY <1>1, <1>3, StageIs
<1>5. stack' = <<g>> \o Tail(stack)
  BY <1>3 DEF CalcVisible, Goto
<1>6. /\ Below(r)' /\ OnStack' = OnStack /\ Settled' = Settled
      /\ \A f \in Open' : f = g \/ (f \in Open /\ f.sym # s)
  BY <1>0, <1>4, <1>5, GoingOnIs
<1>7. /\ visible' = [visible EXCEPT ![s] = Visible(s)]
      /\ \A x \in Symbols \ {s} : tri'[x] = tri[x]
      /\ \A c \in ChoiceSymbols \ {s} : pick'[c] = pick[c]
  <2>1. CASE s \in MemberSet
    BY <2>1 DEF CalcVisible, Reset, TypeInv, TypeOK, SymbolTypeOK
  <2>2. CASE s \notin MemberSet
    BY <2>2 DEF CalcVisible
  <2> QED
    BY <2>1, <2>2
<1>8. visible'[s] = Visible(s) /\ \A x \in Symbols \ {s} : visible'[x] = visible[x]
  BY <1>1, <1>7 DEF TypeInv, TypeOK, SymbolTypeOK
<1>9. Quiet(s)
  BY <1>0, <1>1, <1>6, <1>7, <1>8 DEF Quiet, asked
<1>10. Seen(s)'
  <2>1. Fixed(Prompt[s])' /\ Visible(s)' = Visible(s)
    BY <1>1, <1>2, <1>9, VisibleKept
  <2> QED
    BY <1>8, <2>1 DEF Seen
<1>11. CallOK(g)'
  <2>1. g.sym \in valid' /\ g.at = 1
    BY <1>0, <1>1, <1>4 DEF CallOK
  <2>2. CASE s \in MemberSet
    BY <1>4, <1>10, <2>1, <2>2, MembersAre DEF CallOK, Bounded
  <2>3. CASE s \notin MemberSet
    BY <1>4, <1>10, <2>1, <2>3 DEF CallOK
  <2> QED
    BY <2>2, <2>3
<1>12. (\A f \in Open' : CallOK(f)') /\ (\A x \in Settled' : SymbolOK(x)')
  BY <1>6, <1>9, <1>11, RestKept
<1> QED
  BY <1>0, <1>6, <1>9, <1>12 DEF Cached, CacheInv, asked

LEMMA CalcReverseKeeps ==
  ASSUME TypeInv, CacheInv, NEW r, Ranked(r), Below(r), NEW s, s = Top.sym, CalcReverse
  PROVE  Cached' /\ Below(r)' /\ Quiet(s) /\ Settled' = Settled
<1>0. stack # <<>> /\ Top.stage = "reverse" /\ Needed = {} /\ UNCHANGED <<asked, valid, visible, modulesVal>>
  BY DEF CalcReverse, Running
<1>1. /\ s \in Symbols /\ s \notin Settled /\ Top \in Calling /\ CallOK(Top)
  BY <1>0, InnermostIs, InnermostOK
<1>2. s \notin MemberSet /\ Seen(s) /\ Fixed(Select[s])
  <2>1. Atoms(Select[s]) \ (valid \cup {M}) = {}
    BY <1>0 DEF Needed
  <2>2. Fixed(Select[s])
    BY <1>0, <1>1, <2>1, NeedsAre, FixedIs
  <2> QED
    BY <1>0, <1>1, <2>2 DEF CallOK
<1>3. PICK g : g = [Top EXCEPT !.stage = "value"]
  OBVIOUS
<1>4. g \in Calling /\ g.sym = s /\ g.stage = "value" /\ g.at = Top.at
  BY <1>1, <1>3, StageIs
<1>5. stack' = <<g>> \o Tail(stack)
  BY <1>3 DEF CalcReverse, Goto
<1>6. /\ Below(r)' /\ OnStack' = OnStack /\ Settled' = Settled
      /\ \A f \in Open' : f = g \/ (f \in Open /\ f.sym # s)
  BY <1>0, <1>4, <1>5, GoingOnIs
<1>7. /\ least' = [least EXCEPT ![s] = Promote(Now(Select[s]), IsBool(s))]
      /\ \A x \in Symbols \ {s} : tri'[x] = tri[x]
      /\ \A c \in ChoiceSymbols \ {s} : pick'[c] = pick[c]
      /\ s \in ChoiceSymbols => pick'[s] = None
  BY DEF CalcReverse, Reset, TypeInv, TypeOK, SymbolTypeOK
<1>8. /\ least'[s] = Promote(Now(Select[s]), IsBool(s))
      /\ \A x \in Symbols \ {s} : least'[x] = least[x]
  BY <1>1, <1>7 DEF TypeInv, TypeOK, SymbolTypeOK
<1>9. Quiet(s)
  BY <1>0, <1>1, <1>6, <1>7, <1>8 DEF Quiet, asked
<1>10. Seen(s)' /\ Bounded(s)'
  <2>1. Fixed(Prompt[s])' /\ Visible(s)' = Visible(s)
    BY <1>1, <1>2, <1>9, VisibleKept DEF Seen
  <2>2. Fixed(Select[s])' /\ Now(Select[s])' = Now(Select[s]) /\ IsBool(s)' = IsBool(s)
    BY <1>2, <1>9, FixedKept, IsBoolKept
  <2> QED
    BY <1>0, <1>2, <1>8, <2>1, <2>2 DEF Seen, Bounded
<1>11. CallOK(g)'
  BY <1>0, <1>1, <1>4, <1>7, <1>10 DEF CallOK
<1>12. (\A f \in Open' : CallOK(f)') /\ (\A x \in Settled' : SymbolOK(x)')
  BY <1>6, <1>9, <1>11, RestKept
<1>13. \A m \in MemberSet : least'[m] = least[m]
  BY <1>2, <1>8, MembersAre
<1> QED
  BY <1>0, <1>6, <1>9, <1>12, <1>13 DEF Cached, CacheInv, asked

(* The defaults have been tried up to the one that holds.                  *)
LEMMA DefaultsTried ==
  ASSUME TypeInv, CacheInv, NEW r, Ranked(r), Below(r), stack # <<>>, NEW s, s = Top.sym,
         Top.stage = "value", Needed = {}, UsesDefault(s)
  PROVE  FixedDefault(s)
<1> DEFINE unknown(e) == Atoms(e) \ (valid \cup {M})
           stop == {i \in DOMAIN Default[s] :
                      unknown(Default[s][i].when) # {} \/ Now(Default[s][i].when) # No}
           first == Min(stop)
<1>1. s \in Symbols /\ s \in Options
  BY InnermostIs DEF UsesDefault, Symbols
<1>2. PICK n \in Nat : DOMAIN Default[s] = 1..n
  BY <1>1, DefaultIs
<1>3. \A i \in 1..n : /\ unknown(Default[s][i].when) = {} => Fixed(Default[s][i].when)
                      /\ unknown(Default[s][i].value) = {} => Fixed(Default[s][i].value)
  BY <1>1, <1>2, NeedsAre, FixedIs
<1>4. DefaultAtoms(s) = {}
  BY DEF Needed
<1>5. DefaultAtoms(s) = CASE stop = {} -> {}
        [] stop # {} /\ unknown(Default[s][first].when) # {} -> unknown(Default[s][first].when)
        [] OTHER -> unknown(Default[s][first].value)
  BY DEF DefaultAtoms
<1>6. PICK f : f = Conditions(s)
  OBVIOUS
<1>7. DOMAIN f = 1..n /\ \A i \in 1..n : f[i] = Now(Default[s][i].when)
  BY <1>2, <1>6 DEF Conditions
<1>8. /\ First(s) = FirstDefault(f)
      /\ \/ First(s) = 0 /\ \A i \in 1..n : f[i] = No
         \/ /\ First(s) \in 1..n /\ f[First(s)] # No
            /\ \A j \in 1..(First(s) - 1) : f[j] = No
  BY <1>6, <1>7, FirstDefaultIs DEF First
<1>9. CASE stop = {}
  <2>1. \A i \in 1..n : unknown(Default[s][i].when) = {} /\ f[i] = No
    BY <1>2, <1>7, <1>9
  <2>2. First(s) = 0
    BY <1>8, <2>1
  <2> QED
    BY <1>2, <1>3, <2>1, <2>2 DEF FixedDefault
<1>10. CASE stop # {}
  <2>1. first \in stop /\ \A i \in stop : first <= i
    <3>1. stop \in SUBSET Nat
      BY <1>2
    <3> HIDE DEF stop
    <3>2. \E x \in stop : \A y \in stop : x <= y
      BY <1>10, <3>1, LeastExists
    <3> QED
      BY <3>2 DEF Min
  <2>2. first \in 1..n
    BY <1>2, <2>1
  <2>3. unknown(Default[s][first].when) = {}
    <3> HIDE DEF stop, unknown, first
    <3> QED
      BY <1>4, <1>5, <1>10
  <2>4. f[first] # No
    BY <1>7, <2>1, <2>2, <2>3
  <2>5. unknown(Default[s][first].value) = {}
    <3> HIDE DEF stop, unknown, first
    <3> QED
      BY <1>4, <1>5, <1>10, <2>3
  <2>6. \A j \in 1..n : j < first => unknown(Default[s][j].when) = {} /\ f[j] = No
    <3> SUFFICES ASSUME NEW j \in 1..n, j < first
                 PROVE  unknown(Default[s][j].when) = {} /\ f[j] = No
      OBVIOUS
    <3>0. ~(first <= j) /\ first \in stop /\ \A i \in stop : first <= i
      <4> HIDE DEF stop, unknown, first
      <4> QED
        BY <2>1, <2>2
    <3> HIDE DEF unknown, first
    <3>1. j \notin stop
      <4> HIDE DEF stop
      <4> QED
        BY <3>0
    <3>2. ~(unknown(Default[s][j].when) # {} \/ Now(Default[s][j].when) # No)
      BY <1>2, <3>1
    <3> QED
      BY <1>7, <3>2
  <2>7. First(s) = first
    <3> HIDE DEF stop, unknown, first
    <3>1. First(s) \in 1..n /\ f[First(s)] # No /\ \A j \in 1..(First(s) - 1) : f[j] = No
      BY <1>8, <2>2, <2>4
    <3>2. ~(First(s) < first)
      BY <2>2, <2>6, <3>1
    <3>3. ~(first < First(s))
      BY <2>2, <2>4, <3>1
    <3> QED
      BY <2>2, <3>1, <3>2, <3>3
  <2>8. \A i \in 1..n : i <= first => Fixed(Default[s][i].when)
    <3> HIDE DEF stop, unknown, first
    <3>1. \A i \in 1..n : i <= first => i < first \/ i = first
      BY <2>2
    <3> QED
      BY <1>3, <2>3, <2>6, <3>1
  <2>9. Fixed(Default[s][first].value)
    BY <1>3, <2>2, <2>5
  <2>10. first # 0
    BY <2>2
  <2> HIDE DEF stop, unknown, first
  <2> QED
    BY <1>2, <2>7, <2>8, <2>9, <2>10 DEF FixedDefault
<1> QED
  BY <1>9, <1>10

LEMMA CalcValueKeeps ==
  ASSUME TypeInv, CacheInv, NEW r, Ranked(r), Below(r), NEW s, s = Top.sym, CalcValue,
         modulesVal' = modulesVal
  PROVE  Cached' /\ Below(r)' /\ Quiet(s)
<1>0. /\ stack # <<>> /\ Top.stage = "value" /\ Needed = {}
      /\ UNCHANGED <<asked, valid, pick, visible, least>>
      /\ tri' = [tri EXCEPT ![s] = NewValue(s)]
  BY DEF CalcValue, Running
<1>1. /\ s \in Symbols /\ s \notin Settled /\ Top \in Calling /\ CallOK(Top)
  BY <1>0, InnermostIs, InnermostOK
<1>2. Seen(s) /\ Bounded(s) /\ Top.at = 1 /\ s \in valid /\ (s \in ChoiceSymbols => pick[s] = None)
  BY <1>0, <1>1 DEF CallOK
<1>3. tri'[s] = NewValue(s) /\ \A x \in Symbols \ {s} : tri'[x] = tri[x]
  BY <1>0, <1>1 DEF TypeInv, TypeOK, SymbolTypeOK
<1>4. CASE s \in ChoiceSymbols /\ NewValue(s) = Yes
  <2>1. PICK g : g = [Top EXCEPT !.stage = "choose"]
    OBVIOUS
  <2>2. g \in Calling /\ g.sym = s /\ g.stage = "choose" /\ g.at = 1
    BY <1>1, <1>2, <1>4, <2>1, StageIs
  <2>3. stack' = <<g>> \o Tail(stack)
    BY <1>4, <2>1 DEF CalcValue, Goto
  <2>4. /\ Below(r)' /\ Settled' = Settled
        /\ \A f \in Open' : f = g \/ (f \in Open /\ f.sym # s)
    BY <1>0, <2>2, <2>3, GoingOnIs
  <2>5. Quiet(s)
    BY <1>0, <1>1, <1>3, <2>4 DEF Quiet, asked
  <2>6. Seen(s)' /\ Bounded(s)'
    <3>1. Fixed(Prompt[s])' /\ Visible(s)' = Visible(s)
      BY <1>1, <1>2, <2>5, VisibleKept DEF Seen
    <3>2. Bounded(s)'
      BY <1>0, <1>1, <1>2, <2>5, BoundedKept
    <3> QED
      BY <1>0, <1>2, <3>1, <3>2 DEF Seen
  <2>7. CallOK(g)'
    <3>1. Len(Whom(s)') \in Nat
      <4>1. wish'[s] \in Range(Members[s]) \cup {None}
        BY <1>0, <1>4 DEF TypeInv, WishOK, asked
      <4> QED
        BY <1>4, <4>1, CandidatesAre DEF Whom
    <3>2. Passed(s, 1)' /\ 1 <= Len(Whom(s)') + 1
      BY <3>1 DEF Passed
    <3>3. tri'[s] = Yes /\ pick'[s] = None /\ s \in valid'
      BY <1>0, <1>2, <1>3, <1>4
    <3> QED
      BY <2>2, <2>6, <3>2, <3>3 DEF CallOK
  <2>8. (\A f \in Open' : CallOK(f)') /\ (\A x \in Settled' : SymbolOK(x)')
    BY <2>4, <2>5, <2>7, RestKept
  <2> QED
    BY <1>0, <2>4, <2>5, <2>8 DEF Cached, CacheInv, asked
<1>5. CASE ~(s \in ChoiceSymbols /\ NewValue(s) = Yes)
  <2>1. Return
    BY <1>5 DEF CalcValue
  <2>2. /\ Below(r)' /\ Settled' = Settled \cup {s}
        /\ \A f \in Open' : f \in Open /\ f.sym # s
    BY <1>0, <2>1, ReturnIs
  <2>3. Quiet(s)
    BY <1>0, <1>1, <1>3, <2>2 DEF Quiet, asked
  <2>4. Seen(s)' /\ Bounded(s)'
    <3>1. Fixed(Prompt[s])' /\ Visible(s)' = Visible(s)
      BY <1>1, <1>2, <2>3, VisibleKept DEF Seen
    <3>2. Bounded(s)'
      BY <1>0, <1>1, <1>2, <2>3, BoundedKept
    <3> QED
      BY <1>0, <1>2, <3>1, <3>2 DEF Seen
  <2>5. s \in ChoiceSymbols => Decided(s)'
    BY <1>0, <1>2, <1>3, <1>5 DEF Decided
  <2>6. s \notin ChoiceSymbols => Valued(s)'
    <3> SUFFICES ASSUME s \notin ChoiceSymbols PROVE Valued(s)'
      OBVIOUS
    <3>1. UsesDefault(s) => FixedDefault(s)
      BY <1>0, DefaultsTried
    <3>2. NewValue(s)' = NewValue(s) /\ (UsesDefault(s)' => FixedDefault(s)')
      BY <1>0, <1>1, <2>3, <3>1, NewValueKept
    <3> QED
      BY <1>3, <3>2 DEF Valued
  <2>7. SymbolOK(s)'
    BY <2>4, <2>5, <2>6 DEF SymbolOK
  <2>8. (\A f \in Open' : CallOK(f)') /\ (\A x \in Settled' : SymbolOK(x)')
    BY <2>2, <2>3, <2>7, RestKept
  <2> QED
    BY <1>0, <2>2, <2>3, <2>8 DEF Cached, CacheInv, asked
<1> QED
  BY <1>4, <1>5

(* MODULES is calculated first: until then nothing is kept.                *)
LEMMA ModulesCalculated ==
  ASSUME TypeInv, CacheInv, NEW r, Ranked(r), Below(r), ModulesIsPlain, Modules # None,
         stack # <<>>, Top.sym = Modules, Tail(stack) = <<>>, Settled = {}, CalcValue
  PROVE  Cached' /\ Below(r)' /\ ModulesOK'
<1> DEFINE s == Modules
<1>0. /\ Top.stage = "value" /\ Needed = {}
      /\ UNCHANGED <<asked, valid, pick, visible, least>>
      /\ tri' = [tri EXCEPT ![s] = NewValue(s)] /\ modulesVal' = NewValue(s)
  BY DEF CalcValue, Running
<1>1. /\ s \in Symbols /\ Top \in Calling /\ CallOK(Top)
      /\ s \notin ChoiceSymbols /\ s \notin MemberSet /\ s \notin Tristate
      /\ Atoms(Prompt[s]) = {} /\ Select[s] = Never
  BY InnermostOK, ModulesNeeds
<1>2. Seen(s) /\ Bounded(s)
  BY <1>0, <1>1 DEF CallOK
<1>3. tri'[s] = NewValue(s)
  BY <1>0, <1>1 DEF TypeInv, TypeOK, SymbolTypeOK
<1>4. Return
  BY <1>1 DEF CalcValue
<1>5. Below(r)' /\ Settled' = {s} /\ stack' = <<>> /\ Open' = {}
  <2>1. stack' = <<>>
    BY <1>4 DEF Return
  <2>2. Below(r)' /\ Settled' = {s}
    BY <1>0, <1>4, ReturnIs
  <2> QED
    BY <2>1, <2>2 DEF Open
<1>6. /\ Now(Prompt[s])' = Now(Prompt[s]) /\ Now(Select[s])' = Now(Select[s])
      /\ Fixed(Prompt[s])' /\ Fixed(Select[s])'
  <2>1. Atoms(Never) = {}
    BY DEF Atoms, Never
  <2> QED
    BY <1>1, <2>1, NowSame DEF Fixed
<1>7. (IsBool(s) <=> TRUE) /\ (IsBool(s)' <=> TRUE)
  BY <1>1 DEF IsBool
<1>8. Seen(s)' /\ Bounded(s)'
  <2>1. Visible(s)' = Visible(s)
    <3>1. (s \notin Tristate \/ modulesVal = No) = TRUE /\ (s \notin Tristate \/ modulesVal' = No) = TRUE
      BY <1>1
    <3> QED
      BY <1>6, <3>1 DEF Visible
  <2>2. Promote(Now(Select[s]), IsBool(s))' = Promote(Now(Select[s]), IsBool(s))
    BY <1>6, <1>7 DEF Promote
  <2> QED
    BY <1>0, <1>1, <1>2, <1>6, <2>1, <2>2 DEF Seen, Bounded
<1>9. Valued(s)'
  <2>0. /\ user'[s] = user[s] /\ (s \in fresh' <=> s \in fresh)
        /\ visible'[s] = visible[s] /\ least'[s] = least[s]
    BY <1>0 DEF asked
  <2>1. UsesDefault(s)' <=> UsesDefault(s)
    BY <2>0 DEF UsesDefault
  <2>2. /\ DefaultValue(s) = No /\ DefaultValue(s)' = No /\ FixedDefault(s)'
    BY ModulesDefault
  <2>3. PICK base : base = IF UsesDefault(s) THEN DefaultValue(s)
                           ELSE IF s \in fresh THEN No ELSE user[s]
    OBVIOUS
  <2>4. base = (IF UsesDefault(s) THEN DefaultValue(s)
                ELSE IF s \in fresh THEN No ELSE user[s])'
    <3>1. CASE UsesDefault(s)
      BY <2>1, <2>2, <2>3, <3>1
    <3>2. CASE ~UsesDefault(s) /\ s \in fresh
      BY <2>0, <2>1, <2>3, <3>2
    <3>3. CASE ~UsesDefault(s) /\ s \notin fresh
      BY <2>0, <2>1, <2>3, <3>3
    <3> QED
      BY <3>1, <3>2, <3>3
  <2>5. CASE visible[s] = No /\ least[s] = No
    <3>1. NewValue(s) = Promote(base, IsBool(s))
      BY <1>1, <2>3, <2>5 DEF NewValue
    <3>2. NewValue(s)' = Promote(base, IsBool(s)')
      BY <1>1, <2>0, <2>4, <2>5 DEF NewValue
    <3> QED
      BY <1>3, <1>7, <2>2, <3>1, <3>2 DEF Valued, Promote
  <2>6. CASE ~(visible[s] = No /\ least[s] = No)
    <3>1. NewValue(s) = Promote(Max({Min({base, visible[s]}), least[s]}), IsBool(s))
      BY <1>1, <2>3, <2>6 DEF NewValue
    <3>2. NewValue(s)' = Promote(Max({Min({base, visible[s]}), least[s]}), IsBool(s)')
      BY <1>1, <2>0, <2>4, <2>6 DEF NewValue
    <3> QED
      BY <1>3, <1>7, <2>2, <3>1, <3>2 DEF Valued, Promote
  <2> QED
    BY <2>5, <2>6
<1>10. SymbolOK(s)'
  BY <1>1, <1>8, <1>9 DEF SymbolOK
<1>11. ModulesOK'
  BY <1>0, <1>3, <1>5 DEF ModulesOK
<1>12. Cached'
  BY <1>0, <1>5, <1>10 DEF Cached, CacheInv, asked
<1> QED
  BY <1>5, <1>11, <1>12

(* The candidate under consideration.                                      *)
LEMMA CandidateKnown ==
  ASSUME TypeInv, CacheInv, NEW r, Ranked(r), Below(r), stack # <<>>, NEW c, c = Top.sym,
         Top.stage = "choose", Needed = {}, ~Exhausted, NEW k, k = Top.at
  PROVE  /\ c \in ChoiceSymbols /\ k \in 1..Len(Whom(c)) /\ Len(Whom(c)) \in Nat
         /\ Candidate = Whom(c)[k] /\ Candidate.pick \in Symbols \ {c}
         /\ Known(c, k)
         /\ IsOpen(c, k) <=> Now(Candidate.when) # No /\ Visible(Candidate.pick) # No
<1>1. c \in ChoiceSymbols /\ wish[c] \in Range(Members[c]) \cup {None}
  BY CallIs DEF TypeInv, WishOK
<1>2. Len(Whom(c)) \in Nat /\ k \in Nat \ {0}
  BY <1>1, CallIs, CandidatesAre DEF Whom
<1>3. k \in 1..Len(Whom(c)) /\ Candidate = Whom(c)[k]
  BY <1>2 DEF Exhausted, Whom, Candidate
<1>4. PICK when : when = Candidate.when
  OBVIOUS
<1>5. PICK prompt : prompt = Prompt[Candidate.pick]
  OBVIOUS
<1>6. Atoms(when) \subseteq Needs[c] \cup {M} /\ Atoms(prompt) \subseteq Needs[c] \cup {M, c}
  BY <1>1, <1>3, <1>4, <1>5, WhomNeeds DEF Whom
<1>7. /\ Atoms(when) \ (valid \cup {M}) = {}
      /\ Now(when) # No => Atoms(prompt) \ (valid \cup {M}) = {}
  BY <1>4, <1>5 DEF Needed
<1>8. Fixed(when) /\ (Now(when) # No => FixedFor(c, prompt))
  BY <1>6, <1>7, FixedIs, FixedForIs
<1>9. Known(c, k)
  BY <1>3, <1>4, <1>5, <1>8 DEF Known
<1>10. tri[c] = Yes
  BY <1>1, InnermostOK DEF CallOK
<1>11. Among(c, prompt) = Now(prompt)
  BY <1>10, AmongIsNow
<1>12. Visible(Candidate.pick) # No <=> Now(prompt) # No
  BY <1>5 DEF Visible, Promote, No, Mod, Yes
<1>13. IsOpen(c, k) <=> Now(when) # No /\ Now(prompt) # No
  BY <1>3, <1>4, <1>5, <1>11 DEF IsOpen
<1>14. Candidate.pick \in Symbols \ {c}
  BY <1>1, <1>3, WhomNeeds, MembersAre DEF Whom
<1> QED
  BY <1>1, <1>2, <1>3, <1>4, <1>9, <1>12, <1>13, <1>14

LEMMA ChooseKeeps ==
  ASSUME TypeInv, CacheInv, NEW r, Ranked(r), Below(r), NEW c, c = Top.sym, Choose
  PROVE  /\ Cached' /\ Below(r)' /\ Quiet(c) /\ c \in ChoiceSymbols
         /\ Settled' \subseteq Settled \cup {c}
<1>0. /\ stack # <<>> /\ Top.stage = "choose" /\ Needed = {}
      /\ UNCHANGED <<asked, valid, least, modulesVal>>
  BY DEF Choose, Running
<1>1. /\ c \in Symbols /\ c \notin Settled /\ Top \in Calling /\ CallOK(Top) /\ c \in ChoiceSymbols
  BY <1>0, InnermostIs, InnermostOK, CallIs
<1>2. PICK k : k = Top.at
  OBVIOUS
<1>3. /\ Seen(c) /\ Bounded(c) /\ c \in valid /\ pick[c] = None /\ tri[c] = Yes
      /\ Passed(c, k) /\ k <= Len(Whom(c)) + 1 /\ k \in Nat \ {0}
  BY <1>0, <1>1, <1>2, CallIs DEF CallOK
<1>4. ASSUME Quiet(c) PROVE /\ Fixed(Prompt[c])' /\ Visible(c)' = Visible(c)
                            /\ Bounded(c)' /\ Passed(c, k)' /\ Whom(c)' = Whom(c)
                            /\ (visible'[c] = visible[c] => Seen(c)')
  <2>1. Fixed(Prompt[c])' /\ Visible(c)' = Visible(c)
    BY <1>1, <1>3, <1>4, VisibleKept DEF Seen
  <2>2. Bounded(c)'
    BY <1>0, <1>1, <1>3, <1>4, BoundedKept
  <2>3. Passed(c, k)'
    BY <1>1, <1>3, <1>4, PassedKept
  <2>4. Whom(c)' = Whom(c)
    BY <1>0 DEF Whom, Candidates, asked
  <2> QED
    BY <1>3, <2>1, <2>2, <2>3, <2>4 DEF Seen
<1>5. ASSUME UNCHANGED <<tri, pick>>, ~Exhausted, ~IsOpen(c, k),
             \A x \in Symbols : visible'[x] = visible[x] \/ visible'[x] = Visible(x),
             visible'[c] = visible[c],
             stack' = << [Top EXCEPT !.at = @ + 1] >> \o Tail(stack)
      PROVE  Cached' /\ Below(r)' /\ Quiet(c) /\ Settled' = Settled
  <2>1. PICK g : g = [Top EXCEPT !.at = @ + 1]
    OBVIOUS
  <2>2. g \in Calling /\ g.sym = c /\ g.stage = "choose" /\ g.at = k + 1
    BY <1>0, <1>1, <1>2, <2>1 DEF Calling, Frame
  <2>3. stack' = <<g>> \o Tail(stack)
    BY <1>5, <2>1
  <2>4. /\ Below(r)' /\ Settled' = Settled
        /\ \A f \in Open' : f = g \/ (f \in Open /\ f.sym # c)
    BY <1>0, <2>2, <2>3, GoingOnIs
  <2>5. Quiet(c)
    BY <1>0, <1>1, <1>5, <2>4 DEF Quiet, asked
  <2>6. k \in 1..Len(Whom(c)) /\ Len(Whom(c)) \in Nat /\ Known(c, k)
    BY <1>0, <1>2, <1>5, CandidateKnown
  <2>7. Known(c, k)' /\ ~IsOpen(c, k)'
    BY <1>1, <1>5, <2>5, <2>6, KnownKept
  <2>8. Passed(c, k + 1)'
    <3>1. PICK n : n = k + 1
      OBVIOUS
    <3>2. \A j \in 1..(n - 1) : j = k \/ j \in 1..(k - 1)
      BY <1>3, <3>1
    <3>3. \A j \in 1..(k - 1) : Known(c, j)' /\ ~IsOpen(c, j)'
      BY <1>4, <2>5 DEF Passed
    <3>4. \A j \in 1..(n - 1) : Known(c, j)' /\ ~IsOpen(c, j)'
      <4> SUFFICES ASSUME NEW j \in 1..(n - 1) PROVE Known(c, j)' /\ ~IsOpen(c, j)'
        OBVIOUS
      <4>1. CASE j = k
        BY <2>7, <4>1
      <4>2. CASE j \in 1..(k - 1)
        BY <3>3, <4>2
      <4> QED
        BY <3>2, <4>1, <4>2
    <3>5. Passed(c, n)'
      BY <3>4 DEF Passed
    <3> QED
      BY <3>1, <3>5
  <2>9. CallOK(g)'
    <3>1. k + 1 <= Len(Whom(c)') + 1
      BY <1>4, <2>5, <2>6
    <3>2. tri'[c] = Yes /\ pick'[c] = None /\ c \in valid'
      BY <1>0, <1>3, <1>5
    <3> QED
      BY <1>4, <1>5, <2>2, <2>5, <2>8, <3>1, <3>2 DEF CallOK
  <2>10. (\A f \in Open' : CallOK(f)') /\ (\A x \in Settled' : SymbolOK(x)')
    BY <2>4, <2>5, <2>9, RestKept
  <2> QED
    BY <1>0, <2>4, <2>5, <2>10 DEF Cached, CacheInv, asked
<1>6. ASSUME Return, \A x \in Symbols \ {c} : tri'[x] = tri[x],
             \A x \in ChoiceSymbols \ {c} : pick'[x] = pick[x],
             \A x \in Symbols : visible'[x] = visible[x] \/ visible'[x] = Visible(x),
             visible'[c] = visible[c],
             Quiet(c) => Decided(c)'
      PROVE  Cached' /\ Below(r)' /\ Quiet(c) /\ Settled' = Settled \cup {c}
  <2>1. /\ Below(r)' /\ Settled' = Settled \cup {c}
        /\ \A f \in Open' : f \in Open /\ f.sym # c
    BY <1>0, <1>6, ReturnIs
  <2>2. Quiet(c)
    BY <1>0, <1>1, <1>6, <2>1 DEF Quiet, asked
  <2>3. SymbolOK(c)'
    BY <1>1, <1>4, <1>6, <2>2 DEF SymbolOK
  <2>4. (\A f \in Open' : CallOK(f)') /\ (\A x \in Settled' : SymbolOK(x)')
    BY <2>1, <2>2, <2>3, RestKept
  <2> QED
    BY <1>0, <2>1, <2>2, <2>4 DEF Cached, CacheInv, asked
<1>7. CASE Exhausted /\ tri' = [tri EXCEPT ![c] = No] /\ Return /\ UNCHANGED <<pick, visible>>
  <2>1. tri'[c] = No /\ \A x \in Symbols \ {c} : tri'[x] = tri[x]
    BY <1>1, <1>7 DEF TypeInv, TypeOK, SymbolTypeOK
  <2>2. Decided(c)'
    BY <1>3, <1>7, <2>1 DEF Decided, No, Yes
  <2> QED
    BY <1>1, <1>6, <1>7, <2>1, <2>2
<1>8. CASE /\ ~Exhausted /\ Now(Candidate.when) = No /\ UNCHANGED <<tri, pick, visible>>
           /\ stack' = << [Top EXCEPT !.at = @ + 1] >> \o Tail(stack)
  <2>1. ~IsOpen(c, k)
    BY <1>0, <1>2, <1>8, CandidateKnown
  <2> QED
    BY <1>1, <1>5, <1>8, <2>1
<1>9. CASE /\ ~Exhausted /\ Now(Candidate.when) # No /\ UNCHANGED tri
           /\ visible' = [visible EXCEPT ![Candidate.pick] = Visible(Candidate.pick)]
           /\ \/ /\ Visible(Candidate.pick) = No /\ UNCHANGED pick
                 /\ stack' = << [Top EXCEPT !.at = @ + 1] >> \o Tail(stack)
              \/ /\ Visible(Candidate.pick) # No
                 /\ Return /\ pick' = [pick EXCEPT ![c] = Candidate.pick]
  <2>1. /\ k \in 1..Len(Whom(c)) /\ Candidate = Whom(c)[k] /\ Candidate.pick \in Symbols \ {c}
        /\ Known(c, k)
        /\ IsOpen(c, k) <=> Now(Candidate.when) # No /\ Visible(Candidate.pick) # No
    BY <1>0, <1>2, <1>9, CandidateKnown
  <2>2. /\ \A x \in Symbols : visible'[x] = visible[x] \/ visible'[x] = Visible(x)
        /\ visible'[c] = visible[c]
    BY <1>1, <1>9, <2>1 DEF TypeInv, TypeOK, SymbolTypeOK
  <2>3. CASE Visible(Candidate.pick) = No
    BY <1>1, <1>5, <1>9, <2>1, <2>2, <2>3
  <2>4. CASE Visible(Candidate.pick) # No
    <3>1. Return /\ pick' = [pick EXCEPT ![c] = Candidate.pick]
      BY <1>9, <2>4
    <3>2. pick'[c] = Whom(c)[k].pick /\ \A x \in ChoiceSymbols \ {c} : pick'[x] = pick[x]
      BY <1>1, <2>1, <3>1 DEF TypeInv, TypeOK, SymbolTypeOK
    <3>3. ASSUME Quiet(c) PROVE Decided(c)'
      <4>1. Known(c, k)' /\ IsOpen(c, k)' /\ Passed(c, k)' /\ Whom(c)' = Whom(c)
        BY <1>1, <1>4, <1>9, <2>1, <2>4, <3>3, KnownKept
      <4>2. FallsOn(c, k)'
        BY <3>2, <4>1 DEF FallsOn
      <4>3. tri'[c] = Yes /\ k \in 1..Len(Whom(c)')
        BY <1>3, <1>9, <2>1, <4>1
      <4>4. k \in (1..Len(Whom(c)))'
        BY <4>3
      <4>5. (\E j \in 1..Len(Whom(c)) : FallsOn(c, j))'
        BY <4>2, <4>4
      <4> QED
        BY <4>3, <4>5 DEF Decided
    <3> QED
      BY <1>1, <1>6, <1>9, <2>2, <3>1, <3>2, <3>3
  <2> QED
    BY <2>3, <2>4
<1> QED
  BY <1>1, <1>7, <1>8, <1>9 DEF Choose

(* While nobody was asked about MODULES it is "n".                         *)
LEMMA ModulesFresh ==
  ASSUME TypeInv, CacheInv, ModulesIsPlain, Modules # None, Modules \in fresh,
         stack # <<>>, Top.sym = Modules, Top.stage = "value"
  PROVE  NewValue(Modules) = No
<1>1. /\ Modules \in Symbols /\ Modules \notin MemberSet /\ Modules \notin ChoiceSymbols
      /\ Select[Modules] = Never
  BY ModulesNeeds
<1>2. DefaultValue(Modules) = No
  BY ModulesDefault
<1>3. least[Modules] = No
  <2>1. Bounded(Modules)
    BY InnermostOK DEF CallOK
  <2> QED
    BY <1>1, <2>1, NeverIs DEF Bounded, Promote, No, Mod, Yes
<1>4. visible[Modules] \in Tri
  BY <1>1 DEF TypeInv, TypeOK, SymbolTypeOK
<1>5. PICK base : base = IF UsesDefault(Modules) THEN DefaultValue(Modules)
                         ELSE IF Modules \in fresh THEN No ELSE user[Modules]
  OBVIOUS
<1>6. base = No
  BY <1>2, <1>5
<1>7. PICK b : b = IsBool(Modules)
  OBVIOUS
<1>8. Promote(No, b) = No
  BY DEF Promote, No, Mod
<1>9. CASE visible[Modules] = No
  <2>1. NewValue(Modules) = Promote(base, b)
    BY <1>1, <1>3, <1>5, <1>7, <1>9 DEF NewValue
  <2> QED
    BY <1>6, <1>8, <2>1
<1>10. CASE visible[Modules] # No
  <2>1. NewValue(Modules) = Promote(Max({Min({base, visible[Modules]}), least[Modules]}), b)
    BY <1>1, <1>5, <1>7, <1>10 DEF NewValue
  <2>2. PICK v \in Tri : v = visible[Modules]
    BY <1>4
  <2>3. No \in Tri
    BY DEF Tri
  <2>4. Min({No, v}) = No /\ Max({No, No}) = No
    <3>1. /\ Min({No, v}) = IF No <= v THEN No ELSE v
          /\ Max({No, No}) = IF No >= No THEN No ELSE No
      BY <2>2, <2>3, TwoAre
    <3>2. No <= v
      BY <2>2 DEF Tri, No, Mod, Yes
    <3> QED
      BY <3>1, <3>2
  <2> QED
    <3>1. {base, visible[Modules]} = {No, v}
      BY <1>6, <2>2
    <3>2. {Min({base, visible[Modules]}), least[Modules]} = {No, No}
      BY <1>3, <2>4, <3>1
    <3> QED
      BY <1>8, <2>1, <2>4, <3>2
<1> QED
  BY <1>9, <1>10

(* A step that does not end the calculation of MODULES.                    *)
LEMMA ModulesKept ==
  ASSUME TypeInv, NEW T, Quiet(T), ModulesOK, Settled' \subseteq Settled \cup {T}, Modules # T,
         stack # <<>> /\ Tail(stack) = <<>> /\ Top.sym = Modules => Settled # {}
  PROVE  ModulesOK'
<1> SUFFICES ASSUME Modules # None PROVE ModulesOK'
  BY DEF ModulesOK
<1>1. Modules \in Symbols
  BY ModulesAssumption DEF Symbols
<1>2. modulesVal' = modulesVal /\ fresh' = fresh /\ tri'[Modules] = tri[Modules]
  BY <1>1 DEF Quiet, asked
<1>3. CASE Modules \notin Settled /\ modulesVal = No /\ Modules \in fresh
  BY <1>2, <1>3 DEF ModulesOK
<1>4. CASE Modules \in Settled /\ modulesVal = tri[Modules]
  BY <1>2, <1>4 DEF ModulesOK, Quiet
<1> QED
  BY <1>3, <1>4 DEF ModulesOK

(* A step of the calculation of any symbol that does not end it.           *)
LEMMA ModulesGoesOn ==
  ASSUME TypeInv, NEW T, Quiet(T), ModulesOK, Settled' = Settled, stack # <<>>, T = Top.sym,
         NEW g \in Calling, g.sym = T, stack' = <<g>> \o Tail(stack)
  PROVE  ModulesOK'
<1>1. CASE Tail(stack) = <<>> /\ Top.sym = Modules /\ Settled = {}
  <2>1. stack' = <<g>>
    <3>1. <<g>> \in Seq(Calling)
      OBVIOUS
    <3>2. <<g>> \o Tail(stack) = <<g>> \o <<>>
      BY <1>1, Zenon
    <3>3. <<g>> \o <<>> = <<g>>
      BY <3>1, ConcatEmptySeq, Zenon
    <3> QED
      BY <3>2, <3>3, Zenon
  <2>2. stack' # <<>> /\ Tail(stack') = <<>> /\ Head(stack') = g
    BY <2>1
  <2>3. g.sym = Modules /\ Settled' = {}
    BY <1>1
  <2>4. (stack # <<>> /\ Tail(stack) = <<>> /\ Top.sym = Modules /\ Settled = {})'
    BY <2>2, <2>3 DEF Top
  <2> QED
    BY <2>4 DEF ModulesOK
<1>2. CASE ~(Tail(stack) = <<>> /\ Top.sym = Modules /\ Settled = {})
  <2> SUFFICES ASSUME Modules # None PROVE ModulesOK'
    BY DEF ModulesOK
  <2>1. Modules \in Symbols
    BY ModulesAssumption DEF Symbols
  <2>2. modulesVal' = modulesVal /\ fresh' = fresh
    BY DEF Quiet, asked
  <2>3. CASE Modules \notin Settled /\ modulesVal = No /\ Modules \in fresh
    BY <2>2, <2>3 DEF ModulesOK
  <2>4. CASE Modules \in Settled /\ modulesVal = tri[Modules]
    <3>1. Modules # T
      BY <2>4 DEF Quiet
    <3> QED
      BY <2>1, <2>2, <2>4, <3>1 DEF ModulesOK, Quiet
  <2> QED
    BY <1>2, <2>3, <2>4 DEF ModulesOK
<1> QED
  BY <1>1, <1>2

(* Wherever the calls of sym_calc_value have come, the next step of them   *)
(* keeps what is known.                                                    *)
LEMMA CalculateCached ==
  ASSUME TypeInv, CacheInv, StackInv, ModulesIsPlain, NEW r, Ranked(r), Below(r), Calculate
  PROVE  CacheInv' /\ Below(r)'
<1>0. ModulesOK /\ stack # <<>>
  BY DEF CacheInv, Calculate, Recurse, CalcVisible, CalcReverse, CalcValue, Choose, Running
<1>a. PICK s : s = Top.sym
  OBVIOUS
<1>b. Top \in Calling /\ s \in Symbols /\ CallOK(Top) /\ s \notin Settled
  BY <1>0, <1>a, CallIs, InnermostOK, InnermostIs
<1>1. CASE Recurse
  <2>1. PICK d \in Needed : Enter(d)
    BY <1>1 DEF Recurse
  <2>2. d \in Needs[s] /\ Needs[s] \subseteq Symbols
    BY <1>0, <1>a, <1>b, <2>1, NeededIn, NeedsAre
  <2>3. r[d] < r[s] /\ d \in Symbols
    BY <1>b, <2>2 DEF Ranked, IsRank
  <2>4. d \notin valid /\ UNCHANGED <<asked, kept>>
    BY <1>0, <1>1, <2>1, NeededIsNotValid DEF Recurse
  <2>5. Cached' /\ Below(r)' /\ Quiet(d) /\ Settled' = Settled
    BY <1>a, <2>1, <2>3, <2>4, NewCallKept
  <2>6. ~(Modules # None /\ Top.sym = Modules)
    BY <1>a, <2>2, ModulesNeeds
  <2>7. ModulesOK'
    <3> SUFFICES ASSUME Modules # None PROVE ModulesOK'
      BY DEF ModulesOK
    <3>1. UNCHANGED <<fresh, modulesVal, tri>>
      BY <2>4 DEF asked, kept
    <3>2. \/ Modules \notin Settled /\ modulesVal = No /\ Modules \in fresh
          \/ Modules \in Settled /\ modulesVal = tri[Modules]
      BY <1>0, <2>6 DEF ModulesOK
    <3> QED
      BY <2>5, <3>1, <3>2 DEF ModulesOK
  <2> QED
    BY <2>5, <2>7, CachedIs
<1>2. CASE CalcVisible
  <2>1. Cached' /\ Below(r)' /\ Quiet(s) /\ Settled' = Settled
    BY <1>a, <1>2, CalcVisibleKeeps
  <2>2. PICK stage \in {"reverse", "value"} : stack' = << [Top EXCEPT !.stage = stage] >> \o Tail(stack)
    BY <1>2 DEF CalcVisible, Goto
  <2>3. PICK g : g = [Top EXCEPT !.stage = stage]
    OBVIOUS
  <2>4. g \in Calling /\ g.sym = s
    BY <1>a, <1>b, <2>2, <2>3, StageIs
  <2>5. ModulesOK'
    BY <1>0, <1>a, <2>1, <2>2, <2>3, <2>4, ModulesGoesOn
  <2> QED
    BY <2>1, <2>5, CachedIs
<1>3. CASE CalcReverse
  <2>1. Cached' /\ Below(r)' /\ Quiet(s) /\ Settled' = Settled
    BY <1>a, <1>3, CalcReverseKeeps
  <2>2. stack' = << [Top EXCEPT !.stage = "value"] >> \o Tail(stack)
    BY <1>3 DEF CalcReverse, Goto
  <2>3. PICK g : g = [Top EXCEPT !.stage = "value"]
    OBVIOUS
  <2>4. g \in Calling /\ g.sym = s
    BY <1>a, <1>b, <2>3, StageIs
  <2>5. ModulesOK'
    BY <1>0, <1>a, <2>1, <2>2, <2>3, <2>4, ModulesGoesOn
  <2> QED
    BY <2>1, <2>5, CachedIs
<1>4. CASE CalcValue
  <2>0. /\ valid' = valid /\ Top.stage = "value"
        /\ modulesVal' = IF s = Modules THEN NewValue(s) ELSE modulesVal
        /\ tri' = [tri EXCEPT ![s] = NewValue(s)]
    BY <1>a, <1>4 DEF CalcValue, Running
  <2>1. CASE s = Modules /\ Modules # None /\ Settled = {} /\ Tail(stack) = <<>>
    <3>1. Cached' /\ Below(r)' /\ ModulesOK'
      BY <1>0, <1>a, <1>4, <2>1, ModulesCalculated
    <3> QED
      BY <3>1, CachedIs
  <2>2. CASE s = Modules /\ Modules # None /\ ~(Settled = {} /\ Tail(stack) = <<>>)
    <3>1. modulesVal = No /\ Modules \in fresh
      BY <1>0, <1>a, <1>b, <2>2 DEF ModulesOK
    <3>2. NewValue(s) = No
      BY <1>0, <1>a, <2>0, <2>2, <3>1, ModulesFresh
    <3>3. modulesVal' = modulesVal
      BY <2>0, <2>2, <3>1, <3>2
    <3>4. Cached' /\ Below(r)' /\ Quiet(s)
      BY <1>a, <1>4, <3>3, CalcValueKeeps
    <3>5. Return
      BY <1>a, <1>4, <2>2, ModulesNeeds DEF CalcValue
    <3>6. Settled' = Settled \cup {s}
      BY <1>0, <1>a, <2>0, <3>5, ReturnIs
    <3>7. tri'[s] = No
      BY <1>b, <2>0, <3>2 DEF TypeInv, TypeOK, SymbolTypeOK
    <3>8. ModulesOK'
      BY <2>2, <3>1, <3>3, <3>6, <3>7 DEF ModulesOK
    <3> QED
      BY <3>4, <3>8, CachedIs
  <2>3. CASE ~(s = Modules /\ Modules # None)
    <3>1. modulesVal' = modulesVal
      BY <1>b, <2>0, <2>3, SymbolsAssumption
    <3>2. Cached' /\ Below(r)' /\ Quiet(s)
      BY <1>a, <1>4, <3>1, CalcValueKeeps
    <3>3. Settled' \subseteq Settled \cup {s}
      <4>1. CASE Return
        BY <1>0, <1>a, <2>0, <4>1, ReturnIs
      <4>2. CASE s \in ChoiceSymbols /\ Goto("choose")
        <5>1. PICK g : g = [Top EXCEPT !.stage = "choose"]
          OBVIOUS
        <5>2. g \in Calling /\ g.sym = s
          BY <1>a, <1>b, <4>2, <5>1, StageIs
        <5>3. stack' = <<g>> \o Tail(stack)
          BY <4>2, <5>1 DEF Goto
        <5> QED
          BY <1>0, <1>a, <2>0, <5>2, <5>3, GoingOnIs
      <4> QED
        BY <1>a, <1>4, <4>1, <4>2 DEF CalcValue
    <3>4. ModulesOK'
      BY <1>0, <1>a, <1>b, <2>3, <3>2, <3>3, ModulesKept, SymbolsAssumption DEF ModulesOK
    <3> QED
      BY <3>2, <3>4, CachedIs
  <2> QED
    BY <2>1, <2>2, <2>3
<1>5. CASE Choose
  <2>1. /\ Cached' /\ Below(r)' /\ Quiet(s) /\ s \in ChoiceSymbols
        /\ Settled' \subseteq Settled \cup {s}
    BY <1>a, <1>5, ChooseKeeps
  <2>2. Modules # None => Modules # s
    BY <2>1, ModulesNeeds
  <2>3. ModulesOK'
    BY <1>0, <1>a, <2>1, <2>2, ModulesKept DEF ModulesOK
  <2> QED
    BY <2>1, <2>3, CachedIs
<1> QED
  BY <1>1, <1>2, <1>3, <1>4, <1>5 DEF Calculate

LEMMA CalcSymbolCached ==
  ASSUME TypeInv, CacheInv, NEW r, Ranked(r), Below(r), NEW s \in Symbols, CalcSymbol(s)
  PROVE  CacheInv' /\ Below(r)'
<1>1. stack = <<>> /\ s \notin valid /\ Enter(s) /\ UNCHANGED <<asked, kept>>
  BY DEF CalcSymbol
<1>2. Cached' /\ Below(r)' /\ Quiet(s) /\ Settled' = Settled
  BY <1>1, NewCallKept
<1>3. ModulesOK'
  <2> SUFFICES ASSUME Modules # None PROVE ModulesOK'
    BY DEF ModulesOK
  <2>1. UNCHANGED <<fresh, modulesVal, tri>>
    BY <1>1 DEF asked, kept
  <2>2. \/ Modules \notin Settled /\ modulesVal = No /\ Modules \in fresh
        \/ Modules \in Settled /\ modulesVal = tri[Modules]
    BY <1>1 DEF CacheInv, ModulesOK
  <2> QED
    BY <1>2, <2>1, <2>2 DEF ModulesOK
<1> QED
  BY <1>2, <1>3, CachedIs
-----------------------------------------------------------------------------
(* sym_clear_all_valid: nothing is known any more, MODULES is calculated.  *)
LEMMA ClearedCached ==
  ASSUME ClearAllValid, \A m \in MemberSet : least'[m] = No /\ (m \in fresh' => user'[m] = No),
         NEW r
  PROVE  CacheInv' /\ Below(r)'
<1>1. CASE Modules = None
  <2>1. valid' = {} /\ stack' = <<>>
    BY <1>1 DEF ClearAllValid
  <2>2. Settled' = {} /\ Open' = {} /\ Below(r)'
    BY <2>1 DEF Settled, Open, Below
  <2> QED
    BY <1>1, <2>2 DEF CacheInv, ModulesOK
<1>2. CASE Modules # None
  <2>1. PICK g : g = Call(Modules)
    OBVIOUS
  <2>2. valid' = {Modules} /\ stack' = <<g>>
    BY <1>2, <2>1 DEF ClearAllValid
  <2>3. DOMAIN stack' = {1} /\ stack'[1] = g
    BY <2>2
  <2>4. Open' = {g} /\ g.sym = Modules /\ g.stage = "visible" /\ g.at = 1
    BY <2>1, <2>3 DEF Open, Call
  <2>5. OnStack' = {Modules}
    BY <2>4 DEF OnStack
  <2>6. Settled' = {}
    BY <2>2, <2>5 DEF Settled
  <2>7. Below(r)'
    BY <2>3 DEF Below
  <2>8. CallOK(g)'
    BY <2>2, <2>4 DEF CallOK
  <2>9. (stack # <<>> /\ Tail(stack) = <<>> /\ Top.sym = Modules /\ Settled = {})'
    BY <2>2, <2>4, <2>6 DEF Top
  <2>10. ModulesOK'
    BY <2>9 DEF ModulesOK
  <2> QED
    BY <2>4, <2>6, <2>7, <2>8, <2>10 DEF CacheInv
<1> QED
  BY <1>1, <1>2

(* A step that calculates nothing.                                         *)
LEMMA StutterCached ==
  ASSUME TypeInv, CacheInv, NEW r, Below(r), UNCHANGED symbolVars PROVE CacheInv' /\ Below(r)'
<1>0. UNCHANGED <<user, wish, fresh, valid, tri, pick, visible, least, modulesVal, stack>>
  BY DEF symbolVars, asked, kept
<1>1. /\ Open' = Open /\ OnStack' = OnStack /\ Settled' = Settled /\ Below(r)'
      /\ (ModulesOK' <=> ModulesOK)
  BY <1>0 DEF Open, OnStack, Settled, Below, ModulesOK, Top
<1>2. Quiet(None)
  BY <1>0, <1>1, SettledAre, SymbolsAssumption DEF Quiet, asked
<1>3. \A f \in Open : f.sym # None
  <2>1. \A f \in Open : f \in Calling
    BY DEF Open, TypeInv
  <2> QED
    BY <2>1, SymbolsAssumption DEF Calling, Frame
<1>4. (\A f \in Open' : CallOK(f)') /\ (\A s \in Settled' : SymbolOK(s)')
  BY <1>1, <1>2, <1>3, RestKept
<1>5. Cached'
  BY <1>0, <1>4 DEF Cached, CacheInv
<1> QED
  BY <1>1, <1>5, CachedIs DEF CacheInv
-----------------------------------------------------------------------------
(* A step that asks, but keeps every value.                                *)
Still == UNCHANGED <<valid, kept, stack>>

LEMMA StillKept ==
  ASSUME Still
  PROVE  /\ Settled' = Settled /\ Open' = Open
         /\ \A e : (Fixed(e)' <=> Fixed(e)) /\ Now(e)' = Now(e)
         /\ \A s : /\ (Seen(s)' <=> Seen(s)) /\ (Bounded(s)' <=> Bounded(s))
                   /\ (FixedDefault(s)' <=> FixedDefault(s)) /\ DefaultValue(s)' = DefaultValue(s)
                   /\ (IsBool(s)' <=> IsBool(s))
<1>0. UNCHANGED <<valid, tri, pick, visible, least, modulesVal, stack>>
  BY DEF Still, kept
<1>1. Settled' = Settled /\ Open' = Open
  BY <1>0 DEF Settled, OnStack, Open
<1>2. \A e : (Fixed(e)' <=> Fixed(e)) /\ Now(e)' = Now(e)
  BY <1>0, <1>1 DEF Fixed, Now
<1>3. \A s : (IsBool(s)' <=> IsBool(s)) /\ Visible(s)' = Visible(s)
  BY <1>0, <1>2 DEF IsBool, Visible
<1>4. \A s : Conditions(s)' = Conditions(s)
  BY <1>2 DEF Conditions
<1>5. \A s : First(s)' = First(s) /\ DefaultValue(s)' = DefaultValue(s)
  BY <1>2, <1>4 DEF First, DefaultValue, Conditions
<1>6. \A s : FixedDefault(s)' <=> FixedDefault(s)
  BY <1>2, <1>5 DEF FixedDefault
<1>7. \A s : (Seen(s)' <=> Seen(s)) /\ (Bounded(s)' <=> Bounded(s))
  BY <1>0, <1>2, <1>3 DEF Seen, Bounded
<1> QED
  BY <1>1, <1>2, <1>3, <1>5, <1>6, <1>7

LEMMA DecidedStill ==
  ASSUME Still, NEW c, wish'[c] = wish[c] PROVE Decided(c)' <=> Decided(c)
<1>0. UNCHANGED <<valid, tri, pick, visible, least, modulesVal, stack>>
  BY DEF Still, kept
<1>1. Whom(c)' = Whom(c)
  BY DEF Whom, Candidates
<1>2. \A e : (FixedFor(c, e)' <=> FixedFor(c, e)) /\ Among(c, e)' = Among(c, e)
  BY <1>0, StillKept DEF FixedFor, Among
<1>3. \A k : (Known(c, k)' <=> Known(c, k)) /\ (IsOpen(c, k)' <=> IsOpen(c, k))
  BY <1>1, <1>2, StillKept DEF Known, IsOpen
<1>4. \A k : Passed(c, k)' <=> Passed(c, k)
  BY <1>3 DEF Passed
<1>5. \A k : FallsOn(c, k)' <=> FallsOn(c, k)
  BY <1>0, <1>1, <1>3, <1>4 DEF FallsOn
<1> QED
  BY <1>0, <1>1, <1>5 DEF Decided

LEMMA AlwaysNow == Now(Always) = Yes /\ Now(Always)' = Yes
<1>1. ASSUME NEW v PROVE Eval(Always, v) = Yes
  <2>1. {l[2][v[l[1]]] : l \in {}} = {}
    OBVIOUS
  <2>2. MinOf({}) = Yes
    BY DEF MinOf, Min
  <2>3. {MinOf({l[2][v[l[1]]] : l \in conj}) : conj \in Always} = {Yes}
    BY <2>1, <2>2 DEF Always
  <2>4. {Yes} \in SUBSET Tri /\ MaxOf({Yes}) \in {Yes} \cup {No} /\ Yes <= MaxOf({Yes})
    BY MostAre DEF Tri
  <2>5. MaxOf({Yes}) = Yes
    BY <2>4 DEF Yes, No
  <2> QED
    BY <2>3, <2>5 DEF Eval
<1> QED
  BY <1>1 DEF Now

LEMMA NoDefaultValue ==
  ASSUME ValuesArePlain, NEW m \in MemberSet
  PROVE  DefaultValue(m) = No /\ FixedDefault(m)
<1>0. m \in Symbols /\ Defaults[m] = <<>>
  BY MembersAre DEF ValuesArePlain
<1>1. DOMAIN Default[m] = {} /\ DOMAIN Conditions(m) = {}
  BY <1>0, DefaultIs DEF Conditions
<1>2. First(m) = 0
  BY <1>1, NoFirst DEF First
<1> QED
  BY <1>1, <1>2 DEF DefaultValue, FixedDefault, First, Conditions

(* A choice value that is built in is the one its choice has fallen on.    *)
LEMMA BuiltIs ==
  ASSUME TypeInv, CacheInv, ValuesArePlain, NEW m \in MemberSet, m \in Settled, tri[m] = Yes
  PROVE  /\ visible[m] = Yes /\ pick[ChoiceOf(m)] = m
         /\ Fixed(Prompt[m]) /\ Now(Prompt[m]) # No
<1>0. m \in Symbols /\ m \notin ChoiceSymbols /\ ChoiceOf(m) \in ChoiceSymbols
  BY MembersAre
<1>1. SymbolOK(m) /\ least[m] = No /\ visible[m] \in Tri /\ user[m] \in Tri
  BY <1>0 DEF CacheInv, TypeInv, TypeOK, SymbolTypeOK
<1>2. NewValue(m) = Yes
  BY <1>0, <1>1 DEF SymbolOK, Valued
<1>3. PICK base : base = IF UsesDefault(m) THEN DefaultValue(m)
                         ELSE IF m \in fresh THEN No ELSE user[m]
  OBVIOUS
<1>4. base \in Tri /\ DefaultValue(m) = No
  BY <1>1, <1>3, NoDefaultValue DEF Tri
<1>5. visible[m] # No
  <2> SUFFICES ASSUME visible[m] = No PROVE FALSE
    OBVIOUS
  <2>1. UsesDefault(m)
    BY <1>0, <1>1 DEF UsesDefault, No, Yes
  <2>2. base = No
    BY <1>3, <1>4, <2>1
  <2>3. NewValue(m) = Promote(base, IsBool(m))
    BY <1>0, <1>1, <1>3 DEF NewValue, No, Yes
  <2> QED
    BY <1>2, <2>2, <2>3 DEF Promote, No, Mod, Yes
<1>6. visible[m] # Mod
  <2> SUFFICES ASSUME visible[m] = Mod PROVE FALSE
    OBVIOUS
  <2>1. Visible(m) = Mod
    BY <1>1 DEF SymbolOK, Seen
  <2>2. ~(m \notin Tristate \/ modulesVal = No)
    BY <2>1 DEF Visible, Promote, Mod, Yes
  <2>3. ~IsBool(m)
    BY <2>2 DEF IsBool, Mod, Yes
  <2>4. NewValue(m) = Promote(Max({Min({base, visible[m]}), least[m]}), IsBool(m))
    BY <1>0, <1>1, <1>3 DEF NewValue, No, Mod, Yes
  <2>5. Max({Min({base, visible[m]}), least[m]}) = Yes
    BY <1>2, <2>3, <2>4 DEF Promote
  <2>6. Mod \in Tri /\ No \in Tri
    BY DEF Tri
  <2>7. Min({base, Mod}) = IF base <= Mod THEN base ELSE Mod
    BY <1>4, <2>6, TwoAre
  <2>8. PICK t \in Tri : t = Min({base, Mod})
    BY <1>4, <2>6, <2>7
  <2>9. t <= Mod
    BY <1>4, <2>7, <2>8 DEF Tri, No, Mod, Yes
  <2>10. Max({t, No}) = IF t >= No THEN t ELSE No
    BY <2>6, TwoAre
  <2>11. {base, visible[m]} = {base, Mod} /\ {Min({base, visible[m]}), least[m]} = {t, No}
    BY <1>1, <2>8
  <2>12. Max({t, No}) = Yes
    BY <2>5, <2>11
  <2> QED
    BY <2>9, <2>10, <2>12 DEF No, Mod, Yes
<1>7. visible[m] = Yes
  BY <1>1, <1>5, <1>6 DEF Tri
<1>8. NewValue(m) = IF pick[ChoiceOf(m)] = m THEN Yes ELSE No
  BY <1>7 DEF NewValue, No, Yes
<1>9. pick[ChoiceOf(m)] = m
  BY <1>2, <1>8 DEF No, Yes
<1>10. Fixed(Prompt[m]) /\ Visible(m) = Yes
  BY <1>1, <1>7 DEF SymbolOK, Seen
<1>11. Now(Prompt[m]) # No
  BY <1>10 DEF Visible, Promote, No, Mod, Yes
<1> QED
  BY <1>7, <1>9, <1>10, <1>11
-----------------------------------------------------------------------------
LEMMA StartLoadCached ==
  ASSUME CacheInv, StartLoad, NEW r PROVE CacheInv' /\ Below(r)'
<1>2. \A m \in MemberSet : m \in fresh' => user'[m] = No
  <2> SUFFICES ASSUME NEW m \in MemberSet, m \in fresh' PROVE user'[m] = No
    OBVIOUS
  <2>1. m \in Options /\ m \notin ChoiceSymbols /\ m \in Symbols
    BY MembersAre
  <2>2. file[m] = Unset
    BY <2>1 DEF StartLoad, LoadedFresh
  <2>3. user'[m] = IF m \in ChoiceSymbols THEN Gathered(file, m).tri
                  ELSE IF file[m] = Unset THEN No ELSE file[m]
    BY <2>1 DEF StartLoad, LoadedUser
  <2> QED
    BY <2>1, <2>2, <2>3
<1>3. ClearAllValid /\ least' = least
  BY DEF StartLoad, kept
<1>4. \A m \in MemberSet : least'[m] = No
  BY <1>3 DEF CacheInv
<1> QED
  BY <1>2, <1>3, <1>4, ClearedCached

(* When everything is calculated, every expression is of such symbols.     *)
LEMMA AllFixed ==
  ASSUME Settled = Symbols, NEW s \in Options PROVE FixedDefault(s)
<1>0. s \in Symbols
  BY MembersAre
<1>1. \A e \in Expressions : Fixed(e)
  BY AtomsAre DEF Fixed, Atom
<1>2. \A i \in DOMAIN Default[s] : Fixed(Default[s][i].when) /\ Fixed(Default[s][i].value)
  BY <1>0, <1>1, DefaultIs
<1>3. First(s) # 0 => First(s) \in DOMAIN Default[s]
  <2>1. PICK n \in Nat : DOMAIN Default[s] = 1..n
    BY <1>0, DefaultIs
  <2>2. PICK f : f = Conditions(s)
    OBVIOUS
  <2>3. DOMAIN f = 1..n
    BY <2>1, <2>2 DEF Conditions
  <2>4. FirstDefault(f) = 0 \/ FirstDefault(f) \in 1..n
    BY <2>3, FirstDefaultIs
  <2> QED
    BY <2>1, <2>2, <2>4 DEF First
<1> QED
  BY <1>2, <1>3 DEF FixedDefault

(* What a symbol that cannot be seen shows does not depend on what was     *)
(* asked of it, only on its default or on its lower limit.                 *)
LEMMA HiddenIs ==
  ASSUME NEW base \in Tri, NEW low \in Tri
  PROVE  Max({Min({base, No}), low}) = low
<1>1. No \in Tri /\ \A t \in Tri : No <= t
  BY DEF Tri, No, Mod, Yes
<1>2. Min({base, No}) = IF base <= No THEN base ELSE No
  BY <1>1, TwoAre
<1>3. Min({base, No}) = No
  BY <1>1, <1>2 DEF Tri, No, Mod, Yes
<1>4. Max({No, low}) = IF No >= low THEN No ELSE low
  BY <1>1, TwoAre
<1>5. Max({No, low}) = low
  BY <1>1, <1>4 DEF Tri, No, Mod, Yes
<1> QED
  BY <1>3, <1>5

(* What is asked of a symbol only decides its value through the base of    *)
(* its calculation.                                                        *)
BaseValue(s) == IF UsesDefault(s) THEN DefaultValue(s)
                ELSE IF s \in fresh THEN No ELSE user[s]

LEMMA NewValueStill ==
  ASSUME TypeInv, Still, NEW s \in Symbols \ ChoiceSymbols,
         \/ s \in MemberSet /\ visible[s] = Yes
         \/ BaseValue(s)' = BaseValue(s)
         \/ visible[s] = No /\ least[s] # No /\ BaseValue(s) \in Tri /\ BaseValue(s)' \in Tri
  PROVE  NewValue(s)' = NewValue(s)
<1>0. UNCHANGED <<valid, tri, pick, visible, least, modulesVal, stack>>
  BY DEF Still, kept
<1>1. PICK b : b = BaseValue(s)
  OBVIOUS
<1>2. PICK d : d = BaseValue(s)'
  OBVIOUS
<1>3. PICK bool : bool = IsBool(s)
  OBVIOUS
<1>4. IsBool(s)' = IsBool(s)
  BY <1>0 DEF IsBool
<1>5. CASE s \in MemberSet /\ visible[s] = Yes
  BY <1>0, <1>5 DEF NewValue, No, Yes
<1>6. CASE ~(s \in MemberSet /\ visible[s] = Yes) /\ visible[s] = No /\ least[s] = No
  <2>1. NewValue(s) = Promote(b, IsBool(s))
    BY <1>1, <1>6 DEF NewValue, BaseValue
  <2>2. NewValue(s)' = Promote(d, IsBool(s)')
    BY <1>0, <1>2, <1>6 DEF NewValue, BaseValue
  <2>3. b = d
    BY <1>1, <1>2, <1>6
  <2> QED
    BY <1>4, <2>1, <2>2, <2>3 DEF Promote
<1>7. CASE ~(s \in MemberSet /\ visible[s] = Yes) /\ ~(visible[s] = No /\ least[s] = No)
  <2>1. NewValue(s) = Promote(Max({Min({b, visible[s]}), least[s]}), IsBool(s))
    BY <1>1, <1>7 DEF NewValue, BaseValue
  <2>2. NewValue(s)' = Promote(Max({Min({d, visible[s]}), least[s]}), IsBool(s)')
    BY <1>0, <1>2, <1>7 DEF NewValue, BaseValue
  <2>3. CASE b = d
    BY <1>4, <2>1, <2>2, <2>3 DEF Promote
  <2>4. CASE visible[s] = No /\ b \in Tri /\ d \in Tri
    <3>1. least[s] \in Tri
      BY DEF TypeInv, TypeOK, SymbolTypeOK
    <3>2. PICK low \in Tri : low = least[s]
      BY <3>1
    <3>3. Max({Min({b, No}), low}) = low /\ Max({Min({d, No}), low}) = low
      BY <2>4, HiddenIs
    <3>4. NewValue(s) = Promote(low, IsBool(s))
      BY <2>1, <2>4, <3>2, <3>3
    <3>5. NewValue(s)' = Promote(low, IsBool(s)')
      BY <2>2, <2>4, <3>2, <3>3
    <3> QED
      BY <1>4, <3>4, <3>5 DEF Promote
  <2> QED
    BY <1>1, <1>2, <1>7, <2>3, <2>4
<1> QED
  BY <1>5, <1>6, <1>7

LEMMA BaseIsTri ==
  ASSUME TypeInv, NEW s \in Options PROVE BaseValue(s) \in Tri
<1>1. DefaultValue(s) \in Tri /\ user[s] \in Tri /\ No \in Tri
  BY DefaultValueIs DEF TypeInv, TypeOK, SymbolTypeOK, Symbols, Tri
<1> QED
  BY <1>1 DEF BaseValue

(* conf_read forgets what was asked of symbols that cannot be seen: that   *)
(* never decided their value.                                              *)
LEMMA EndLoadCached ==
  ASSUME TypeInv, TypeInv', CacheInv, EndLoad, NEW r, Below(r) PROVE CacheInv' /\ Below(r)'
<1>0. /\ valid = Symbols /\ stack = <<>> /\ UNCHANGED <<user, wish, valid, kept, stack>>
      /\ fresh' = Forgotten(fresh, visible)
  BY DEF EndLoad
<1>1. Still
  BY <1>0 DEF Still
<1>2. Settled = Symbols /\ Open = {}
  BY <1>0 DEF Settled, OnStack, Open
<1>3. /\ \A m \in MemberSet : m \in fresh' => m \in fresh
      /\ \A s \in Symbols : s \in fresh => s \in fresh'
      /\ \A s \in Options : s \in fresh' /\ s \notin fresh => visible[s] = No /\ s \notin MemberSet
  BY <1>0, MembersAre, SymbolsAssumption DEF Forgotten
<1>4. ASSUME NEW s \in Options PROVE Valued(s)'
  <2>0. s \in Symbols \ ChoiceSymbols /\ Valued(s) /\ UNCHANGED <<tri, visible, least, user>>
    BY <1>0, <1>2, SymbolsAssumption DEF Symbols, CacheInv, SymbolOK, kept
  <2>1. FixedDefault(s)'
    BY <1>1, <1>2, AllFixed, StillKept
  <2>2. NewValue(s)' = NewValue(s)
    <3>1. CASE s \in fresh' /\ s \notin fresh /\ least[s] # No
      <4>1. BaseValue(s) \in Tri
        BY BaseIsTri
      <4>2. BaseValue(s)' \in Tri
        <5>1. DefaultValue(s)' \in Tri
          BY <1>1, DefaultValueIs, StillKept DEF TypeInv, TypeOK, SymbolTypeOK
        <5>2. user'[s] \in Tri /\ No \in Tri
          BY <2>0 DEF TypeInv, TypeOK, SymbolTypeOK, Tri
        <5> QED
          BY <5>1, <5>2 DEF BaseValue
      <4> QED
        BY <1>1, <1>3, <2>0, <3>1, <4>1, <4>2, NewValueStill
    <3>2. CASE s \in fresh' /\ s \notin fresh /\ least[s] = No
      <4>1. UsesDefault(s)
        BY <1>3, <2>0, <3>2 DEF UsesDefault
      <4>2. UsesDefault(s)'
        BY <1>3, <2>0, <3>2 DEF UsesDefault
      <4>3. BaseValue(s)' = BaseValue(s)
        BY <1>1, <4>1, <4>2, StillKept DEF BaseValue
      <4> QED
        BY <1>1, <2>0, <4>3, NewValueStill
    <3>3. CASE ~(s \in fresh' /\ s \notin fresh)
      <4>1. s \in fresh' <=> s \in fresh
        BY <1>3, <2>0, <3>3
      <4>2. UsesDefault(s)' <=> UsesDefault(s)
        BY <2>0, <4>1 DEF UsesDefault
      <4>3. BaseValue(s)' = BaseValue(s)
        BY <1>1, <2>0, <4>1, <4>2, StillKept DEF BaseValue
      <4> QED
        BY <1>1, <2>0, <4>3, NewValueStill
    <3> QED
      BY <3>1, <3>2, <3>3
  <2> QED
    BY <2>0, <2>1, <2>2 DEF Valued
<1>5. ASSUME NEW s \in Symbols PROVE SymbolOK(s)'
  <2>1. SymbolOK(s)
    BY <1>2 DEF CacheInv
  <2>2. Seen(s)' /\ Bounded(s)'
    BY <1>1, <2>1, StillKept DEF SymbolOK
  <2>3. s \notin ChoiceSymbols => Valued(s)'
    BY <1>4 DEF Symbols
  <2>4. s \in ChoiceSymbols => Decided(s)'
    BY <1>0, <1>1, <2>1, DecidedStill DEF SymbolOK
  <2> QED
    BY <2>2, <2>3, <2>4 DEF SymbolOK
<1>6. Settled' = Symbols /\ Open' = {} /\ Below(r)'
  BY <1>0, <1>1, <1>2, StillKept DEF Below
<1>7. ModulesOK'
  <2> SUFFICES ASSUME Modules # None PROVE ModulesOK'
    BY DEF ModulesOK
  <2>1. Modules \in Settled /\ stack = <<>>
    BY <1>0, <1>2, ModulesAssumption DEF Symbols
  <2>2. modulesVal = tri[Modules] /\ UNCHANGED <<modulesVal, tri>>
    BY <1>0, <2>1 DEF CacheInv, ModulesOK, kept
  <2> QED
    BY <1>2, <1>6, <2>1, <2>2 DEF ModulesOK
<1>8. \A m \in MemberSet : least'[m] = No /\ (m \in fresh' => user'[m] = No)
  BY <1>0, <1>3 DEF CacheInv, kept
<1> QED
  BY <1>5, <1>6, <1>7, <1>8 DEF CacheInv

(* A value within the limits stays what it is when it is asked for.        *)
Limited(b, high, low, bool) == Promote(Max({Min({b, high}), low}), bool)

LEMMA LimitedTwice ==
  ASSUME NEW b \in Tri, NEW high \in Tri, NEW low \in Tri, NEW bool \in BOOLEAN
  PROVE  Limited(Limited(b, high, low, bool), high, low, bool) = Limited(b, high, low, bool)
<1>0. PICK val : val = Limited(b, high, low, bool)
  OBVIOUS
<1>1. \A t, u \in Tri : /\ Min({t, u}) \in Tri /\ Min({t, u}) <= t /\ Min({t, u}) <= u
                        /\ Max({t, u}) \in Tri /\ Max({t, u}) >= t /\ Max({t, u}) >= u
                        /\ Min({t, u}) = t \/ Min({t, u}) = u
                        /\ Max({t, u}) = t \/ Max({t, u}) = u
  <2> SUFFICES ASSUME NEW t \in Tri, NEW u \in Tri
               PROVE  /\ Min({t, u}) \in Tri /\ Min({t, u}) <= t /\ Min({t, u}) <= u
                      /\ Max({t, u}) \in Tri /\ Max({t, u}) >= t /\ Max({t, u}) >= u
                      /\ Min({t, u}) = t \/ Min({t, u}) = u
                      /\ Max({t, u}) = t \/ Max({t, u}) = u
    OBVIOUS
  <2>1. t \in Nat /\ u \in Nat
    BY DEF Tri, No, Mod, Yes
  <2> QED
    BY <2>1, TwoAre
<1>2. PICK lo \in Tri : lo = Min({b, high})
  BY <1>1
<1>3. PICK t \in Tri : t = Max({lo, low})
  BY <1>1
<1>4. val = Promote(t, bool)
  BY <1>0, <1>2, <1>3 DEF Limited
<1>5. val \in Tri
  BY <1>4, PromoteIs
<1>6. PICK lo2 \in Tri : lo2 = Min({val, high})
  BY <1>1, <1>5
<1>7. PICK t2 \in Tri : t2 = Max({lo2, low})
  BY <1>1
<1>8. /\ lo <= high /\ (t = lo \/ t = low) /\ t >= lo /\ t >= low
      /\ lo2 <= val /\ lo2 <= high /\ (lo2 = val \/ lo2 = high)
      /\ t2 >= lo2 /\ t2 >= low /\ (t2 = lo2 \/ t2 = low)
  BY <1>1, <1>2, <1>3, <1>5, <1>6, <1>7
<1>9. Promote(t2, bool) = val
  BY <1>4, <1>8 DEF Promote, Tri, No, Mod, Yes
<1>10. Limited(val, high, low, bool) = Promote(t2, bool)
  BY <1>6, <1>7 DEF Limited
<1> QED
  BY <1>0, <1>9, <1>10

(* The value a symbol has is set again: the base is now that value.        *)
LEMMA SetAgain ==
  ASSUME TypeInv, CacheInv, Still, NEW s \in Options, s \in Settled,
         user'[s] = tri[s], s \notin fresh'
  PROVE  Valued(s)'
<1>0. s \in Symbols \ ChoiceSymbols /\ Valued(s) /\ UNCHANGED <<tri, visible, least>>
  BY SymbolsAssumption DEF Symbols, CacheInv, SymbolOK, Still, kept
<1>1. visible[s] \in Tri /\ least[s] \in Tri /\ tri[s] = NewValue(s)
  BY <1>0 DEF TypeInv, TypeOK, SymbolTypeOK, Valued
<1>2. UsesDefault(s)' <=> UsesDefault(s) /\ visible[s] = No /\ least[s] = No
  BY <1>0 DEF UsesDefault
<1>3. UsesDefault(s)' => FixedDefault(s)'
  BY <1>0, <1>2, StillKept DEF Valued
<1>4. NewValue(s)' = NewValue(s)
  <2>1. CASE s \in MemberSet /\ visible[s] = Yes
    BY <1>0, <2>1, NewValueStill
  <2>2. CASE ~(s \in MemberSet /\ visible[s] = Yes) /\ visible[s] = No /\ least[s] = No
    <3>1. UsesDefault(s) /\ UsesDefault(s)'
      BY <1>0, <1>2, <2>2 DEF UsesDefault
    <3>2. BaseValue(s)' = BaseValue(s)
      BY <3>1, StillKept DEF BaseValue
    <3> QED
      BY <1>0, <3>2, NewValueStill
  <2>3. CASE ~(s \in MemberSet /\ visible[s] = Yes) /\ ~(visible[s] = No /\ least[s] = No)
    <3>1. PICK b : b = BaseValue(s)
      OBVIOUS
    <3>2. PICK bool : bool = IsBool(s)
      OBVIOUS
    <3>3. b \in Tri /\ bool \in BOOLEAN /\ (IsBool(s)' <=> bool)
      BY <3>1, <3>2, BaseIsTri, StillKept DEF IsBool
    <3>4. NewValue(s) = Promote(Max({Min({b, visible[s]}), least[s]}), bool)
      BY <1>0, <2>3, <3>1, <3>2 DEF NewValue, BaseValue
    <3>5. BaseValue(s)' = tri[s]
      BY <1>2, <2>3 DEF BaseValue
    <3>6. NewValue(s)' = Promote(Max({Min({BaseValue(s)', visible[s]}), least[s]}), IsBool(s)')
      BY <1>0, <2>3 DEF NewValue, BaseValue
    <3>7. NewValue(s)' = Promote(Max({Min({tri[s], visible[s]}), least[s]}), bool)
      BY <3>3, <3>5, <3>6 DEF Promote
    <3>8. PICK high \in Tri, low \in Tri : high = visible[s] /\ low = least[s]
      BY <1>1
    <3>9. PICK v : v = tri[s]
      OBVIOUS
    <3>10. PICK w : w = NewValue(s)'
      OBVIOUS
    <3>11. v = Limited(b, high, low, bool)
      BY <1>1, <3>4, <3>8, <3>9 DEF Limited
    <3>12. w = Limited(v, high, low, bool)
      BY <3>7, <3>8, <3>9, <3>10 DEF Limited
    <3>13. b \in Tri /\ bool \in BOOLEAN
      BY <3>3
    <3>14. w = v
      <4>1. Limited(Limited(b, high, low, bool), high, low, bool) = Limited(b, high, low, bool)
        <5>1. CASE bool = TRUE
          <6>1. Limited(Limited(b, high, low, TRUE), high, low, TRUE) = Limited(b, high, low, TRUE)
            BY <3>13, LimitedTwice
          <6> QED
            BY <5>1, <6>1
        <5>2. CASE bool = FALSE
          <6>1. Limited(Limited(b, high, low, FALSE), high, low, FALSE) = Limited(b, high, low, FALSE)
            BY <3>13, LimitedTwice
          <6> QED
            BY <5>2, <6>1
        <5> QED
          BY <3>13, <5>1, <5>2
      <4> QED
        BY <3>11, <3>12, <4>1
    <3> QED
      BY <1>1, <3>9, <3>10, <3>14
  <2> QED
    BY <2>1, <2>2, <2>3
<1> QED
  BY <1>0, <1>1, <1>3, <1>4 DEF Valued

(* The value a choice has fallen on is wished for first.                   *)
LEMMA WishedAgain ==
  ASSUME TypeInv, CacheInv, Still, ValuesArePlain, NEW m \in MemberSet, m \in Settled,
         tri[m] = Yes, NEW c, c = ChoiceOf(m), c \in Settled, wish'[c] = m
  PROVE  Decided(c)'
<1>0. c \in ChoiceSymbols /\ m \in Range(Members[c]) /\ m # None /\ UNCHANGED <<tri, pick>>
  BY MembersAre, SymbolsAssumption DEF Still, kept, Symbols
<1>1. pick[c] = m /\ Fixed(Prompt[m]) /\ Now(Prompt[m]) # No
  BY BuiltIs
<1>2. tri[c] = Yes
  BY <1>0, <1>1 DEF CacheInv, SymbolOK, Decided
<1>3. PICK w : w = wish'
  OBVIOUS
<1>4. PICK one : one = [when |-> Always, pick |-> m]
  OBVIOUS
<1>5. 1 \in 1..Len(Whom(c)') /\ Whom(c)'[1] = one
  <2>1. 1 \in 1..Len(Candidates(c, w)) /\ Candidates(c, w)[1] = one
    BY <1>0, <1>3, <1>4, CandidatesAre
  <2> QED
    BY <1>3, <2>1 DEF Whom
<1>6. Among(c, Prompt[m])' = Now(Prompt[m])
  <2>1. Among(c, Prompt[m])' = Among(c, Prompt[m])
    BY <1>0 DEF Among
  <2> QED
    BY <1>2, <2>1, AmongIsNow
<1>7. one.when = Always /\ one.pick = m
  BY <1>4
<1>8. Known(c, 1)'
  <2>1. Fixed(Always)'
    BY AlwaysIs DEF Fixed
  <2>2. FixedFor(c, Prompt[m])'
    BY <1>1, StillKept DEF Fixed, FixedFor
  <2> QED
    BY <1>5, <1>7, <2>1, <2>2 DEF Known
<1>9. IsOpen(c, 1)'
  <2>1. Now(Always)' # No
    BY AlwaysNow DEF No, Yes
  <2> QED
    BY <1>1, <1>5, <1>6, <1>7, <2>1 DEF IsOpen
<1>10. Passed(c, 1)'
  BY DEF Passed
<1>11. FallsOn(c, 1)'
  BY <1>0, <1>1, <1>5, <1>7, <1>8, <1>9, <1>10 DEF FallsOn
<1>12. (\E k \in 1..Len(Whom(c)) : FallsOn(c, k))'
  BY <1>5, <1>11
<1> QED
  BY <1>0, <1>2, <1>12 DEF Decided

(* sym_set_tristate_value with a value the symbol does not have clears     *)
(* everything; with the value it has, what is kept stays true.             *)
LEMMA SetCached ==
  ASSUME TypeInv, CacheInv, ValuesArePlain, NEW s \in Symbols, NEW val \in Tri,
         SetTristate(s, val), NEW r, Below(r)
  PROVE  CacheInv' /\ Below(r)'
<1> DEFINE chosen == s \in MemberSet /\ val = Yes
           removed == IF chosen
                      THEN {s, ChoiceOf(s)} \cup {m \in Range(Members[ChoiceOf(s)]) : visible[m] # No}
                      ELSE {s}
<1>0. /\ stack = <<>> /\ s \in valid /\ user' = [user EXCEPT ![s] = val]
      /\ fresh' = fresh \ removed
      /\ wish' = IF chosen THEN [wish EXCEPT ![ChoiceOf(s)] = s] ELSE wish
      /\ IF tri[s] # val THEN ClearAllValid ELSE UNCHANGED <<valid, stack>>
      /\ UNCHANGED kept
  BY DEF SetTristate
<1>1. s \in Settled /\ Settled = valid /\ Open = {}
  BY <1>0 DEF Settled, OnStack, Open
<1>2. /\ user'[s] = val /\ s \notin fresh' /\ fresh' \subseteq fresh
      /\ \A x \in Symbols \ {s} : user'[x] = user[x]
  BY <1>0 DEF TypeInv, TypeOK, SymbolTypeOK
<1>3. \A m \in MemberSet : least'[m] = No /\ (m \in fresh' => user'[m] = No)
  BY <1>0, <1>2, MembersAre DEF CacheInv, kept
<1>4. CASE tri[s] # val
  BY <1>0, <1>3, <1>4, ClearedCached
<1>5. CASE tri[s] = val
  <2>1. Still /\ stack' = <<>>
    BY <1>0, <1>5 DEF Still
  <2>2. UNCHANGED <<tri, visible, least, modulesVal>>
    BY <1>0 DEF kept
  <2>3. ASSUME NEW x \in Options, x \in Settled PROVE Valued(x)'
    <3>0. x \in Symbols \ ChoiceSymbols /\ Valued(x)
      BY <2>3, SymbolsAssumption DEF Symbols, CacheInv, SymbolOK
    <3>1. CASE x = s
      BY <1>2, <1>5, <2>1, <2>3, <3>1, SetAgain
    <3>2. CASE x # s /\ (x \in fresh' <=> x \in fresh)
      <4>1. (UsesDefault(x)' <=> UsesDefault(x)) /\ user'[x] = user[x]
        BY <1>2, <2>2, <3>0, <3>2 DEF UsesDefault
      <4>2. BaseValue(x)' = BaseValue(x)
        BY <2>1, <3>2, <4>1, StillKept DEF BaseValue
      <4>3. NewValue(x)' = NewValue(x)
        BY <2>1, <3>0, <4>2, NewValueStill
      <4> QED
        BY <2>1, <2>2, <3>0, <4>1, <4>3, StillKept DEF Valued
    <3>3. CASE x # s /\ x \notin fresh' /\ x \in fresh
      <4>1. x \in MemberSet /\ visible[x] # No
        BY <1>0, <3>0, <3>3, MembersAre
      <4>2. user'[x] = No
        BY <1>2, <3>0, <3>3, <4>1 DEF CacheInv
      <4>3. BaseValue(x) = No
        BY <3>3, <4>1, NoDefaultValue DEF BaseValue
      <4>4. ~UsesDefault(x)'
        BY <2>2, <3>3, <4>1 DEF UsesDefault
      <4>5. BaseValue(x)' = No
        BY <3>3, <4>2, <4>4 DEF BaseValue
      <4>6. NewValue(x)' = NewValue(x)
        BY <2>1, <3>0, <4>3, <4>5, NewValueStill
      <4> QED
        BY <2>2, <3>0, <4>4, <4>6 DEF Valued
    <3> QED
      BY <1>2, <3>1, <3>2, <3>3
  <2>4. ASSUME NEW c \in ChoiceSymbols, c \in Settled PROVE Decided(c)'
    <3>1. CASE chosen /\ c = ChoiceOf(s)
      <4>1. wish'[c] = s
        BY <1>0, <3>1, MembersAre DEF TypeInv, TypeOK, SymbolTypeOK
      <4> QED
        BY <1>1, <1>5, <2>1, <2>4, <3>1, <4>1, WishedAgain
    <3>2. CASE ~(chosen /\ c = ChoiceOf(s))
      <4>1. wish'[c] = wish[c]
        BY <1>0, <3>2, MembersAre DEF TypeInv, TypeOK, SymbolTypeOK
      <4>2. Decided(c)
        BY <2>4 DEF CacheInv, SymbolOK
      <4> QED
        BY <2>1, <4>1, <4>2, DecidedStill
    <3> QED
      BY <3>1, <3>2
  <2>5. ASSUME NEW x \in Symbols, x \in Settled PROVE SymbolOK(x)'
    <3>1. SymbolOK(x)
      BY <2>5 DEF CacheInv
    <3>2. Seen(x)' /\ Bounded(x)'
      BY <2>1, <3>1, StillKept DEF SymbolOK
    <3>3. x \notin ChoiceSymbols => Valued(x)'
      BY <2>3, <2>5 DEF Symbols
    <3>4. x \in ChoiceSymbols => Decided(x)'
      BY <2>4, <2>5
    <3> QED
      BY <3>2, <3>3, <3>4 DEF SymbolOK
  <2>6. Settled' = Settled /\ Open' = {} /\ Below(r)' /\ Settled \subseteq Symbols
    BY <1>1, <2>1, StillKept, SettledAre DEF Below
  <2>7. ModulesOK'
    <3> SUFFICES ASSUME Modules # None PROVE ModulesOK'
      BY DEF ModulesOK
    <3>1. CASE Modules \notin Settled /\ modulesVal = No /\ Modules \in fresh
      <4>1. Modules \in Options /\ Modules \notin MemberSet /\ Modules \notin ChoiceSymbols
        BY ModulesAssumption, SymbolsAssumption
      <4>2. Modules \notin removed
        BY <1>1, <3>1, <4>1, MembersAre
      <4>3. Modules \in fresh'
        BY <1>0, <3>1, <4>2
      <4> QED
        BY <2>2, <2>6, <3>1, <4>3 DEF ModulesOK
    <3>2. CASE Modules \in Settled /\ modulesVal = tri[Modules]
      BY <2>2, <2>6, <3>2 DEF ModulesOK
    <3> QED
      BY <1>0, <3>1, <3>2 DEF CacheInv, ModulesOK
  <2> QED
    BY <1>3, <2>5, <2>6, <2>7 DEF CacheInv
<1> QED
  BY <1>4, <1>5
-----------------------------------------------------------------------------
(* What is known of the cache holds all along.                             *)
KnownInv(r) == TypeInv /\ StackInv /\ CacheInv /\ Below(r)

LEMMA KnownInit ==
  ASSUME Init, NEW r PROVE KnownInv(r)
<1>1. TypeInv
  BY TypeInit
<1>2. StackInv /\ Below(r) /\ Open = {} /\ Settled = {}
  BY DEF Init, SymbolInit, StackInv, NoReentry, Below, Open, Settled
<1>3. \A m \in MemberSet : m \in Symbols /\ least[m] = No /\ user[m] = No
  BY MembersAre DEF Init, SymbolInit
<1>4. ModulesOK
  BY <1>2, ModulesAssumption DEF ModulesOK, Init, SymbolInit, Symbols
<1> QED
  BY <1>1, <1>2, <1>3, <1>4 DEF KnownInv, CacheInv

LEMMA KnownStep ==
  ASSUME ValuesArePlain, ModulesIsPlain, NEW r, Ranked(r), KnownInv(r), [Next]_vars
  PROVE  KnownInv(r)'
<1>0. TypeInv /\ StackInv /\ CacheInv /\ Below(r)
  BY DEF KnownInv
<1>1. TypeInv' /\ StackInv'
  BY <1>0, TypeStep, StackInvKept
<1> SUFFICES CacheInv' /\ Below(r)'
  BY <1>1 DEF KnownInv
<1>2. CASE StartLoad
  BY <1>0, <1>2, StartLoadCached
<1>3. CASE EndLoad
  BY <1>0, <1>1, <1>3, EndLoadCached
<1>4. CASE StartSave
  <2>1. CASE ClearAllValid
    <3>1. \A m \in MemberSet : least'[m] = No /\ (m \in fresh' => user'[m] = No)
      BY <1>0, <1>4 DEF StartSave, CacheInv, kept, asked
    <3> QED
      BY <2>1, <3>1, ClearedCached
  <2>2. CASE UNCHANGED <<valid, stack>>
    <3>1. UNCHANGED symbolVars
      BY <1>4, <2>2 DEF StartSave, symbolVars
    <3> QED
      BY <1>0, <3>1, StutterCached
  <2> QED
    BY <1>4, <2>1, <2>2 DEF StartSave
<1>5. CASE EndSave
  BY <1>0, <1>5, StutterCached DEF EndSave
<1>6. ASSUME NEW s \in Symbols, NEW val \in Tri, Set(s, val) PROVE CacheInv' /\ Below(r)'
  BY <1>0, <1>6, SetCached DEF Set
<1>7. CASE Calculation
  <2>1. CASE Calculate
    BY <1>0, <2>1, CalculateCached
  <2>2. ASSUME NEW s \in Symbols, CalcSymbol(s) PROVE CacheInv' /\ Below(r)'
    BY <1>0, <2>2, CalcSymbolCached
  <2> QED
    BY <1>7, <2>1, <2>2 DEF Calculation
<1>8. CASE UNCHANGED vars
  BY <1>0, <1>8, StutterCached DEF vars
<1> QED
  BY <1>2, <1>3, <1>4, <1>5, <1>6, <1>7, <1>8 DEF Next

(* The value a bool choice has fallen on is built in.                      *)
LEMMA FallenIs ==
  ASSUME TypeInv, CacheInv, ValuesAreOfType, NEW c \in ChoiceSymbols, c \in Settled,
         tri[c] = Yes, c \notin Tristate, Range(Members[c]) \subseteq Settled
  PROVE  pick[c] \in Range(Members[c]) /\ tri[pick[c]] = Yes
<1>1. PICK k \in 1..Len(Whom(c)) : FallsOn(c, k)
  BY DEF CacheInv, SymbolOK, Decided
<1>2. PICK m : m = pick[c]
  OBVIOUS
<1>3. /\ Whom(c)[k].pick = m /\ m \in Range(Members[c]) /\ m \in MemberSet
      /\ m \in Symbols \ ChoiceSymbols /\ ChoiceOf(m) = c
  <2>1. wish[c] \in Range(Members[c]) \cup {None}
    BY DEF TypeInv, WishOK
  <2>2. k \in 1..Len(Candidates(c, wish))
    BY <1>1 DEF Whom
  <2>3. Candidates(c, wish)[k].pick \in Range(Members[c])
    BY <2>1, <2>2, CandidatesAre
  <2> QED
    BY <1>1, <1>2, <2>3, MembersAre DEF FallsOn, Whom
<1>4. Now(Prompt[m]) # No
  BY <1>1, <1>3, AmongIsNow DEF FallsOn, IsOpen
<1>5. SymbolOK(m) /\ visible[m] = Visible(m)
  BY <1>3 DEF CacheInv, SymbolOK, Seen
<1>6. m \notin Tristate
  BY <1>3 DEF ValuesAreOfType
<1>7. visible[m] = Yes
  <2>1. visible[m] \in Tri
    BY <1>3 DEF TypeInv, TypeOK, SymbolTypeOK
  <2>2. visible[m] # Mod /\ visible[m] # No
    BY <1>4, <1>5, <1>6 DEF Visible, Promote, No, Mod, Yes
  <2> QED
    BY <2>1, <2>2 DEF Tri
<1>8. NewValue(m) = Yes
  BY <1>2, <1>3, <1>7 DEF NewValue, No, Yes
<1>9. tri[m] = Yes
  BY <1>3, <1>5, <1>8 DEF SymbolOK, Valued
<1> QED
  BY <1>2, <1>3, <1>9

LEMMA ExclusiveIs ==
  ASSUME ValuesArePlain, ValuesAreOfType, TypeInv, CacheInv
  PROVE  ChoiceIsExclusive
<1> SUFFICES ASSUME AtRest, NEW c \in ChoiceSymbols \cap valid, Range(Members[c]) \subseteq valid,
                    NEW built, built = {m \in Range(Members[c]) : tri[m] = Yes}
             PROVE  /\ Cardinality(built) <= 1
                    /\ tri[c] # Yes => built = {}
                    /\ tri[c] = Yes /\ c \notin Tristate => built = {pick[c]}
  BY DEF ChoiceIsExclusive
<1>1. Settled = valid
  BY DEF AtRest, Settled, OnStack, Open
<1>2. \A m \in built : pick[c] = m /\ m # None
  <2> SUFFICES ASSUME NEW m \in built PROVE pick[c] = m /\ m # None
    OBVIOUS
  <2>1. m \in MemberSet /\ m \in Settled /\ tri[m] = Yes /\ ChoiceOf(m) = c /\ m # None
    BY <1>1, MembersAre, SymbolsAssumption
  <2> QED
    BY <2>1, BuiltIs
<1>3. built = {} \/ built = {pick[c]}
  BY <1>2
<1>4. Cardinality({}) = 0 /\ Cardinality({pick[c]}) = 1
  BY FS_EmptySet, FS_Singleton
<1>5. Cardinality(built) <= 1
  BY <1>3, <1>4
<1>6. tri[c] # Yes => built = {}
  <2>1. tri[c] # Yes => pick[c] = None
    BY <1>1 DEF CacheInv, SymbolOK, Decided
  <2> QED
    BY <1>2, <2>1
<1>7. tri[c] = Yes /\ c \notin Tristate => built = {pick[c]}
  <2> SUFFICES ASSUME tri[c] = Yes, c \notin Tristate PROVE built = {pick[c]}
    OBVIOUS
  <2>1. pick[c] \in Range(Members[c]) /\ tri[pick[c]] = Yes
    BY <1>1, FallenIs
  <2> QED
    BY <1>3, <2>1
<1> QED
  BY <1>5, <1>6, <1>7

(* Of the values of a choice at most one is built in, none unless the      *)
(* choice is, and of a bool choice that is, the one it has fallen on,      *)
(* however the symbols were calculated: choice and values calculate each   *)
(* other, and what one asks for changes the order in which they do.        *)
THEOREM OneIsBuilt ==
  ASSUME Acyclic, ModulesIsPlain, ValuesArePlain, ValuesAreOfType
  PROVE  Spec => []ChoiceIsExclusive
<1>1. PICK r : Ranked(r)
  BY DEF Acyclic
<1>2. Init => KnownInv(r)
  BY KnownInit
<1>3. KnownInv(r) /\ [Next]_vars => KnownInv(r)'
  BY <1>1, KnownStep
<1>4. KnownInv(r) => ChoiceIsExclusive
  BY ExclusiveIs DEF KnownInv
<1> QED
  BY <1>2, <1>3, <1>4, PTL DEF Spec
-----------------------------------------------------------------------------
(* A value is calculated with at least its lower limit.                    *)
LEMMA NewValueAtLeast ==
  ASSUME TypeInv, NEW s \in Options, s \notin MemberSet
  PROVE  NewValue(s) >= least[s]
<1>0. s \in Symbols /\ s \notin ChoiceSymbols
  BY SymbolsAssumption DEF Symbols
<1>1. PICK b : b = BaseValue(s)
  OBVIOUS
<1>2. PICK bool : bool = IsBool(s)
  OBVIOUS
<1>3. PICK high \in Tri, low \in Tri : high = visible[s] /\ low = least[s]
  BY <1>0 DEF TypeInv, TypeOK, SymbolTypeOK
<1>4. b \in Tri /\ bool \in BOOLEAN
  BY <1>1, <1>2, BaseIsTri DEF IsBool
<1>5. NewValue(s) \in Tri
  BY <1>0, NewValueIs DEF TypeInv, TypeOK
<1>6. CASE high = No /\ low = No
  BY <1>3, <1>5, <1>6 DEF Tri, No, Mod, Yes
<1>7. CASE ~(high = No /\ low = No)
  <2>1. NewValue(s) = Promote(Max({Min({b, high}), low}), bool)
    BY <1>1, <1>2, <1>3, <1>7 DEF NewValue, BaseValue
  <2>2. Min({b, high}) = IF b <= high THEN b ELSE high
    BY <1>4, TwoAre
  <2>3. PICK t \in Tri : t = Min({b, high})
    BY <1>4, <2>2
  <2>4. Max({t, low}) = IF t >= low THEN t ELSE low
    BY TwoAre
  <2>5. PICK u \in Tri : u = Max({t, low})
    BY <2>4
  <2>6. u >= low
    BY <2>4, <2>5 DEF Tri, No, Mod, Yes
  <2>7. Promote(u, bool) >= u
    BY DEF Promote, Tri, No, Mod, Yes
  <2>8. NewValue(s) = Promote(u, bool) /\ Promote(u, bool) \in Tri
    BY <1>4, <2>1, <2>3, <2>5, PromoteIs
  <2> QED
    BY <1>3, <2>6, <2>7, <2>8 DEF Tri, No, Mod, Yes
<1> QED
  BY <1>6, <1>7

(* The value of an expression is its value in one valuation of the symbols.*)
LEMMA NowInOne ==
  ASSUME tri \in [Symbols -> Tri], NEW v, v = [a \in Atom |-> IF a = M THEN Mod ELSE tri[a]],
         NEW e \in Expressions
  PROVE  Now(e) = Eval(e, v) /\ \A a \in Atoms(e) : v[a] \in Tri
<1> DEFINE w == [a \in Atoms(e) |-> IF a = M THEN Mod ELSE tri[a]]
<1>1. Atoms(e) \subseteq Atom
  BY AtomsAre
<1>2. \A a \in Atoms(e) : w[a] = v[a] /\ v[a] \in Tri
  BY <1>1 DEF Atom, Tri
<1>3. Now(e) = Eval(e, w)
  BY DEF Now
<1> HIDE DEF w
<1> QED
  BY <1>2, <1>3, EvalSame

(* rev_dep is no less than any of the selects it gathers.                  *)
LEMMA SelectedIs ==
  ASSUME TypeInv, NEW d \in Selects, NEW t \in Tri,
         t <= tri[d.by], t <= Now(Base(d.by)), t <= Now(d.when)
  PROVE  t <= Now(Select[d.target])
<1>0. /\ d.by \in Symbols /\ d.target \in Symbols /\ d.target \notin ChoiceSymbols
      /\ d.when \in Expressions /\ Base(d.by) \in Expressions
  BY ExpressionsAssumption, SymbolsAssumption, BaseIs DEF Symbols
<1>1. tri \in [Symbols -> Tri]
  BY DEF TypeInv, TypeOK, SymbolTypeOK
<1>2. PICK v : v = [a \in Atom |-> IF a = M THEN Mod ELSE tri[a]]
  OBVIOUS
<1>3. PICK by \in Expressions, base \in Expressions, when \in Expressions :
        by = If(d.by) /\ base = Base(d.by) /\ when = d.when
  BY <1>0, LiteralsAre
<1>4. And(base, when) \in Expressions /\ And(by, And(base, when)) \in Expressions
      /\ Select[d.target] \in Expressions
  BY <1>0, AndIs, SelectIs
<1>5. v[d.by] = tri[d.by] /\ tri[d.by] \in Tri
  BY <1>0, <1>1, <1>2, SymbolsAssumption DEF Atom
<1>6. Eval(by, v) = tri[d.by]
  BY <1>0, <1>3, <1>5, IfIs
<1>7. t <= Eval(base, v) /\ t <= Eval(when, v) /\ t <= Eval(by, v)
  BY <1>1, <1>2, <1>3, <1>6, NowInOne
<1>8. t <= Eval(And(base, when), v)
  <2>1. \A a \in Atoms(base) \cup Atoms(when) : v[a] \in Tri
    BY <1>1, <1>2, <1>3, NowInOne
  <2> QED
    BY <1>7, <2>1, AndIsLeast
<1>9. t <= Eval(And(by, And(base, when)), v)
  <2>1. \A a \in Atoms(by) \cup Atoms(And(base, when)) : v[a] \in Tri
    BY <1>1, <1>2, <1>4, NowInOne
  <2> QED
    BY <1>4, <1>7, <1>8, <2>1, AndIsLeast
<1>10. And(by, And(base, when)) \subseteq Select[d.target]
  <2>1. Select[d.target] = UNION {And(If(x.by), And(Base(x.by), x.when)) :
                                    x \in {x \in Selects : x.target = d.target}}
    BY <1>0 DEF Select, Or, Never
  <2> QED
    BY <1>3, <2>1
<1>11. Eval(And(by, And(base, when)), v) <= Eval(Select[d.target], v)
  <2>1. \A a \in Atoms(Select[d.target]) : v[a] \in Tri
    BY <1>1, <1>2, <1>4, NowInOne
  <2> QED
    BY <1>4, <1>10, <2>1, MoreIsMore
<1>12. /\ Eval(And(by, And(base, when)), v) \in Tri /\ Eval(Select[d.target], v) \in Tri
       /\ Now(Select[d.target]) = Eval(Select[d.target], v)
  BY <1>1, <1>2, <1>4, NowInOne, EvalIs
<1> QED
  BY <1>9, <1>11, <1>12 DEF Tri, No, Mod, Yes

(* What is selected is at least what selects it, as far as the             *)
(* dependencies of the latter and the condition of the select go.          *)
SelectHolds ==
  AtRest => \A d \in Selects : d.target \in valid /\ d.target \notin MemberSet =>
    tri[d.target] >= Min({tri[d.by], Min({Now(Base(d.by)), Now(d.when)})})

LEMMA SelectHoldsIs ==
  ASSUME TypeInv, CacheInv PROVE SelectHolds
<1> SUFFICES ASSUME AtRest, NEW d \in Selects, d.target \in valid, d.target \notin MemberSet
             PROVE  tri[d.target] >= Min({tri[d.by], Min({Now(Base(d.by)), Now(d.when)})})
  BY DEF SelectHolds
<1>0. /\ d.by \in Symbols /\ d.target \in Options /\ d.target \in Symbols \ ChoiceSymbols
      /\ d.when \in Expressions /\ Base(d.by) \in Expressions
  BY ExpressionsAssumption, SymbolsAssumption, BaseIs DEF Symbols
<1>1. d.target \in Settled
  BY DEF AtRest, Settled, OnStack, Open
<1>2. /\ tri \in [Symbols -> Tri] /\ tri[d.by] \in Tri /\ tri[d.target] \in Tri
      /\ least[d.target] \in Tri
  BY <1>0 DEF TypeInv, TypeOK, SymbolTypeOK
<1>3. PICK x \in Tri, y \in Tri, z \in Tri : x = tri[d.by] /\ y = Now(Base(d.by)) /\ z = Now(d.when)
  BY <1>0, <1>2, NowIs
<1>4. Min({y, z}) = IF y <= z THEN y ELSE z
  BY TwoAre
<1>5. PICK w \in Tri : w = Min({y, z})
  BY <1>4
<1>6. Min({x, w}) = IF x <= w THEN x ELSE w
  BY TwoAre
<1>7. PICK t \in Tri : t = Min({x, w})
  BY <1>6
<1>8. t <= x /\ t <= y /\ t <= z
  BY <1>4, <1>5, <1>6, <1>7 DEF Tri, No, Mod, Yes
<1>9. t <= Now(Select[d.target])
  BY <1>3, <1>8, SelectedIs
<1>10. /\ least[d.target] = Promote(Now(Select[d.target]), IsBool(d.target))
       /\ tri[d.target] = NewValue(d.target)
  BY <1>0, <1>1 DEF CacheInv, SymbolOK, Bounded, Valued
<1>11. t <= least[d.target]
  <2>1. PICK u \in Tri : u = Now(Select[d.target])
    BY <1>0, <1>2, NowIs, SelectIs
  <2>2. PICK bool : bool = IsBool(d.target)
    OBVIOUS
  <2>3. Promote(u, bool) >= u
    BY DEF Promote, Tri, No, Mod, Yes
  <2>4. least[d.target] = Promote(u, bool) /\ t <= u
    BY <1>9, <1>10, <2>1, <2>2
  <2> QED
    BY <1>2, <2>3, <2>4 DEF Tri, No, Mod, Yes
<1>12. tri[d.target] >= least[d.target]
  BY <1>0, <1>10, NewValueAtLeast
<1>13. tri[d.target] >= t
  BY <1>2, <1>11, <1>12 DEF Tri, No, Mod, Yes
<1>14. t = Min({tri[d.by], Min({Now(Base(d.by)), Now(d.when)})})
  BY <1>3, <1>5, <1>7
<1> QED
  BY <1>13, <1>14

(* However the calculations of selector and target meet, what is kept of   *)
(* the target was calculated from what is kept of the selector.            *)
THEOREM SelectedIsAtLeast ==
  ASSUME Acyclic, ModulesIsPlain, ValuesArePlain
  PROVE  Spec => []SelectHolds
<1>1. PICK r : Ranked(r)
  BY DEF Acyclic
<1>2. Init => KnownInv(r)
  BY KnownInit
<1>3. KnownInv(r) /\ [Next]_vars => KnownInv(r)'
  BY <1>1, KnownStep
<1>4. KnownInv(r) => SelectHolds
  BY SelectHoldsIs DEF KnownInv
<1> QED
  BY <1>2, <1>3, <1>4, PTL DEF Spec

(* sym_calc_value passes over the selects of choice values; a selector     *)
(* without dependencies selects with its whole value.                      *)
NoValueSelected == \A d \in Selects : d.target \notin MemberSet
SelectorsAreFree == \A d \in Selects : Base(d.by) = Always

(* So the value of a symbol is a lower limit for what it selects: "the     *)
(* value of the current menu symbol is used as the minimal value".         *)
THEOREM LowerLimitHolds ==
  ASSUME Acyclic, ModulesIsPlain, ValuesArePlain, NoValueSelected, SelectorsAreFree
  PROVE  Spec => []SelectIsLowerLimit
<1>1. TypeInv /\ SelectHolds => SelectIsLowerLimit
  <2> SUFFICES ASSUME TypeInv, SelectHolds, AtRest, NEW d \in Selects,
                      {d.by, d.target} \cup Atoms(d.when) \subseteq valid \cup {M}
               PROVE  tri[d.target] >= Min({tri[d.by], Now(d.when)})
    BY DEF SelectIsLowerLimit
  <2>1. d.target \in Symbols /\ d.target # M /\ d.when \in Expressions
    BY ExpressionsAssumption, SymbolsAssumption, MembersAre
  <2>2. d.target \in valid /\ d.target \notin MemberSet
    BY <2>1 DEF NoValueSelected
  <2>3. tri[d.target] >= Min({tri[d.by], Min({Now(Base(d.by)), Now(d.when)})})
    BY <2>2 DEF SelectHolds
  <2>4. Now(Base(d.by)) = Yes
    BY AlwaysNow DEF SelectorsAreFree
  <2>5. PICK z \in Tri : z = Now(d.when)
    BY <2>1, NowIs DEF TypeInv, TypeOK, SymbolTypeOK
  <2>6. Min({Yes, z}) = z
    <3>1. Yes \in Tri
      BY DEF Tri
    <3>2. Min({Yes, z}) = IF Yes <= z THEN Yes ELSE z
      BY <3>1, TwoAre
    <3> QED
      BY <3>2 DEF Tri, No, Mod, Yes
  <2> QED
    BY <2>3, <2>4, <2>5, <2>6
<1>2. Spec => []TypeInv
  BY TypeInit, TypeStep, PTL DEF Spec
<1>3. Spec => []SelectHolds
  BY SelectedIsAtLeast
<1> QED
  BY <1>1, <1>2, <1>3, PTL
-----------------------------------------------------------------------------
(* The meaning of what is asked now.                                       *)
OpenOf(c, of) == {i \in DOMAIN Whom(c) : /\ Under(Whom(c)[i].when, c, of) # No
                                         /\ Under(Prompt[Whom(c)[i].pick], c, of) # No}
AskedOf(s) == IF s \in fresh THEN No ELSE user[s]
BaseOf(s, of) == IF s \in fresh THEN DefaultOf(s, of) ELSE user[s]
MeansOf(s, of, mods) == MeaningOf(s, of, mods, user, fresh, wish)

LEMMA MeansIs ==
  ASSUME NEW s, NEW of, NEW mods
  PROVE  MeansOf(s, of, mods) =
    CASE s \in ChoiceSymbols /\ LimitedOf(AskedOf(s), s, of, mods) # Yes ->
           [tri |-> LimitedOf(AskedOf(s), s, of, mods), pick |-> None]
      [] s \in ChoiceSymbols /\ LimitedOf(AskedOf(s), s, of, mods) = Yes ->
           IF OpenOf(s, of) = {} THEN [tri |-> No, pick |-> None]
           ELSE [tri |-> Yes, pick |-> Whom(s)[Min(OpenOf(s, of))].pick]
      [] s \in MemberSet /\ ShownOf(s, of, mods) = Yes ->
           [tri |-> IF of[ChoiceOf(s)].pick = s THEN Yes ELSE No, pick |-> None]
      [] s \in MemberSet /\ ShownOf(s, of, mods) # Yes ->
           [tri |-> Promote(Min({BaseOf(s, of), ShownOf(s, of, mods)}), BoolWith(s, mods)),
            pick |-> None]
      [] OTHER ->
           [tri |-> IF ShownOf(s, of, mods) = No /\ LeastOf(s, of, mods) = No
                    THEN Promote(DefaultOf(s, of), BoolWith(s, mods))
                    ELSE LimitedOf(BaseOf(s, of), s, of, mods),
            pick |-> None]
BY Zenon, MeaningIs DEF MeansOf, OpenOf, AskedOf, BaseOf, Whom, OpenIn, AskedIn, BaseIn

MeaningFor(mods) == MeaningWith(mods, user, fresh, wish)

(* What the language gives to a symbol follows from what it gives to the   *)
(* symbols that one needs, and from the value of MODULES.                  *)
LEMMA MeaningFix ==
  ASSUME WishOK, Levelled, NEW mods
  PROVE  \A s \in Symbols : MeaningFor(mods)[s] = MeansOf(s, MeaningFor(mods), mods)
BY MeaningFixed DEF MeaningFor, MeansOf, WishOK, WishesOK

(* What is kept of the symbols that s needs is what they mean.             *)
Agrees(s, f) ==
  \A d \in Needs[s] \cap Settled :
    f[d].tri = tri[d] /\ (d \in ChoiceSymbols => f[d].pick = pick[d])

LEMMA UnderIsNow ==
  ASSUME NEW s, NEW f, Agrees(s, f), NEW c, NEW e, c \notin Atoms(e) \/ c = M,
         Fixed(e), Atoms(e) \subseteq Needs[s] \cup {M}
  PROVE  Under(e, c, f) = Now(e)
<1> DEFINE v == [a \in Atoms(e) |-> IF a = M THEN Mod ELSE IF a = c THEN Yes ELSE f[a].tri]
           w == [a \in Atoms(e) |-> IF a = M THEN Mod ELSE tri[a]]
<1>1. \A a \in Atoms(e) : a = M \/ f[a].tri = tri[a]
  BY DEF Agrees, Fixed
<1>2. \A a \in Atoms(e) : v[a] = w[a]
  BY <1>1
<1>3. Under(e, c, f) = Eval(e, v) /\ Now(e) = Eval(e, w)
  BY DEF Under, Now
<1> HIDE DEF v, w
<1> QED
  BY <1>2, <1>3, EvalSame

LEMMA UnderIsAmong ==
  ASSUME NEW f, NEW c, Agrees(c, f), NEW e,
         FixedFor(c, e), Atoms(e) \subseteq Needs[c] \cup {M, c}
  PROVE  Under(e, c, f) = Among(c, e)
<1> DEFINE v == [a \in Atoms(e) |-> IF a = M THEN Mod ELSE IF a = c THEN Yes ELSE f[a].tri]
           w == [a \in Atoms(e) |-> IF a = M THEN Mod ELSE IF a = c THEN Yes ELSE tri[a]]
<1>1. \A a \in Atoms(e) : a = M \/ a = c \/ f[a].tri = tri[a]
  BY DEF Agrees, FixedFor
<1>2. \A a \in Atoms(e) : v[a] = w[a]
  BY <1>1
<1>3. Under(e, c, f) = Eval(e, v) /\ Among(c, e) = Eval(e, w)
  BY DEF Under, Among
<1> HIDE DEF v, w
<1> QED
  BY <1>2, <1>3, EvalSame

(* The choices the documentation calls boolean, none of them optional.     *)
BoolChoices == ChoiceSymbols \cap Tristate = {} /\ Optional = {}

(* Such a choice is "y" wherever it can be seen.                           *)
LEMMA AndIsAtMost ==
  ASSUME NEW e \in Expressions, NEW f \in Expressions, NEW v,
         \A a \in Atoms(e) \cup Atoms(f) : v[a] \in Tri
  PROVE  Eval(And(e, f), v) <= Eval(e, v)
<1>1. And(e, f) \in Expressions /\ \A a \in Atoms(And(e, f)) : v[a] \in Tri
  BY AndIs
<1>2. Eval(e, v) \in Tri
  BY EvalIs
<1>3. CASE Eval(And(e, f), v) = No
  BY <1>2, <1>3 DEF Tri, No, Mod, Yes
<1>4. ASSUME NEW conj \in And(e, f), Eval(And(e, f), v) = Smallest(conj, v)
      PROVE  Eval(And(e, f), v) <= Eval(e, v)
  <2>1. PICK a \in e, b \in f : conj = a \cup b
    BY DEF And
  <2> DEFINE S == {l[2][v[l[1]]] : l \in a}
             T == {l[2][v[l[1]]] : l \in conj}
  <2>2. S \in SUBSET Tri /\ T \in SUBSET Tri /\ S \subseteq T
    BY <1>1, <2>1, ConjunctsAre
  <2>3. Smallest(a, v) = MinOf(S) /\ Smallest(conj, v) = MinOf(T)
    BY DEF Smallest
  <2>4. Smallest(a, v) <= Eval(e, v)
    BY <2>1, ConjunctsAre
  <2> HIDE DEF S, T
  <2>5. /\ MinOf(S) \in Tri /\ MinOf(S) \in S \cup {Yes}
        /\ MinOf(T) \in Tri /\ \A t \in T : MinOf(T) <= t
    BY <2>2, MostAre
  <2>6. MinOf(T) <= MinOf(S)
    BY <2>2, <2>5 DEF Tri, No, Mod, Yes
  <2> QED
    BY <1>2, <1>4, <2>3, <2>4, <2>5, <2>6 DEF Tri, No, Mod, Yes
<1> QED
  BY <1>1, <1>3, <1>4, ConjunctsAre

LEMMA ChoiceIsShown ==
  ASSUME BoolChoices, NEW c \in ChoiceSymbols, NEW v, v[M] = Mod,
         \A a \in Atoms(Prompt[c]) : v[a] \in Tri
  PROVE  /\ Eval(Prompt[c], v) \in Tri /\ Eval(Select[c], v) \in Tri
         /\ Eval(Select[c], v) = No <=> Eval(Prompt[c], v) = No
<1> DEFINE one == {{<<M, Identity>>}}
<1>1. Prompt[c] \in Expressions /\ one \in Expressions /\ c \in Symbols
  BY PromptIs, LiteralsAre, MembersAre
<1>2. Select[c] = And(Prompt[c], one)
  <2>1. \A d \in Selects : d.target # c
    BY ExpressionsAssumption, SymbolsAssumption
  <2>2. UNION {And(If(d.by), And(Base(d.by), d.when)) : d \in {d \in Selects : d.target = c}} = {}
    BY <2>1
  <2>3. c \in ChoiceSymbols \ Optional
    BY DEF BoolChoices
  <2> QED
    BY <1>1, <2>2, <2>3 DEF Select, Or
<1>3. Atoms(one) = {M} /\ Eval(one, v) = Mod
  <2>3. PICK l : l = <<M, Identity>>
    OBVIOUS
  <2>4. l[2][v[l[1]]] = Mod /\ one = {{l}} /\ l[1] = M
    BY <2>3 DEF Identity, Tri
  <2>2. Atoms(one) = {M}
    <3>1. UNION {{l}} = {l} /\ {x[1] : x \in {l}} = {M}
      BY <2>4
    <3> QED
      BY <2>4, <3>1 DEF Atoms
  <2>5. MinOf({Mod}) = Mod /\ MaxOf({Mod}) = Mod
    <3>1. {Mod} \in SUBSET Tri
      BY DEF Tri
    <3>2. /\ MinOf({Mod}) \in {Mod} \cup {Yes} /\ MinOf({Mod}) <= Mod
          /\ MaxOf({Mod}) \in {Mod} \cup {No} /\ Mod <= MaxOf({Mod})
      BY <3>1, MostAre
    <3> QED
      BY <3>2 DEF No, Mod, Yes
  <2>6. {MinOf({x[2][v[x[1]]] : x \in conj}) : conj \in one} = {MinOf({Mod})}
    <3>1. {x[2][v[x[1]]] : x \in {l}} = {Mod}
      BY <2>4
    <3>2. {MinOf({x[2][v[x[1]]] : x \in conj}) : conj \in {{l}}} = {MinOf({x[2][v[x[1]]] : x \in {l}})}
      OBVIOUS
    <3> QED
      BY <2>4, <3>1, <3>2
  <2> QED
    BY <2>2, <2>5, <2>6 DEF Eval
<1>4. \A a \in Atoms(Prompt[c]) \cup Atoms(one) : v[a] \in Tri
  BY <1>3 DEF Tri
<1>5. Eval(Prompt[c], v) \in Tri /\ Eval(Select[c], v) \in Tri
  <2>1. And(Prompt[c], one) \in Expressions /\ \A a \in Atoms(And(Prompt[c], one)) : v[a] \in Tri
    BY <1>1, <1>4, AndIs
  <2> QED
    BY <1>1, <1>2, <1>4, <2>1, EvalIs
<1>6. Eval(Select[c], v) <= Eval(Prompt[c], v)
  BY <1>1, <1>2, <1>4, AndIsAtMost
<1>7. Mod <= Eval(Prompt[c], v) => Mod <= Eval(Select[c], v)
  <2>1. Mod \in Tri /\ Mod <= Eval(one, v)
    BY <1>3 DEF Tri, Mod
  <2> HIDE DEF one
  <2> QED
    BY <1>1, <1>2, <1>4, <2>1, AndIsLeast
<1> QED
  BY <1>5, <1>6, <1>7 DEF Tri, No, Mod, Yes

LEMMA LimitedIs ==
  ASSUME NEW b \in Tri, NEW bool \in BOOLEAN
  PROVE  /\ Limited(b, No, No, bool) = No
         /\ Limited(b, Yes, Yes, bool) = Yes
         /\ Limited(No, Mod, No, bool) = No
<1>0. No \in Tri /\ Mod \in Tri /\ Yes \in Tri
  BY DEF Tri
<1>1. /\ Min({b, No}) = No /\ Min({No, Mod}) = No
      /\ Max({No, No}) = No
  <2>1. /\ Min({b, No}) = IF b <= No THEN b ELSE No
        /\ Min({No, Mod}) = IF No <= Mod THEN No ELSE Mod
        /\ Max({No, No}) = IF No >= No THEN No ELSE No
    BY <1>0, TwoAre
  <2> QED
    BY <2>1 DEF Tri, No, Mod, Yes
<1>2. PICK t \in Tri : t = Min({b, Yes})
  <2>1. Min({b, Yes}) = IF b <= Yes THEN b ELSE Yes
    BY <1>0, TwoAre
  <2> QED
    BY <1>0, <2>1
<1>3. Max({t, Yes}) = Yes
  <2>1. Max({t, Yes}) = IF t >= Yes THEN t ELSE Yes
    BY <1>0, <1>2, TwoAre
  <2> QED
    BY <2>1 DEF Tri, No, Mod, Yes
<1>4. Promote(No, bool) = No /\ Promote(Yes, bool) = Yes
  BY DEF Promote, No, Mod, Yes
<1> QED
  BY <1>1, <1>2, <1>3, <1>4 DEF Limited

(* How a bool choice that was calculated stands.                           *)
ChoiceOK(c) ==
  /\ tri[c] = Yes => visible[c] # No
  /\ tri[c] # Yes => tri[c] = No /\ (visible[c] = No \/ Passed(c, Len(Whom(c)) + 1))

LEMMA BoolChoiceShows ==
  ASSUME TypeInv, BoolChoices, NEW c \in ChoiceSymbols, Seen(c), Bounded(c)
  PROVE  \/ visible[c] = No /\ least[c] = No
         \/ visible[c] = Yes /\ least[c] = Yes
<1> DEFINE v == [a \in Atom |-> IF a = M THEN Mod ELSE tri[a]]
<1>0. c \in Symbols /\ c \notin Tristate /\ c \notin MemberSet /\ tri \in [Symbols -> Tri]
  BY MembersAre DEF BoolChoices, TypeInv, TypeOK, SymbolTypeOK
<1>1. /\ Prompt[c] \in Expressions /\ Select[c] \in Expressions
  BY <1>0, PromptIs, SelectIs
<1>2. PICK w : w = v
  OBVIOUS
<1>3. /\ Now(Prompt[c]) = Eval(Prompt[c], w) /\ Now(Select[c]) = Eval(Select[c], w)
      /\ \A a \in Atoms(Prompt[c]) : w[a] \in Tri
  BY <1>0, <1>1, <1>2, NowInOne
<1>4. w[M] = Mod
  BY <1>2 DEF Atom
<1>5. /\ Now(Prompt[c]) \in Tri /\ Now(Select[c]) \in Tri
      /\ (Now(Select[c]) = No <=> Now(Prompt[c]) = No)
  BY <1>3, <1>4, ChoiceIsShown
<1>6. /\ visible[c] = IF Now(Prompt[c]) = Mod THEN Yes ELSE Now(Prompt[c])
      /\ least[c] = IF Now(Select[c]) = Mod THEN Yes ELSE Now(Select[c])
  BY <1>0 DEF Seen, Bounded, Visible, IsBool, Promote
<1> QED
  BY <1>5, <1>6 DEF Tri, No, Mod, Yes

LEMMA ChoiceMeans ==
  ASSUME TypeInv, BoolChoices, NEW c \in ChoiceSymbols, Seen(c), Bounded(c), Decided(c),
         ChoiceOK(c), NEW r, Ranked(r), NEW f, Agrees(c, f), NEW mods
  PROVE  MeansOf(c, f, mods) = [tri |-> tri[c], pick |-> pick[c]]
<1>0. c \in Symbols /\ c \notin Tristate /\ c \notin MemberSet /\ user[c] \in Tri
  BY MembersAre DEF BoolChoices, TypeInv, TypeOK, SymbolTypeOK
<1>1. Atoms(Prompt[c]) \subseteq Needs[c] \cup {M} /\ Atoms(Select[c]) \subseteq Needs[c] \cup {M}
  BY <1>0, NeedsAre
<1>2. None \notin Atoms(Prompt[c]) \/ None = M
  <2>1. Atoms(Prompt[c]) \subseteq Symbols \cup {M}
    BY <1>0, <1>1, NeedsAre
  <2> QED
    BY <2>1, SymbolsAssumption
<1>3. None \notin Atoms(Select[c]) \/ None = M
  <2>1. Atoms(Select[c]) \subseteq Symbols \cup {M}
    BY <1>0, <1>1, NeedsAre
  <2> QED
    BY <2>1, SymbolsAssumption
<1>4. ShownOf(c, f, mods) = visible[c] /\ LeastOf(c, f, mods) = least[c]
  <2>1. Under(Prompt[c], None, f) = Now(Prompt[c])
    BY <1>1, <1>2, UnderIsNow DEF Seen
  <2>2. Under(Select[c], None, f) = Now(Select[c])
    BY <1>0, <1>1, <1>3, UnderIsNow DEF Bounded
  <2> QED
    BY <1>0, <2>1, <2>2 DEF ShownOf, LeastOf, BoolWith, Seen, Bounded, Visible, IsBool
<1>5. PICK b \in Tri : b = AskedOf(c)
  BY <1>0 DEF AskedOf, Tri
<1>6. LimitedOf(AskedOf(c), c, f, mods) = Limited(b, visible[c], least[c], BoolWith(c, mods))
  BY <1>4, <1>5 DEF LimitedOf, Limited
<1>7. BoolWith(c, mods) \in BOOLEAN
  BY DEF BoolWith
<1>8. CASE visible[c] = No /\ least[c] = No
  <2>1. LimitedOf(AskedOf(c), c, f, mods) = No
    BY <1>6, <1>7, <1>8, LimitedIs
  <2>2. MeansOf(c, f, mods) = [tri |-> No, pick |-> None]
    <3>1. LimitedOf(AskedOf(c), c, f, mods) # Yes
      BY <2>1 DEF No, Yes
    <3>2. MeansOf(c, f, mods) = [tri |-> LimitedOf(AskedOf(c), c, f, mods), pick |-> None]
      BY <1>0, <3>1, MeansIs
    <3> QED
      BY <2>1, <3>2
  <2>3. tri[c] = No /\ pick[c] = None
    BY <1>8 DEF ChoiceOK, Decided, No, Yes
  <2> QED
    BY <2>2, <2>3
<1>9. CASE visible[c] = Yes /\ least[c] = Yes
  <2>1. LimitedOf(AskedOf(c), c, f, mods) = Yes
    BY <1>6, <1>7, <1>9, LimitedIs
  <2>2. MeansOf(c, f, mods) = IF OpenOf(c, f) = {} THEN [tri |-> No, pick |-> None]
                              ELSE [tri |-> Yes, pick |-> Whom(c)[Min(OpenOf(c, f))].pick]
    BY <1>0, <2>1, MeansIs DEF No, Yes
  <2>3. wish[c] \in Range(Members[c]) \cup {None}
    BY DEF TypeInv, WishOK
  <2>4. PICK n \in Nat : n = Len(Whom(c)) /\ DOMAIN Whom(c) = 1..n
    BY <2>3, CandidatesAre DEF Whom
  <2>5. ASSUME NEW j \in 1..n, Known(c, j) PROVE j \in OpenOf(c, f) <=> IsOpen(c, j)
    <3>1. PICK e : e = Whom(c)[j].when
      OBVIOUS
    <3>2. PICK p : p = Prompt[Whom(c)[j].pick]
      OBVIOUS
    <3>3. Atoms(e) \subseteq Needs[c] \cup {M} /\ Atoms(p) \subseteq Needs[c] \cup {M, c}
      BY <2>3, <2>4, <3>1, <3>2, WhomNeeds DEF Whom
    <3>4. c \notin Atoms(e) \/ c = M
      <4>1. c \notin Needs[c]
        BY <1>0 DEF Ranked, IsRank
      <4> QED
        BY <3>3, <4>1
    <3>5. Under(e, c, f) = Now(e)
      BY <2>5, <3>1, <3>3, <3>4, UnderIsNow DEF Known
    <3>6. Now(e) # No => Under(p, c, f) = Among(c, p)
      BY <2>5, <3>1, <3>2, <3>3, UnderIsAmong DEF Known
    <3>7. IsOpen(c, j) <=> Now(e) # No /\ Among(c, p) # No
      BY <3>1, <3>2 DEF IsOpen
    <3>8. j \in OpenOf(c, f) <=> Under(e, c, f) # No /\ Under(p, c, f) # No
      BY <2>4, <3>1, <3>2 DEF OpenOf
    <3> QED
      BY <3>5, <3>6, <3>7, <3>8
  <2>6. CASE tri[c] = Yes
    <3>1. PICK k \in 1..n : FallsOn(c, k)
      BY <2>4, <2>6 DEF Decided
    <3>2. k \in OpenOf(c, f)
      BY <2>5, <3>1 DEF FallsOn
    <3>3. \A j \in 1..n : j < k => j \notin OpenOf(c, f)
      <4>1. \A j \in 1..n : j < k => j \in 1..(k - 1)
        OBVIOUS
      <4> QED
        BY <2>5, <3>1, <4>1 DEF FallsOn, Passed
    <3>4. OpenOf(c, f) \subseteq 1..n
      BY <2>4 DEF OpenOf
    <3>5. PICK O : O = OpenOf(c, f)
      OBVIOUS
    <3>6. \A j \in O : k <= j
      BY <3>3, <3>4, <3>5
    <3>7. Min(O) = k
      BY <3>2, <3>4, <3>5, <3>6 DEF Min
    <3>8. MeansOf(c, f, mods) = [tri |-> Yes, pick |-> Whom(c)[k].pick]
      BY <2>2, <3>2, <3>5, <3>7
    <3> QED
      BY <2>6, <3>1, <3>8 DEF FallsOn
  <2>7. CASE tri[c] # Yes
    <3>1. tri[c] = No /\ pick[c] = None /\ Passed(c, n + 1)
      BY <1>9, <2>4, <2>7 DEF ChoiceOK, Decided, No, Yes
    <3>2. \A j \in 1..n : Known(c, j) /\ ~IsOpen(c, j)
      BY <3>1 DEF Passed
    <3>3. OpenOf(c, f) = {}
      <4>1. OpenOf(c, f) \subseteq 1..n
        BY <2>4 DEF OpenOf
      <4> QED
        BY <2>5, <3>2, <4>1
    <3> QED
      BY <2>2, <3>1, <3>3
  <2> QED
    BY <2>6, <2>7
<1> QED
  BY <1>8, <1>9, BoolChoiceShows

(* A value of a choice.                                                    *)
LEMMA NoDefaultOf ==
  ASSUME ValuesArePlain, NEW m \in MemberSet, NEW f
  PROVE  DefaultOf(m, f) = No
<1>0. m \in Symbols /\ Defaults[m] = <<>>
  BY MembersAre DEF ValuesArePlain
<1>1. DOMAIN ConditionsOf(m, f) = {}
  BY <1>0, DefaultIs DEF ConditionsOf
<1>2. FirstOf(m, f) = 0
  BY <1>1, NoFirst DEF FirstOf
<1> QED
  BY <1>2 DEF DefaultOf

LEMMA MemberMeans ==
  ASSUME TypeInv, ValuesArePlain, NEW m \in MemberSet, Seen(m), Valued(m), least[m] = No,
         NEW f, Agrees(m, f), NEW mods, BoolWith(m, mods) <=> BoolWith(m, modulesVal)
  PROVE  MeansOf(m, f, mods).tri = tri[m]
<1>0. /\ m \in Symbols /\ m \in Options /\ m \notin ChoiceSymbols
      /\ ChoiceOf(m) \in ChoiceSymbols /\ ChoiceOf(m) \in Symbols
      /\ user[m] \in Tri /\ visible[m] \in Tri
  BY MembersAre DEF TypeInv, TypeOK, SymbolTypeOK
<1>1. ShownOf(m, f, mods) = visible[m]
  <2>1. Atoms(Prompt[m]) \subseteq Needs[m] \cup {M} /\ Atoms(Prompt[m]) \subseteq Symbols \cup {M}
    BY <1>0, NeedsAre
  <2>2. Under(Prompt[m], None, f) = Now(Prompt[m])
    BY <2>1, UnderIsNow, SymbolsAssumption DEF Seen
  <2> QED
    BY <2>2 DEF ShownOf, BoolWith, Seen, Visible
<1>2. DefaultOf(m, f) = No /\ DefaultValue(m) = No
  BY NoDefaultOf, NoDefaultValue
<1>3. PICK b \in Tri : b = BaseOf(m, f)
  BY <1>0, <1>2 DEF BaseOf, Tri
<1>4. tri[m] = NewValue(m)
  BY DEF Valued
<1>5. CASE visible[m] = Yes
  <2>1. MeansOf(m, f, mods).tri = IF f[ChoiceOf(m)].pick = m THEN Yes ELSE No
    BY <1>0, <1>1, <1>5, MeansIs
  <2>2. NewValue(m) = IF pick[ChoiceOf(m)] = m THEN Yes ELSE No
    BY <1>5 DEF NewValue, No, Yes
  <2>3. Now(Prompt[m]) # No
    BY <1>5 DEF Seen, Visible, Promote, No, Mod, Yes
  <2>4. ChoiceOf(m) \in Atoms(Prompt[m]) /\ ChoiceOf(m) # M
    BY <1>0, <2>3, ValueNamesChoice, SymbolsAssumption
  <2>5. ChoiceOf(m) \in Needs[m] \cap Settled
    BY <1>0, <2>4, NeedsAre DEF Seen, Fixed
  <2> QED
    BY <1>0, <1>4, <2>1, <2>2, <2>5 DEF Agrees
<1>6. CASE visible[m] = No
  <2>1. MeansOf(m, f, mods).tri = Promote(Min({b, No}), BoolWith(m, mods))
    <3>1. ShownOf(m, f, mods) # Yes
      BY <1>1, <1>6 DEF No, Yes
    <3>2. MeansOf(m, f, mods).tri =
            Promote(Min({BaseOf(m, f), ShownOf(m, f, mods)}), BoolWith(m, mods))
      BY <1>0, <3>1, MeansIs
    <3> QED
      BY <1>1, <1>3, <1>6, <3>2
  <2>2. Min({b, No}) = No
    <3>1. Min({b, No}) = IF b <= No THEN b ELSE No
      BY TwoAre DEF Tri
    <3> QED
      BY <3>1 DEF Tri, No, Mod, Yes
  <2>3. \A bool : Promote(No, bool) = No
    BY DEF Promote, No, Mod
  <2>4. UsesDefault(m)
    BY <1>0, <1>6 DEF UsesDefault, No, Yes
  <2>5. NewValue(m) = Promote(DefaultValue(m), IsBool(m))
    BY <1>0, <1>6, <2>4 DEF NewValue, No, Yes
  <2> QED
    BY <1>2, <1>4, <2>1, <2>2, <2>3, <2>5
<1>7. CASE visible[m] = Mod
  <2>1. MeansOf(m, f, mods).tri = Promote(Min({b, Mod}), BoolWith(m, mods))
    <3>1. ShownOf(m, f, mods) # Yes
      BY <1>1, <1>7 DEF Mod, Yes
    <3>2. MeansOf(m, f, mods).tri =
            Promote(Min({BaseOf(m, f), ShownOf(m, f, mods)}), BoolWith(m, mods))
      BY <1>0, <3>1, MeansIs
    <3> QED
      BY <1>1, <1>3, <1>7, <3>2
  <2>2. BaseValue(m) = b
    <3>1. UsesDefault(m) <=> m \in fresh
      BY <1>0, <1>7 DEF UsesDefault, No, Mod, Yes
    <3> QED
      BY <1>2, <1>3, <3>1 DEF BaseValue, BaseOf
  <2>3. NewValue(m) = Promote(Max({Min({b, Mod}), No}), IsBool(m))
    <3>1. NewValue(m) = Promote(Max({Min({BaseValue(m), visible[m]}), least[m]}), IsBool(m))
      BY <1>7 DEF NewValue, BaseValue, No, Mod, Yes
    <3> QED
      BY <1>7, <2>2, <3>1
  <2>4. PICK t \in Tri : t = Min({b, Mod})
    <3>1. Min({b, Mod}) = IF b <= Mod THEN b ELSE Mod
      BY TwoAre DEF Tri
    <3> QED
      BY <3>1 DEF Tri
  <2>5. Max({t, No}) = t
    <3>1. Max({t, No}) = IF t >= No THEN t ELSE No
      BY TwoAre DEF Tri
    <3> QED
      BY <3>1 DEF Tri, No, Mod, Yes
  <2>6. NewValue(m) = Promote(t, IsBool(m)) /\ MeansOf(m, f, mods).tri = Promote(t, BoolWith(m, mods))
    BY <2>1, <2>3, <2>4, <2>5
  <2>7. IsBool(m) <=> BoolWith(m, mods)
    BY <1>7 DEF IsBool, BoolWith, Mod, Yes
  <2> QED
    BY <1>4, <2>6, <2>7 DEF Promote
<1> QED
  BY <1>0, <1>5, <1>6, <1>7 DEF Tri

(* Any other option.                                                       *)
LEMMA DefaultMeans ==
  ASSUME NEW s \in Options, FixedDefault(s), NEW f, Agrees(s, f)
  PROVE  DefaultOf(s, f) = DefaultValue(s)
<1>0. s \in Symbols /\ Needs[s] \subseteq Symbols
  BY MembersAre, NeedsAre
<1>1. \A i \in DOMAIN Default[s] : /\ Atoms(Default[s][i].when) \subseteq Needs[s] \cup {M}
                                   /\ Atoms(Default[s][i].value) \subseteq Needs[s] \cup {M}
  BY <1>0, NeedsAre
<1>2. \A e : Atoms(e) \subseteq Needs[s] \cup {M} => None \notin Atoms(e) \/ None = M
  BY <1>0, SymbolsAssumption
<1>3. \A e : Atoms(e) \subseteq Needs[s] \cup {M} /\ Fixed(e) => Under(e, None, f) = Now(e)
  BY <1>2, UnderIsNow
<1>4. PICK n \in Nat : DOMAIN Default[s] = 1..n
  BY <1>0, DefaultIs
<1>5. PICK g : g = Conditions(s)
  OBVIOUS
<1>6. PICK h : h = ConditionsOf(s, f)
  OBVIOUS
<1>7. /\ DOMAIN g = 1..n /\ DOMAIN h = 1..n
      /\ \A i \in 1..n : g[i] = Now(Default[s][i].when) /\ h[i] = Under(Default[s][i].when, None, f)
  BY <1>4, <1>5, <1>6 DEF Conditions, ConditionsOf
<1>8. PICK i : i = First(s)
  OBVIOUS
<1>9. FirstDefault(g) = i
  BY <1>5, <1>8 DEF First
<1>10. \A j \in 1..n : i = 0 \/ j <= i => h[j] = g[j]
  BY <1>1, <1>3, <1>4, <1>7, <1>8 DEF FixedDefault
<1>11. FirstDefault(h) = i
  BY <1>7, <1>9, <1>10, FirstIs
<1>12. FirstOf(s, f) = i
  BY <1>6, <1>11 DEF FirstOf
<1>13. i = 0 \/ i \in 1..n
  BY <1>7, <1>9, FirstDefaultIs
<1>14. i # 0 => Under(Default[s][i].value, None, f) = Now(Default[s][i].value)
  BY <1>1, <1>3, <1>4, <1>8, <1>13 DEF FixedDefault
<1>15. DefaultValue(s) = IF i = 0 THEN No ELSE Now(Default[s][i].value)
  BY <1>8 DEF DefaultValue, First, Conditions
<1>16. DefaultOf(s, f) = IF i = 0 THEN No ELSE Under(Default[s][i].value, None, f)
  BY <1>12 DEF DefaultOf
<1> QED
  BY <1>14, <1>15, <1>16

LEMMA OptionMeans ==
  ASSUME TypeInv, NEW s \in Options, s \notin MemberSet, Seen(s), Bounded(s), Valued(s),
         NEW f, Agrees(s, f), NEW mods, BoolWith(s, mods) <=> BoolWith(s, modulesVal)
  PROVE  MeansOf(s, f, mods).tri = tri[s]
<1>0. s \in Symbols /\ s \notin ChoiceSymbols
  BY SymbolsAssumption DEF Symbols
<1>1. \A e : Atoms(e) \subseteq Needs[s] \cup {M} => None \notin Atoms(e) \/ None = M
  <2>1. Needs[s] \subseteq Symbols
    BY <1>0, NeedsAre
  <2> QED
    BY <2>1, SymbolsAssumption
<1>2. PICK b : b = BoolWith(s, mods)
  OBVIOUS
<1>3. ShownOf(s, f, mods) = visible[s] /\ LeastOf(s, f, mods) = least[s]
  <2>1. Atoms(Prompt[s]) \subseteq Needs[s] \cup {M} /\ Atoms(Select[s]) \subseteq Needs[s] \cup {M}
    BY <1>0, NeedsAre
  <2>2. Under(Prompt[s], None, f) = Now(Prompt[s])
    BY <1>1, <2>1, UnderIsNow DEF Seen
  <2>3. Under(Select[s], None, f) = Now(Select[s])
    BY <1>1, <2>1, UnderIsNow DEF Bounded
  <2> QED
    BY <2>2, <2>3 DEF ShownOf, LeastOf, BoolWith, Seen, Bounded, Visible, IsBool
<1>4. IsBool(s) <=> BoolWith(s, mods)
  BY DEF IsBool, BoolWith
<1>5. tri[s] = NewValue(s)
  BY DEF Valued
<1>6. CASE visible[s] = No /\ least[s] = No
  <2>1. UsesDefault(s)
    BY <1>0, <1>6 DEF UsesDefault
  <2>2. DefaultOf(s, f) = DefaultValue(s)
    BY <2>1, DefaultMeans DEF Valued
  <2>3. MeansOf(s, f, mods).tri = Promote(DefaultOf(s, f), BoolWith(s, mods))
    <3>1. ShownOf(s, f, mods) = No /\ LeastOf(s, f, mods) = No
      BY <1>3, <1>6
    <3> QED
      BY <1>0, <3>1, MeansIs
  <2>4. NewValue(s) = Promote(DefaultValue(s), IsBool(s))
    BY <1>0, <1>6, <2>1 DEF NewValue
  <2> QED
    BY <1>4, <1>5, <2>2, <2>3, <2>4 DEF Promote
<1>7. CASE ~(visible[s] = No /\ least[s] = No)
  <2>1. UsesDefault(s) <=> s \in fresh
    BY <1>0, <1>7 DEF UsesDefault
  <2>2. PICK base : base = BaseOf(s, f)
    OBVIOUS
  <2>3. BaseValue(s) = base
    <3>1. s \in fresh => DefaultOf(s, f) = DefaultValue(s)
      BY <2>1, DefaultMeans DEF Valued
    <3> QED
      BY <2>1, <2>2, <3>1 DEF BaseValue, BaseOf
  <2>4. NewValue(s) = Promote(Max({Min({base, visible[s]}), least[s]}), IsBool(s))
    <3>1. NewValue(s) = Promote(Max({Min({BaseValue(s), visible[s]}), least[s]}), IsBool(s))
      BY <1>7 DEF NewValue, BaseValue
    <3> QED
      BY <2>3, <3>1
  <2>5. MeansOf(s, f, mods).tri = LimitedOf(BaseOf(s, f), s, f, mods)
    BY <1>0, <1>3, <1>7, MeansIs
  <2>6. LimitedOf(base, s, f, mods) =
          Promote(Max({Min({base, visible[s]}), least[s]}), BoolWith(s, mods))
    BY <1>3 DEF LimitedOf
  <2> QED
    BY <1>4, <1>5, <2>2, <2>4, <2>5, <2>6 DEF Promote
<1> QED
  BY <1>6, <1>7

(* Bool choices, however far they are calculated: a choice that is not "y" *)
(* cannot be seen or none of its values can.                               *)
ChoiceInv ==
  /\ \A c \in ChoiceSymbols \cap Settled : ChoiceOK(c)
  /\ \A f \in Open : f.stage = "choose" => visible[f.sym] # No
  /\ Modules = None => modulesVal = No

LEMMA ChoiceKept ==
  ASSUME TypeInv, NEW T, Quiet(T), NEW c \in ChoiceSymbols, c # T, Seen(c), ChoiceOK(c)
  PROVE  ChoiceOK(c)'
<1>0. c \in Symbols \ {T}
  BY MembersAre
<1>1. tri'[c] = tri[c] /\ visible'[c] = visible[c]
  BY <1>0, SeenKept DEF Quiet
<1>2. PICK n : n = Len(Whom(c)) + 1
  OBVIOUS
<1>3. Len(Whom(c)') + 1 = n
  BY <1>2 DEF Whom, Candidates, Quiet, asked
<1>4. Passed(c, n) => Passed(c, n)'
  BY PassedKept
<1> QED
  BY <1>1, <1>2, <1>3, <1>4 DEF ChoiceOK

LEMMA ChoicesKept ==
  ASSUME TypeInv, CacheInv, ChoiceInv, NEW T, Quiet(T),
         \A f \in Open' : f.stage = "choose" =>
           (f \in Open /\ f.sym # T) \/ visible'[f.sym] # No,
         \A c \in ChoiceSymbols \cap Settled' : c \in Settled \/ ChoiceOK(c)'
  PROVE  ChoiceInv'
<1>1. ASSUME NEW c \in ChoiceSymbols, c \in Settled' PROVE ChoiceOK(c)'
  <2>1. CASE c \in Settled
    <3>1. c # T /\ Seen(c) /\ ChoiceOK(c)
      BY <2>1 DEF Quiet, CacheInv, SymbolOK, ChoiceInv
    <3> QED
      BY <3>1, ChoiceKept
  <2> QED
    BY <1>1, <2>1
<1>2. ASSUME NEW f \in Open', f.stage = "choose" PROVE visible'[f.sym] # No
  <2>1. CASE f \in Open /\ f.sym # T
    <3>1. f \in Calling /\ f.sym \in Symbols \ {T}
      BY <2>1 DEF Open, TypeInv, Calling, Frame
    <3>2. Seen(f.sym) /\ visible[f.sym] # No
      BY <1>2, <2>1 DEF CacheInv, CallOK, ChoiceInv
    <3>3. PICK s \in Symbols \ {T} : s = f.sym
      BY <3>1
    <3>4. visible'[s] = visible[s]
      BY <3>2, <3>3, SeenKept
    <3> QED
      BY <3>2, <3>3, <3>4
  <2> QED
    BY <1>2, <2>1
<1>3. modulesVal' = modulesVal
  BY DEF Quiet
<1> QED
  BY <1>1, <1>2, <1>3 DEF ChoiceInv

LEMMA EnteredChoices ==
  ASSUME TypeInv, CacheInv, ChoiceInv, NEW r, Ranked(r), Below(r), NEW d \in Symbols, d \notin valid,
         stack # <<>> => r[d] < r[Top.sym], Enter(d), UNCHANGED <<asked, kept>>
  PROVE  ChoiceInv'
<1>1. Quiet(d) /\ Settled' = Settled
  BY NewCallKept
<1>2. PICK g : g = Call(d)
  OBVIOUS
<1>3. g \in Calling /\ g.stage = "visible" /\ stack' = <<g>> \o stack /\ stack \in Seq(Calling)
  BY <1>2 DEF Call, Calling, Frame, Enter, TypeInv
<1>4. \A f \in Open' : f = g \/ f \in Open
  <2>1. /\ Len(stack) \in Nat /\ Len(stack') = Len(stack) + 1 /\ stack'[1] = g
        /\ \A i \in 2..Len(stack') : stack'[i] = stack[i - 1]
    BY <1>3, PushedIs
  <2>2. DOMAIN stack' = 1..Len(stack') /\ DOMAIN stack = 1..Len(stack)
    <3>1. stack' \in Seq(Calling)
      BY <1>3
    <3> QED
      BY <1>3, <3>1
  <2>3. ASSUME NEW i \in DOMAIN stack' PROVE stack'[i] = g \/ \E j \in DOMAIN stack : stack'[i] = stack[j]
    <3>1. CASE i = 1
      BY <2>1, <3>1
    <3>2. CASE i # 1
      <4>1. i \in 2..Len(stack') /\ i - 1 \in DOMAIN stack
        BY <2>1, <2>2, <2>3, <3>2
      <4> QED
        BY <2>1, <4>1
    <3> QED
      BY <3>1, <3>2
  <2> QED
    BY <2>3 DEF Open
<1>5. \A f \in Open : f.sym # d
  BY DEF CacheInv, CallOK
<1> QED
  BY <1>1, <1>3, <1>4, <1>5, ChoicesKept

LEMMA GoneOnChoices ==
  ASSUME TypeInv, CacheInv, ChoiceInv, NEW r, Ranked(r), Below(r), stack # <<>>, valid' = valid,
         NEW s, s = Top.sym, Quiet(s),
         NEW g \in Calling, g.sym = s, stack' = <<g>> \o Tail(stack),
         g.stage = "choose" => visible'[s] # No
  PROVE  ChoiceInv'
<1>1. Settled' = Settled /\ \A f \in Open' : f = g \/ (f \in Open /\ f.sym # s)
  BY GoingOnIs
<1> QED
  BY <1>1, ChoicesKept

LEMMA ReturnedChoices ==
  ASSUME TypeInv, CacheInv, ChoiceInv, NEW r, Ranked(r), Below(r), stack # <<>>, valid' = valid,
         NEW s, s = Top.sym, Quiet(s), Return, s \in ChoiceSymbols => ChoiceOK(s)'
  PROVE  ChoiceInv'
<1>1. /\ Settled' = Settled \cup {s}
      /\ \A f \in Open' : f \in Open /\ f.sym # s
  BY ReturnIs
<1> QED
  BY <1>1, ChoicesKept

(* A bool choice is "y" if it can be seen, "n" otherwise.                  *)
LEMMA ChoiceNewValue ==
  ASSUME TypeInv, BoolChoices, NEW c \in ChoiceSymbols, Seen(c), Bounded(c)
  PROVE  \/ visible[c] # No /\ NewValue(c) = Yes
         \/ visible[c] = No /\ NewValue(c) = No
<1>0. c \notin MemberSet /\ c \in Symbols /\ user[c] \in Tri
  BY MembersAre DEF TypeInv, TypeOK, SymbolTypeOK
<1>1. PICK bool \in BOOLEAN : bool = IsBool(c)
  <2>1. IsBool(c) \in BOOLEAN
    BY DEF IsBool
  <2> QED
    BY <2>1
<1>2. CASE visible[c] = No /\ least[c] = No
  <2>1. NewValue(c) = Promote(No, IsBool(c))
    BY <1>0, <1>2 DEF NewValue
  <2> QED
    BY <1>2, <2>1 DEF Promote, No, Mod
<1>3. CASE visible[c] = Yes /\ least[c] = Yes
  <2>1. PICK b \in Tri : b = IF UsesDefault(c) THEN DefaultValue(c)
                             ELSE IF c \in fresh THEN No ELSE user[c]
    <3>1. ~UsesDefault(c)
      BY DEF UsesDefault
    <3> QED
      BY <1>0, <3>1 DEF Tri
  <2>2. NewValue(c) = Promote(Max({Min({b, visible[c]}), least[c]}), IsBool(c))
    BY <1>0, <1>3, <2>1 DEF NewValue, No, Yes
  <2>3. NewValue(c) = Limited(b, Yes, Yes, bool)
    BY <1>1, <1>3, <2>2 DEF Limited
  <2> QED
    BY <1>3, <2>3, LimitedIs DEF No, Yes
<1> QED
  BY <1>2, <1>3, BoolChoiceShows

LEMMA ValuedChoices ==
  ASSUME TypeInv, CacheInv, ChoiceInv, BoolChoices, NEW r, Ranked(r), Below(r), NEW s, s = Top.sym,
         CalcValue, modulesVal' = modulesVal
  PROVE  ChoiceInv'
<1>0. /\ stack # <<>> /\ Top.stage = "value" /\ valid' = valid /\ visible' = visible
      /\ tri' = [tri EXCEPT ![s] = NewValue(s)] /\ Quiet(s)
  BY CalcValueKeeps DEF CalcValue, Running
<1>1. s \in Symbols /\ Top \in Calling /\ CallOK(Top)
  BY <1>0, InnermostIs, InnermostOK
<1>2. tri'[s] = NewValue(s)
  BY <1>0, <1>1 DEF TypeInv, TypeOK, SymbolTypeOK
<1>3. s \in ChoiceSymbols => \/ visible[s] # No /\ NewValue(s) = Yes
                             \/ visible[s] = No /\ NewValue(s) = No
  BY <1>0, <1>1, ChoiceNewValue DEF CallOK
<1>4. CASE s \in ChoiceSymbols /\ NewValue(s) = Yes
  <2>1. PICK g : g = [Top EXCEPT !.stage = "choose"]
    OBVIOUS
  <2>2. g \in Calling /\ g.sym = s
    BY <1>1, <1>4, <2>1, StageIs
  <2>3. stack' = <<g>> \o Tail(stack)
    BY <1>4, <2>1 DEF CalcValue, Goto
  <2>4. visible'[s] # No
    BY <1>0, <1>3, <1>4 DEF No, Yes
  <2> QED
    BY <1>0, <2>2, <2>3, <2>4, GoneOnChoices
<1>5. CASE ~(s \in ChoiceSymbols /\ NewValue(s) = Yes)
  <2>1. Return
    BY <1>5 DEF CalcValue
  <2>2. s \in ChoiceSymbols => ChoiceOK(s)'
    BY <1>0, <1>2, <1>3, <1>5 DEF ChoiceOK, No, Yes
  <2> QED
    BY <1>0, <2>1, <2>2, ReturnedChoices
<1> QED
  BY <1>4, <1>5

LEMMA ChosenChoices ==
  ASSUME TypeInv, CacheInv, ChoiceInv, NEW r, Ranked(r), Below(r), NEW c, c = Top.sym, Choose
  PROVE  ChoiceInv'
<1>0. /\ stack # <<>> /\ Top.stage = "choose" /\ Needed = {} /\ valid' = valid /\ wish' = wish
      /\ Quiet(c) /\ c \in ChoiceSymbols
  BY ChooseKeeps DEF Choose, Running, asked
<1>1. c \in Symbols /\ Top \in Calling /\ CallOK(Top) /\ Top \in Open
  BY <1>0, InnermostIs, InnermostOK
<1>2. PICK k : k = Top.at
  OBVIOUS
<1>3. /\ tri[c] = Yes /\ visible[c] # No /\ Passed(c, k) /\ k <= Len(Whom(c)) + 1
      /\ k \in Nat \ {0}
  BY <1>0, <1>1, <1>2, CallIs DEF CallOK, ChoiceInv
<1>4. PICK n \in Nat : n = Len(Whom(c))
  <2>1. wish[c] \in Range(Members[c]) \cup {None}
    BY <1>0 DEF TypeInv, WishOK
  <2> QED
    BY <1>0, <2>1, CandidatesAre DEF Whom
<1>5. CASE Exhausted /\ tri' = [tri EXCEPT ![c] = No] /\ Return
  <2>1. k = n + 1
    BY <1>2, <1>3, <1>4, <1>5 DEF Exhausted, Whom
  <2>2. Passed(c, k)'
    BY <1>0, <1>3, PassedKept
  <2>3. Len(Whom(c)') + 1 = k
    BY <1>0, <1>4, <2>1 DEF Whom, Candidates
  <2>4. tri'[c] = No
    BY <1>1, <1>5 DEF TypeInv, TypeOK, SymbolTypeOK
  <2>5. ChoiceOK(c)'
    BY <2>2, <2>3, <2>4 DEF ChoiceOK, No, Yes
  <2> QED
    BY <1>0, <1>5, <2>5, ReturnedChoices
<1>6. ASSUME visible'[c] = visible[c], stack' = << [Top EXCEPT !.at = @ + 1] >> \o Tail(stack)
      PROVE  ChoiceInv'
  <2>1. PICK g : g = [Top EXCEPT !.at = @ + 1]
    OBVIOUS
  <2>2. g \in Calling /\ g.sym = c
    BY <1>0, <1>1, <2>1 DEF Calling, Frame
  <2>3. stack' = <<g>> \o Tail(stack)
    BY <1>6, <2>1
  <2> QED
    BY <1>0, <1>3, <1>6, <2>2, <2>3, GoneOnChoices
<1>7. CASE /\ ~Exhausted /\ Now(Candidate.when) = No /\ UNCHANGED visible
           /\ stack' = << [Top EXCEPT !.at = @ + 1] >> \o Tail(stack)
  BY <1>6, <1>7
<1>8. ASSUME ~Exhausted, UNCHANGED tri, NEW v, v = Visible(Candidate.pick),
             visible' = [visible EXCEPT ![Candidate.pick] = v],
             \/ stack' = << [Top EXCEPT !.at = @ + 1] >> \o Tail(stack)
             \/ Return
      PROVE  ChoiceInv'
  <2>1. Candidate.pick # c
    BY <1>0, <1>2, <1>8, CandidateKnown
  <2>2. visible'[c] = visible[c]
    BY <1>1, <1>8, <2>1 DEF TypeInv, TypeOK, SymbolTypeOK
  <2>3. CASE Return
    <3>1. ChoiceOK(c)'
      BY <1>3, <1>8, <2>2 DEF ChoiceOK
    <3> QED
      BY <1>0, <2>3, <3>1, ReturnedChoices
  <2> QED
    BY <1>6, <1>8, <2>2, <2>3
<1> QED
  BY <1>5, <1>7, <1>8 DEF Choose

LEMMA CalculatedChoices ==
  ASSUME TypeInv, CacheInv, StackInv, ChoiceInv, BoolChoices, ModulesIsPlain,
         NEW r, Ranked(r), Below(r), Calculate
  PROVE  ChoiceInv'
<1>0. ModulesOK /\ stack # <<>>
  BY DEF CacheInv, Calculate, Recurse, CalcVisible, CalcReverse, CalcValue, Choose, Running
<1>a. PICK s : s = Top.sym
  OBVIOUS
<1>b. Top \in Calling /\ s \in Symbols /\ CallOK(Top) /\ s \notin Settled
  BY <1>0, <1>a, CallIs, InnermostOK, InnermostIs
<1>1. CASE Recurse
  <2>1. PICK d \in Needed : Enter(d)
    BY <1>1 DEF Recurse
  <2>2. d \in Needs[s] /\ Needs[s] \subseteq Symbols
    BY <1>0, <1>a, <1>b, <2>1, NeededIn, NeedsAre
  <2>3. r[d] < r[s] /\ d \in Symbols
    BY <1>b, <2>2 DEF Ranked, IsRank
  <2>4. d \notin valid /\ UNCHANGED <<asked, kept>>
    BY <1>0, <1>1, <2>1, NeededIsNotValid DEF Recurse
  <2> QED
    BY <1>a, <2>1, <2>3, <2>4, EnteredChoices
<1>2. CASE CalcVisible
  <2>1. Quiet(s) /\ valid' = valid
    BY <1>a, <1>2, CalcVisibleKeeps DEF CalcVisible
  <2>2. PICK stage \in {"reverse", "value"} : stack' = << [Top EXCEPT !.stage = stage] >> \o Tail(stack)
    BY <1>2 DEF CalcVisible, Goto
  <2>3. PICK g : g = [Top EXCEPT !.stage = stage]
    OBVIOUS
  <2>4. g \in Calling /\ g.sym = s /\ g.stage # "choose"
    BY <1>a, <1>b, <2>2, <2>3, StageIs
  <2> QED
    BY <1>0, <1>a, <2>1, <2>2, <2>3, <2>4, GoneOnChoices
<1>3. CASE CalcReverse
  <2>1. Quiet(s) /\ valid' = valid
    BY <1>a, <1>3, CalcReverseKeeps DEF CalcReverse
  <2>2. stack' = << [Top EXCEPT !.stage = "value"] >> \o Tail(stack)
    BY <1>3 DEF CalcReverse, Goto
  <2>3. PICK g : g = [Top EXCEPT !.stage = "value"]
    OBVIOUS
  <2>4. g \in Calling /\ g.sym = s /\ g.stage # "choose"
    BY <1>a, <1>b, <2>3, StageIs
  <2> QED
    BY <1>0, <1>a, <2>1, <2>2, <2>3, <2>4, GoneOnChoices
<1>4. CASE CalcValue
  <2>0. /\ valid' = valid /\ visible' = visible /\ Top.stage = "value"
        /\ modulesVal' = IF s = Modules THEN NewValue(s) ELSE modulesVal
    BY <1>a, <1>4 DEF CalcValue, Running
  <2>1. CASE s = Modules /\ Modules # None /\ Settled = {} /\ Tail(stack) = <<>>
    <3>1. s \notin ChoiceSymbols
      BY <2>1, ModulesNeeds
    <3>2. Return
      BY <1>a, <1>4, <3>1 DEF CalcValue
    <3>3. Settled' = {s}
      BY <1>0, <1>a, <2>0, <2>1, <3>2, ReturnIs
    <3>4. Open' = {}
      BY <2>1, <3>2 DEF Return, Open
    <3> QED
      BY <2>1, <3>1, <3>3, <3>4 DEF ChoiceInv
  <2>2. CASE s = Modules /\ Modules # None /\ ~(Settled = {} /\ Tail(stack) = <<>>)
    <3>1. modulesVal = No /\ Modules \in fresh
      BY <1>0, <1>a, <1>b, <2>2 DEF ModulesOK
    <3>2. NewValue(s) = No
      BY <1>0, <1>a, <2>0, <2>2, <3>1, ModulesFresh
    <3>3. modulesVal' = modulesVal
      BY <2>0, <2>2, <3>1, <3>2
    <3> QED
      BY <1>a, <1>4, <3>3, ValuedChoices
  <2>3. CASE ~(s = Modules /\ Modules # None)
    <3>1. modulesVal' = modulesVal
      BY <1>b, <2>0, <2>3, SymbolsAssumption
    <3> QED
      BY <1>a, <1>4, <3>1, ValuedChoices
  <2> QED
    BY <2>1, <2>2, <2>3
<1>5. CASE Choose
  BY <1>a, <1>5, ChosenChoices
<1> QED
  BY <1>1, <1>2, <1>3, <1>4, <1>5 DEF Calculate

LEMMA ClearedChoices ==
  ASSUME ChoiceInv, ClearAllValid, modulesVal' = modulesVal PROVE ChoiceInv'
<1>1. CASE Modules = None
  <2>1. Settled' = {} /\ Open' = {}
    BY <1>1 DEF ClearAllValid, Settled, Open
  <2> QED
    BY <2>1 DEF ChoiceInv
<1>2. CASE Modules # None
  <2>1. PICK g : g = Call(Modules)
    OBVIOUS
  <2>2. valid' = {Modules} /\ stack' = <<g>>
    BY <1>2, <2>1 DEF ClearAllValid
  <2>3. DOMAIN stack' = {1} /\ stack'[1] = g
    BY <2>2
  <2>4. Open' = {g} /\ g.sym = Modules /\ g.stage = "visible"
    BY <2>1, <2>3 DEF Open, Call
  <2>5. Settled' = {}
    BY <2>2, <2>4 DEF Settled, OnStack
  <2> QED
    BY <1>2, <2>4, <2>5 DEF ChoiceInv
<1> QED
  BY <1>1, <1>2

LEMMA StillChoices ==
  ASSUME ChoiceInv, Still,
         \A c \in ChoiceSymbols \cap Settled : wish'[c] = wish[c] \/ (tri[c] = Yes /\ visible[c] # No)
  PROVE  ChoiceInv'
<1>0. UNCHANGED <<valid, tri, pick, visible, least, modulesVal, stack>>
  BY DEF Still, kept
<1>1. Settled' = Settled /\ Open' = Open
  BY StillKept
<1>2. ASSUME NEW c \in ChoiceSymbols, c \in Settled PROVE ChoiceOK(c)'
  <2>0. ChoiceOK(c)
    BY <1>2 DEF ChoiceInv
  <2>1. CASE tri[c] = Yes /\ visible[c] # No
    BY <1>0, <2>1 DEF ChoiceOK
  <2>2. CASE wish'[c] = wish[c]
    <3>1. Whom(c)' = Whom(c)
      BY <2>2 DEF Whom, Candidates
    <3>2. \A e : (FixedFor(c, e)' <=> FixedFor(c, e)) /\ Among(c, e)' = Among(c, e)
      BY <1>0, <1>1 DEF FixedFor, Among
    <3>3. \A j : (Known(c, j)' <=> Known(c, j)) /\ (IsOpen(c, j)' <=> IsOpen(c, j))
      BY <3>1, <3>2, StillKept DEF Known, IsOpen
    <3>4. \A j : Passed(c, j)' <=> Passed(c, j)
      BY <3>3 DEF Passed
    <3> QED
      BY <1>0, <2>0, <3>1, <3>4 DEF ChoiceOK
  <2> QED
    BY <1>2, <2>1, <2>2
<1> QED
  BY <1>0, <1>1, <1>2 DEF ChoiceInv

LEMMA SetChoices ==
  ASSUME TypeInv, CacheInv, ChoiceInv, ValuesArePlain, NEW s \in Symbols, NEW val \in Tri,
         SetTristate(s, val)
  PROVE  ChoiceInv'
<1>0. /\ stack = <<>> /\ s \in valid
      /\ wish' = IF s \in MemberSet /\ val = Yes THEN [wish EXCEPT ![ChoiceOf(s)] = s] ELSE wish
      /\ IF tri[s] # val THEN ClearAllValid ELSE UNCHANGED <<valid, stack>>
      /\ UNCHANGED kept
  BY DEF SetTristate
<1>1. modulesVal' = modulesVal /\ s \in Settled
  BY <1>0 DEF kept, Settled, OnStack, Open
<1>2. CASE tri[s] # val
  BY <1>0, <1>1, <1>2, ClearedChoices
<1>3. CASE tri[s] = val
  <2>1. Still
    BY <1>0, <1>3 DEF Still
  <2>2. ASSUME NEW c \in ChoiceSymbols, c \in Settled, wish'[c] # wish[c]
        PROVE  tri[c] = Yes /\ visible[c] # No
    <3>1. s \in MemberSet /\ val = Yes /\ ChoiceOf(s) = c
      BY <1>0, <2>2 DEF TypeInv, TypeOK, SymbolTypeOK
    <3>2. pick[c] = s
      BY <1>1, <1>3, <3>1, BuiltIs
    <3>3. s # None /\ Decided(c) /\ ChoiceOK(c)
      BY <2>2, SymbolsAssumption DEF CacheInv, SymbolOK, ChoiceInv
    <3> QED
      BY <3>2, <3>3 DEF Decided, ChoiceOK
  <2> QED
    BY <2>1, <2>2, StillChoices
<1> QED
  BY <1>2, <1>3

LEMMA ChoicesStep ==
  ASSUME ValuesArePlain, ModulesIsPlain, BoolChoices, NEW r, Ranked(r), KnownInv(r), ChoiceInv,
         [Next]_vars
  PROVE  ChoiceInv'
<1>0. TypeInv /\ StackInv /\ CacheInv /\ Below(r)
  BY DEF KnownInv
<1>1. ASSUME Still, wish' = wish PROVE ChoiceInv'
  BY <1>1, StillChoices
<1>2. CASE StartLoad
  BY <1>2, ClearedChoices DEF StartLoad, kept
<1>3. CASE EndLoad
  BY <1>1, <1>3 DEF EndLoad, Still
<1>4. CASE StartSave
  <2>1. CASE ClearAllValid
    BY <1>4, <2>1, ClearedChoices DEF StartSave, kept
  <2>2. CASE UNCHANGED <<valid, stack>>
    BY <1>1, <1>4, <2>2 DEF StartSave, Still, asked
  <2> QED
    BY <1>4, <2>1, <2>2 DEF StartSave
<1>5. CASE EndSave
  BY <1>1, <1>5 DEF EndSave, Still, symbolVars, asked
<1>6. ASSUME NEW s \in Symbols, NEW val \in Tri, Set(s, val) PROVE ChoiceInv'
  BY <1>0, <1>6, SetChoices DEF Set
<1>7. CASE Calculation
  <2>1. CASE Calculate
    BY <1>0, <2>1, CalculatedChoices
  <2>2. ASSUME NEW s \in Symbols, CalcSymbol(s) PROVE ChoiceInv'
    <3>1. stack = <<>> /\ s \notin valid /\ Enter(s) /\ UNCHANGED <<asked, kept>>
      BY <2>2 DEF CalcSymbol
    <3> QED
      BY <1>0, <3>1, EnteredChoices
  <2> QED
    BY <1>7, <2>1, <2>2 DEF Calculation
<1>8. CASE UNCHANGED vars
  BY <1>1, <1>8 DEF vars, Still, symbolVars, asked
<1> QED
  BY <1>2, <1>3, <1>4, <1>5, <1>6, <1>7, <1>8 DEF Next

(* The value of MODULES, which bounds those of all other symbols, is the   *)
(* one it means.                                                           *)
LEMMA ModulesMeans ==
  ASSUME TypeInv, CacheInv, ChoiceInv, ModulesIsPlain, Levelled, stack = <<>>
  PROVE  modulesVal = IF Modules = None THEN No ELSE MeaningFor(No)[Modules].tri
<1> SUFFICES ASSUME Modules # None PROVE modulesVal = MeaningFor(No)[Modules].tri
  BY DEF ChoiceInv
<1>0. PICK f : f = MeaningFor(No)
  OBVIOUS
<1>1. /\ Modules \in Options /\ Modules \in Symbols /\ Modules \notin ChoiceSymbols
      /\ Modules \notin MemberSet /\ Modules \notin Tristate /\ Default[Modules] = <<>>
      /\ Select[Modules] = Never /\ Needs[Modules] = {}
  BY ModulesNeeds
<1>2. f[Modules] = MeansOf(Modules, f, No)
  BY <1>0, <1>1, MeaningFix DEF TypeInv
<1>3. CASE Modules \in Settled /\ modulesVal = tri[Modules]
  <2>1. Agrees(Modules, f)
    BY <1>1 DEF Agrees
  <2>2. BoolWith(Modules, No) <=> BoolWith(Modules, modulesVal)
    BY <1>1 DEF BoolWith
  <2>3. Seen(Modules) /\ Bounded(Modules) /\ Valued(Modules)
    BY <1>1, <1>3 DEF CacheInv, SymbolOK
  <2>4. MeansOf(Modules, f, No).tri = tri[Modules]
    BY <1>1, <2>1, <2>2, <2>3, OptionMeans
  <2> QED
    BY <1>0, <1>2, <1>3, <2>4
<1>4. CASE Modules \in fresh /\ modulesVal = No
  <2>1. DefaultOf(Modules, f) = No
    <3>1. DOMAIN ConditionsOf(Modules, f) = {}
      BY <1>1 DEF ConditionsOf
    <3>2. FirstOf(Modules, f) = 0
      BY <3>1, NoFirst DEF FirstOf
    <3> QED
      BY <3>2 DEF DefaultOf
  <2>2. LeastOf(Modules, f, No) = No
    BY <1>1, UnderNever DEF LeastOf, Never, Promote, No, Mod
  <2>3. PICK h : h = ShownOf(Modules, f, No)
    OBVIOUS
  <2>4. h \in Tri
    <3>1. \A a \in Atoms(Always) : FALSE
      BY AlwaysIs
    <3>2. Always \in Expressions /\ Never \in Expressions
      BY LiteralsAre
    <3>3. Atoms(Never) = {}
      BY DEF Atoms, Never
    <3>4. Atoms(Prompt[Modules]) = {} /\ Prompt[Modules] \in Expressions
      BY <3>1, <3>2, <3>3, ModulesAssumption
    <3>5. Under(Prompt[Modules], None, f) \in Tri
      BY <3>4, EvalIs DEF Under
    <3>6. BoolWith(Modules, No) \in BOOLEAN
      BY DEF BoolWith
    <3> QED
      BY <2>3, <3>5, <3>6, PromoteIs DEF ShownOf
  <2>5. PICK b \in BOOLEAN : b = BoolWith(Modules, No)
    <3>1. BoolWith(Modules, No) \in BOOLEAN
      BY DEF BoolWith
    <3> QED
      BY <3>1
  <2>6. Promote(No, b) = No
    BY DEF Promote, No, Mod
  <2>7. LimitedOf(No, Modules, f, No) = No
    <3>1. Min({No, h}) = IF No <= h THEN No ELSE h
      BY <2>4, TwoAre DEF Tri
    <3>2. Min({No, h}) = No
      BY <2>4, <3>1 DEF Tri, No, Mod, Yes
    <3>3. Max({No, No}) = IF No >= No THEN No ELSE No
      BY TwoAre DEF Tri
    <3>4. Max({Min({No, h}), No}) = No
      BY <3>2, <3>3
    <3> QED
      BY <2>2, <2>3, <2>5, <2>6, <3>4 DEF LimitedOf
  <2>8. BaseOf(Modules, f) = No
    BY <1>4, <2>1 DEF BaseOf
  <2>9. MeansOf(Modules, f, No).tri =
          IF ShownOf(Modules, f, No) = No /\ LeastOf(Modules, f, No) = No
          THEN Promote(DefaultOf(Modules, f), BoolWith(Modules, No))
          ELSE LimitedOf(BaseOf(Modules, f), Modules, f, No)
    BY <1>1, MeansIs
  <2> QED
    BY <1>0, <1>2, <1>4, <2>1, <2>5, <2>6, <2>7, <2>8, <2>9
<1> QED
  BY <1>3, <1>4 DEF CacheInv, ModulesOK

(* By rank: every symbol whose value is kept has the one it means.         *)
LEMMA KeptMeans ==
  ASSUME TypeInv, CacheInv, ChoiceInv, ValuesArePlain, BoolChoices, Levelled
  PROVE  \A s \in Settled :
           /\ MeaningFor(modulesVal)[s].tri = tri[s]
           /\ s \in ChoiceSymbols => MeaningFor(modulesVal)[s].pick = pick[s]
<1>0. PICK f : f = MeaningFor(modulesVal)
  OBVIOUS
<1> DEFINE Right(s) == f[s].tri = tri[s] /\ (s \in ChoiceSymbols => f[s].pick = pick[s])
           S == {n \in Nat : \A s \in Settled : Rank[s] <= n => Right(s)}
<1>1. /\ Settled \subseteq Symbols /\ Ranked(Rank)
      /\ \A s \in Symbols : Rank[s] \in Nat \ {0}
  <2>1. PICK n \in Nat : n = Cardinality(Symbols)
    BY RankIs
  <2>2. \A s \in Symbols : Rank[s] \in 1..n
    BY <2>1, RankIs
  <2> QED
    BY <2>2, RankIs, SettledAre
<1>2. 0 \in S
  BY <1>1
<1>3. ASSUME NEW n \in Nat, n \in S PROVE n + 1 \in S
  <2> SUFFICES ASSUME NEW s \in Settled, Rank[s] <= n + 1 PROVE Right(s)
    OBVIOUS
  <2>1. s \in Symbols /\ SymbolOK(s)
    BY <1>1 DEF CacheInv
  <2>2. Agrees(s, f)
    <3> SUFFICES ASSUME NEW d \in Needs[s], d \in Settled PROVE Right(d)
      BY DEF Agrees
    <3>1. d \in Symbols /\ Rank[d] < Rank[s]
      BY <1>1, <2>1 DEF Ranked, IsRank
    <3>2. Rank[d] <= n
      BY <1>1, <2>1, <3>1
    <3> QED
      BY <1>3, <3>2
  <2>3. f[s] = MeansOf(s, f, modulesVal)
    BY <1>0, <2>1, MeaningFix DEF TypeInv
  <2>4. CASE s \in ChoiceSymbols
    <3>1. Seen(s) /\ Bounded(s) /\ Decided(s) /\ ChoiceOK(s)
      BY <2>1, <2>4 DEF SymbolOK, ChoiceInv
    <3>2. MeansOf(s, f, modulesVal) = [tri |-> tri[s], pick |-> pick[s]]
      BY <1>1, <2>2, <2>4, <3>1, ChoiceMeans
    <3> QED
      BY <2>3, <3>2
  <2>5. CASE s \in MemberSet
    <3>1. Seen(s) /\ Valued(s) /\ least[s] = No /\ s \notin ChoiceSymbols
      BY <2>1, <2>5, MembersAre DEF SymbolOK, CacheInv
    <3>2. MeansOf(s, f, modulesVal).tri = tri[s]
      BY <2>2, <2>5, <3>1, MemberMeans
    <3> QED
      BY <2>3, <3>1, <3>2
  <2>6. CASE s \in Options /\ s \notin MemberSet
    <3>1. Seen(s) /\ Bounded(s) /\ Valued(s) /\ s \notin ChoiceSymbols
      BY <2>1, <2>6, SymbolsAssumption DEF SymbolOK
    <3>2. MeansOf(s, f, modulesVal).tri = tri[s]
      BY <2>2, <2>6, <3>1, OptionMeans
    <3> QED
      BY <2>3, <3>1, <3>2
  <2> QED
    BY <2>1, <2>4, <2>5, <2>6 DEF Symbols
<1>4. Nat \subseteq S
  <2> HIDE DEF S
  <2> QED
    BY <1>2, <1>3, Counting
<1>5. \A s \in Settled : Right(s)
  <2> SUFFICES ASSUME NEW s \in Settled PROVE Right(s)
    OBVIOUS
  <2>1. Rank[s] \in S /\ Rank[s] <= Rank[s]
    BY <1>1, <1>4
  <2> QED
    BY <2>1
<1> QED
  BY <1>0, <1>5

-----------------------------------------------------------------------------
(* Between the calls: what is kept is what is meant.                       *)
KeptMeanIt ==
  stack = <<>> => \A s \in Settled : Meaning(user, fresh, wish)[s].tri = tri[s]

LEMMA RestMeans ==
  ASSUME TypeInv, CacheInv, ChoiceInv, ModulesIsPlain, ValuesArePlain, BoolChoices, Levelled,
         stack = <<>>, NEW of, of = Meaning(user, fresh, wish)
  PROVE  /\ Means(of, user, fresh, wish) /\ ModsOf(of) = modulesVal
         /\ \A s \in Settled : /\ of[s].tri = tri[s]
                               /\ s \in ChoiceSymbols => of[s].pick = pick[s]
<1>0. WishesOK(wish)
  BY DEF TypeInv, WishOK, WishesOK
<1>1. of = MeaningFor(modulesVal)
  BY ModulesMeans DEF Meaning, MeaningFor
<1>2. \A s \in Settled : of[s].tri = tri[s] /\ (s \in ChoiceSymbols => of[s].pick = pick[s])
  BY <1>1, KeptMeans
<1>3. Means(of, user, fresh, wish)
  BY <1>0, MeansOwn DEF Means
<1>4. ModsOf(of) = modulesVal
  <2>1. CASE Modules = None
    BY <2>1 DEF ModsOf, ChoiceInv
  <2>2. CASE Modules # None
    <3>1. Modules \in Symbols
      BY <2>2, ModulesNeeds
    <3>2. PICK one : one = MeaningFor(No)
      OBVIOUS
    <3>3. one[Modules] = MeaningOf(Modules, one, No, user, fresh, wish)
      BY <1>0, <3>1, <3>2, MeaningFixed DEF MeaningFor
    <3>4. of[Modules] = MeaningOf(Modules, of, ModsOf(of), user, fresh, wish)
      BY <1>3, <3>1 DEF Means
    <3>5. of[Modules] = one[Modules]
      BY <1>0, <2>2, <3>3, <3>4, ModulesMean
    <3> QED
      BY <2>2, <3>2, <3>5, ModulesMeans DEF ModsOf
  <2> QED
    BY <2>1, <2>2
<1> QED
  BY <1>2, <1>3, <1>4

(* Whatever is known of the cache, and that what it keeps is meant.        *)
AllKnown == TypeInv /\ CacheInv /\ ChoiceInv /\ KeptMeanIt

LEMMA AllIsKnown ==
  ASSUME Levelled, ModulesIsPlain, ValuesArePlain, BoolChoices
  PROVE  Spec => []AllKnown
<1>1. Ranked(Rank)
  BY RankIs
<1>2. PICK r : r = Rank
  OBVIOUS
<1>3. Init => KnownInv(r) /\ ChoiceInv
  <2> SUFFICES ASSUME Init PROVE KnownInv(r) /\ ChoiceInv
    OBVIOUS
  <2>1. Open = {} /\ Settled = {} /\ modulesVal = No
    BY DEF Init, SymbolInit, Open, Settled
  <2> QED
    BY <2>1, KnownInit DEF ChoiceInv
<1>4. KnownInv(r) /\ ChoiceInv /\ [Next]_vars => KnownInv(r)' /\ ChoiceInv'
  BY <1>1, <1>2, KnownStep, ChoicesStep
<1>5. KnownInv(r) /\ ChoiceInv => AllKnown
  BY RestMeans DEF KnownInv, AllKnown, KeptMeanIt
<1> QED
  BY <1>3, <1>4, <1>5, PTL DEF Spec

(* What is kept is what the language gives to it: in whatever order the    *)
(* symbols are calculated, and whatever is set or loaded without anything  *)
(* being cleared.  A value of a choice has no default of its own and the   *)
(* choices are boolean and not optional: of the others conf_read and the   *)
(* front ends keep stale ones.                                             *)
THEOREM KeptIsTheMeaning ==
  ASSUME Levelled, ModulesIsPlain, ValuesArePlain, BoolChoices
  PROVE  Spec => []KeptIsMeant
<1>1. Spec => []AllKnown
  BY AllIsKnown
<1>2. AllKnown => KeptIsMeant
  <2> SUFFICES ASSUME AllKnown, AtRest, NEW s \in valid
               PROVE  tri[s] = Meaning(user, fresh, wish)[s].tri
    BY DEF KeptIsMeant
  <2>1. stack = <<>> /\ Settled = valid
    BY DEF AtRest, Settled, OnStack, Open
  <2> QED
    BY <2>1 DEF AllKnown, KeptMeanIt
<1> QED
  BY <1>1, <1>2, PTL
-----------------------------------------------------------------------------
(* What is shown of a symbol is in the terms of its meaning.               *)
LEMMA ShownIs ==
  ASSUME NEW s \in Symbols, Seen(s), Bounded(s), NEW f, Agrees(s, f)
  PROVE  /\ ShownOf(s, f, modulesVal) = visible[s]
         /\ s \notin MemberSet => /\ LeastOf(s, f, modulesVal) = least[s]
                                  /\ IsBool(s) <=> BoolWith(s, modulesVal)
<1>1. /\ Atoms(Prompt[s]) \subseteq Needs[s] \cup {M} /\ Atoms(Select[s]) \subseteq Needs[s] \cup {M}
      /\ Needs[s] \subseteq Symbols
  BY NeedsAre
<1>2. \A e : Atoms(e) \subseteq Needs[s] \cup {M} => None \notin Atoms(e) \/ None = M
  BY <1>1, SymbolsAssumption
<1>3. Under(Prompt[s], None, f) = Now(Prompt[s])
  BY <1>1, <1>2, UnderIsNow DEF Seen
<1>4. s \notin MemberSet => Under(Select[s], None, f) = Now(Select[s])
  BY <1>1, <1>2, UnderIsNow DEF Bounded
<1>5. s \notin MemberSet => (IsBool(s) <=> BoolWith(s, modulesVal))
  BY DEF IsBool, BoolWith
<1>6. ShownOf(s, f, modulesVal) = visible[s]
  BY <1>3 DEF ShownOf, BoolWith, Seen, Visible
<1>7. s \notin MemberSet => LeastOf(s, f, modulesVal) = least[s]
  BY <1>4 DEF LeastOf, BoolWith, Bounded, IsBool
<1> QED
  BY <1>5, <1>6, <1>7

(* A value that can be seen names its choice, which is then not "n".       *)
LEMMA ChoiceNames ==
  ASSUME TypeInv, NEW m \in MemberSet, Seen(m), visible[m] # No
  PROVE  /\ ChoiceOf(m) \in Atoms(Prompt[m]) /\ ChoiceOf(m) \in Settled
         /\ tri[ChoiceOf(m)] # No
<1> DEFINE c == ChoiceOf(m)
<1>0. m \in Symbols /\ c \in Symbols /\ c # M
  BY MembersAre, SymbolsAssumption
<1>1. Now(Prompt[m]) # No
  BY DEF Seen, Visible, Promote, No, Mod, Yes
<1>2. c \in Atoms(Prompt[m]) /\ c \in Settled
  BY <1>0, <1>1, ValueNamesChoice DEF Seen, Fixed
<1>3. tri \in [Symbols -> Tri]
  BY DEF TypeInv, TypeOK, SymbolTypeOK
<1>4. PICK v : v = [a \in Atom |-> IF a = M THEN Mod ELSE tri[a]]
  OBVIOUS
<1>5. \A a \in Atom : v[a] \in Tri
  BY <1>3, <1>4 DEF Atom, Tri
<1>6. PICK e \in Expressions, f \in Expressions, g \in Expressions :
        e = If(c) /\ f = Depends[m] /\ g = Asks[m]
  BY <1>0, LiteralsAre, ExpressionsAssumption
<1>7. Prompt[m] = And(And(e, f), g) /\ And(e, f) \in Expressions
  BY <1>0, <1>6, AndIs DEF Prompt, Base
<1>8. Now(Prompt[m]) = Eval(Prompt[m], v)
  BY <1>0, <1>3, <1>4, PromptIs, NowInOne
<1>9. Eval(And(And(e, f), g), v) <= Eval(And(e, f), v)
  BY <1>5, <1>7, AtomsAre, AndIsAtMost
<1>10. Eval(And(e, f), v) <= Eval(e, v)
  BY <1>5, AtomsAre, AndIsAtMost
<1>11. Eval(e, v) = tri[c]
  <2>1. c \in Atom /\ v[c] = tri[c] /\ v[c] \in Tri
    BY <1>0, <1>3, <1>4 DEF Atom
  <2> QED
    BY <1>0, <1>6, <2>1, IfIs
<1>12. /\ Eval(And(And(e, f), g), v) \in Tri /\ Eval(And(e, f), v) \in Tri /\ Eval(e, v) \in Tri
  <2>1. And(And(e, f), g) \in Expressions
    BY <1>7, AndIs
  <2>2. \A x \in Expressions : \A a \in Atoms(x) : v[a] \in Tri
    BY <1>5, AtomsAre
  <2> QED
    BY <1>7, <2>1, <2>2, EvalIs
<1>13. tri[c] # No
  BY <1>1, <1>7, <1>8, <1>9, <1>10, <1>11, <1>12 DEF Tri, No, Mod, Yes
<1> QED
  BY <1>2, <1>13

(* A value within the limits of its symbol is the one the symbol then has: *)
(* what limits it is not changed by it.                                    *)
LEMMA SetMeansIt ==
  ASSUME TypeInv, CacheInv, ChoiceInv, ModulesIsPlain, ValuesArePlain, BoolChoices, Levelled,
         NEW s \in Symbols, NEW val \in Tri, SetTristate(s, val), tri[s] # val,
         NEW v, v = user', NEW g, g = fresh', NEW y, y = wish', WishesOK(y),
         NEW on, on = Meaning(v, g, y)
  PROVE  on[s].tri = val
<1> DEFINE c == ChoiceOf(s)
           chosen == s \in MemberSet /\ val = Yes
           removed == IF chosen
                      THEN {s, c} \cup {m \in Range(Members[c]) : visible[m] # No}
                      ELSE {s}
<1>0. /\ stack = <<>> /\ s \in valid /\ WithinRange(s, val)
      /\ v = [user EXCEPT ![s] = val] /\ g = fresh \ removed
      /\ y = IF chosen THEN [wish EXCEPT ![c] = s] ELSE wish
  BY DEF SetTristate
<1>1. s \in Settled /\ SymbolOK(s) /\ Seen(s) /\ Bounded(s)
  BY <1>0 DEF Settled, OnStack, Open, CacheInv, SymbolOK
<1>2. PICK of : of = Meaning(user, fresh, wish)
  OBVIOUS
<1>3. /\ Means(of, user, fresh, wish) /\ ModsOf(of) = modulesVal
      /\ \A x \in Settled : /\ of[x].tri = tri[x]
                            /\ x \in ChoiceSymbols => of[x].pick = pick[x]
  BY <1>0, <1>2, RestMeans
<1>4. Means(on, v, g, y)
  BY MeansOwn DEF Means
<1>5. \A x : Agrees(x, of)
  BY <1>3 DEF Agrees
<1>6. /\ visible[s] \in Tri /\ least[s] \in Tri /\ visible[s] > least[s]
      /\ ~(IsBool(s) /\ val = Mod)
      /\ s \in MemberSet /\ visible[s] = Yes => val = Yes
      /\ ~(s \in MemberSet /\ visible[s] = Yes) => least[s] <= val /\ val <= visible[s]
  BY <1>0 DEF WithinRange, TypeInv, TypeOK, SymbolTypeOK
<1>7. user \in [Symbols -> Tri] /\ wish \in [ChoiceSymbols -> Options \cup {None}]
      /\ v[s] = val /\ s \notin g /\ \A x \in Symbols \ {s} : v[x] = user[x]
  BY <1>0 DEF TypeInv, TypeOK, SymbolTypeOK
<1>8. s \notin ChoiceSymbols
  <2>1. s \in ChoiceSymbols => visible[s] = least[s]
    BY <1>1, BoolChoiceShows
  <2> QED
    BY <1>6, <2>1 DEF Tri, No, Mod, Yes
<1>9. /\ s \in MemberSet => /\ c \in ChoiceSymbols /\ c \in Symbols /\ c # s /\ c \notin MemberSet
                            /\ s \in Range(Members[c]) /\ s # None
      /\ \A m \in Range(Members[c]) : s \in MemberSet => m \in MemberSet /\ m \notin ChoiceSymbols
  BY <1>8, MembersAre, SymbolsAssumption
<1>10. ASSUME NEW x \in Symbols, x # s, ~(chosen /\ x = c)
       PROVE  AsksSame(x, of, user, fresh, wish, v, g, y)
  <2>1. v[x] = user[x]
    BY <1>7, <1>10
  <2>2. CASE x \in ChoiceSymbols
    <3>1. x \notin removed
      BY <1>9, <1>10, <2>2
    <3>2. (x \in g <=> x \in fresh) /\ y[x] = wish[x]
      BY <1>0, <1>7, <1>9, <1>10, <2>2, <3>1
    <3> QED
      BY <2>1, <2>2, <3>2 DEF AsksSame, AskedIn
  <2>3. CASE x \notin ChoiceSymbols /\ (x \in g <=> x \in fresh)
    BY <2>1, <2>3 DEF AsksSame, BaseIn
  <2>4. CASE x \notin ChoiceSymbols /\ x \in fresh /\ x \notin g
    <3>1. x \in MemberSet
      BY <1>0, <1>9, <1>10, <2>4
    <3>2. user[x] = No /\ DefaultOf(x, of) = No
      BY <2>4, <3>1, NoDefaultOf DEF CacheInv
    <3> QED
      BY <2>1, <2>4, <3>2 DEF AsksSame, BaseIn
  <2> QED
    BY <1>0, <2>2, <2>3, <2>4
<1>11. s # Modules => ModsOf(on) = modulesVal
  <2> SUFFICES ASSUME s # Modules PROVE ModsOf(on) = modulesVal
    OBVIOUS
  <2>1. Modules # None => AsksSame(Modules, of, user, fresh, wish, v, g, y)
    BY <1>9, <1>10, ModulesNeeds
  <2> QED
    BY <1>3, <1>4, <2>1, ModsSame
<1>12. PICK mods : mods = ModsOf(on)
  OBVIOUS
<1>13. BoolWith(s, mods) = BoolWith(s, modulesVal)
  <2>1. s = Modules => s \notin Tristate
    BY ModulesNeeds, SymbolsAssumption
  <2> QED
    BY <1>11, <1>12, <2>1 DEF BoolWith
<1>14. \A x \in Symbols : Rank[x] \in Nat /\ \A d \in Needs[x] : d \in Symbols /\ Rank[d] < Rank[x]
  BY RankIs, NeedsAre DEF Ranked, IsRank
<1>15. ShownOf(s, of, modulesVal) = visible[s]
  BY <1>1, <1>5, ShownIs
<1>16. on[s] = MeaningOf(s, on, mods, v, g, y)
  BY <1>4, <1>12 DEF Means
<1> HIDE DEF c, chosen, removed
<1>17. CASE s \notin MemberSet
  <2>1. \A d \in Needs[s] : on[d] = of[d]
    <3>1. CASE s = Modules
      <4>1. Modules # None
        BY <3>1, SymbolsAssumption
      <4> QED
        BY <3>1, <4>1, ModulesNeeds
    <3>2. CASE s # Modules
      <4>1. ModsOf(on) = ModsOf(of)
        BY <1>3, <1>11, <3>2
      <4>2. \A x \in Symbols : Rank[x] < Rank[s] => AsksSame(x, of, user, fresh, wish, v, g, y)
        BY <1>10, <1>14, <1>17 DEF chosen
      <4>3. \A x \in Symbols : Rank[x] < Rank[s] => on[x] = of[x]
        BY <1>3, <1>4, <1>14, <4>1, <4>2, BelowSame
      <4> QED
        BY <1>14, <4>3
    <3> QED
      BY <3>1, <3>2
  <2>2. LeastOf(s, of, modulesVal) = least[s] /\ (IsBool(s) <=> BoolWith(s, modulesVal))
    BY <1>1, <1>5, <1>17, ShownIs
  <2>3. /\ Under(Prompt[s], None, on) = Under(Prompt[s], None, of)
        /\ Under(Select[s], None, on) = Under(Select[s], None, of)
    <3>1. /\ Atoms(Prompt[s]) \subseteq Needs[s] \cup {M}
          /\ Atoms(Select[s]) \subseteq Needs[s] \cup {M}
      BY NeedsAre
    <3> QED
      BY <2>1, <3>1, UnderSame
  <2>4. ShownOf(s, on, mods) = visible[s] /\ LeastOf(s, on, mods) = least[s]
    BY <1>13, <1>15, <2>2, <2>3 DEF ShownOf, LeastOf
  <2>5. PICK bool : bool = BoolWith(s, mods)
    OBVIOUS
  <2>6. LimitedOf(val, s, on, mods) = val
    <3>1. Min({val, visible[s]}) = val
      BY <1>6, <1>17, TwoAre
    <3>2. Max({val, least[s]}) = val
      <4>1. Max({val, least[s]}) = IF val >= least[s] THEN val ELSE least[s]
        BY <1>6, TwoAre
      <4> QED
        BY <1>6, <1>17, <4>1 DEF Tri, No, Mod, Yes
    <3>3. Promote(val, BoolWith(s, mods)) = val
      BY <1>6, <1>13, <2>2 DEF Promote
    <3> QED
      BY <2>4, <3>1, <3>2, <3>3 DEF LimitedOf
  <2>7. BaseIn(s, on, v, g) = val
    BY <1>7 DEF BaseIn
  <2>8. visible[s] # No
    BY <1>6 DEF Tri, No, Mod, Yes
  <2>9. MeaningOf(s, on, mods, v, g, y).tri = LimitedOf(BaseIn(s, on, v, g), s, on, mods)
    BY <1>8, <1>17, <2>4, <2>8, MeaningIs
  <2> QED
    BY <1>16, <2>6, <2>7, <2>9
<1>18. CASE s \in MemberSet /\ ~chosen
  <2>1. visible[s] = Mod /\ val # Yes /\ least[s] = No
    <3>1. least[s] = No
      BY <1>18 DEF CacheInv
    <3> QED
      BY <1>6, <1>18, <3>1 DEF chosen, Tri, No, Mod, Yes
  <2>2. \A d \in Needs[s] : on[d] = of[d]
    <3>0. s # Modules
      BY <1>18, ModulesNeeds, SymbolsAssumption
    <3>1. ModsOf(on) = ModsOf(of)
      BY <1>3, <1>11, <3>0
    <3>2. \A x \in Symbols : Rank[x] < Rank[s] => AsksSame(x, of, user, fresh, wish, v, g, y)
      BY <1>10, <1>14, <1>18
    <3>3. \A x \in Symbols : Rank[x] < Rank[s] => on[x] = of[x]
      BY <1>3, <1>4, <1>14, <3>1, <3>2, BelowSame
    <3> QED
      BY <1>14, <3>3
  <2>3. Under(Prompt[s], None, on) = Under(Prompt[s], None, of)
    BY <2>2, NeedsAre, UnderSame
  <2>4. ShownOf(s, on, mods) = Mod
    BY <1>13, <1>15, <2>1, <2>3 DEF ShownOf
  <2>5. BoolWith(s, mods) = FALSE
    <3>1. Visible(s) = Mod
      BY <1>1, <2>1 DEF Seen
    <3>2. ~BoolWith(s, modulesVal)
      BY <3>1 DEF Visible, Promote, BoolWith, Mod, Yes
    <3>3. BoolWith(s, mods) \in BOOLEAN
      BY DEF BoolWith
    <3> QED
      BY <1>13, <3>2, <3>3
  <2>6. Min({val, Mod}) = val
    <3>1. Min({val, Mod}) = IF val <= Mod THEN val ELSE Mod
      BY TwoAre DEF Tri
    <3> QED
      BY <2>1, <3>1 DEF Tri, No, Mod, Yes
  <2>7. BaseIn(s, on, v, g) = val
    BY <1>7 DEF BaseIn
  <2>8. MeaningOf(s, on, mods, v, g, y).tri
          = Promote(Min({BaseIn(s, on, v, g), ShownOf(s, on, mods)}), BoolWith(s, mods))
    <3>1. ShownOf(s, on, mods) # Yes
      BY <2>4 DEF Mod, Yes
    <3> QED
      BY <1>8, <1>18, <3>1, MeaningIs
  <2> QED
    BY <1>16, <2>4, <2>5, <2>6, <2>7, <2>8 DEF Promote

<1>19. CASE s \in MemberSet /\ chosen
  <2>0. c \in ChoiceSymbols /\ c \in Symbols /\ c # s /\ s # None /\ val = Yes /\ y[c] = s
        /\ c \notin MemberSet
    BY <1>0, <1>7, <1>9, <1>19 DEF chosen
  <2>1. visible[s] = Yes
    BY <1>6, <2>0 DEF Tri, No, Mod, Yes
  <2>2. c \in Settled /\ tri[c] # No
    BY <1>1, <1>19, <2>1, ChoiceNames DEF c, No, Yes
  <2>3. tri[c] = Yes /\ visible[c] = Yes /\ least[c] = Yes
    <3>1. ChoiceOK(c) /\ Seen(c) /\ Bounded(c)
      BY <2>0, <2>2 DEF ChoiceInv, CacheInv, SymbolOK
    <3>2. \/ visible[c] = No /\ least[c] = No
          \/ visible[c] = Yes /\ least[c] = Yes
      BY <2>0, <3>1, BoolChoiceShows
    <3> QED
      BY <2>2, <3>1, <3>2 DEF ChoiceOK
  <2>4. mods = modulesVal /\ ModsOf(on) = ModsOf(of)
    <3>1. s # Modules
      BY <1>19, ModulesNeeds, SymbolsAssumption
    <3> QED
      BY <1>3, <1>11, <1>12, <3>1
  <2>5. \A d \in Needs[c] : on[d] = of[d]
    <3>1. c \in Needs[s]
      <4>1. c \in Atoms(Prompt[s]) /\ c # M
        BY <1>1, <1>19, <2>0, <2>1, ChoiceNames, SymbolsAssumption DEF c, No, Yes
      <4> QED
        BY <4>1, NeedsAre
    <3>2. Rank[c] < Rank[s] /\ Rank[c] \in Nat /\ Rank[s] \in Nat
      BY <1>14, <2>0, <3>1
    <3>3. \A x \in Symbols : Rank[x] < Rank[c] => AsksSame(x, of, user, fresh, wish, v, g, y)
      BY <1>10, <1>14, <3>2
    <3>4. \A x \in Symbols : Rank[x] < Rank[c] => on[x] = of[x]
      BY <1>3, <1>4, <2>4, <3>2, <3>3, BelowSame
    <3> QED
      BY <1>14, <2>0, <3>4
  <2>6. ShownOf(c, on, mods) = Yes /\ LeastOf(c, on, mods) = Yes
    <3>1. Seen(c) /\ Bounded(c)
      BY <2>0, <2>2 DEF CacheInv, SymbolOK
    <3>2. ShownOf(c, of, modulesVal) = Yes /\ LeastOf(c, of, modulesVal) = Yes
      BY <1>5, <2>0, <2>3, <3>1, ShownIs
    <3>3. /\ Atoms(Prompt[c]) \subseteq Needs[c] \cup {M}
          /\ Atoms(Select[c]) \subseteq Needs[c] \cup {M}
      BY <2>0, NeedsAre
    <3>4. /\ Under(Prompt[c], None, on) = Under(Prompt[c], None, of)
          /\ Under(Select[c], None, on) = Under(Select[c], None, of)
      BY <2>5, <3>3, UnderSame
    <3> QED
      BY <2>4, <3>2, <3>4 DEF ShownOf, LeastOf
  <2>7. PICK t \in Tri : t = AskedIn(c, v, g)
    BY <1>7, <2>0 DEF AskedIn, Tri
  <2>8. LimitedOf(AskedIn(c, v, g), c, on, mods) = Yes
    <3>1. BoolWith(c, mods) \in BOOLEAN
      BY DEF BoolWith
    <3>2. Limited(t, Yes, Yes, BoolWith(c, mods)) = Yes
      BY <3>1, LimitedIs
    <3> QED
      BY <2>6, <2>7, <3>2 DEF LimitedOf, Limited
  <2>9. Atoms(Prompt[s]) \subseteq Needs[c] \cup {M, c}
    BY <1>19, <2>0, NeedsAre DEF c
  <2>10. Under(Prompt[s], c, on) # No
    <3>1. Under(Prompt[s], c, on) = Under(Prompt[s], None, of)
      <4>1. of[c].tri = Yes /\ None \notin Symbols
        BY <1>3, <2>2, <2>3, SymbolsAssumption
      <4>2. Needs[c] \subseteq Symbols
        BY <2>0, NeedsAre
      <4>3. ASSUME NEW a \in Atoms(Prompt[s])
            PROVE  \/ a = M
                   \/ a = c /\ of[a].tri = Yes
                   \/ a # c /\ a # None /\ on[a].tri = of[a].tri
        <5>1. (a = M \/ a = c) \/ a \in Needs[c]
          BY <2>9
        <5>2. a \in Needs[c] => a # None /\ on[a] = of[a]
          BY <2>5, <4>1, <4>2
        <5> QED
          BY <4>1, <5>1, <5>2
      <4> QED
        BY <4>3, UnderTri
    <3> QED
      BY <1>15, <2>1, <3>1 DEF ShownOf, Promote, No, Mod, Yes
  <2>11. 1 \in OpenIn(c, on, y) /\ OpenIn(c, on, y) \subseteq Nat /\ Candidates(c, y)[1].pick = s
         /\ \A i \in OpenIn(c, on, y) : 1 <= i
    <3>1. y[c] \in Range(Members[c]) \cup {None}
      BY <2>0 DEF WishesOK
    <3>2. /\ DOMAIN Candidates(c, y) = 1..Len(Candidates(c, y)) /\ Len(Candidates(c, y)) \in Nat
          /\ 1 \in 1..Len(Candidates(c, y))
          /\ Candidates(c, y)[1] = [when |-> Always, pick |-> s]
      BY <2>0, <3>1, CandidatesAre
    <3>3. Candidates(c, y)[1].when = Always /\ Candidates(c, y)[1].pick = s
      BY <3>2
    <3>4. Under(Always, c, on) # No
      BY UnderAlways DEF No, Yes
    <3>5. 1 \in OpenIn(c, on, y)
      BY <2>10, <3>2, <3>3, <3>4 DEF OpenIn
    <3>6. OpenIn(c, on, y) \subseteq DOMAIN Candidates(c, y)
      BY DEF OpenIn
    <3> QED
      BY <3>2, <3>3, <3>5, <3>6
  <2>12. Min(OpenIn(c, on, y)) = 1
    <3>1. PICK S : S = OpenIn(c, on, y)
      OBVIOUS
    <3> QED
      BY <2>11, <3>1 DEF Min
  <2>13. on[c] = [tri |-> Yes, pick |-> s]
    <3>1. on[c] = MeaningOf(c, on, mods, v, g, y)
      BY <1>4, <1>12, <2>0 DEF Means
    <3>2. OpenIn(c, on, y) # {}
      BY <2>11
    <3>3. MeaningOf(c, on, mods, v, g, y)
            = [tri |-> Yes, pick |-> Candidates(c, y)[Min(OpenIn(c, on, y))].pick]
      BY <2>0, <2>8, <3>2, MeaningIs
    <3> QED
      BY <2>11, <2>12, <3>1, <3>3
  <2>14. ShownOf(s, on, mods) = Yes
    <3>1. Under(Prompt[s], None, on) = Under(Prompt[s], None, of)
      <4>1. of[c].tri = Yes /\ on[c].tri = Yes /\ None \notin Symbols
        BY <1>3, <2>2, <2>3, <2>13, SymbolsAssumption
      <4>2. Needs[c] \subseteq Symbols
        BY <2>0, NeedsAre
      <4>3. ASSUME NEW a \in Atoms(Prompt[s])
            PROVE  a = M \/ (a # None /\ on[a].tri = of[a].tri)
        <5>1. (a = M \/ a = c) \/ a \in Needs[c]
          BY <2>9
        <5>2. a \in Needs[c] => a # None /\ on[a] = of[a]
          BY <2>5, <4>1, <4>2
        <5> QED
          BY <2>0, <4>1, <5>1, <5>2
      <4> QED
        BY <4>3, UnderTri
    <3> QED
      BY <1>15, <2>1, <2>4, <3>1 DEF ShownOf
  <2>15. MeaningOf(s, on, mods, v, g, y).tri = IF on[c].pick = s THEN Yes ELSE No
    BY <1>8, <1>19, <2>14, MeaningIs DEF c
  <2> QED
    BY <1>16, <2>0, <2>13, <2>15
<1> QED
  BY <1>17, <1>18, <1>19

(* The last answer is what its symbol means, and means it until the file   *)
(* is read again.                                                          *)
AnswerInv ==
  /\ phase = "loading" => answer = None
  /\ answer # None => Meaning(user, fresh, wish)[answer.sym].tri = answer.val

LEMMA AnswerStep ==
  ASSUME TypeInv, CacheInv, ChoiceInv, TypeInv', KeptMeanIt', ModulesIsPlain, ValuesArePlain,
         BoolChoices, Levelled, AnswerInv, [Next]_vars
  PROVE  AnswerInv'
<1>1. CASE UNCHANGED <<asked, answer>> /\ phase' # "loading"
  BY <1>1 DEF AnswerInv, asked
<1>2. CASE StartLoad
  BY <1>2 DEF StartLoad, AnswerInv
<1>3. CASE EndLoad
  BY <1>3 DEF EndLoad, AnswerInv
<1>4. CASE StartSave \/ EndSave
  BY <1>1, <1>4 DEF StartSave, EndSave, symbolVars, asked
<1>5. ASSUME NEW s \in Symbols, NEW val \in Tri, Set(s, val) PROVE AnswerInv'
  <2>1. SetTristate(s, val) /\ answer' = [sym |-> s, val |-> val] /\ phase' = "idle"
    BY <1>5 DEF Set
  <2>2. PICK on : on = Meaning(user', fresh', wish')
    OBVIOUS
  <2>3. on[s].tri = val
    <3>1. CASE tri[s] # val
      <4>1. WishesOK(wish')
        BY DEF TypeInv, WishOK, WishesOK
      <4>2. PICK v, g, y : v = user' /\ g = fresh' /\ y = wish'
        OBVIOUS
      <4>3. WishesOK(y) /\ on = Meaning(v, g, y)
        BY <2>2, <4>1, <4>2
      <4> QED
        BY <2>1, <3>1, <4>2, <4>3, SetMeansIt
    <3>2. CASE tri[s] = val
      <4>1. stack' = <<>> /\ valid' = valid /\ tri' = tri /\ s \in valid
        BY <2>1, <3>2 DEF SetTristate, kept
      <4>2. Settled' = valid
        BY <4>1 DEF Settled, OnStack, Open
      <4>3. on[s].tri = tri'[s]
        BY <2>2, <4>1, <4>2 DEF KeptMeanIt
      <4> QED
        BY <3>2, <4>1, <4>3
    <3> QED
      BY <3>1, <3>2
  <2>4. answer'.sym = s /\ answer'.val = val
    BY <2>1
  <2> QED
    BY <2>1, <2>2, <2>3, <2>4 DEF AnswerInv
<1>6. CASE Calculation
  <2>1. UNCHANGED <<asked, answer, phase>>
    <3>1. CASE Calculate
      BY <1>6, <3>1, CalculateTypes DEF Calculation
    <3>2. ASSUME NEW s \in Symbols, CalcSymbol(s) PROVE UNCHANGED asked
      BY <3>2 DEF CalcSymbol
    <3> QED
      BY <1>6, <3>1, <3>2 DEF Calculation
  <2> QED
    BY <2>1 DEF AnswerInv, asked
<1>7. CASE UNCHANGED vars
  BY <1>7 DEF vars, symbolVars, asked, AnswerInv
<1> QED
  BY <1>2, <1>3, <1>4, <1>5, <1>6, <1>7 DEF Next

(* An answer that is accepted is the value then shown, however it and what *)
(* it depends on are calculated again.                                     *)
THEOREM AnswersHold ==
  ASSUME Levelled, ModulesIsPlain, ValuesArePlain, BoolChoices
  PROVE  Spec => []AnswerHolds
<1>1. Spec => []AllKnown
  BY AllIsKnown
<1>2. Init => AnswerInv
  BY DEF Init, AnswerInv
<1>3. AllKnown /\ AllKnown' /\ AnswerInv /\ [Next]_vars => AnswerInv'
  BY AnswerStep DEF AllKnown
<1>4. AllKnown /\ AnswerInv => AnswerHolds
  <2> SUFFICES ASSUME AllKnown, AnswerInv, AtRest, answer # None, answer.sym \in valid
               PROVE  tri[answer.sym] = answer.val
    BY DEF AnswerHolds
  <2>1. stack = <<>> /\ Settled = valid
    BY DEF AtRest, Settled, OnStack, Open
  <2> QED
    BY <2>1 DEF AllKnown, KeptMeanIt, AnswerInv
<1> QED
  BY <1>1, <1>2, <1>3, <1>4, PTL DEF Spec
-----------------------------------------------------------------------------
(* What is saved is read again.  A bool choice is "n" or "y" whatever it is*)
(* asked.                                                                  *)
LEMMA ChoiceLimits ==
  ASSUME BoolChoices, NEW c \in ChoiceSymbols, NEW of, \A a \in Symbols : of[a].tri \in Tri,
         NEW mods
  PROVE  \/ \A t \in Tri : LimitedOf(t, c, of, mods) = No
         \/ \A t \in Tri : LimitedOf(t, c, of, mods) = Yes
<1>0. Prompt[c] \in Expressions /\ Select[c] \in Expressions
  BY PromptIs, SelectIs, MembersAre
<1>1. PICK v : v = [a \in Atom |-> IF a = M THEN Mod ELSE of[a].tri]
  OBVIOUS
<1>2. v[M] = Mod /\ \A a \in Atom : v[a] \in Tri
  BY <1>1 DEF Atom, Tri
<1>3. ASSUME NEW e \in Expressions PROVE Under(e, None, of) = Eval(e, v)
  <2> DEFINE x == [a \in Atoms(e) |-> IF a = M THEN Mod ELSE IF a = None THEN Yes ELSE of[a].tri]
  <2>1. \A a \in Atoms(e) : x[a] = v[a]
    BY <1>1, AtomsAre, SymbolsAssumption DEF Atom
  <2>2. Under(e, None, of) = Eval(e, x)
    BY DEF Under
  <2> HIDE DEF x
  <2> QED
    BY <2>1, <2>2, EvalSame
<1>4. /\ Eval(Prompt[c], v) \in Tri /\ Eval(Select[c], v) \in Tri
      /\ Eval(Select[c], v) = No <=> Eval(Prompt[c], v) = No
  BY <1>0, <1>2, AtomsAre, ChoiceIsShown
<1>5. BoolWith(c, mods) = TRUE
  BY DEF BoolWith, BoolChoices
<1>6. /\ ShownOf(c, of, mods) = Promote(Eval(Prompt[c], v), TRUE)
      /\ LeastOf(c, of, mods) = Promote(Eval(Select[c], v), TRUE)
  BY <1>0, <1>3, <1>5 DEF ShownOf, LeastOf
<1>7. \/ ShownOf(c, of, mods) = No /\ LeastOf(c, of, mods) = No
      \/ ShownOf(c, of, mods) = Yes /\ LeastOf(c, of, mods) = Yes
  BY <1>4, <1>6 DEF Promote, Tri, No, Mod, Yes
<1>8. \A t : LimitedOf(t, c, of, mods)
               = Limited(t, ShownOf(c, of, mods), LeastOf(c, of, mods), TRUE)
  BY <1>5 DEF LimitedOf, Limited
<1> QED
  BY <1>7, <1>8, LimitedIs

(* The values of a bool choice: none can be seen, or the one the choice    *)
(* falls on is "y" and the others are "n".                                 *)
LEMMA ValuesMean ==
  ASSUME BoolChoices, ValuesAreOfType, NEW u, \A a \in Symbols : u[a] \in Tri, NEW f,
         NEW w, NEW of, Means(of, u, f, w), \A a \in Symbols : HasType(a, of[a]),
         NEW c \in ChoiceSymbols, of[c].tri = Yes, NEW m \in Range(Members[c])
  PROVE  of[m].tri = IF of[c].pick = m /\ Under(Prompt[m], c, of) # No THEN Yes ELSE No
<1>0. /\ m \in MemberSet /\ m \in Symbols /\ m \notin ChoiceSymbols /\ ChoiceOf(m) = c
      /\ c \in Symbols
  BY MembersAre
<1>1. m \notin Tristate
  BY <1>0 DEF BoolChoices, ValuesAreOfType
<1>2. PICK mods : mods = ModsOf(of)
  OBVIOUS
<1>3. of[m] = MeaningOf(m, of, mods, u, f, w) /\ BoolWith(m, mods) = TRUE
  BY <1>0, <1>1, <1>2 DEF Means, BoolWith
<1>4. Under(Prompt[m], c, of) = Under(Prompt[m], None, of)
  <2>1. ASSUME NEW a \in Atoms(Prompt[m])
        PROVE  \/ a = M
               \/ a = c /\ of[a].tri = Yes
               \/ a # c /\ a # None /\ of[a].tri = of[a].tri
    <3>1. a \in Symbols \/ a = M
      BY <1>0, PromptIs, AtomsAre DEF Atom
    <3> QED
      BY <3>1, SymbolsAssumption
  <2> QED
    BY <2>1, UnderTri
<1>5. ShownOf(m, of, mods) = Promote(Under(Prompt[m], c, of), TRUE)
  BY <1>3, <1>4 DEF ShownOf
<1>6. Under(Prompt[m], c, of) \in Tri
  BY <1>0, PromptIs, UnderIs DEF HasType, Meanings
<1>7. CASE Under(Prompt[m], c, of) = No
  <2>1. ShownOf(m, of, mods) = No /\ No # Yes
    BY <1>5, <1>7 DEF Promote, No, Mod, Yes
  <2>2. of[m].tri = Promote(Min({BaseIn(m, of, u, f), No}), TRUE)
    <3>1. MeaningOf(m, of, mods, u, f, w) =
            [tri |-> Promote(Min({BaseIn(m, of, u, f), ShownOf(m, of, mods)}), BoolWith(m, mods)),
             pick |-> None]
      BY <1>0, <2>1, MeaningIs
    <3> QED
      BY <1>3, <2>1, <3>1
  <2>4. Min({BaseIn(m, of, u, f), No}) = No
    <3>1. DefaultOf(m, of) \in Tri
      BY <1>0, DefaultOfIs, MembersAre DEF HasType, Meanings
    <3> QED
      BY <1>0, <3>1, TwoAre DEF BaseIn, Tri, No, Mod, Yes
  <2> QED
    BY <1>7, <2>2, <2>4 DEF Promote, No, Mod
<1>8. CASE Under(Prompt[m], c, of) # No
  <2>1. ShownOf(m, of, mods) = Yes
    BY <1>5, <1>6, <1>8 DEF Promote, Tri, No, Mod, Yes
  <2>2. of[m].tri = IF of[c].pick = m THEN Yes ELSE No
    <3>1. MeaningOf(m, of, mods, u, f, w) =
            [tri |-> IF of[ChoiceOf(m)].pick = m THEN Yes ELSE No, pick |-> None]
      BY <1>0, <2>1, MeaningIs
    <3> QED
      BY <1>0, <1>3, <3>1
  <2> QED
    BY <1>8, <2>2
<1> QED
  BY <1>7, <1>8

(* What is meant and saved is meant again when it is read.                 *)
LEMMA RereadIs ==
  ASSUME Levelled, ModulesIsPlain, ValuesAreOfType, BoolChoices,
         NEW u, \A a \in Symbols : u[a] \in Tri, NEW f, NEW w, WishesOK(w),
         NEW of, of = Meaning(u, f, w), NEW lines, lines = [s \in Options |-> of[s].tri],
         NEW v, v = LoadedUser(lines), NEW g, g = LoadedFresh(lines),
         NEW y, y = LoadedWish(lines)
  PROVE  \A s \in Symbols : Meaning(v, g, y)[s] = of[s]
<1>1. Means(of, u, f, w)
  BY MeansOwn DEF Means
<1>2. \A a \in Symbols : HasType(a, of[a])
  BY MeaningIsTyped DEF Levelled
<1>3. lines \in Files /\ \A s \in Options : lines[s] = of[s].tri /\ lines[s] # Unset
  <2>1. \A s \in Options : of[s].tri \in Lines(s) /\ of[s].tri \in Tri
    BY <1>2, MembersAre DEF HasType, Meanings, Lines, Tri
  <2> QED
    BY <2>1, UnsetAssumption DEF Files
<1>4. WishesOK(y) /\ v \in [Symbols -> Tri]
  BY <1>3, LoadedIs DEF WishesOK
<1>5. \A s \in Options : v[s] = of[s].tri /\ s \notin g
  <2>1. \A s \in Options : s \in Symbols /\ s \notin ChoiceSymbols
    BY SymbolsAssumption DEF Symbols
  <2> QED
    BY <1>3, <2>1 DEF LoadedUser, LoadedFresh
<1>6. PICK mods : mods = ModsOf(of)
  OBVIOUS
<1>7. ASSUME NEW s \in ChoiceSymbols PROVE of[s] = MeaningOf(s, of, mods, v, g, y)
  <2>0. s \in Symbols /\ AskedIn(s, u, f) \in Tri /\ AskedIn(s, v, g) \in Tri
    BY <1>4, MembersAre DEF AskedIn, Tri
  <2>1. of[s] = MeaningOf(s, of, mods, u, f, w)
    BY <1>1, <1>6, <2>0 DEF Means
  <2>2. \A a \in Symbols : of[a].tri \in Tri
    BY <1>2 DEF HasType, Meanings
  <2>3. PICK t \in {No, Yes} : LimitedOf(AskedIn(s, u, f), s, of, mods) = t
                               /\ LimitedOf(AskedIn(s, v, g), s, of, mods) = t
    BY <2>0, <2>2, ChoiceLimits
  <2>4. CASE t # Yes
    <3>1. MeaningOf(s, of, mods, u, f, w) = [tri |-> LimitedOf(AskedIn(s, u, f), s, of, mods),
                                             pick |-> None]
      BY <2>3, <2>4, MeaningIs, MembersAre
    <3>2. MeaningOf(s, of, mods, v, g, y) = [tri |-> LimitedOf(AskedIn(s, v, g), s, of, mods),
                                             pick |-> None]
      BY <2>3, <2>4, MeaningIs, MembersAre
    <3> QED
      BY <2>1, <2>3, <3>1, <3>2
  <2>5. CASE t = Yes
    <3> DEFINE shut == \A m \in Range(Members[s]) : Under(Prompt[m], s, of) = No
    <3>1. ASSUME NEW z, WishesOK(z) PROVE OpenIn(s, of, z) = {} <=> shut
      <4>1. z[s] \in Range(Members[s]) \cup {None}
        BY <3>1 DEF WishesOK
      <4>2. /\ DOMAIN Candidates(s, z) = 1..Len(Candidates(s, z))
            /\ \A i \in 1..Len(Candidates(s, z)) : Candidates(s, z)[i].pick \in Range(Members[s])
        BY <4>1, CandidatesAre
      <4>3. shut => OpenIn(s, of, z) = {}
        BY <4>2 DEF OpenIn
      <4>4. ASSUME NEW m \in Range(Members[s]), Under(Prompt[m], s, of) # No
            PROVE  OpenIn(s, of, z) # {}
        <5>1. PICK i \in 1..Len(Candidates(s, z)) :
                Candidates(s, z)[i] = [when |-> Always, pick |-> m]
          BY <4>1, ValuesAreCandidates
        <5>2. Candidates(s, z)[i].when = Always /\ Candidates(s, z)[i].pick = m
          BY <5>1
        <5>3. Under(Always, s, of) # No
          BY UnderAlways DEF No, Yes
        <5>4. i \in OpenIn(s, of, z)
          BY <4>2, <4>4, <5>2, <5>3 DEF OpenIn
        <5> QED
          BY <5>4
      <4> QED
        BY <4>3, <4>4
    <3>2. MeaningOf(s, of, mods, u, f, w) =
            IF OpenIn(s, of, w) = {} THEN [tri |-> No, pick |-> None]
            ELSE [tri |-> Yes, pick |-> Candidates(s, w)[Min(OpenIn(s, of, w))].pick]
      BY <2>3, <2>5, MeaningIs, MembersAre
    <3>3. MeaningOf(s, of, mods, v, g, y) =
            IF OpenIn(s, of, y) = {} THEN [tri |-> No, pick |-> None]
            ELSE [tri |-> Yes, pick |-> Candidates(s, y)[Min(OpenIn(s, of, y))].pick]
      BY <2>3, <2>5, MeaningIs, MembersAre
    <3>4. CASE shut
      BY <1>4, <2>1, <3>1, <3>2, <3>3, <3>4
    <3>5. CASE ~shut
      <4>1. PICK i : i = Min(OpenIn(s, of, w))
        OBVIOUS
      <4>2. of[s] = [tri |-> Yes, pick |-> Candidates(s, w)[i].pick]
        BY <2>1, <3>1, <3>2, <3>5, <4>1
      <4>3. i \in OpenIn(s, of, w)
        <5>1. w[s] \in Range(Members[s]) \cup {None}
          BY DEF WishesOK
        <5>2. OpenIn(s, of, w) \subseteq Nat /\ OpenIn(s, of, w) # {}
          BY <3>1, <3>5, <5>1, CandidatesAre DEF OpenIn
        <5>3. PICK S : S = OpenIn(s, of, w)
          OBVIOUS
        <5>4. S \subseteq Nat /\ S # {} /\ i = Min(S)
          BY <4>1, <5>2, <5>3
        <5>5. \E x \in S : \A k \in S : x <= k
          BY <5>4, LeastExists
        <5>6. i \in S
          BY <5>4, <5>5 DEF Min
        <5> QED
          BY <5>3, <5>6
      <4>4. PICK p : p = Candidates(s, w)[i].pick
        OBVIOUS
      <4>5. p \in Range(Members[s]) /\ Under(Prompt[p], s, of) # No
        <5>1. w[s] \in Range(Members[s]) \cup {None}
          BY DEF WishesOK
        <5> QED
          BY <4>3, <4>4, <5>1, CandidatesAre DEF OpenIn
      <4>6. of[s].tri = Yes /\ of[s].pick = p
        BY <4>2, <4>4
      <4>7. \A m \in Range(Members[s]) : lines[m] = IF m = p THEN Yes ELSE No
        <5>1. ASSUME NEW m \in Range(Members[s]) PROVE lines[m] = IF m = p THEN Yes ELSE No
          <6>1. lines[m] = of[m].tri
            BY <1>3, MembersAre
          <6>2. of[m].tri = IF of[s].pick = m /\ Under(Prompt[m], s, of) # No THEN Yes ELSE No
            BY <1>1, <1>2, <4>6, ValuesMean
          <6> QED
            BY <4>5, <4>6, <6>1, <6>2
        <5> QED
          BY <5>1
      <4>8. y[s] = p
        <5>1. Gathered(lines, s).wish = p
          BY <4>5, <4>7, UnsetAssumption, GatheredOne
        <5> QED
          BY <5>1 DEF LoadedWish
      <4>9. y[s] # None
        BY <4>5, <4>8, MembersAre, SymbolsAssumption
      <4>10. /\ DOMAIN Candidates(s, y) = 1..Len(Candidates(s, y))
             /\ Len(Candidates(s, y)) \in Nat
             /\ 1 \in 1..Len(Candidates(s, y))
             /\ Candidates(s, y)[1] = [when |-> Always, pick |-> p]
        <5>1. y[s] \in Range(Members[s]) \cup {None}
          BY <1>4 DEF WishesOK
        <5> QED
          BY <4>8, <4>9, <5>1, CandidatesAre
      <4>11. Min(OpenIn(s, of, y)) = 1
        <5>1. Candidates(s, y)[1].when = Always /\ Candidates(s, y)[1].pick = p
          BY <4>10
        <5>2. Under(Always, s, of) # No
          BY UnderAlways DEF No, Yes
        <5>3. 1 \in OpenIn(s, of, y)
          BY <4>5, <4>10, <5>1, <5>2 DEF OpenIn
        <5>4. OpenIn(s, of, y) \subseteq 1..Len(Candidates(s, y))
          BY <4>10 DEF OpenIn
        <5>5. PICK S : S = OpenIn(s, of, y)
          OBVIOUS
        <5>6. 1 \in S /\ \A k \in S : k \in Nat /\ 1 <= k
          BY <4>10, <5>3, <5>4, <5>5
        <5> QED
          BY <5>5, <5>6 DEF Min
      <4>12. OpenIn(s, of, y) # {}
        BY <1>4, <3>1, <3>5
      <4>13. Candidates(s, y)[Min(OpenIn(s, of, y))].pick = p
        BY <4>10, <4>11
      <4> QED
        BY <3>3, <4>2, <4>4, <4>12, <4>13
    <3> QED
      BY <3>4, <3>5
  <2> QED
    BY <2>4, <2>5
<1>8. ASSUME NEW s \in MemberSet PROVE of[s] = MeaningOf(s, of, mods, v, g, y)
  <2>0. s \in Symbols /\ s \in Options /\ s \notin ChoiceSymbols
    BY MembersAre
  <2>1. of[s] = MeaningOf(s, of, mods, u, f, w)
    BY <1>1, <1>6, <2>0 DEF Means
  <2>2. CASE ShownOf(s, of, mods) = Yes
    BY <2>0, <2>1, <2>2, MeaningIs
  <2>3. CASE ShownOf(s, of, mods) # Yes
    <3>1. BoolWith(s, mods) = TRUE
      BY MembersAre DEF BoolWith, BoolChoices, ValuesAreOfType
    <3>2. Under(Prompt[s], None, of) \in Tri
      BY <1>2, <2>0, PromptIs, UnderIs DEF HasType, Meanings
    <3>3. ShownOf(s, of, mods) = No
      BY <2>3, <3>1, <3>2 DEF ShownOf, Promote, Tri, No, Mod, Yes
    <3>4. BaseIn(s, of, u, f) \in Tri /\ BaseIn(s, of, v, g) \in Tri
      <4>1. DefaultOf(s, of) \in Tri
        BY <1>2, <2>0, DefaultOfIs DEF HasType, Meanings
      <4> QED
        BY <1>4, <2>0, <4>1 DEF BaseIn
    <3>5. ASSUME NEW t \in Tri PROVE Min({t, No}) = No
      <4>1. Min({t, No}) = IF t <= No THEN t ELSE No
        BY TwoAre DEF Tri
      <4> QED
        BY <4>1 DEF Tri, No, Mod, Yes
    <3>6. MeaningOf(s, of, mods, v, g, y) = [tri |->
              Promote(Min({BaseIn(s, of, v, g), ShownOf(s, of, mods)}), BoolWith(s, mods)),
            pick |-> None]
      BY <2>0, <2>3, MeaningIs
    <3>7. MeaningOf(s, of, mods, u, f, w) = [tri |->
              Promote(Min({BaseIn(s, of, u, f), ShownOf(s, of, mods)}), BoolWith(s, mods)),
            pick |-> None]
      BY <2>0, <2>3, MeaningIs
    <3>8. Min({BaseIn(s, of, u, f), No}) = No /\ Min({BaseIn(s, of, v, g), No}) = No
      BY <3>4, <3>5
    <3> QED
      BY <2>1, <3>3, <3>6, <3>7, <3>8
  <2> QED
    BY <2>2, <2>3
<1>9. ASSUME NEW s \in Symbols, s \notin ChoiceSymbols, s \notin MemberSet
      PROVE  of[s] = MeaningOf(s, of, mods, v, g, y)
  <2>0. s \in Options
    BY <1>9 DEF Symbols
  <2> DEFINE shut == ShownOf(s, of, mods) = No /\ LeastOf(s, of, mods) = No
             Says(h, k) == IF shut THEN Promote(DefaultOf(s, of), BoolWith(s, mods))
                           ELSE LimitedOf(BaseIn(s, of, h, k), s, of, mods)
  <2>1. of[s] = MeaningOf(s, of, mods, u, f, w)
    BY <1>1, <1>6, <1>9 DEF Means
  <2>2. \A h, k, z : MeaningOf(s, of, mods, h, k, z) = [tri |-> Says(h, k), pick |-> None]
    BY <1>9, MeaningIs
  <2>3. Says(v, g) = Says(u, f)
    <3>1. CASE shut
      BY <3>1
    <3>2. CASE ~shut
      <4>1. BaseIn(s, of, v, g) = Says(u, f)
        BY <1>5, <2>0, <2>1, <2>2 DEF BaseIn
      <4>2. PICK high, low, bool : /\ high = ShownOf(s, of, mods) /\ low = LeastOf(s, of, mods)
                                   /\ bool = BoolWith(s, mods)
        OBVIOUS
      <4>3. \A t : LimitedOf(t, s, of, mods) = Limited(t, high, low, bool)
        BY <4>2 DEF LimitedOf, Limited
      <4>4. PICK b : b = BaseIn(s, of, u, f)
        OBVIOUS
      <4>5. b \in Tri
        <5>1. DefaultOf(s, of) \in Tri
          BY <1>2, <2>0, DefaultOfIs DEF HasType, Meanings
        <5> QED
          BY <4>4, <5>1 DEF BaseIn
      <4>6. high \in Tri /\ low \in Tri /\ bool \in BOOLEAN
        <5>1. Under(Prompt[s], None, of) \in Tri /\ Under(Select[s], None, of) \in Tri
          BY <1>2, PromptIs, SelectIs, UnderIs DEF HasType, Meanings
        <5> QED
          BY <4>2, <5>1 DEF ShownOf, LeastOf, BoolWith, Promote, Tri
      <4>7. Says(u, f) = Limited(b, high, low, bool)
        BY <3>2, <4>3, <4>4
      <4>8. Says(v, g) = Limited(Says(u, f), high, low, bool)
        BY <3>2, <4>1, <4>3
      <4> QED
        BY <4>5, <4>6, <4>7, <4>8, LimitedTwice
    <3> QED
      BY <3>1, <3>2
  <2> QED
    BY <2>1, <2>2, <2>3
<1>10. \A s \in Symbols : of[s] = MeaningOf(s, of, ModsOf(of), v, g, y)
  BY <1>6, <1>7, <1>8, <1>9
<1> QED
  BY <1>4, <1>10, MeansNoOther

(* The file conf_write made, whatever is asked now; and what is asked now, *)
(* unless it was changed since.                                            *)
Rereads(lines) ==
  \A s \in Options :
    Meaning(LoadedUser(lines), LoadedFresh(lines), LoadedWish(lines))[s].tri = lines[s]
SavedInv ==
  /\ written => Rereads(file)
  /\ written /\ ~edited => \A s \in Options : Meaning(user, fresh, wish)[s].tri = file[s]

LEMMA SavedStep ==
  ASSUME Levelled, ModulesIsPlain, ValuesAreOfType, BoolChoices, TypeInv, KeptMeanIt,
         KeptMeanIt', SavedInv, [Next]_vars
  PROVE  SavedInv'
<1>1. CASE UNCHANGED <<asked, file, written, edited>>
  BY <1>1 DEF SavedInv, asked
<1>2. CASE StartLoad
  <2>1. PICK v, g, y : v = user' /\ g = fresh' /\ y = wish'
    OBVIOUS
  <2>2. /\ v = LoadedUser(file) /\ g = LoadedFresh(file) /\ y = LoadedWish(file)
        /\ file' = file /\ written' = written
    BY <1>2, <2>1 DEF StartLoad, fileVars
  <2>3. written => \A s \in Options : Meaning(v, g, y)[s].tri = file[s]
    BY <2>2 DEF SavedInv, Rereads
  <2> QED
    BY <2>1, <2>2, <2>3 DEF SavedInv
<1>3. CASE EndLoad
  <2>1. /\ stack = <<>> /\ valid = Symbols /\ stack' = <<>> /\ valid' = Symbols /\ tri' = tri
        /\ file' = file /\ written' = written /\ edited' = edited
    BY <1>3 DEF EndLoad, kept, fileVars
  <2>2. Settled = Symbols /\ Settled' = Symbols
    BY <2>1 DEF Settled, OnStack, Open
  <2>3. PICK of : of = Meaning(user, fresh, wish)
    OBVIOUS
  <2>4. PICK on : on = Meaning(user', fresh', wish')
    OBVIOUS
  <2>5. \A s \in Symbols : on[s].tri = of[s].tri
    BY <2>1, <2>2, <2>3, <2>4 DEF KeptMeanIt
  <2> QED
    BY <2>1, <2>3, <2>4, <2>5, MembersAre DEF SavedInv
<1>4. CASE StartSave
  BY <1>1, <1>4 DEF StartSave, fileVars
<1>5. CASE EndSave
  <2>1. /\ stack = <<>> /\ Options \subseteq valid /\ file' = [s \in Options |-> tri[s]]
        /\ user' = user /\ fresh' = fresh /\ wish' = wish
    BY <1>5 DEF EndSave, symbolVars, asked
  <2>2. Options \subseteq Settled
    BY <2>1 DEF Settled, OnStack, Open
  <2>3. PICK of : of = Meaning(user, fresh, wish)
    OBVIOUS
  <2>4. \A s \in Options : of[s].tri = tri[s]
    BY <2>1, <2>2, <2>3 DEF KeptMeanIt
  <2>5. PICK lines : lines = file'
    OBVIOUS
  <2>6. lines = [s \in Options |-> of[s].tri]
    BY <2>1, <2>4, <2>5
  <2>7. WishesOK(wish) /\ \A a \in Symbols : user[a] \in Tri
    BY DEF TypeInv, WishOK, WishesOK, TypeOK, SymbolTypeOK
  <2>8. PICK v, g, y : /\ v = LoadedUser(lines) /\ g = LoadedFresh(lines)
                       /\ y = LoadedWish(lines)
    OBVIOUS
  <2>9. \A s \in Symbols : Meaning(v, g, y)[s] = of[s]
    BY <2>3, <2>6, <2>7, <2>8, RereadIs
  <2>10. \A s \in Options : of[s].tri = lines[s]
    BY <2>6
  <2>11. Rereads(lines)
    BY <2>8, <2>9, <2>10, MembersAre DEF Rereads
  <2> QED
    BY <2>1, <2>3, <2>5, <2>10, <2>11 DEF SavedInv
<1>6. ASSUME NEW s \in Symbols, NEW val \in Tri, Set(s, val) PROVE SavedInv'
  BY <1>6 DEF Set, SavedInv, fileVars
<1>7. CASE Calculation
  <2>1. UNCHANGED asked
    <3>1. CASE Calculate
      BY <3>1, CalculateTypes
    <3>2. ASSUME NEW s \in Symbols, CalcSymbol(s) PROVE UNCHANGED asked
      BY <3>2 DEF CalcSymbol
    <3> QED
      BY <1>7, <3>1, <3>2 DEF Calculation
  <2> QED
    BY <1>1, <1>7, <2>1 DEF Calculation, fileVars
<1>8. CASE UNCHANGED vars
  BY <1>1, <1>8 DEF vars, symbolVars, fileVars
<1> QED
  BY <1>2, <1>3, <1>4, <1>5, <1>6, <1>7, <1>8 DEF Next

(* A file that was saved gives, when it is read and calculated, what was   *)
(* saved: no wish of a choice and no answer that is not a line of it is    *)
(* needed.                                                                 *)
THEOREM SavedIsKept ==
  ASSUME Levelled, ModulesIsPlain, ValuesArePlain, ValuesAreOfType, BoolChoices
  PROVE  Spec => []SavedIsReread
<1>1. Spec => []AllKnown
  BY AllIsKnown
<1>2. Init => SavedInv
  BY DEF Init, SavedInv
<1>3. AllKnown /\ AllKnown' /\ SavedInv /\ [Next]_vars => SavedInv'
  BY SavedStep DEF AllKnown
<1>4. AllKnown /\ SavedInv => SavedIsReread
  <2> SUFFICES ASSUME AllKnown, SavedInv, AtRest, written, ~edited, NEW s \in Options \cap valid
               PROVE  tri[s] = file[s]
    BY DEF SavedIsReread
  <2>1. stack = <<>> /\ Settled = valid
    BY DEF AtRest, Settled, OnStack, Open
  <2> QED
    BY <2>1 DEF AllKnown, KeptMeanIt, SavedInv
<1> QED
  BY <1>1, <1>2, <1>3, <1>4, PTL DEF Spec
=============================================================================
