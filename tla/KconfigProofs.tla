--------------------------- MODULE KconfigProofs ---------------------------
(* What the operators of Kconfig and ConfigFile return, for every tree.    *)
EXTENDS ConfigFile, SequenceTheorems, FiniteSetTheorems, WellFoundedInduction, TLAPS

Atom == Symbols \cup {M}

(* Of two values, and of any set of values.                                *)
LEMMA TwoAre ==
  ASSUME NEW t \in Tri, NEW u \in Tri
  PROVE  /\ Max({t, u}) = IF t >= u THEN t ELSE u
         /\ Min({t, u}) = IF t <= u THEN t ELSE u
BY DEF Max, Min, Tri, No, Mod, Yes

LEMMA MostAre ==
  ASSUME NEW S \in SUBSET Tri
  PROVE  /\ MaxOf(S) \in Tri /\ \A t \in S : t <= MaxOf(S)
         /\ MaxOf(S) \in S \cup {No}
         /\ MinOf(S) \in Tri /\ \A t \in S : MinOf(S) <= t
         /\ MinOf(S) \in S \cup {Yes}
<1>1. S \cup {No} \subseteq Tri /\ S \cup {Yes} \subseteq Tri
  BY DEF Tri
<1>2. \E x \in S \cup {No} : \A y \in S \cup {No} : x >= y
  <2>1. CASE Yes \in S
    BY <1>1, <2>1 DEF Tri, No, Mod, Yes
  <2>2. CASE Yes \notin S /\ Mod \in S
    BY <1>1, <2>2 DEF Tri, No, Mod, Yes
  <2>3. CASE Yes \notin S /\ Mod \notin S
    BY <1>1, <2>3 DEF Tri, No, Mod, Yes
  <2> QED
    BY <2>1, <2>2, <2>3
<1>3. \E x \in S \cup {Yes} : \A y \in S \cup {Yes} : x <= y
  <2>1. CASE No \in S
    BY <1>1, <2>1 DEF Tri, No, Mod, Yes
  <2>2. CASE No \notin S /\ Mod \in S
    BY <1>1, <2>2 DEF Tri, No, Mod, Yes
  <2>3. CASE No \notin S /\ Mod \notin S
    BY <1>1, <2>3 DEF Tri, No, Mod, Yes
  <2> QED
    BY <2>1, <2>2, <2>3
<1>4. MaxOf(S) \in S \cup {No} /\ \A y \in S \cup {No} : MaxOf(S) >= y
  BY <1>2 DEF MaxOf, Max
<1>5. MinOf(S) \in S \cup {Yes} /\ \A y \in S \cup {Yes} : MinOf(S) <= y
  BY <1>3 DEF MinOf, Min
<1> QED
  BY <1>1, <1>4, <1>5 DEF Tri, No, Mod, Yes

(* An expression has a value, whatever values its symbols have.            *)
LEMMA EvalIs ==
  ASSUME NEW e \in Expressions, NEW v, \A a \in Atoms(e) : v[a] \in Tri
  PROVE  Eval(e, v) \in Tri
<1>1. \A conj \in e : \A l \in conj : l[2][v[l[1]]] \in Tri
  BY DEF Expressions, Atoms
<1>2. \A conj \in e : {l[2][v[l[1]]] : l \in conj} \in SUBSET Tri
  BY <1>1
<1>3. \A conj \in e : MinOf({l[2][v[l[1]]] : l \in conj}) \in Tri
  BY <1>2, MostAre
<1>4. {MinOf({l[2][v[l[1]]] : l \in conj}) : conj \in e} \in SUBSET Tri
  BY <1>3
<1> QED
  BY <1>4, MostAre DEF Eval

LEMMA AtomsAre ==
  ASSUME NEW e \in Expressions PROVE Atoms(e) \subseteq Atom
BY DEF Expressions, Atoms, Atom

LEMMA PromoteIs ==
  ASSUME NEW t \in Tri, NEW bool \in BOOLEAN
  PROVE  Promote(t, bool) \in Tri /\ (bool => Promote(t, bool) # Mod)
BY DEF Promote, Tri, No, Mod, Yes

(* And and Or make expressions of expressions.                             *)
LEMMA AndIs ==
  ASSUME NEW e \in Expressions, NEW f \in Expressions
  PROVE  And(e, f) \in Expressions /\ Atoms(And(e, f)) \subseteq Atoms(e) \cup Atoms(f)
BY DEF And, Expressions, Atoms

LEMMA OrIs ==
  ASSUME NEW e \in Expressions, NEW f \in Expressions
  PROVE  Or(e, f) \in Expressions
BY DEF Or, Expressions

LEMMA LiteralsAre ==
  /\ Always \in Expressions /\ Never \in Expressions
  /\ {{<<M, Identity>>}} \in Expressions
  /\ \A s \in Symbols : If(s) \in Expressions
<1>1. Identity \in [Tri -> Tri]
  BY DEF Identity
<1> QED
  BY <1>1 DEF Always, Never, If, Expressions

(* A disjunction is one of its conjunctions, and no less than any.         *)
Smallest(conj, v) == MinOf({l[2][v[l[1]]] : l \in conj})

LEMMA ConjunctsAre ==
  ASSUME NEW e \in Expressions, NEW v, \A a \in Atoms(e) : v[a] \in Tri
  PROVE  /\ \A conj \in e : /\ Smallest(conj, v) \in Tri /\ Smallest(conj, v) <= Eval(e, v)
                            /\ \A l \in conj : l[2][v[l[1]]] \in Tri
         /\ Eval(e, v) = No \/ \E conj \in e : Eval(e, v) = Smallest(conj, v)
<1>1. \A conj \in e : \A l \in conj : l[2][v[l[1]]] \in Tri
  BY DEF Expressions, Atoms
<1>2. \A conj \in e : {l[2][v[l[1]]] : l \in conj} \in SUBSET Tri
  BY <1>1
<1>3. \A conj \in e : Smallest(conj, v) \in Tri
  BY <1>2, MostAre DEF Smallest
<1>4. {Smallest(conj, v) : conj \in e} \in SUBSET Tri
  BY <1>3
<1>5. PICK S \in SUBSET Tri : S = {Smallest(conj, v) : conj \in e}
  BY <1>4
<1>6. Eval(e, v) = MaxOf(S)
  BY <1>5 DEF Eval, Smallest
<1>7. (\A t \in S : t <= MaxOf(S)) /\ MaxOf(S) \in S \cup {No}
  BY MostAre
<1> QED
  BY <1>1, <1>3, <1>5, <1>6, <1>7

LEMMA AndIsLeast ==
  ASSUME NEW e \in Expressions, NEW f \in Expressions, NEW v, NEW t \in Tri,
         \A a \in Atoms(e) \cup Atoms(f) : v[a] \in Tri, t <= Eval(e, v), t <= Eval(f, v)
  PROVE  t <= Eval(And(e, f), v)
<1>0. And(e, f) \in Expressions /\ Atoms(And(e, f)) \subseteq Atoms(e) \cup Atoms(f)
  BY AndIs
<1>1. \A a \in Atoms(And(e, f)) : v[a] \in Tri
  BY <1>0
<1>2. Eval(And(e, f), v) \in Tri
  BY <1>0, <1>1, EvalIs
<1>3. CASE t = No
  BY <1>2, <1>3 DEF Tri, No, Mod, Yes
<1>4. CASE t # No
  <2>1. Eval(e, v) # No /\ Eval(f, v) # No
    BY <1>4 DEF Tri, No, Mod, Yes
  <2>2. PICK a \in e : Eval(e, v) = Smallest(a, v)
    BY <2>1, ConjunctsAre
  <2>3. PICK b \in f : Eval(f, v) = Smallest(b, v)
    BY <2>1, ConjunctsAre
  <2>a. (\A l \in a : l[2][v[l[1]]] \in Tri) /\ (\A l \in b : l[2][v[l[1]]] \in Tri)
    BY ConjunctsAre
  <2>4. PICK A : A = {l[2][v[l[1]]] : l \in a}
    OBVIOUS
  <2>5. PICK B : B = {l[2][v[l[1]]] : l \in b}
    OBVIOUS
  <2>b. A \in SUBSET Tri /\ B \in SUBSET Tri
    BY <2>a, <2>4, <2>5
  <2>6. (\A u \in A : MinOf(A) <= u) /\ (\A u \in B : MinOf(B) <= u)
        /\ MinOf(A) \in Tri /\ MinOf(B) \in Tri
    BY <2>b, MostAre
  <2>7. t <= MinOf(A) /\ t <= MinOf(B)
    BY <2>2, <2>3, <2>4, <2>5 DEF Smallest
  <2>8. PICK C \in SUBSET Tri : C = A \cup B
    BY <2>b
  <2>9. MinOf(C) \in C \cup {Yes} /\ \A u \in C : t <= u
    <3>1. \A u \in C : t <= u
      BY <2>6, <2>7, <2>8, <2>b DEF Tri, No, Mod, Yes
    <3> QED
      BY <3>1, MostAre
  <2>10. t <= MinOf(C)
    <3>1. t <= Yes
      BY DEF Tri, No, Mod, Yes
    <3> QED
      BY <2>9, <3>1
  <2>11. a \cup b \in And(e, f)
    BY DEF And
  <2>12. Smallest(a \cup b, v) = MinOf(C)
    <3>1. {l[2][v[l[1]]] : l \in a \cup b} = C
      BY <2>4, <2>5, <2>8
    <3> QED
      BY <3>1 DEF Smallest
  <2>13. MinOf(C) <= Eval(And(e, f), v) /\ MinOf(C) \in Tri
    BY <1>0, <1>1, <2>11, <2>12, ConjunctsAre
  <2> QED
    BY <1>2, <2>10, <2>13 DEF Tri, No, Mod, Yes
<1> QED
  BY <1>3, <1>4

(* What a disjunction contains is no more than it.                         *)
LEMMA MoreIsMore ==
  ASSUME NEW e \in Expressions, NEW f \in Expressions, e \subseteq f, NEW v,
         \A a \in Atoms(f) : v[a] \in Tri
  PROVE  Eval(e, v) <= Eval(f, v)
<1>1. \A a \in Atoms(e) : v[a] \in Tri
  BY DEF Atoms
<1>2. Eval(f, v) \in Tri
  BY EvalIs
<1>3. CASE Eval(e, v) = No
  BY <1>2, <1>3 DEF Tri, No, Mod, Yes
<1>4. CASE \E conj \in e : Eval(e, v) = Smallest(conj, v)
  BY <1>4, ConjunctsAre
<1> QED
  BY <1>1, <1>3, <1>4, ConjunctsAre

LEMMA IfIs ==
  ASSUME NEW s \in Symbols, NEW v, v[s] \in Tri
  PROVE  Eval(If(s), v) = v[s] /\ Atoms(If(s)) = {s}
<1>1. PICK l : l = <<s, Identity>>
  OBVIOUS
<1>2. If(s) = {{l}} /\ l[2][v[l[1]]] = v[s] /\ l[1] = s
  BY <1>1 DEF If, Identity
<1>3. PICK t \in Tri : t = v[s]
  OBVIOUS
<1>4. Smallest({l}, v) = MinOf({t})
  <2>1. {x[2][v[x[1]]] : x \in {l}} = {t}
    BY <1>2, <1>3
  <2> QED
    BY <2>1 DEF Smallest
<1>5. MinOf({t}) = t
  <2>1. MinOf({t}) \in {t, Yes} /\ MinOf({t}) <= t
    BY MostAre
  <2> QED
    BY <2>1 DEF Tri, No, Mod, Yes
<1>6. {Smallest(conj, v) : conj \in If(s)} = {t}
  BY <1>2, <1>4, <1>5
<1>7. Eval(If(s), v) = MaxOf({t})
  BY <1>6 DEF Eval, Smallest
<1>8. MaxOf({t}) = t
  <2>1. MaxOf({t}) \in {t, No} /\ t <= MaxOf({t})
    BY MostAre
  <2> QED
    BY <2>1 DEF Tri, No, Mod, Yes
<1>9. Atoms(If(s)) = {s}
  BY <1>2 DEF Atoms
<1> QED
  BY <1>3, <1>7, <1>8, <1>9

(* Choice values and their choices.                                        *)
LEMMA MembersAre ==
  /\ \A c \in ChoiceSymbols : Members[c] \in Seq(Options) /\ Range(Members[c]) \subseteq MemberSet
  /\ MemberSet \subseteq Options /\ Options \subseteq Symbols /\ ChoiceSymbols \subseteq Symbols
  /\ MemberSet \cap ChoiceSymbols = {}
  /\ \A m \in MemberSet : ChoiceOf(m) \in ChoiceSymbols /\ m \in Range(Members[ChoiceOf(m)])
  /\ \A c \in ChoiceSymbols : \A m \in Range(Members[c]) : ChoiceOf(m) = c
<1>1. \A c \in ChoiceSymbols : Members[c] \in Seq(Options)
  BY SymbolsAssumption
<1>2. \A c \in ChoiceSymbols : Range(Members[c]) \subseteq Options
  BY <1>1 DEF Range
<1>3. \A c \in ChoiceSymbols : Range(Members[c]) \subseteq MemberSet
  BY DEF MemberSet
<1>4. MemberSet \subseteq Options
  BY <1>2 DEF MemberSet
<1>5. \A m \in MemberSet : ChoiceOf(m) \in ChoiceSymbols /\ m \in Range(Members[ChoiceOf(m)])
  BY DEF MemberSet, ChoiceOf
<1>6. \A c \in ChoiceSymbols : \A m \in Range(Members[c]) : ChoiceOf(m) = c
  BY <1>3, <1>5, SymbolsAssumption
<1> QED
  BY <1>1, <1>3, <1>4, <1>5, <1>6, SymbolsAssumption DEF Symbols

(* The conditions of a symbol are expressions.                             *)
LEMMA BaseIs == ASSUME NEW s \in Symbols PROVE Base(s) \in Expressions
<1>1. Depends[s] \in Expressions
  BY ExpressionsAssumption
<1>2. s \in MemberSet => If(ChoiceOf(s)) \in Expressions
  BY MembersAre, LiteralsAre
<1> QED
  BY <1>1, <1>2, AndIs DEF Base

LEMMA PromptIs == ASSUME NEW s \in Symbols PROVE Prompt[s] \in Expressions
  BY BaseIs, AndIs, ExpressionsAssumption DEF Prompt

LEMMA SelectIs == ASSUME NEW s \in Symbols PROVE Select[s] \in Expressions
<1> DEFINE by(d) == And(If(d.by), And(Base(d.by), d.when))
           of == {d \in Selects : d.target = s}
           bound == IF s \in ChoiceSymbols \ Optional
                    THEN And(Prompt[s], {{<<M, Identity>>}}) ELSE Never
<1>1. ASSUME NEW d \in Selects PROVE by(d) \in Expressions
  <2>1. d.by \in Symbols /\ d.when \in Expressions
    BY ExpressionsAssumption, MembersAre
  <2> QED
    BY <2>1, BaseIs, LiteralsAre, AndIs
<1>2. UNION {by(d) : d \in of} \in Expressions
  <2> HIDE DEF by
  <2> QED
    BY <1>1 DEF Expressions
<1>3. bound \in Expressions
  BY PromptIs, LiteralsAre, AndIs
<1>4. Select[s] = Or(UNION {by(d) : d \in of}, bound)
  BY DEF Select
<1> HIDE DEF by, of, bound
<1> QED
  BY <1>2, <1>3, <1>4, OrIs

LEMMA DefaultIs ==
  ASSUME NEW s \in Symbols
  PROVE  /\ DOMAIN Default[s] = DOMAIN Defaults[s]
         /\ DOMAIN Default[s] = 1..Len(Default[s]) /\ Len(Default[s]) \in Nat
         /\ \A i \in DOMAIN Default[s] :
              /\ Default[s][i].when \in Expressions
              /\ s \in Options => Default[s][i].value \in Expressions
              /\ s \in ChoiceSymbols => Default[s][i].pick \in Range(Members[s])
<1> DEFINE T == IF s \in Options THEN [when : Expressions, value : Expressions]
                ELSE [when : Expressions, pick : Range(Members[s])]
           d == Defaults[s]
<1>1. d \in Seq(T)
  BY ExpressionsAssumption
<1>2. Default[s] = [i \in DOMAIN d |-> [d[i] EXCEPT !.when = And(Base(s), @)]]
  BY DEF Default
<1>3. \A i \in DOMAIN d : d[i] \in T
  BY <1>1
<1>4. ASSUME NEW i \in DOMAIN d
      PROVE  /\ Default[s][i].when \in Expressions
             /\ s \in Options => Default[s][i].value \in Expressions
             /\ s \in ChoiceSymbols => Default[s][i].pick \in Range(Members[s])
  <2>1. Base(s) \in Expressions
    BY BaseIs
  <2>2. CASE s \in Options
    <3>1. d[i] \in [when : Expressions, value : Expressions]
      BY <1>3, <2>2
    <3>2. Default[s][i].when = And(Base(s), d[i].when) /\ Default[s][i].value = d[i].value
      BY <1>2, <3>1
    <3> QED
      BY <2>1, <2>2, <3>1, <3>2, AndIs, SymbolsAssumption
  <2>3. CASE s \notin Options
    <3>1. d[i] \in [when : Expressions, pick : Range(Members[s])]
      BY <1>3, <2>3
    <3>2. Default[s][i].when = And(Base(s), d[i].when) /\ Default[s][i].pick = d[i].pick
      BY <1>2, <3>1
    <3> QED
      BY <2>1, <2>3, <3>1, <3>2, AndIs
  <2> QED
    BY <2>2, <2>3
<1>5. DOMAIN d = 1..Len(d) /\ Len(d) \in Nat /\ DOMAIN Default[s] = DOMAIN d
  BY <1>1, <1>2
<1>6. Len(Default[s]) = Len(d)
  BY <1>2, <1>5
<1> QED
  BY <1>4, <1>5, <1>6
-----------------------------------------------------------------------------
(* A set of numbers that has 0, and with each the next, has all.           *)
LEMMA Counting ==
  ASSUME NEW S, 0 \in S, \A n \in Nat : n \in S => n + 1 \in S
  PROVE  Nat \subseteq S
<1> DEFINE R == {p \in Nat \X Nat : p[1] < p[2]}
           T == Nat \ S
<1>1. IsWellFoundedOn(R, Nat)
  BY NatLessThanWellFounded DEF OpToRel
<1>2. SUFFICES ASSUME T # {} PROVE FALSE
  OBVIOUS
<1>3. PICK m \in T : \A y \in T : ~(<<y, m>> \in R)
  <2> HIDE DEF R, T
  <2>1. T \subseteq Nat
    BY DEF T
  <2> QED
    BY <1>1, <1>2, <2>1, WFMin
<1>4. m # 0 /\ m - 1 \in Nat /\ m - 1 < m
  BY <1>3
<1>5. m - 1 \in S
  BY <1>3, <1>4
<1> QED
  BY <1>3, <1>4, <1>5

LEMMA LeastExists ==
  ASSUME NEW T \in SUBSET Nat, T # {} PROVE \E x \in T : \A y \in T : x <= y
<1> DEFINE R == {p \in Nat \X Nat : p[1] < p[2]}
<1>1. IsWellFoundedOn(R, Nat)
  BY NatLessThanWellFounded DEF OpToRel
<1>2. PICK x \in T : \A y \in T : ~(<<y, x>> \in R)
  <2> HIDE DEF R
  <2> QED
    BY <1>1, WFMin
<1>3. \A y \in T : ~(y < x)
  BY <1>2
<1> QED
  BY <1>3

(* The greatest number of a set that has the greatest it may have.         *)
LEMMA TopIs ==
  ASSUME NEW n \in Nat, NEW T \in SUBSET (1..(n + 1)), n + 1 \in T
  PROVE  Max(T) = n + 1
<1>1. n + 1 \in T /\ \A y \in T : n + 1 >= y
  OBVIOUS
<1>2. PICK m : m = Max(T)
  OBVIOUS
<1>3. m \in T /\ \A y \in T : m >= y
  BY <1>1, <1>2 DEF Max
<1>4. m >= n + 1 /\ m \in 1..(n + 1)
  BY <1>3
<1> QED
  BY <1>2, <1>4

(* What a choice gathers from the lines of its values.                     *)
GatheredOf(c) == [tri : Tri, wish : Range(Members[c]) \cup {None}, fresh : BOOLEAN]

LEMMA GatherIs ==
  ASSUME NEW file \in Files, NEW c \in ChoiceSymbols, NEW m \in Range(Members[c]),
         NEW sum \in GatheredOf(c)
  PROVE  Gather(file, sum, m) \in GatheredOf(c)
<1>1. file[m] \in Tri \cup {Unset}
  BY MembersAre DEF Files
<1>2. file[m] # Unset => Max({sum.tri, file[m]}) \in Tri
  BY <1>1, TwoAre DEF GatheredOf
<1> QED
  BY <1>1, <1>2 DEF Gather, GatheredOf

(* They are gathered one after the other.                                  *)
Gathers(h, file, c) ==
  /\ Gathered(file, c) = h[Len(Members[c])]
  /\ h[0] = [tri |-> No, wish |-> None, fresh |-> FALSE]
  /\ \A k \in 1..Len(Members[c]) : h[k] = Gather(file, h[k - 1], Members[c][k])

LEMMA GatheredSteps ==
  ASSUME NEW file, NEW c \in ChoiceSymbols PROVE \E h : Gathers(h, file, c)
<1> DEFINE none == [tri |-> No, wish |-> None, fresh |-> FALSE]
           val == Members[c]
           Goes(g, n) ==
             g = [s \in SUBSET (1..n) |->
                    IF s = {} THEN none ELSE Gather(file, g[s \ {Max(s)}], val[Max(s)])]
<1>1. \A n \in Nat : \E g : Goes(g, n)
  <2> DEFINE S == {n \in Nat : \E g : Goes(g, n)}
  <2>1. 0 \in S
    <3>1. Goes([s \in SUBSET (1..0) |-> none], 0)
      OBVIOUS
    <3> QED
      BY <3>1
  <2>2. ASSUME NEW n \in Nat, n \in S PROVE n + 1 \in S
    <3>1. PICK g : Goes(g, n)
      BY <2>2
    <3> DEFINE h == [s \in SUBSET (1..(n + 1)) |->
                       IF s = {} THEN none
                       ELSE IF n + 1 \in s THEN Gather(file, g[s \ {n + 1}], val[n + 1])
                       ELSE g[s]]
    <3>2. \A s \in SUBSET (1..n) : h[s] = g[s] /\ s \in SUBSET (1..(n + 1))
      <4>1. g[{}] = none
        BY <3>1
      <4>2. \A s \in SUBSET (1..n) : n + 1 \notin s /\ s \in SUBSET (1..(n + 1))
        OBVIOUS
      <4> QED
        BY <4>1, <4>2
    <3>3. ASSUME NEW s \in SUBSET (1..(n + 1)), s # {}
          PROVE  h[s] = Gather(file, h[s \ {Max(s)}], val[Max(s)])
      <4>1. CASE n + 1 \in s
        <5>1. Max(s) = n + 1 /\ s \ {n + 1} \in SUBSET (1..n)
          BY <4>1, TopIs
        <5>2. h[s \ {n + 1}] = g[s \ {n + 1}]
          BY <3>2, <5>1
        <5>3. h[s] = Gather(file, g[s \ {n + 1}], val[n + 1])
          BY <3>3, <4>1
        <5> QED
          BY <5>1, <5>2, <5>3
      <4>2. CASE n + 1 \notin s
        <5>0. \A i \in s : i \in 1..n
          BY <3>3, <4>2
        <5>1. s \in SUBSET (1..n) /\ s \ {Max(s)} \in SUBSET (1..n)
          BY <5>0
        <5>2. g[s] = Gather(file, g[s \ {Max(s)}], val[Max(s)])
          BY <3>1, <3>3, <5>1
        <5> HIDE DEF h
        <5> QED
          BY <3>2, <5>1, <5>2
      <4> QED
        BY <4>1, <4>2
    <3>4. h[{}] = none /\ h = [s \in SUBSET (1..(n + 1)) |-> h[s]]
      OBVIOUS
    <3>5. Goes(h, n + 1)
      <4> HIDE DEF h
      <4> QED
        BY <3>3, <3>4
    <3> HIDE DEF Goes, h
    <3> QED
      BY <3>5
  <2> HIDE DEF S, Goes
  <2>3. Nat \subseteq S
    BY <2>1, <2>2, Counting
  <2> QED
    BY <2>3 DEF S
<1>2. DOMAIN val = 1..Len(val) /\ Len(val) \in Nat
  BY MembersAre
<1>3. PICK g : g = CHOOSE f : Goes(f, Len(val))
  OBVIOUS
<1>4. Goes(g, Len(val))
  <2> HIDE DEF Goes
  <2> QED
    BY <1>1, <1>2, <1>3
<1>5. Gathered(file, c) = g[1..Len(val)]
  BY <1>2, <1>3 DEF Gathered, FoldLeft, MapThenFoldSet
<1>6. PICK h : h = [k \in 0..Len(val) |-> g[1..k]]
  OBVIOUS
<1>7. h[Len(val)] = g[1..Len(val)] /\ h[0] = none
  <2>1. g[{}] = none /\ 1..0 = {}
    BY <1>4
  <2> QED
    BY <1>2, <1>6, <2>1
<1>8. ASSUME NEW k \in 1..Len(val) PROVE h[k] = Gather(file, h[k - 1], val[k])
  <2>1. PICK n \in Nat : n = Len(val)
    BY <1>2
  <2>2. 1..((k - 1) + 1) = 1..k /\ 1..k \in SUBSET (1..Len(val)) /\ k \in 1..k /\ k - 1 \in Nat
        /\ k \in 0..Len(val) /\ k - 1 \in 0..Len(val)
    BY <1>8, <2>1
  <2>3. Max(1..k) = k /\ (1..k) \ {k} = 1..(k - 1)
    <3>1. PICK l \in Nat : l = k - 1
      BY <2>2
    <3>2. k = l + 1 /\ 1..k \in SUBSET (1..(l + 1)) /\ l + 1 \in 1..k
      BY <1>8, <2>1, <3>1
    <3>3. Max(1..k) = l + 1
      BY <3>2, TopIs
    <3> QED
      BY <1>8, <2>1, <3>1, <3>2, <3>3
  <2>4. g[1..k] = Gather(file, g[1..(k - 1)], val[k])
    BY <1>4, <2>2, <2>3
  <2> QED
    BY <1>6, <2>2, <2>4
<1> QED
  BY <1>5, <1>7, <1>8 DEF Gathers

LEMMA GatheredIs ==
  ASSUME NEW file \in Files, NEW c \in ChoiceSymbols
  PROVE  Gathered(file, c) \in GatheredOf(c)
<1>0. PICK h : Gathers(h, file, c)
  BY GatheredSteps
<1>1. /\ Gathered(file, c) = h[Len(Members[c])]
      /\ h[0] = [tri |-> No, wish |-> None, fresh |-> FALSE]
      /\ \A k \in 1..Len(Members[c]) : h[k] = Gather(file, h[k - 1], Members[c][k])
  BY <1>0 DEF Gathers
<1>2. PICK n \in Nat : n = Len(Members[c]) /\ DOMAIN Members[c] = 1..n
  BY MembersAre
<1> DEFINE S == {k \in Nat : k <= n => h[k] \in GatheredOf(c)}
<1>3. 0 \in S
  <2>1. [tri |-> No, wish |-> None, fresh |-> FALSE] \in GatheredOf(c)
    BY DEF GatheredOf, Tri
  <2> QED
    BY <1>1, <2>1
<1>4. ASSUME NEW k \in Nat, k \in S PROVE k + 1 \in S
  <2> SUFFICES ASSUME k + 1 <= n PROVE h[k + 1] \in GatheredOf(c)
    OBVIOUS
  <2>1. k + 1 \in 1..n /\ (k + 1) - 1 = k /\ h[k] \in GatheredOf(c)
    BY <1>4
  <2>2. h[k + 1] = Gather(file, h[k], Members[c][k + 1])
    BY <1>1, <1>2, <2>1
  <2>3. Members[c][k + 1] \in Range(Members[c])
    BY <1>2, <2>1 DEF Range
  <2> QED
    BY <2>1, <2>2, <2>3, GatherIs
<1> HIDE DEF S
<1>5. Nat \subseteq S
  BY <1>3, <1>4, Counting
<1> QED
  BY <1>1, <1>2, <1>5 DEF S

(* Of a choice one of whose values is built in.                            *)
LEMMA GatheredOne ==
  ASSUME NEW file, Unset \notin Tri, NEW c \in ChoiceSymbols, NEW p \in Range(Members[c]),
         \A m \in Range(Members[c]) : file[m] = IF m = p THEN Yes ELSE No
  PROVE  Gathered(file, c).tri = Yes /\ Gathered(file, c).wish = p
<1> DEFINE val == Members[c]
           Before(k) == \A i \in 1..k : val[i] # p
           Right(k, sum) == IF Before(k) THEN sum = [tri |-> No, wish |-> None, fresh |-> FALSE]
                            ELSE sum.tri = Yes /\ sum.wish = p
<1>0. PICK h : Gathers(h, file, c)
  BY GatheredSteps
<1>1. /\ Gathered(file, c) = h[Len(val)]
      /\ h[0] = [tri |-> No, wish |-> None, fresh |-> FALSE]
      /\ \A k \in 1..Len(val) : h[k] = Gather(file, h[k - 1], val[k])
  BY <1>0 DEF Gathers
<1>2. PICK n \in Nat : n = Len(val) /\ DOMAIN val = 1..n
  BY MembersAre
<1>3. /\ Max({No, No}) = No /\ Max({No, Yes}) = Yes /\ Max({Yes, No}) = Yes
      /\ Max({Yes, Yes}) = Yes /\ No # Yes /\ No # Unset /\ Yes # Unset /\ No # Mod /\ Yes # Mod
  BY TwoAre DEF Tri, No, Mod, Yes
<1> DEFINE S == {k \in Nat : k <= n => Right(k, h[k])}
<1>4. 0 \in S
  BY <1>1
<1>5. ASSUME NEW k \in Nat, k \in S PROVE k + 1 \in S
  <2> SUFFICES ASSUME k + 1 <= n PROVE Right(k + 1, h[k + 1])
    OBVIOUS
  <2>1. k + 1 \in 1..n /\ (k + 1) - 1 = k /\ Right(k, h[k])
    BY <1>5
  <2>2. PICK m \in Range(val) : m = val[k + 1]
    BY <1>2, <2>1 DEF Range
  <2>3. PICK sum : sum = h[k]
    OBVIOUS
  <2>4. h[k + 1] = Gather(file, sum, m)
    BY <1>1, <1>2, <2>1, <2>2, <2>3
  <2>5. Before(k + 1) <=> Before(k) /\ m # p
    BY <2>1, <2>2
  <2>6. CASE m = p
    <3>1. file[m] = Yes
      BY <2>6
    <3>2. h[k + 1].tri = Max({sum.tri, Yes})
          /\ h[k + 1].wish = IF sum.tri = No THEN p ELSE sum.wish
      BY <1>3, <2>4, <2>6, <3>1 DEF Gather
    <3>3. CASE Before(k)
      <4>1. sum.tri = No
        BY <2>1, <2>3, <3>3
      <4> QED
        BY <1>3, <2>5, <2>6, <3>2, <4>1
    <3>4. CASE ~Before(k)
      <4>1. sum.tri = Yes /\ sum.wish = p
        BY <2>1, <2>3, <3>4
      <4> QED
        BY <1>3, <2>5, <2>6, <3>2, <4>1
    <3> QED
      BY <3>3, <3>4
  <2>7. CASE m # p
    <3>1. file[m] = No
      BY <2>7
    <3>2. h[k + 1] = [tri |-> Max({sum.tri, No}), wish |-> sum.wish,
                      fresh |-> sum.fresh \/ FALSE \/ FALSE]
      BY <1>3, <2>4, <3>1 DEF Gather
    <3>3. CASE Before(k)
      <4>1. sum = [tri |-> No, wish |-> None, fresh |-> FALSE]
        BY <2>1, <2>3, <3>3
      <4> QED
        BY <1>3, <2>5, <2>7, <3>2, <3>3, <4>1
    <3>4. CASE ~Before(k)
      <4>1. sum.tri = Yes /\ sum.wish = p
        BY <2>1, <2>3, <3>4
      <4> QED
        BY <1>3, <2>5, <3>2, <3>4, <4>1
    <3> QED
      BY <3>3, <3>4
  <2> QED
    BY <2>6, <2>7
<1> HIDE DEF S
<1>6. Nat \subseteq S
  BY <1>4, <1>5, Counting
<1>7. ~Before(n)
  <2>1. PICK i \in 1..n : val[i] = p
    BY <1>2 DEF Range
  <2> QED
    BY <2>1
<1> HIDE DEF Before
<1> QED
  BY <1>1, <1>2, <1>6, <1>7 DEF S

(* What conf_read_simple leaves.                                           *)
LEMMA LoadedIs ==
  ASSUME NEW file \in Files
  PROVE  /\ LoadedUser(file) \in [Symbols -> Tri]
         /\ LoadedWish(file) \in [ChoiceSymbols -> Options \cup {None}]
         /\ \A c \in ChoiceSymbols : LoadedWish(file)[c] \in Range(Members[c]) \cup {None}
         /\ LoadedFresh(file) \subseteq Symbols
<1>1. \A c \in ChoiceSymbols : /\ Gathered(file, c).tri \in Tri
                               /\ Gathered(file, c).wish \in Range(Members[c]) \cup {None}
  BY GatheredIs DEF GatheredOf
<1>2. \A s \in Options : file[s] \in Tri \cup {Unset}
  BY DEF Files
<1>3. \A s \in Symbols : LoadedUser(file)[s] \in Tri
  BY <1>1, <1>2, MembersAre DEF LoadedUser, Symbols, Tri
<1>4. \A c \in ChoiceSymbols : Range(Members[c]) \subseteq Options
  BY MembersAre
<1> QED
  BY <1>1, <1>3, <1>4, MembersAre DEF LoadedUser, LoadedWish, LoadedFresh
-----------------------------------------------------------------------------
(* Whom a choice may fall on: its values, none under a condition that is   *)
(* not an expression.                                                      *)
LEMMA CandidatesMean ==
  ASSUME NEW c \in ChoiceSymbols, NEW wish, wish[c] \in Range(Members[c]) \cup {None}
  PROVE  /\ DOMAIN Candidates(c, wish) = 1..Len(Candidates(c, wish))
         /\ Len(Candidates(c, wish)) \in Nat
         /\ \A i \in 1..Len(Candidates(c, wish)) :
              /\ Candidates(c, wish)[i].when \in Expressions
              /\ Candidates(c, wish)[i].pick \in Range(Members[c])
         /\ wish[c] # None => /\ 1 \in 1..Len(Candidates(c, wish))
                              /\ Candidates(c, wish)[1] = [when |-> Always, pick |-> wish[c]]
         /\ \A m \in Range(Members[c]) :
              \E i \in 1..Len(Candidates(c, wish)) :
                Candidates(c, wish)[i] = [when |-> Always, pick |-> m]
<1> DEFINE T == [when : Expressions, pick : Range(Members[c])]
           first == IF wish[c] = None THEN <<>> ELSE << [when |-> Always, pick |-> wish[c]] >>
           last == [i \in DOMAIN Members[c] |-> [when |-> Always, pick |-> Members[c][i]]]
<1>1. first \in Seq(T)
  <2>1. wish[c] # None => [when |-> Always, pick |-> wish[c]] \in T
    BY LiteralsAre
  <2> HIDE DEF T
  <2> QED
    BY <2>1
<1>2. Default[c] \in Seq(T)
  <2>1. c \in Symbols /\ c \notin Options
    BY SymbolsAssumption DEF Symbols
  <2>2. Defaults[c] \in Seq(T)
    BY <2>1, ExpressionsAssumption
  <2>3. Default[c] = [i \in DOMAIN Defaults[c] |-> [Defaults[c][i] EXCEPT !.when = And(Base(c), @)]]
    BY <2>1 DEF Default
  <2>4. \A i \in DOMAIN Defaults[c] : Defaults[c][i] \in T
    <3> HIDE DEF T
    <3> QED
      BY <2>2
  <2>5. \A i \in DOMAIN Defaults[c] : [Defaults[c][i] EXCEPT !.when = And(Base(c), @)] \in T
    BY <2>1, <2>4, BaseIs, AndIs
  <2>6. DOMAIN Defaults[c] = 1..Len(Defaults[c]) /\ Len(Defaults[c]) \in Nat
    BY <2>2
  <2>7. Default[c] \in [1..Len(Defaults[c]) -> T]
    BY <2>3, <2>5, <2>6
  <2> HIDE DEF T
  <2>8. \A n \in Nat : \A f \in [1..n -> T] : f \in Seq(T)
    BY SeqDef
  <2> QED
    BY <2>6, <2>7, <2>8
<1>3. last \in Seq(T)
  <2>1. Members[c] \in Seq(Options)
    BY MembersAre
  <2>2. DOMAIN Members[c] = 1..Len(Members[c]) /\ Len(Members[c]) \in Nat
    BY <2>1
  <2>3. \A i \in DOMAIN Members[c] : last[i] \in T
    BY LiteralsAre DEF Range
  <2>4. last = [i \in DOMAIN Members[c] |-> last[i]]
    OBVIOUS
  <2> HIDE DEF last, T
  <2>5. last \in [1..Len(Members[c]) -> T]
    BY <2>2, <2>3, <2>4
  <2> QED
    BY <2>2, <2>5, SeqDef
<1>4. Candidates(c, wish) = first \o Default[c] \o last
  BY DEF Candidates
<1>a. PICK x : x = [when |-> Always, pick |-> wish[c]]
  OBVIOUS
<1>b. wish[c] # None => first = <<x>>
  BY <1>a
<1> HIDE DEF first, last, T
<1>5. Candidates(c, wish) \in Seq(T)
  BY <1>1, <1>2, <1>3, <1>4
<1>6. \A i \in 1..Len(Candidates(c, wish)) : Candidates(c, wish)[i] \in T
  BY <1>5
<1>7. wish[c] # None => 1 \in 1..Len(Candidates(c, wish)) /\ Candidates(c, wish)[1] = x
  <2> SUFFICES ASSUME wish[c] # None
               PROVE  1 \in 1..Len(Candidates(c, wish)) /\ Candidates(c, wish)[1] = x
    OBVIOUS
  <2>1. Len(first) = 1 /\ first[1] = x
    BY <1>b
  <2>2. \A a, b \in Seq(T) : Len(a) # 0 => /\ a \o b \in Seq(T) /\ Len(a \o b) \in Nat \ {0}
                                           /\ (a \o b)[1] = a[1]
    OBVIOUS
  <2>a. Len(first) # 0
    BY <2>1
  <2>3. PICK both \in Seq(T) : both = first \o Default[c]
    BY <1>1, <1>2, <2>2, <2>a
  <2>4. Len(both) \in Nat \ {0} /\ both[1] = x
    BY <1>1, <1>2, <2>1, <2>2, <2>3
  <2>5. Len(both \o last) \in Nat \ {0} /\ (both \o last)[1] = x
    BY <1>3, <2>2, <2>3, <2>4
  <2> QED
    BY <1>4, <2>3, <2>5
<1>8. ASSUME NEW m \in Range(Members[c])
      PROVE  \E i \in 1..Len(Candidates(c, wish)) :
               Candidates(c, wish)[i] = [when |-> Always, pick |-> m]
  <2>1. PICK k \in 1..Len(last) : last[k] = [when |-> Always, pick |-> m]
    <3>1. PICK k \in DOMAIN Members[c] : Members[c][k] = m
      BY DEF Range
    <3>2. last[k] = [when |-> Always, pick |-> m] /\ k \in DOMAIN last
      BY <3>1 DEF last
    <3>3. PICK seq \in Seq(T) : seq = last
      BY <1>3
    <3>4. DOMAIN seq = 1..Len(seq)
      OBVIOUS
    <3> QED
      BY <3>2, <3>3, <3>4
  <2>a. \A a, b \in Seq(T) : /\ a \o b \in Seq(T)
                             /\ \A i \in 1..Len(b) : /\ Len(a) + i \in 1..Len(a \o b)
                                                     /\ (a \o b)[Len(a) + i] = b[i]
    OBVIOUS
  <2>2. PICK both \in Seq(T) : both = first \o Default[c]
    BY <1>1, <1>2, <2>a
  <2>3. /\ Len(both) + k \in 1..Len(both \o last)
        /\ (both \o last)[Len(both) + k] = last[k]
    BY <1>3, <2>1, <2>2, <2>a
  <2> QED
    BY <1>4, <2>1, <2>2, <2>3
<1> QED
  BY <1>5, <1>6, <1>7, <1>8, <1>a DEF T
LEMMA CandidatesAre ==
  ASSUME NEW c \in ChoiceSymbols, NEW wish, wish[c] \in Range(Members[c]) \cup {None}
  PROVE  /\ DOMAIN Candidates(c, wish) = 1..Len(Candidates(c, wish))
         /\ Len(Candidates(c, wish)) \in Nat
         /\ \A i \in 1..Len(Candidates(c, wish)) :
              /\ Candidates(c, wish)[i].when \in Expressions
              /\ Candidates(c, wish)[i].pick \in Range(Members[c])
         /\ wish[c] # None => /\ 1 \in 1..Len(Candidates(c, wish))
                              /\ Candidates(c, wish)[1] = [when |-> Always, pick |-> wish[c]]
BY CandidatesMean

(* Each value is one the choice may fall on.                               *)
LEMMA ValuesAreCandidates ==
  ASSUME NEW c \in ChoiceSymbols, NEW wish, wish[c] \in Range(Members[c]) \cup {None},
         NEW m \in Range(Members[c])
  PROVE  \E i \in 1..Len(Candidates(c, wish)) :
           Candidates(c, wish)[i] = [when |-> Always, pick |-> m]
<1>1. \A x \in Range(Members[c]) : \E i \in 1..Len(Candidates(c, wish)) :
        Candidates(c, wish)[i] = [when |-> Always, pick |-> x]
  BY CandidatesMean
<1> QED
  BY <1>1
-----------------------------------------------------------------------------
(* What a symbol needs to be known, and what its meaning is made of.       *)
LEMMA EvalSame ==
  ASSUME NEW e, NEW v, NEW w, \A a \in Atoms(e) : v[a] = w[a]
  PROVE  Eval(e, v) = Eval(e, w)
<1>1. \A conj \in e : \A l \in conj : l[1] \in Atoms(e)
  BY DEF Atoms
<1>2. \A conj \in e : {l[2][v[l[1]]] : l \in conj} = {l[2][w[l[1]]] : l \in conj}
  BY <1>1
<1>3. {MinOf({l[2][v[l[1]]] : l \in conj}) : conj \in e}
        = {MinOf({l[2][w[l[1]]] : l \in conj}) : conj \in e}
  BY <1>2
<1> QED
  BY <1>3 DEF Eval

(* The first of some conditions that holds.                                *)
LEMMA FirstDefaultIs ==
  ASSUME NEW n \in Nat, NEW f, DOMAIN f = 1..n
  PROVE  \/ FirstDefault(f) = 0 /\ \A i \in 1..n : f[i] = No
         \/ /\ FirstDefault(f) \in 1..n /\ f[FirstDefault(f)] # No
            /\ \A j \in 1..(FirstDefault(f) - 1) : f[j] = No
<1> DEFINE S == {i \in DOMAIN f : f[i] # No /\ \A j \in 1..(i - 1) : f[j] = No}
<1>1. \A i, j \in S : i = j
  <2> SUFFICES ASSUME NEW i \in S, NEW j \in S, i < j PROVE FALSE
    OBVIOUS
  <2>1. i \in 1..(j - 1)
    OBVIOUS
  <2> QED
    BY <2>1
<1>2. FirstDefault(f) = MaxOf(S)
  BY DEF FirstDefault
<1>3. CASE S = {}
  <2>1. MaxOf(S) = 0
    BY <1>3 DEF MaxOf, Max, No
  <2>2. ASSUME NEW i \in 1..n, f[i] # No PROVE FALSE
    <3> DEFINE B == {k \in Nat : \A j \in 1..k : j <= n => f[j] = No}
    <3>1. 0 \in B
      OBVIOUS
    <3>2. ASSUME NEW k \in Nat, k \in B PROVE k + 1 \in B
      <4>1. \A j \in 1..k : j <= n => f[j] = No
        BY <3>2
      <4>2. k + 1 <= n => f[k + 1] = No
        <5> SUFFICES ASSUME k + 1 <= n, f[k + 1] # No PROVE FALSE
          OBVIOUS
        <5>1. k + 1 \in DOMAIN f /\ \A j \in 1..(k + 1 - 1) : f[j] = No
          BY <4>1
        <5>2. k + 1 \in S
          BY <5>1
        <5> QED
          BY <1>3, <5>2
      <4> QED
        BY <4>1, <4>2
    <3> HIDE DEF B
    <3>3. Nat \subseteq B
      BY <3>1, <3>2, Counting
    <3>4. n \in B
      BY <3>3
    <3> QED
      BY <2>2, <3>4 DEF B
  <2> QED
    BY <1>2, <2>1, <2>2
<1>4. CASE S # {}
  <2>1. PICK i \in S : TRUE
    BY <1>4
  <2>2. i \in 1..n /\ f[i] # No /\ \A j \in 1..(i - 1) : f[j] = No
    BY <2>1
  <2>3. S = {i}
    BY <1>1, <2>1
  <2>4. MaxOf({i}) = i
    <3>1. \A y \in {i} \cup {No} : i >= y
      BY <2>2 DEF No
    <3>2. PICK m : m = Max({i} \cup {No})
      OBVIOUS
    <3>3. m \in {i} \cup {No} /\ \A y \in {i} \cup {No} : m >= y
      <4> DEFINE T == {i} \cup {No}
      <4>1. i \in T /\ \A y \in T : i >= y
        BY <3>1
      <4> HIDE DEF T
      <4>2. m \in T /\ \A y \in T : m >= y
        BY <3>2, <4>1 DEF Max, T
      <4> QED
        BY <4>2 DEF T
    <3>4. m = i
      BY <2>2, <3>3 DEF No
    <3> QED
      BY <3>2, <3>4 DEF MaxOf
  <2> QED
    BY <1>2, <2>2, <2>3, <2>4
<1> QED
  BY <1>3, <1>4

LEMMA NoFirst == ASSUME NEW f, DOMAIN f = {} PROVE FirstDefault(f) = 0
<1>1. DOMAIN f = 1..0
  OBVIOUS
<1> QED
  BY <1>1, FirstDefaultIs

(* The prompt of a choice value that can be seen names its choice.         *)
LEMMA PromptNamesChoice ==
  ASSUME NEW m \in MemberSet, Prompt[m] # {}
  PROVE  ChoiceOf(m) \in Atoms(Prompt[m])
<1> DEFINE c == ChoiceOf(m)
<1>1. m \in Symbols
  BY MembersAre
<1>2. Prompt[m] = And(And(If(c), Depends[m]), Asks[m])
  BY <1>1 DEF Prompt, Base
<1>3. PICK conj \in Prompt[m] : TRUE
  OBVIOUS
<1>4. <<c, Identity>> \in conj
  BY <1>2, <1>3 DEF And, If
<1>5. <<c, Identity>> \in UNION Prompt[m]
  BY <1>3, <1>4
<1> QED
  BY <1>5 DEF Atoms

LEMMA NeedsAre ==
  ASSUME NEW s \in Symbols
  PROVE  /\ Needs[s] \subseteq Symbols
         /\ Atoms(Prompt[s]) \subseteq Needs[s] \cup {M}
         /\ Atoms(Select[s]) \subseteq Needs[s] \cup {M}
         /\ \A i \in DOMAIN Default[s] :
              /\ Atoms(Default[s][i].when) \subseteq Needs[s] \cup {M}
              /\ s \in Options => Atoms(Default[s][i].value) \subseteq Needs[s] \cup {M}
         /\ \A m \in MemberSet : s = ChoiceOf(m) => Atoms(Prompt[m]) \subseteq Needs[s] \cup {M, s}
<1> DEFINE defaults == UNION {Atoms(d.when) \cup (IF s \in Options THEN Atoms(d.value) ELSE {}) :
                                d \in Range(Default[s])}
           values == IF s \in ChoiceSymbols
                     THEN UNION {Atoms(Prompt[m]) \ {s} : m \in Range(Members[s])} ELSE {}
<1>1. Needs[s] = (Atoms(Prompt[s]) \cup Atoms(Select[s]) \cup defaults \cup values) \ {M}
  BY DEF Needs
<1>2. \A i \in DOMAIN Default[s] :
        /\ Atoms(Default[s][i].when) \subseteq defaults
        /\ s \in Options => Atoms(Default[s][i].value) \subseteq defaults
  BY DEF Range
<1>3. \A m \in MemberSet : s = ChoiceOf(m) => Atoms(Prompt[m]) \subseteq values \cup {s}
  BY MembersAre
<1>4. defaults \subseteq Atom
  <2>1. \A i \in DOMAIN Default[s] :
          /\ Atoms(Default[s][i].when) \subseteq Atom
          /\ s \in Options => Atoms(Default[s][i].value) \subseteq Atom
    BY DefaultIs, AtomsAre
  <2>2. \A d \in Range(Default[s]) : \E i \in DOMAIN Default[s] : d = Default[s][i]
    BY DEF Range
  <2> QED
    BY <2>1, <2>2
<1>5. values \subseteq Atom
  <2>1. \A c \in ChoiceSymbols : \A m \in Range(Members[c]) : m \in Symbols
    BY MembersAre
  <2>2. \A m \in Symbols : Atoms(Prompt[m]) \subseteq Atom
    BY PromptIs, AtomsAre
  <2> QED
    BY <2>1, <2>2
<1>6. Atoms(Prompt[s]) \subseteq Atom /\ Atoms(Select[s]) \subseteq Atom
  BY PromptIs, SelectIs, AtomsAre
<1> HIDE DEF defaults, values
<1>7. Needs[s] \subseteq Symbols
  BY <1>1, <1>4, <1>5, <1>6 DEF Atom
<1>8. Atoms(Prompt[s]) \subseteq Needs[s] \cup {M} /\ Atoms(Select[s]) \subseteq Needs[s] \cup {M}
  BY <1>1
<1>9. \A i \in DOMAIN Default[s] :
              /\ Atoms(Default[s][i].when) \subseteq Needs[s] \cup {M}
              /\ s \in Options => Atoms(Default[s][i].value) \subseteq Needs[s] \cup {M}
  BY <1>1, <1>2
<1>10. \A m \in MemberSet : s = ChoiceOf(m) => Atoms(Prompt[m]) \subseteq Needs[s] \cup {M, s}
  BY <1>1, <1>3
<1> QED
  BY <1>7, <1>8, <1>9, <1>10

LEMMA AlwaysIs == Atoms(Always) = {} /\ \A e : And({}, e) = {} /\ And(e, {}) = {}
BY DEF Always, Atoms, And

WishesOK(wish) == \A c \in ChoiceSymbols : wish[c] \in Range(Members[c]) \cup {None}

LEMMA WhomNeeds ==
  ASSUME NEW c \in ChoiceSymbols, NEW wish, wish[c] \in Range(Members[c]) \cup {None},
         NEW k \in 1..Len(Candidates(c, wish))
  PROVE  /\ Atoms(Candidates(c, wish)[k].when) \subseteq Needs[c] \cup {M}
         /\ Atoms(Prompt[Candidates(c, wish)[k].pick]) \subseteq Needs[c] \cup {M, c}
         /\ Candidates(c, wish)[k].pick \in MemberSet /\ ChoiceOf(Candidates(c, wish)[k].pick) = c
<1>0. c \in Symbols /\ k \in 1..Len(Candidates(c, wish))
  BY MembersAre
<1>1. Candidates(c, wish)[k].pick \in Range(Members[c])
  BY <1>0, CandidatesAre
<1>2. Candidates(c, wish)[k].pick \in MemberSet /\ ChoiceOf(Candidates(c, wish)[k].pick) = c
  BY <1>1, MembersAre
<1>3. Atoms(Prompt[Candidates(c, wish)[k].pick]) \subseteq Needs[c] \cup {M, c}
  BY <1>0, <1>2, NeedsAre
<1>4. Candidates(c, wish)[k].when = Always \/ \E i \in DOMAIN Default[c]
        : Candidates(c, wish)[k].when = Default[c][i].when
  <2> DEFINE first == IF wish[c] = None THEN <<>> ELSE << [when |-> Always, pick |-> wish[c]] >>
             last == [i \in DOMAIN Members[c] |-> [when |-> Always, pick |-> Members[c][i]]]
  <2>1. PICK T : T = {f : f \in {[when |-> Always, pick |-> m] : m \in Range(Members[c])}}
                       \cup {Default[c][i] : i \in DOMAIN Default[c]}
    OBVIOUS
  <2>2. first \in Seq(T)
    <3>1. wish[c] # None => [when |-> Always, pick |-> wish[c]] \in T
      BY <2>1
    <3> QED
      BY <3>1
  <2>3. Default[c] \in Seq(T)
    <3>1. DOMAIN Default[c] = 1..Len(Default[c]) /\ Len(Default[c]) \in Nat
      BY <1>0, DefaultIs
    <3>2. \A i \in DOMAIN Default[c] : Default[c][i] \in T
      BY <2>1
    <3>3. Default[c] = [i \in DOMAIN Default[c] |-> Default[c][i]]
      BY <1>0 DEF Default
    <3>4. Default[c] \in [1..Len(Default[c]) -> T]
      BY <3>1, <3>2, <3>3
    <3> QED
      BY <3>1, <3>4, SeqDef
  <2>4. last \in Seq(T)
    <3>1. DOMAIN Members[c] = 1..Len(Members[c]) /\ Len(Members[c]) \in Nat
      BY MembersAre
    <3>2. \A i \in DOMAIN Members[c] : last[i] \in T
      BY <2>1 DEF Range
    <3>3. last = [i \in DOMAIN Members[c] |-> last[i]]
      OBVIOUS
    <3> HIDE DEF last
    <3>4. last \in [1..Len(Members[c]) -> T]
      BY <3>1, <3>2, <3>3
    <3> QED
      BY <3>1, <3>4, SeqDef
  <2>5. Candidates(c, wish) = first \o Default[c] \o last
    BY DEF Candidates
  <2> HIDE DEF first, last
  <2>6. Candidates(c, wish) \in Seq(T)
    BY <2>2, <2>3, <2>4, <2>5
  <2>7. Candidates(c, wish)[k] \in T
    BY <2>6
  <2> QED
    BY <2>1, <2>7
<1>5. Atoms(Candidates(c, wish)[k].when) \subseteq Needs[c] \cup {M}
  BY <1>0, <1>4, AlwaysIs, NeedsAre
<1> QED
  BY <1>2, <1>3, <1>5

(* The parts of MeaningOf, the meaning of the other symbols being of.      *)
Under(e, c, of) ==
  Eval(e, [a \in Atoms(e) |-> IF a = M THEN Mod ELSE IF a = c THEN Yes ELSE of[a].tri])
BoolWith(s, mods) == s \notin Tristate \/ mods = No
ShownOf(s, of, mods) == Promote(Under(Prompt[s], None, of), BoolWith(s, mods))
LeastOf(s, of, mods) == Promote(Under(Select[s], None, of), BoolWith(s, mods))
LimitedOf(t, s, of, mods) ==
  Promote(Max({Min({t, ShownOf(s, of, mods)}), LeastOf(s, of, mods)}), BoolWith(s, mods))
ConditionsOf(s, of) == [i \in DOMAIN Default[s] |-> Under(Default[s][i].when, None, of)]
FirstOf(s, of) == FirstDefault(ConditionsOf(s, of))
DefaultOf(s, of) ==
  IF FirstOf(s, of) = 0 THEN No ELSE Under(Default[s][FirstOf(s, of)].value, None, of)
OpenIn(c, of, wish) ==
  {i \in DOMAIN Candidates(c, wish) : /\ Under(Candidates(c, wish)[i].when, c, of) # No
                                      /\ Under(Prompt[Candidates(c, wish)[i].pick], c, of) # No}
AskedIn(s, user, fresh) == IF s \in fresh THEN No ELSE user[s]
BaseIn(s, of, user, fresh) == IF s \in fresh THEN DefaultOf(s, of) ELSE user[s]

LEMMA MeaningIs ==
  ASSUME NEW s, NEW of, NEW mods, NEW user, NEW fresh, NEW wish
  PROVE  MeaningOf(s, of, mods, user, fresh, wish) =
    CASE s \in ChoiceSymbols /\ LimitedOf(AskedIn(s, user, fresh), s, of, mods) # Yes ->
           [tri |-> LimitedOf(AskedIn(s, user, fresh), s, of, mods), pick |-> None]
      [] s \in ChoiceSymbols /\ LimitedOf(AskedIn(s, user, fresh), s, of, mods) = Yes ->
           IF OpenIn(s, of, wish) = {} THEN [tri |-> No, pick |-> None]
           ELSE [tri |-> Yes, pick |-> Candidates(s, wish)[Min(OpenIn(s, of, wish))].pick]
      [] s \in MemberSet /\ ShownOf(s, of, mods) = Yes ->
           [tri |-> IF of[ChoiceOf(s)].pick = s THEN Yes ELSE No, pick |-> None]
      [] s \in MemberSet /\ ShownOf(s, of, mods) # Yes ->
           [tri |-> Promote(Min({BaseIn(s, of, user, fresh), ShownOf(s, of, mods)}),
               BoolWith(s, mods)),
            pick |-> None]
      [] OTHER ->
           [tri |-> IF ShownOf(s, of, mods) = No /\ LeastOf(s, of, mods) = No
                    THEN Promote(DefaultOf(s, of), BoolWith(s, mods))
                    ELSE LimitedOf(BaseIn(s, of, user, fresh), s, of, mods),
            pick |-> None]
BY Zenon DEF MeaningOf, LimitedOf, ShownOf, LeastOf, DefaultOf, FirstOf, ConditionsOf,
       OpenIn, AskedIn, BaseIn, Under, BoolWith

LEMMA UnderSame ==
  ASSUME NEW e, NEW c, NEW f, NEW g, \A a \in Atoms(e) : a = M \/ a = c \/ f[a] = g[a]
  PROVE  Under(e, c, f) = Under(e, c, g)
<1> DEFINE v == [a \in Atoms(e) |-> IF a = M THEN Mod ELSE IF a = c THEN Yes ELSE f[a].tri]
           w == [a \in Atoms(e) |-> IF a = M THEN Mod ELSE IF a = c THEN Yes ELSE g[a].tri]
<1>1. \A a \in Atoms(e) : v[a] = w[a]
  OBVIOUS
<1>2. Under(e, c, f) = Eval(e, v) /\ Under(e, c, g) = Eval(e, w)
  BY DEF Under
<1> HIDE DEF v, w
<1> QED
  BY <1>1, <1>2, EvalSame

LEMMA UnderNever == ASSUME NEW c, NEW f PROVE Under({}, c, f) = No
<1>1. {MinOf({l[2][[a \in Atoms({}) |-> IF a = M THEN Mod ELSE IF a = c THEN Yes
        ELSE f[a].tri][l[1]]]
               : l \in conj}) : conj \in {}} = {}
  OBVIOUS
<1>2. MaxOf({}) = No
  BY DEF MaxOf, Max, No
<1> QED
  BY <1>1, <1>2 DEF Under, Eval

(* The meaning of a symbol depends on that of those it needs, and no other.*)
LEMMA MeansSame ==
  ASSUME NEW wish, WishesOK(wish), NEW s \in Symbols, NEW mods, NEW user, NEW fresh,
         NEW f, NEW g, \A d \in Needs[s] : f[d] = g[d]
  PROVE  MeaningOf(s, f, mods, user, fresh, wish) = MeaningOf(s, g, mods, user, fresh, wish)
<1>1. \A e : Atoms(e) \subseteq Needs[s] \cup {M} => Under(e, None, f) = Under(e, None, g)
  BY UnderSame
<1>2. \A e : Atoms(e) \subseteq Needs[s] \cup {M, s} => Under(e, s, f) = Under(e, s, g)
  BY UnderSame
<1>3. ShownOf(s, f, mods) = ShownOf(s, g, mods) /\ LeastOf(s, f, mods) = LeastOf(s, g, mods)
  <2>1. Atoms(Prompt[s]) \subseteq Needs[s] \cup {M}
          /\ Atoms(Select[s]) \subseteq Needs[s] \cup {M}
    BY NeedsAre
  <2> QED
    BY <1>1, <2>1 DEF ShownOf, LeastOf
<1>4. \A t : LimitedOf(t, s, f, mods) = LimitedOf(t, s, g, mods)
  BY <1>3 DEF LimitedOf
<1>5. s \in Options => DefaultOf(s, f) = DefaultOf(s, g)
  <2> SUFFICES ASSUME s \in Options PROVE DefaultOf(s, f) = DefaultOf(s, g)
    OBVIOUS
  <2>1. \A i \in DOMAIN Default[s] : /\ Atoms(Default[s][i].when) \subseteq Needs[s] \cup {M}
                                     /\ Atoms(Default[s][i].value) \subseteq Needs[s] \cup {M}
    BY NeedsAre
  <2>2. ConditionsOf(s, f) = ConditionsOf(s, g)
    BY <1>1, <2>1 DEF ConditionsOf
  <2>3. PICK i : i = FirstOf(s, f)
    OBVIOUS
  <2>4. FirstOf(s, g) = i
    BY <2>2, <2>3 DEF FirstOf
  <2>5. i = 0 \/ i \in DOMAIN Default[s]
    <3>1. PICK n \in Nat : DOMAIN Default[s] = 1..n
      BY DefaultIs
    <3>2. PICK h : h = ConditionsOf(s, f)
      OBVIOUS
    <3>3. DOMAIN h = 1..n
      BY <3>1, <3>2 DEF ConditionsOf
    <3>4. FirstDefault(h) = 0 \/ FirstDefault(h) \in 1..n
      BY <3>3, FirstDefaultIs
    <3> QED
      BY <2>3, <3>1, <3>2, <3>4 DEF FirstOf
  <2> QED
    BY <1>1, <2>1, <2>3, <2>4, <2>5 DEF DefaultOf
<1>6. CASE s \in ChoiceSymbols
  <2>1. OpenIn(s, f, wish) = OpenIn(s, g, wish)
    <3>1. wish[s] \in Range(Members[s]) \cup {None}
      BY <1>6 DEF WishesOK
    <3>2. DOMAIN Candidates(s, wish) = 1..Len(Candidates(s, wish))
      BY <1>6, <3>1, CandidatesAre
    <3>3. \A i \in DOMAIN Candidates(s, wish) :
            /\ Under(Candidates(s, wish)[i].when, s, f) = Under(Candidates(s, wish)[i].when, s, g)
            /\ Under(Prompt[Candidates(s, wish)[i].pick], s, f)
               = Under(Prompt[Candidates(s, wish)[i].pick], s, g)
      <4> SUFFICES ASSUME NEW i \in 1..Len(Candidates(s, wish))
                   PROVE  /\ Under(Candidates(s, wish)[i].when, s, f)
                             = Under(Candidates(s, wish)[i].when, s, g)
                          /\ Under(Prompt[Candidates(s, wish)[i].pick], s, f)
                             = Under(Prompt[Candidates(s, wish)[i].pick], s, g)
        BY <3>2
      <4>1. /\ Atoms(Candidates(s, wish)[i].when) \subseteq Needs[s] \cup {M}
            /\ Atoms(Prompt[Candidates(s, wish)[i].pick]) \subseteq Needs[s] \cup {M, s}
        BY <1>6, <3>1, WhomNeeds
      <4> QED
        BY <1>2, <4>1
    <3> QED
      BY <3>3 DEF OpenIn
  <2>2. CASE LimitedOf(AskedIn(s, user, fresh), s, f, mods) # Yes
    <3>1. MeaningOf(s, f, mods, user, fresh, wish)
            = [tri |-> LimitedOf(AskedIn(s, user, fresh), s, f, mods), pick |-> None]
      BY <1>6, <2>2, MeaningIs, MembersAre
    <3>2. MeaningOf(s, g, mods, user, fresh, wish)
            = [tri |-> LimitedOf(AskedIn(s, user, fresh), s, g, mods), pick |-> None]
      BY <1>4, <1>6, <2>2, MeaningIs, MembersAre
    <3> QED
      BY <1>4, <3>1, <3>2
  <2>3. CASE LimitedOf(AskedIn(s, user, fresh), s, f, mods) = Yes
    <3>1. MeaningOf(s, f, mods, user, fresh, wish) = IF OpenIn(s, f, wish) = {}
            THEN [tri |-> No, pick |-> None]
                                ELSE [tri |-> Yes, pick |-> Candidates(s, wish)[Min(OpenIn(s,
                                    f, wish))].pick]
      BY <1>6, <2>3, MeaningIs, MembersAre
    <3>2. MeaningOf(s, g, mods, user, fresh, wish) = IF OpenIn(s, g, wish) = {}
            THEN [tri |-> No, pick |-> None]
                                ELSE [tri |-> Yes, pick |-> Candidates(s, wish)[Min(OpenIn(s,
                                    g, wish))].pick]
      BY <1>4, <1>6, <2>3, MeaningIs, MembersAre
    <3> QED
      BY <2>1, <3>1, <3>2
  <2> QED
    BY <2>2, <2>3
<1>7. CASE s \in MemberSet
  <2>0. s \notin ChoiceSymbols /\ s \in Options
    BY <1>7, MembersAre
  <2>1. CASE ShownOf(s, f, mods) = Yes
    <3>1. Under(Prompt[s], None, f) # No
      BY <2>1 DEF ShownOf, Promote, No, Mod, Yes
    <3>2. Prompt[s] # {}
      BY <3>1, UnderNever
    <3>3. ChoiceOf(s) \in Needs[s]
      <4>1. ChoiceOf(s) \in Atoms(Prompt[s]) /\ ChoiceOf(s) # M
        BY <1>7, <3>2, PromptNamesChoice, MembersAre, SymbolsAssumption
      <4> QED
        BY <4>1, NeedsAre
    <3>4. MeaningOf(s, f, mods, user, fresh, wish) = [tri |-> IF f[ChoiceOf(s)].pick = s
            THEN Yes ELSE No, pick |-> None]
      BY <1>7, <2>0, <2>1, MeaningIs
    <3>5. MeaningOf(s, g, mods, user, fresh, wish) = [tri |-> IF g[ChoiceOf(s)].pick = s
            THEN Yes ELSE No, pick |-> None]
      BY <1>3, <1>7, <2>0, <2>1, MeaningIs
    <3> QED
      BY <3>3, <3>4, <3>5
  <2>2. CASE ShownOf(s, f, mods) # Yes
    <3>1. BaseIn(s, f, user, fresh) = BaseIn(s, g, user, fresh)
      BY <1>5, <2>0 DEF BaseIn
    <3>2. MeaningOf(s, f, mods, user, fresh, wish) =
            [tri |-> Promote(Min({BaseIn(s, f, user, fresh), ShownOf(s, f, mods)}), BoolWith(s,
                mods)), pick |-> None]
      BY <1>7, <2>0, <2>2, MeaningIs
    <3>3. MeaningOf(s, g, mods, user, fresh, wish) =
            [tri |-> Promote(Min({BaseIn(s, g, user, fresh), ShownOf(s, g, mods)}), BoolWith(s,
                mods)), pick |-> None]
      BY <1>3, <1>7, <2>0, <2>2, MeaningIs
    <3> QED
      BY <1>3, <3>1, <3>2, <3>3
  <2> QED
    BY <2>1, <2>2
<1>8. CASE s \notin ChoiceSymbols /\ s \notin MemberSet
  <2>1. BaseIn(s, f, user, fresh) = BaseIn(s, g, user, fresh) /\ DefaultOf(s, f) = DefaultOf(s, g)
    BY <1>5, <1>8 DEF BaseIn, Symbols
  <2>2. LimitedOf(BaseIn(s, f, user, fresh), s, f, mods)
          = LimitedOf(BaseIn(s, g, user, fresh), s, g, mods)
    BY <1>4, <2>1
  <2>3. \A h : MeaningOf(s, h, mods, user, fresh, wish) =
          [tri |-> IF ShownOf(s, h, mods) = No /\ LeastOf(s, h, mods) = No
                   THEN Promote(DefaultOf(s, h), BoolWith(s, mods))
                   ELSE LimitedOf(BaseIn(s, h, user, fresh), s, h, mods),
           pick |-> None]
    BY <1>8, MeaningIs
  <2> QED
    BY <1>3, <2>1, <2>2, <2>3
<1> QED
  BY <1>6, <1>7, <1>8

Ranked(r) == r \in [Symbols -> Nat] /\ IsRank(r)

(* A tree whose symbols have ranks: it is finite, and no symbol depends on *)
(* itself.                                                                 *)
Levelled == /\ IsFiniteSet(Symbols)
            /\ \E r \in [Symbols -> 1..Cardinality(Symbols)] : IsRank(r)

LEMMA RankIs ==
  ASSUME Levelled
  PROVE  /\ Cardinality(Symbols) \in Nat /\ Rank \in [Symbols -> 1..Cardinality(Symbols)]
         /\ IsRank(Rank) /\ Ranked(Rank)
<1>1. Cardinality(Symbols) \in Nat
  BY FS_CardinalityType DEF Levelled
<1>2. Rank \in [Symbols -> 1..Cardinality(Symbols)] /\ IsRank(Rank)
  BY DEF Levelled, Rank
<1>3. \A n \in Nat : 1..n \subseteq Nat
  OBVIOUS
<1>4. Rank \in [Symbols -> Nat]
  BY <1>1, <1>2, <1>3
<1> QED
  BY <1>1, <1>2, <1>4 DEF Ranked

(* The levels that MeaningWith goes through.                               *)
NextLevel(n, of, mods, user, fresh, wish) == [s \in Symbols |-> IF Rank[s] = n
    THEN MeaningOf(s, of, mods, user, fresh, wish) ELSE of[s]]
NextLevels(n, S, mods, user, fresh, wish) == {NextLevel(n, of, mods, user, fresh, wish)
    : of \in S}
Nothing == [s \in Symbols |-> [tri |-> No, pick |-> None]]
AreLevels(g, n, mods, user, fresh, wish) ==
  g = [i \in 0..n |-> IF i = 0 THEN {Nothing}
      ELSE NextLevels(i, g[i - 1], mods, user, fresh, wish)]

LEMMA LevelAt ==
  ASSUME NEW n \in Nat, NEW mods, NEW user, NEW fresh, NEW wish,
         NEW g, AreLevels(g, n, mods, user, fresh, wish)
  PROVE  g[0] = {Nothing} /\ \A i \in 1..n : g[i]
      = NextLevels(i, g[i - 1], mods, user, fresh, wish)
<1>1. \A i \in 0..n : g[i] = IF i = 0 THEN {Nothing}
        ELSE NextLevels(i, g[i - 1], mods, user, fresh, wish)
  BY DEF AreLevels
<1>2. 0 \in 0..n /\ \A i \in 1..n : i \in 0..n /\ i # 0
  OBVIOUS
<1> QED
  BY <1>1, <1>2

LEMMA LevelsExist ==
  ASSUME NEW n \in Nat, NEW mods, NEW user, NEW fresh, NEW wish PROVE \E g
         : AreLevels(g, n, mods, user, fresh, wish)
<1> DEFINE S == {k \in Nat : \E g : AreLevels(g, k, mods, user, fresh, wish)}
<1>1. 0 \in S
  <2>1. AreLevels([i \in 0..0 |-> {Nothing}], 0, mods, user, fresh, wish)
    BY DEF AreLevels
  <2> QED
    BY <2>1
<1>2. ASSUME NEW k \in Nat, k \in S PROVE k + 1 \in S
  <2>1. PICK g : AreLevels(g, k, mods, user, fresh, wish)
    BY <1>2
  <2> DEFINE h == [i \in 0..(k + 1) |-> IF i = k + 1
      THEN NextLevels(i, g[k], mods, user, fresh, wish)
                                      ELSE g[i]]
  <2>2. \A i \in 0..k : h[i] = g[i] /\ i \in 0..(k + 1)
    OBVIOUS
  <2>3. g[0] = {Nothing} /\ \A i \in 1..k : g[i]
          = NextLevels(i, g[i - 1], mods, user, fresh, wish)
    BY <2>1, LevelAt
  <2>4. h[0] = {Nothing}
    BY <2>2, <2>3
  <2>5. ASSUME NEW i \in 0..(k + 1), i # 0 PROVE h[i]
          = NextLevels(i, h[i - 1], mods, user, fresh, wish)
    <3>1. CASE i = k + 1
      <4>1. h[i] = NextLevels(i, g[k], mods, user, fresh, wish) /\ h[k] = g[k] /\ i - 1 = k
        BY <2>2, <3>1
      <4> HIDE DEF h
      <4> QED
        BY <4>1
    <3>2. CASE i \in 1..k
      <4>1. h[i] = g[i] /\ h[i - 1] = g[i - 1]
        BY <2>2, <3>2
      <4> HIDE DEF h
      <4> QED
        BY <2>3, <3>2, <4>1
    <3> QED
      BY <2>5, <3>1, <3>2
  <2>6. h = [i \in 0..(k + 1) |-> h[i]]
    OBVIOUS
  <2> HIDE DEF h
  <2>7. \A i \in 0..(k + 1) : h[i] = IF i = 0 THEN {Nothing}
                                     ELSE NextLevels(i, h[i - 1], mods, user, fresh, wish)
    BY <2>4, <2>5
  <2>8. AreLevels(h, k + 1, mods, user, fresh, wish)
    BY <2>6, <2>7 DEF AreLevels
  <2> QED
    BY <2>8
<1> HIDE DEF S
<1>3. Nat \subseteq S
  BY <1>1, <1>2, Counting
<1> QED
  BY <1>3 DEF S

(* On each level the symbols up to its rank mean what they should.         *)
LEMMA LevelIs ==
  ASSUME NEW wish, WishesOK(wish), Levelled, NEW mods, NEW user, NEW fresh, NEW n \in Nat,
         NEW g, AreLevels(g, n, mods, user, fresh, wish)
  PROVE  \E f : /\ g[n] = {f} /\ DOMAIN f = Symbols
                /\ \A s \in Symbols : Rank[s] <= n => f[s]
                   = MeaningOf(s, f, mods, user, fresh, wish)
<1> DEFINE Right(k, f) == /\ g[k] = {f} /\ DOMAIN f = Symbols
                          /\ \A s \in Symbols : Rank[s] <= k => f[s]
                             = MeaningOf(s, f, mods, user, fresh, wish)
           S == {k \in Nat : k <= n => \E f : Right(k, f)}
<1>0. \A s \in Symbols : Rank[s] \in Nat \ {0} /\ \A d \in Needs[s] : d \in Symbols
        /\ Rank[d] < Rank[s]
  <2>1. PICK N \in Nat : N = Cardinality(Symbols)
    BY RankIs
  <2>2. \A s \in Symbols : Rank[s] \in 1..N
    BY <2>1, RankIs
  <2> QED
    BY <2>2, RankIs, NeedsAre DEF IsRank
<1>1. 0 \in S
  <2>1. g[0] = {Nothing} /\ DOMAIN Nothing = Symbols
    BY DEF AreLevels, Nothing
  <2>2. Right(0, Nothing)
    BY <1>0, <2>1
  <2> QED
    BY <2>2
<1>2. ASSUME NEW k \in Nat, k \in S PROVE k + 1 \in S
  <2> SUFFICES ASSUME k + 1 <= n PROVE \E f : Right(k + 1, f)
    OBVIOUS
  <2>1. PICK f : Right(k, f)
    BY <1>2
  <2>2. PICK h : h = NextLevel(k + 1, f, mods, user, fresh, wish)
    OBVIOUS
  <2>3. g[k + 1] = {h}
    <3>1. k + 1 \in 1..n /\ k + 1 - 1 = k
      OBVIOUS
    <3>2. g[k + 1] = NextLevels(k + 1, {f}, mods, user, fresh, wish)
      BY <2>1, <3>1, LevelAt
    <3>3. NextLevels(k + 1, {f}, mods, user, fresh, wish) = {h}
      BY <2>2 DEF NextLevels
    <3> QED
      BY <3>2, <3>3
  <2>4. DOMAIN h = Symbols
    BY <2>1, <2>2 DEF NextLevel
  <2>5. \A s \in Symbols : h[s] = IF Rank[s] = k + 1
          THEN MeaningOf(s, f, mods, user, fresh, wish) ELSE f[s]
    BY <2>1, <2>2 DEF NextLevel
  <2>6. ASSUME NEW s \in Symbols, Rank[s] <= k + 1 PROVE h[s]
          = MeaningOf(s, h, mods, user, fresh, wish)
    <3>1. \A d \in Needs[s] : h[d] = f[d]
      BY <1>0, <2>5, <2>6
    <3>2. MeaningOf(s, h, mods, user, fresh, wish) = MeaningOf(s, f, mods, user, fresh, wish)
      BY <3>1, MeansSame
    <3>3. CASE Rank[s] = k + 1
      BY <2>5, <3>2, <3>3
    <3>4. CASE Rank[s] # k + 1
      <4>1. Rank[s] <= k
        BY <1>0, <2>6, <3>4
      <4> QED
        BY <2>1, <2>5, <3>2, <3>4, <4>1
    <3> QED
      BY <3>3, <3>4
  <2>7. Right(k + 1, h)
    BY <2>3, <2>4, <2>6
  <2> QED
    BY <2>7
<1> HIDE DEF S, Right
<1>3. Nat \subseteq S
  BY <1>1, <1>2, Counting
<1>4. \E f : Right(n, f)
  BY <1>3 DEF S
<1> QED
  BY <1>4 DEF Right

(* What the language gives to a symbol follows from what it gives to the   *)
(* symbols that one needs, and from the value of MODULES.                  *)
LEMMA MeaningFixed ==
  ASSUME NEW wish, WishesOK(wish), Levelled, NEW mods, NEW user, NEW fresh
  PROVE  \A s \in Symbols :
           MeaningWith(mods, user, fresh, wish)[s]
             = MeaningOf(s, MeaningWith(mods, user, fresh, wish), mods, user, fresh, wish)
<1>1. PICK n \in Nat : n = Cardinality(Symbols) /\ \A s \in Symbols : Rank[s] \in 1..n
  BY RankIs
<1>2. PICK g : g = CHOOSE h : AreLevels(h, n, mods, user, fresh, wish)
  OBVIOUS
<1>3. AreLevels(g, n, mods, user, fresh, wish)
  BY <1>2, LevelsExist
<1>4. MeaningWith(mods, user, fresh, wish) = CHOOSE of \in g[n] : TRUE
  BY <1>1, <1>2 DEF MeaningWith, AreLevels, Nothing, NextLevels, NextLevel
<1>5. PICK f : /\ g[n] = {f}
               /\ \A s \in Symbols :
                    Rank[s] <= n => f[s] = MeaningOf(s, f, mods, user, fresh, wish)
  BY <1>3, LevelIs
<1>6. MeaningWith(mods, user, fresh, wish) = f
  BY <1>4, <1>5
<1> QED
  BY <1>1, <1>5, <1>6

(* Every symbol has a value, and a bool is never "m", whatever is asked.   *)
Meanings == [tri : Tri, pick : Options \cup {None}]
HasType(s, meaning) == meaning \in Meanings /\ (s \notin Tristate => meaning.tri # Mod)

LEMMA UnderIs ==
  ASSUME NEW e \in Expressions, NEW c, NEW of, \A a \in Symbols : of[a].tri \in Tri
  PROVE  Under(e, c, of) \in Tri
<1> DEFINE v == [a \in Atoms(e) |-> IF a = M THEN Mod ELSE IF a = c THEN Yes ELSE of[a].tri]
<1>1. \A a \in Atoms(e) : v[a] \in Tri
  BY AtomsAre DEF Atom, Tri
<1>2. Under(e, c, of) = Eval(e, v)
  BY DEF Under
<1> HIDE DEF v
<1> QED
  BY <1>1, <1>2, EvalIs

LEMMA DefaultOfIs ==
  ASSUME NEW s \in Options, NEW of, \A a \in Symbols : of[a].tri \in Tri
  PROVE  DefaultOf(s, of) \in Tri
<1>0. s \in Symbols
  BY DEF Symbols
<1>1. PICK n \in Nat : DOMAIN Default[s] = 1..n
  BY <1>0, DefaultIs
<1>2. PICK g : g = ConditionsOf(s, of)
  OBVIOUS
<1>3. DOMAIN g = 1..n
  BY <1>1, <1>2 DEF ConditionsOf
<1>4. FirstOf(s, of) = 0 \/ FirstOf(s, of) \in DOMAIN Default[s]
  BY <1>1, <1>2, <1>3, FirstDefaultIs DEF FirstOf
<1>5. \A i \in DOMAIN Default[s] : Under(Default[s][i].value, None, of) \in Tri
  BY <1>0, DefaultIs, UnderIs
<1> QED
  BY <1>4, <1>5 DEF DefaultOf, Tri

LEMMA MeaningOfIs ==
  ASSUME NEW s \in Symbols, NEW of, \A a \in Symbols : of[a].tri \in Tri, NEW mods,
         NEW user, \A a \in Symbols : user[a] \in Tri, NEW fresh, NEW wish, WishesOK(wish)
  PROVE  HasType(s, MeaningOf(s, of, mods, user, fresh, wish))
<1>1. PICK bool \in BOOLEAN : bool = BoolWith(s, mods)
  BY DEF BoolWith
<1>2. s \notin Tristate => bool
  BY <1>1 DEF BoolWith
<1>3. ShownOf(s, of, mods) \in Tri /\ LeastOf(s, of, mods) \in Tri
  BY <1>1, PromptIs, SelectIs, UnderIs, PromoteIs DEF ShownOf, LeastOf
<1>4. ASSUME NEW t \in Tri
      PROVE  LimitedOf(t, s, of, mods) \in Tri /\ (bool => LimitedOf(t, s, of, mods) # Mod)
  <2>1. PICK high \in Tri, low \in Tri :
          high = ShownOf(s, of, mods) /\ low = LeastOf(s, of, mods)
    BY <1>3
  <2>2. PICK u \in Tri : u = Min({t, high})
    BY TwoAre
  <2>3. Max({u, low}) \in Tri
    BY TwoAre
  <2> QED
    BY <1>1, <2>1, <2>2, <2>3, PromoteIs DEF LimitedOf
<1>5. AskedIn(s, user, fresh) \in Tri
  BY DEF AskedIn, Tri
<1>6. s \in Options => BaseIn(s, of, user, fresh) \in Tri /\ DefaultOf(s, of) \in Tri
  BY DefaultOfIs DEF BaseIn
<1>7. CASE s \in ChoiceSymbols
  <2>0. s \notin MemberSet
    BY <1>7, MembersAre
  <2>1. PICK t \in Tri : t = LimitedOf(AskedIn(s, user, fresh), s, of, mods) /\ (bool => t # Mod)
    BY <1>4, <1>5
  <2>2. CASE t # Yes
    <3>1. MeaningOf(s, of, mods, user, fresh, wish) = [tri |-> t, pick |-> None]
      BY <1>7, <2>0, <2>1, <2>2, MeaningIs
    <3> QED
      BY <1>2, <2>1, <3>1 DEF HasType, Meanings
  <2>3. CASE t = Yes
    <3>1. MeaningOf(s, of, mods, user, fresh, wish)
            = IF OpenIn(s, of, wish) = {} THEN [tri |-> No, pick |-> None]
              ELSE [tri |-> Yes, pick |-> Candidates(s, wish)[Min(OpenIn(s, of, wish))].pick]
      BY <1>7, <2>0, <2>1, <2>3, MeaningIs
    <3>2. CASE OpenIn(s, of, wish) = {}
      BY <3>1, <3>2 DEF HasType, Meanings, Tri, No, Mod
    <3>3. CASE OpenIn(s, of, wish) # {}
      <4>1. wish[s] \in Range(Members[s]) \cup {None}
        BY <1>7 DEF WishesOK
      <4>2. PICK n \in Nat : n = Len(Candidates(s, wish)) /\ DOMAIN Candidates(s, wish) = 1..n
        BY <1>7, <4>1, CandidatesAre
      <4>3. PICK O : O = OpenIn(s, of, wish)
        OBVIOUS
      <4>4. O \in SUBSET Nat /\ O \subseteq 1..n
        BY <4>2, <4>3 DEF OpenIn
      <4>5. \E x \in O : \A y \in O : x <= y
        BY <3>3, <4>3, <4>4, LeastExists
      <4>6. Min(O) \in 1..n
        BY <4>4, <4>5 DEF Min
      <4>7. Candidates(s, wish)[Min(O)].pick \in Options
        BY <1>7, <4>1, <4>2, <4>6, CandidatesAre, MembersAre
      <4> QED
        BY <3>1, <3>3, <4>3, <4>7 DEF HasType, Meanings, Tri, Yes, Mod
    <3> QED
      BY <3>2, <3>3
  <2> QED
    BY <2>2, <2>3
<1>8. CASE s \in MemberSet
  <2>0. s \notin ChoiceSymbols /\ s \in Options
    BY <1>8, MembersAre
  <2>1. CASE ShownOf(s, of, mods) = Yes
    <3>1. MeaningOf(s, of, mods, user, fresh, wish)
            = [tri |-> IF of[ChoiceOf(s)].pick = s THEN Yes ELSE No, pick |-> None]
      BY <1>8, <2>0, <2>1, MeaningIs
    <3> QED
      BY <3>1 DEF HasType, Meanings, Tri, Yes, Mod, No
  <2>2. CASE ShownOf(s, of, mods) # Yes
    <3>1. PICK high \in Tri, base \in Tri :
            high = ShownOf(s, of, mods) /\ base = BaseIn(s, of, user, fresh)
      BY <1>3, <1>6, <2>0
    <3>2. PICK t \in Tri : t = Min({base, high})
      BY TwoAre
    <3>3. MeaningOf(s, of, mods, user, fresh, wish) = [tri |-> Promote(t, bool), pick |-> None]
      BY <1>1, <1>8, <2>0, <2>2, <3>1, <3>2, MeaningIs
    <3> QED
      BY <1>2, <3>3, PromoteIs DEF HasType, Meanings
  <2> QED
    BY <2>1, <2>2
<1>9. CASE s \notin ChoiceSymbols /\ s \notin MemberSet
  <2>0. s \in Options
    BY <1>9 DEF Symbols
  <2>1. MeaningOf(s, of, mods, user, fresh, wish)
          = [tri |-> IF ShownOf(s, of, mods) = No /\ LeastOf(s, of, mods) = No
                     THEN Promote(DefaultOf(s, of), bool)
                     ELSE LimitedOf(BaseIn(s, of, user, fresh), s, of, mods),
             pick |-> None]
    BY <1>1, <1>9, MeaningIs
  <2>2. PICK t \in Tri, u \in Tri : /\ t = Promote(DefaultOf(s, of), bool)
                                    /\ u = LimitedOf(BaseIn(s, of, user, fresh), s, of, mods)
                                    /\ bool => t # Mod /\ u # Mod
    BY <1>4, <1>6, <2>0, PromoteIs
  <2> QED
    BY <1>2, <2>1, <2>2 DEF HasType, Meanings
<1> QED
  BY <1>7, <1>8, <1>9

LEMMA MeaningIsTyped ==
  ASSUME IsFiniteSet(Symbols), NEW user, \A a \in Symbols : user[a] \in Tri, NEW fresh,
         NEW wish, WishesOK(wish)
  PROVE  \A s \in Symbols : HasType(s, Meaning(user, fresh, wish)[s])
<1> DEFINE Typed(f) == \A s \in Symbols : HasType(s, f[s])
<1>1. ASSUME NEW mods PROVE Typed(MeaningWith(mods, user, fresh, wish))
  <2>1. PICK n \in Nat : n = Cardinality(Symbols)
    BY FS_CardinalityType
  <2>2. PICK g : g = CHOOSE h : AreLevels(h, n, mods, user, fresh, wish)
    OBVIOUS
  <2>3. AreLevels(g, n, mods, user, fresh, wish)
    BY <2>2, LevelsExist
  <2>4. MeaningWith(mods, user, fresh, wish) = CHOOSE of \in g[n] : TRUE
    BY <2>1, <2>2 DEF MeaningWith, AreLevels, Nothing, NextLevels, NextLevel
  <2> DEFINE S == {k \in Nat : k <= n => g[k] # {} /\ \A f \in g[k] : Typed(f)}
  <2>5. g[0] = {Nothing} /\ \A i \in 1..n : g[i] = NextLevels(i, g[i - 1], mods, user, fresh, wish)
    BY <2>3, LevelAt
  <2>6. 0 \in S
    <3>1. Typed(Nothing)
      BY DEF Nothing, HasType, Meanings, Tri, No, Mod
    <3> HIDE DEF Typed
    <3> QED
      BY <2>5, <3>1
  <2>7. ASSUME NEW k \in Nat, k \in S PROVE k + 1 \in S
    <3> SUFFICES ASSUME k + 1 <= n PROVE g[k + 1] # {} /\ \A f \in g[k + 1] : Typed(f)
      OBVIOUS
    <3>1. g[k] # {} /\ \A f \in g[k] : Typed(f)
      BY <2>7
    <3>2. g[k + 1] = NextLevels(k + 1, g[k], mods, user, fresh, wish)
      <4>1. k + 1 \in 1..n /\ k + 1 - 1 = k
        OBVIOUS
      <4> QED
        BY <2>5, <4>1
    <3>3. ASSUME NEW f \in g[k] PROVE Typed(NextLevel(k + 1, f, mods, user, fresh, wish))
      <4> SUFFICES ASSUME NEW s \in Symbols
                   PROVE  HasType(s, NextLevel(k + 1, f, mods, user, fresh, wish)[s])
        OBVIOUS
      <4>1. \A a \in Symbols : f[a].tri \in Tri /\ HasType(a, f[a])
        BY <3>1, <3>3 DEF HasType, Meanings
      <4>2. HasType(s, MeaningOf(s, f, mods, user, fresh, wish))
        BY <4>1, MeaningOfIs
      <4>3. \/ NextLevel(k + 1, f, mods, user, fresh, wish)[s] = f[s]
            \/ NextLevel(k + 1, f, mods, user, fresh, wish)[s]
                 = MeaningOf(s, f, mods, user, fresh, wish)
        BY DEF NextLevel
      <4> QED
        BY <4>1, <4>2, <4>3
    <3> HIDE DEF Typed
    <3> QED
      BY <3>1, <3>2, <3>3 DEF NextLevels
  <2> HIDE DEF S
  <2>8. Nat \subseteq S
    BY <2>6, <2>7, Counting
  <2>9. g[n] # {} /\ \A f \in g[n] : Typed(f)
    <3>1. n \in S
      BY <2>8
    <3> QED
      BY <3>1 DEF S
  <2> HIDE DEF Typed
  <2> QED
    BY <2>4, <2>9
<1>2. PICK mods : Meaning(user, fresh, wish) = MeaningWith(mods, user, fresh, wish)
  BY DEF Meaning
<1> QED
  BY <1>1, <1>2
-----------------------------------------------------------------------------
(* menu.c warns of defaults of the values of a choice.  MODULES depends on *)
(* nothing but the user, its defaults neither.                             *)
ValuesArePlain == \A m \in MemberSet : Defaults[m] = <<>>
ModulesIsPlain == Modules # None => Defaults[Modules] = <<>>

(* MODULES needs nothing.                                                  *)
LEMMA ModulesNeeds ==
  ASSUME ModulesIsPlain, Modules # None
  PROVE  /\ Modules \in Options /\ Modules \in Symbols /\ Modules \notin ChoiceSymbols
         /\ Modules \notin MemberSet /\ Modules \notin Tristate
         /\ Default[Modules] = <<>> /\ Atoms(Prompt[Modules]) = {}
         /\ Select[Modules] = Never /\ Needs[Modules] = {}
<1>1. /\ Modules \in Options /\ Modules \in Symbols /\ Modules \notin ChoiceSymbols
      /\ Modules \notin MemberSet /\ Modules \notin Tristate
      /\ Prompt[Modules] \in {Always, Never} /\ Select[Modules] = Never
  BY ModulesAssumption, SymbolsAssumption DEF Symbols
<1>2. Defaults[Modules] = <<>>
  BY DEF ModulesIsPlain
<1>3. Default[Modules] = <<>>
  BY <1>1, <1>2 DEF Default
<1>4. Atoms(Always) = {} /\ Atoms(Never) = {}
  BY DEF Atoms, Always, Never
<1>5. Range(<<>>) = {}
  BY DEF Range
<1>6. Needs[Modules] = {}
  BY <1>1, <1>3, <1>4, <1>5 DEF Needs
<1> QED
  BY <1>1, <1>3, <1>4, <1>6

(* The value of MODULES is the same whatever it is said to be.             *)
LEMMA ModulesMean ==
  ASSUME ModulesIsPlain, Modules # None, NEW user, NEW fresh, NEW wish, WishesOK(wish),
         NEW f, NEW g, NEW mods, NEW more
  PROVE  MeaningOf(Modules, f, mods, user, fresh, wish)
           = MeaningOf(Modules, g, more, user, fresh, wish)
<1>1. /\ Modules \in Symbols /\ Modules \notin ChoiceSymbols /\ Modules \notin MemberSet
      /\ Needs[Modules] = {}
  BY ModulesNeeds
<1>2. MeaningOf(Modules, f, mods, user, fresh, wish)
        = MeaningOf(Modules, g, mods, user, fresh, wish)
  BY <1>1, MeansSame
<1>3. BoolWith(Modules, mods) = TRUE /\ BoolWith(Modules, more) = TRUE
  BY ModulesNeeds DEF BoolWith
<1>4. /\ ShownOf(Modules, g, mods) = ShownOf(Modules, g, more)
      /\ LeastOf(Modules, g, mods) = LeastOf(Modules, g, more)
  BY <1>3 DEF ShownOf, LeastOf
<1>5. \A t : LimitedOf(t, Modules, g, mods) = LimitedOf(t, Modules, g, more)
  BY <1>3, <1>4 DEF LimitedOf
<1>6. \A x : MeaningOf(Modules, g, x, user, fresh, wish) =
        [tri |-> IF ShownOf(Modules, g, x) = No /\ LeastOf(Modules, g, x) = No
                 THEN Promote(DefaultOf(Modules, g), BoolWith(Modules, x))
                 ELSE LimitedOf(BaseIn(Modules, g, user, fresh), Modules, g, x),
         pick |-> None]
  BY <1>1, MeaningIs
<1>7. MeaningOf(Modules, g, mods, user, fresh, wish)
        = MeaningOf(Modules, g, more, user, fresh, wish)
  BY <1>3, <1>4, <1>5, <1>6
<1> QED
  BY <1>2, <1>7

(* The meaning, of all symbols at once, is what they mean to each other;   *)
(* and nothing else is.                                                    *)
ModsOf(of) == IF Modules = None THEN No ELSE of[Modules].tri

LEMMA MeansOwn ==
  ASSUME Levelled, ModulesIsPlain, NEW user, NEW fresh, NEW wish, WishesOK(wish),
         NEW of, of = Meaning(user, fresh, wish)
  PROVE  \A s \in Symbols : of[s] = MeaningOf(s, of, ModsOf(of), user, fresh, wish)
<1>1. PICK one : one = MeaningWith(No, user, fresh, wish)
  OBVIOUS
<1>2. PICK mods : mods = IF Modules = None THEN No ELSE one[Modules].tri
  OBVIOUS
<1>3. of = MeaningWith(mods, user, fresh, wish)
  BY <1>1, <1>2 DEF Meaning
<1>4. \A s \in Symbols : /\ one[s] = MeaningOf(s, one, No, user, fresh, wish)
                         /\ of[s] = MeaningOf(s, of, mods, user, fresh, wish)
  BY <1>1, <1>3, MeaningFixed
<1>5. mods = ModsOf(of)
  <2>1. CASE Modules = None
    BY <1>2, <2>1 DEF ModsOf
  <2>2. CASE Modules # None
    <3>1. one[Modules] = of[Modules]
      BY <1>4, <2>2, ModulesMean, ModulesNeeds
    <3> QED
      BY <1>2, <2>2, <3>1 DEF ModsOf
  <2> QED
    BY <2>1, <2>2
<1> QED
  BY <1>4, <1>5

LEMMA MeansNoOther ==
  ASSUME Levelled, ModulesIsPlain, NEW user, NEW fresh, NEW wish, WishesOK(wish),
         NEW f, \A s \in Symbols : f[s] = MeaningOf(s, f, ModsOf(f), user, fresh, wish)
  PROVE  \A s \in Symbols : Meaning(user, fresh, wish)[s] = f[s]
<1>1. PICK of : of = Meaning(user, fresh, wish)
  OBVIOUS
<1>2. \A s \in Symbols : of[s] = MeaningOf(s, of, ModsOf(of), user, fresh, wish)
  BY <1>1, MeansOwn
<1>3. ModsOf(of) = ModsOf(f)
  <2>1. CASE Modules = None
    BY <2>1 DEF ModsOf
  <2>2. CASE Modules # None
    <3>1. of[Modules] = f[Modules]
      BY <1>2, <2>2, ModulesMean, ModulesNeeds
    <3> QED
      BY <2>2, <3>1 DEF ModsOf
  <2> QED
    BY <2>1, <2>2
<1> DEFINE S == {n \in Nat : \A s \in Symbols : Rank[s] <= n => of[s] = f[s]}
<1>4. \A s \in Symbols : /\ Rank[s] \in Nat \ {0}
                         /\ \A d \in Needs[s] : d \in Symbols /\ Rank[d] < Rank[s]
  <2>1. PICK N \in Nat : N = Cardinality(Symbols)
    BY RankIs
  <2>2. \A s \in Symbols : Rank[s] \in 1..N
    BY <2>1, RankIs
  <2> QED
    BY <2>2, RankIs, NeedsAre DEF IsRank
<1>5. 0 \in S
  BY <1>4
<1>6. ASSUME NEW n \in Nat, n \in S PROVE n + 1 \in S
  <2> SUFFICES ASSUME NEW s \in Symbols, Rank[s] <= n + 1 PROVE of[s] = f[s]
    OBVIOUS
  <2>1. \A d \in Needs[s] : of[d] = f[d]
    BY <1>4, <1>6
  <2>2. MeaningOf(s, of, ModsOf(of), user, fresh, wish)
          = MeaningOf(s, f, ModsOf(of), user, fresh, wish)
    BY <2>1, MeansSame
  <2> QED
    BY <1>2, <1>3, <2>2
<1> HIDE DEF S
<1>7. Nat \subseteq S
  BY <1>5, <1>6, Counting
<1> QED
  <2> SUFFICES ASSUME NEW s \in Symbols PROVE of[s] = f[s]
    BY <1>1
  <2>1. Rank[s] \in S
    BY <1>4, <1>7
  <2> QED
    BY <1>4, <2>1 DEF S
(* What a symbol means depends on what it was asked for itself.            *)
LEMMA SameAsked ==
  ASSUME NEW x, NEW of, NEW mods, NEW u, NEW f, NEW w, NEW v, NEW g, NEW y,
         x \in ChoiceSymbols => AskedIn(x, u, f) = AskedIn(x, v, g) /\ w[x] = y[x],
         x \notin ChoiceSymbols => BaseIn(x, of, u, f) = BaseIn(x, of, v, g)
  PROVE  MeaningOf(x, of, mods, u, f, w) = MeaningOf(x, of, mods, v, g, y)
<1>1. CASE x \in ChoiceSymbols
  <2>1. Candidates(x, w) = Candidates(x, y)
    BY <1>1 DEF Candidates
  <2>2. OpenIn(x, of, w) = OpenIn(x, of, y)
    BY <2>1 DEF OpenIn
  <2>3. PICK t : t = AskedIn(x, u, f) /\ t = AskedIn(x, v, g)
    BY <1>1
  <2>4. CASE LimitedOf(t, x, of, mods) = Yes
    BY <1>1, <2>1, <2>2, <2>3, <2>4, MeaningIs, MembersAre
  <2>5. CASE LimitedOf(t, x, of, mods) # Yes
    BY <1>1, <2>3, <2>5, MeaningIs, MembersAre
  <2> QED
    BY <2>4, <2>5
<1>2. CASE x \notin ChoiceSymbols /\ x \in MemberSet
  <2>1. CASE ShownOf(x, of, mods) = Yes
    BY <1>2, <2>1, MeaningIs
  <2>2. CASE ShownOf(x, of, mods) # Yes
    BY <1>2, <2>2, MeaningIs
  <2> QED
    BY <2>1, <2>2
<1>3. CASE x \notin ChoiceSymbols /\ x \notin MemberSet
  BY <1>3, MeaningIs
<1> QED
  BY <1>1, <1>2, <1>3

LEMMA UnderAlways == ASSUME NEW c, NEW f PROVE Under(Always, c, f) = Yes
<1>1. {MinOf({l[2][[a \in Atoms(Always) |-> IF a = M THEN Mod ELSE IF a = c THEN Yes
        ELSE f[a].tri][l[1]]] : l \in conj}) : conj \in Always} = {MinOf({})}
  BY DEF Always
<1>2. MinOf({}) = Yes
  BY DEF MinOf, Min, Yes
<1>3. MaxOf({Yes}) = Yes
  BY DEF MaxOf, Max, No, Yes
<1> QED
  BY <1>1, <1>2, <1>3 DEF Under, Eval

(* Only the values of the symbols an expression names matter to it, not on *)
(* whom its choices fall; and a choice that is "y" may be taken for one.   *)
LEMMA UnderTri ==
  ASSUME NEW e, NEW c, NEW b, NEW f, NEW g,
         \A a \in Atoms(e) : \/ a = M
                             \/ a = c /\ (a = b \/ g[a].tri = Yes)
                             \/ a # c /\ a = b /\ f[a].tri = Yes
                             \/ a # c /\ a # b /\ f[a].tri = g[a].tri
  PROVE  Under(e, c, f) = Under(e, b, g)
<1> DEFINE v == [a \in Atoms(e) |-> IF a = M THEN Mod ELSE IF a = c THEN Yes ELSE f[a].tri]
           w == [a \in Atoms(e) |-> IF a = M THEN Mod ELSE IF a = b THEN Yes ELSE g[a].tri]
<1>1. \A a \in Atoms(e) : v[a] = w[a]
  OBVIOUS
<1>2. Under(e, c, f) = Eval(e, v) /\ Under(e, b, g) = Eval(e, w)
  BY DEF Under
<1> HIDE DEF v, w
<1> QED
  BY <1>1, <1>2, EvalSame

(* What is shown is what was asked for means.                              *)
Means(of, u, f, w) == \A s \in Symbols : of[s] = MeaningOf(s, of, ModsOf(of), u, f, w)

(* Two sets of wishes that ask the same of symbol x.                       *)
AsksSame(x, of, u, f, w, v, g, y) ==
  /\ x \in ChoiceSymbols => AskedIn(x, u, f) = AskedIn(x, v, g) /\ w[x] = y[x]
  /\ x \notin ChoiceSymbols => BaseIn(x, of, u, f) = BaseIn(x, of, v, g)

LEMMA ModsSame ==
  ASSUME ModulesIsPlain, NEW of, NEW on, NEW u, NEW f, NEW w, NEW v, NEW g, NEW y,
         Means(of, u, f, w), Means(on, v, g, y), WishesOK(y),
         Modules # None => AsksSame(Modules, of, u, f, w, v, g, y)
  PROVE  ModsOf(on) = ModsOf(of)
<1>1. CASE Modules = None
  BY <1>1 DEF ModsOf
<1>2. CASE Modules # None
  <2>1. Modules \in Symbols
    BY <1>2, ModulesNeeds
  <2>2. of[Modules] = MeaningOf(Modules, of, ModsOf(of), v, g, y)
    BY <1>2, <2>1, SameAsked DEF Means, AsksSame
  <2>3. on[Modules] = MeaningOf(Modules, on, ModsOf(on), v, g, y)
    BY <2>1 DEF Means
  <2>4. of[Modules] = on[Modules]
    BY <1>2, <2>2, <2>3, ModulesMean
  <2> QED
    BY <2>4 DEF ModsOf
<1> QED
  BY <1>1, <1>2

(* Symbols of lower rank mean the same if the same was asked of them.      *)
LEMMA BelowSame ==
  ASSUME Levelled, NEW of, NEW on, NEW u, NEW f, NEW w, NEW v, NEW g, NEW y,
         Means(of, u, f, w), Means(on, v, g, y), WishesOK(y), ModsOf(on) = ModsOf(of),
         NEW top \in Nat,
         \A x \in Symbols : Rank[x] < top => AsksSame(x, of, u, f, w, v, g, y)
  PROVE  \A x \in Symbols : Rank[x] < top => on[x] = of[x]
<1> DEFINE S == {n \in Nat : n < top => \A x \in Symbols : Rank[x] <= n => on[x] = of[x]}
<1>1. \A x \in Symbols : /\ Rank[x] \in Nat \ {0}
                         /\ \A d \in Needs[x] : d \in Symbols /\ Rank[d] < Rank[x]
  <2>1. PICK N \in Nat : N = Cardinality(Symbols)
    BY RankIs
  <2>2. \A x \in Symbols : Rank[x] \in 1..N
    BY <2>1, RankIs
  <2> QED
    BY <2>2, RankIs, NeedsAre DEF IsRank
<1>2. 0 \in S
  BY <1>1
<1>3. ASSUME NEW n \in Nat, n \in S PROVE n + 1 \in S
  <2> SUFFICES ASSUME n + 1 < top, NEW x \in Symbols, Rank[x] <= n + 1 PROVE on[x] = of[x]
    OBVIOUS
  <2>1. \A d \in Needs[x] : on[d] = of[d]
    BY <1>1, <1>3
  <2>2. MeaningOf(x, on, ModsOf(of), v, g, y) = MeaningOf(x, of, ModsOf(of), v, g, y)
    BY <2>1, MeansSame
  <2>3. Rank[x] < top
    BY <1>1
  <2>4. MeaningOf(x, of, ModsOf(of), u, f, w) = MeaningOf(x, of, ModsOf(of), v, g, y)
    BY <2>3, SameAsked DEF AsksSame
  <2> QED
    BY <2>2, <2>4 DEF Means
<1> HIDE DEF S
<1>4. Nat \subseteq S
  BY <1>2, <1>3, Counting
<1> QED
  <2> SUFFICES ASSUME NEW x \in Symbols, Rank[x] < top PROVE on[x] = of[x]
    OBVIOUS
  <2>1. Rank[x] \in S
    BY <1>1, <1>4
  <2> QED
    BY <1>1, <2>1 DEF S
=============================================================================
