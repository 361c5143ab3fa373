----------------------------- MODULE ConfProofs -----------------------------
(* What the walk of conf.c over the menu tree leaves, for every tree.      *)
EXTENDS Conf, KconfigProofs

(* menu_finalize: every node but the root hangs below another, the values  *)
(* of a choice below it.                                                   *)
Below(p, n) == \E i \in DOMAIN Children[p] : Children[p][i] = n
Finite(N, h) == /\ h \in [Nodes -> 0..N]
                /\ \A p, n \in Nodes : Below(p, n) => h[n] < h[p]
Hangs == /\ \A n \in Nodes \ {Root} : \E p \in Nodes : Below(p, n)
         /\ \E N \in Nat : \E h : Finite(N, h)

(* The calls to come, each for a node it can be for.                       *)
Tasks == {t \in Task : /\ t.do = "sym" => t.node \in Symbols
                       /\ t.do \in {"settle", "pick", "childs"} => t.node \in ChoiceSymbols}
AskedOK == /\ user \in [Symbols -> Tri] /\ fresh \subseteq Symbols
           /\ wish \in [ChoiceSymbols -> Options \cup {None}] /\ WishesOK(wish)
NowOK == \A s \in Symbols : HasType(s, now[s])
TypeInv ==
  /\ config \in Files \cup {Absent} /\ AskedOK /\ NowOK
  /\ mode \in Modes /\ terminal \in BOOLEAN /\ open \subseteq Symbols
  /\ todo \in Seq(Tasks) /\ top \in Titled /\ found \in BOOLEAN /\ answered \in BOOLEAN
  /\ phase \in {"start", "reading", "forgetting", "calculating", "asking",
                "written", "aborted"}

LEMMA TypeInvIs == TypeInv => TypeOK
<1> SUFFICES ASSUME TypeInv PROVE TypeOK
  OBVIOUS
<1>1. todo \in Seq(Task)
  BY DEF TypeInv, Tasks
<1>2. \A s \in Symbols : now[s].tri \in Tri
  BY DEF TypeInv, NowOK, HasType, Meanings
<1> QED
  BY <1>1, <1>2 DEF TypeInv, TypeOK, AskedOK, Files

LEMMA ChildrenAre ==
  /\ \A n \in Nodes : /\ Children[n] \in Seq(Nodes)
                      /\ DOMAIN Children[n] = 1..Len(Children[n]) /\ Len(Children[n]) \in Nat
                      /\ \A i \in DOMAIN Children[n] : Children[n][i] \in Nodes \ {Root}
  /\ \A c \in ChoiceSymbols : \A i \in DOMAIN Children[c] : Children[c][i] \in Range(Members[c])
  /\ Root \in Menus /\ Menus \cap Symbols = {} /\ ChoiceSymbols \subseteq Nodes
  /\ Symbols \subseteq Nodes /\ Menus \subseteq Nodes
<1>1. \A n \in Nodes : Children[n] \in Seq(Nodes \ {Root})
  BY TreeAssumption
<1>2. \A n \in Nodes : Children[n] \in Seq(Nodes)
  BY <1>1
<1>3. \A n \in Nodes : \A i \in DOMAIN Children[n] : Children[n][i] \in Nodes \ {Root}
  BY <1>1
<1> QED
  BY <1>1, <1>2, <1>3, TreeAssumption DEF Nodes, Symbols

(* A node is a menu, a choice or an option.                                *)
LEMMA NeitherIs ==
  /\ \A n \in Menus : n \notin ChoiceSymbols /\ n \notin Options /\ n \notin Symbols
  /\ \A n \in ChoiceSymbols : n \notin Titled /\ n \notin Menus /\ n \notin Options /\ n \in Symbols
  /\ \A n \in Options : n \notin Menus /\ n \notin ChoiceSymbols /\ n \in Symbols
  /\ Titled \subseteq Nodes
BY TreeAssumption, SymbolsAssumption DEF Symbols, Titled, Nodes

LEMMA CallsAre ==
  ASSUME NEW what \in {"conf", "check"}, NEW n \in Nodes
  PROVE  /\ Call(what, n) \in Tasks /\ Calls(what, Children[n]) \in Seq(Tasks)
         /\ DOMAIN Calls(what, Children[n]) = DOMAIN Children[n]
         /\ \A i \in DOMAIN Children[n] : Calls(what, Children[n])[i] = Call(what, Children[n][i])
<1>1. \A k \in Nodes : Call(what, k) \in Tasks
  BY DEF Call, Tasks, Task
<1>2. PICK m \in Nat : DOMAIN Children[n] = 1..m
  BY ChildrenAre
<1>3. Calls(what, Children[n]) \in [1..m -> Tasks]
  BY <1>1, <1>2, ChildrenAre DEF Calls
<1>4. Calls(what, Children[n]) \in Seq(Tasks)
  BY <1>3, SeqDef
<1> QED
  BY <1>1, <1>4 DEF Calls

(* What stands before the calls to come is put there.                      *)
LEMMA ThenIs ==
  ASSUME todo \in Seq(Tasks), todo # <<>>, NEW tasks \in Seq(Tasks), Then(tasks)
  PROVE  todo' \in Seq(Tasks)
<1>1. Tail(todo) \in Seq(Tasks)
  OBVIOUS
<1> QED
  BY <1>1 DEF Then

LEMMA HeadIs ==
  ASSUME todo \in Seq(Tasks), todo # <<>>
  PROVE  Head(todo) \in Tasks /\ Node \in Nodes
<1>1. Head(todo) \in Tasks
  OBVIOUS
<1> QED
  BY <1>1 DEF Node, Tasks, Task

(* The menu around a node.                                                 *)
LEMMA ParentMenuIs == ASSUME Hangs, NEW n \in Nodes PROVE ParentMenu(n) \in Titled
<1> DEFINE above(k) == CHOOSE p \in Nodes : \E i \in DOMAIN Children[p] : Children[p][i] = k
           Goes(g) == g = [k \in Nodes |-> IF k \in Titled THEN k ELSE g[above(k)]]
<1>0. PICK N \in Nat : \E h : Finite(N, h)
  BY DEF Hangs
<1>1. PICK h : Finite(N, h)
  BY <1>0
<1>2. \A k \in Nodes : h[k] \in 0..N /\ N - h[k] \in Nat /\ N - h[k] <= N
  BY <1>1 DEF Finite
<1>3. ASSUME NEW k \in Nodes \ Titled PROVE above(k) \in Nodes /\ N - h[above(k)] < N - h[k]
  <2>1. \E p \in Nodes : Below(p, k)
    BY ChildrenAre DEF Hangs, Titled
  <2>2. PICK p : p = above(k)
    OBVIOUS
  <2>3. p \in Nodes /\ Below(p, k)
    BY <2>1, <2>2 DEF Below
  <2>4. h[k] < h[p] /\ h[k] \in 0..N /\ h[p] \in 0..N
    BY <1>1, <1>2, <2>3 DEF Finite
  <2> QED
    BY <2>2, <2>3, <2>4
<1> HIDE DEF above
<1>4. \E g : Goes(g)
  <2> DEFINE Right(g, m) == /\ DOMAIN g = Nodes
                            /\ \A k \in Nodes : N - h[k] <= m =>
                                 g[k] = IF k \in Titled THEN k ELSE g[above(k)]
             S == {m \in Nat : \E g : Right(g, m)}
             next(g, m) == [k \in Nodes |-> IF N - h[k] <= m THEN g[k]
                                            ELSE IF k \in Titled THEN k ELSE g[above(k)]]
  <2>1. 0 \in S
    <3>1. \A k \in Nodes : N - h[k] <= 0 => k \in Titled
      <4> SUFFICES ASSUME NEW k \in Nodes \ Titled PROVE ~(N - h[k] <= 0)
        OBVIOUS
      <4>1. above(k) \in Nodes /\ N - h[above(k)] < N - h[k]
        BY <1>3
      <4>2. N - h[above(k)] \in Nat /\ N - h[k] \in Nat
        BY <1>2, <4>1
      <4> QED
        BY <4>1, <4>2
    <3>2. Right([k \in Nodes |-> k], 0)
      BY <3>1
    <3> QED
      BY <3>2
  <2>2. ASSUME NEW m \in Nat, m \in S PROVE m + 1 \in S
    <3>1. PICK g : Right(g, m)
      BY <2>2
    <3>2. PICK f : f = next(g, m)
      OBVIOUS
    <3>3. \A k \in Nodes : f[k] = IF N - h[k] <= m THEN g[k]
                                  ELSE IF k \in Titled THEN k ELSE g[above(k)]
      BY <3>2
    <3>4. ASSUME NEW k \in Nodes, N - h[k] <= m + 1
          PROVE  f[k] = IF k \in Titled THEN k ELSE f[above(k)]
      <4>1. CASE k \in Titled
        BY <3>1, <3>3, <4>1
      <4>2. CASE k \notin Titled
        <5>1. above(k) \in Nodes /\ N - h[above(k)] < N - h[k]
          BY <1>3, <4>2
        <5>2. N - h[above(k)] <= m
          BY <1>2, <3>4, <5>1
        <5>3. f[above(k)] = g[above(k)]
          BY <3>3, <5>1, <5>2
        <5>4. f[k] = g[above(k)]
          BY <3>1, <3>3, <4>2
        <5> QED
          BY <4>2, <5>3, <5>4
      <4> QED
        BY <4>1, <4>2
    <3>5. DOMAIN f = Nodes
      BY <3>2
    <3>6. Right(f, m + 1)
      BY <3>4, <3>5
    <3> QED
      BY <3>6
  <2> HIDE DEF S, Right
  <2>3. Nat \subseteq S
    BY <2>1, <2>2, Counting
  <2>4. PICK g : Right(g, N)
    BY <2>3 DEF S
  <2>5. DOMAIN g = Nodes /\ \A k \in Nodes : g[k] = IF k \in Titled THEN k ELSE g[above(k)]
    BY <1>2, <2>4 DEF Right
  <2>6. PICK f : f = [k \in Nodes |-> g[k]]
    OBVIOUS
  <2>7. \A k \in Nodes \ Titled : above(k) \in Nodes
    BY <1>3
  <2>8. \A k \in Nodes : f[k] = g[k]
    BY <2>6
  <2>9. \A k \in Nodes : f[k] = IF k \in Titled THEN k ELSE f[above(k)]
    BY <2>5, <2>7, <2>8
  <2>10. Goes(f)
    BY <2>6, <2>9
  <2> QED
    BY <2>10
<1>5. PICK g : g = CHOOSE f : Goes(f)
  OBVIOUS
<1>6. Goes(g)
  <2> HIDE DEF Goes
  <2> QED
    BY <1>4, <1>5
<1>7. ParentMenu(n) = g[n]
  BY <1>5 DEF ParentMenu, above
<1> DEFINE T == {m \in Nat : \A k \in Nodes : N - h[k] <= m => g[k] \in Titled}
<1>8. 0 \in T
  <2> SUFFICES ASSUME NEW k \in Nodes, N - h[k] <= 0 PROVE g[k] \in Titled
    OBVIOUS
  <2>1. CASE k \in Titled
    BY <1>6, <2>1
  <2>2. CASE k \notin Titled
    <3>1. above(k) \in Nodes /\ N - h[above(k)] < N - h[k]
      BY <1>3, <2>2
    <3> QED
      BY <1>2, <3>1
  <2> QED
    BY <2>1, <2>2
<1>9. ASSUME NEW m \in Nat, m \in T PROVE m + 1 \in T
  <2> SUFFICES ASSUME NEW k \in Nodes, N - h[k] <= m + 1 PROVE g[k] \in Titled
    OBVIOUS
  <2>1. CASE k \in Titled
    BY <1>6, <2>1
  <2>2. CASE k \notin Titled
    <3>1. above(k) \in Nodes /\ N - h[above(k)] < N - h[k]
      BY <1>3, <2>2
    <3>2. N - h[above(k)] <= m
      BY <1>2, <3>1
    <3>3. g[k] = g[above(k)]
      BY <1>6, <2>2
    <3> QED
      BY <1>9, <3>1, <3>2, <3>3
  <2> QED
    BY <2>1, <2>2
<1> HIDE DEF T, Goes
<1>10. Nat \subseteq T
  BY <1>8, <1>9, Counting
<1> QED
  BY <1>2, <1>7, <1>10 DEF T
LEMMA FewCalls == <<>> \in Seq(Tasks) /\ \A t \in Tasks : <<t>> \in Seq(Tasks)
OBVIOUS

(* What a symbol may be set to is a value.                                 *)
LEMMA AnswersAre ==
  ASSUME TypeInv, NEW s \in Symbols PROVE Answers(s) \subseteq Tri
<1>1. now[s].tri \in Tri
  BY DEF TypeInv, NowOK, HasType, Meanings
<1>2. IsRuled(s) => ByRule(s) \subseteq Tri
  <2> SUFFICES ASSUME IsRuled(s), NEW x \in ByRule(s), x \notin Tri PROVE FALSE
    OBVIOUS
  <2> DEFINE middle == IF IsBool(s) THEN Yes ELSE Mod
             order == CASE mode = "set_yes" -> <<Yes, middle, No>>
                        [] mode = "set_mod" -> <<middle, No>>
                        [] mode = "set_no" -> <<No>>
                        [] mode = "set_random" -> <<>>
             fit == {i \in DOMAIN order : InRange(s, order[i])}
  <2>1. mode \in {"set_no", "set_mod", "set_yes", "set_random"}
    BY DEF IsRuled, Quiet
  <2>2. order \in Seq(Tri)
    <3>1. Yes \in Tri /\ No \in Tri /\ middle \in Tri
      BY DEF Tri
    <3> HIDE DEF middle
    <3>2. /\ <<Yes, middle, No>> \in Seq(Tri) /\ <<middle, No>> \in Seq(Tri)
          /\ <<No>> \in Seq(Tri) /\ <<>> \in Seq(Tri)
      BY <3>1
    <3>3. CASE mode = "set_yes"
      BY <3>2, <3>3
    <3>4. CASE mode = "set_mod"
      BY <3>2, <3>4
    <3>5. CASE mode = "set_no"
      BY <3>2, <3>5
    <3>6. CASE mode = "set_random"
      BY <3>2, <3>6
    <3> QED
      BY <2>1, <3>3, <3>4, <3>5, <3>6
  <2>3. ByRule(s) = IF fit = {} THEN {v \in Tri : InRange(s, v)} ELSE {order[Min(fit)]}
    BY DEF ByRule
  <2> HIDE DEF order
  <2>4. fit # {} /\ x = order[Min(fit)]
    BY <2>3
  <2>5. PICK n \in Nat : DOMAIN order = 1..n
    BY <2>2
  <2>6. fit \in SUBSET Nat /\ fit \subseteq DOMAIN order
    BY <2>5
  <2> HIDE DEF fit
  <2>7. \E y \in fit : \A z \in fit : y <= z
    BY <2>4, <2>6, LeastExists
  <2>8. Min(fit) \in DOMAIN order
    BY <2>6, <2>7 DEF Min
  <2> QED
    BY <2>2, <2>4, <2>8
<1>3. CASE IsAsked(s)
  <2>1. ~IsRuled(s)
    BY <1>3 DEF IsAsked, IsRuled, Quiet
  <2>2. Answers(s) = {now[s].tri} \cup {v \in Tri : InRange(s, v)}
    BY <1>3, <2>1 DEF Answers
  <2> QED
    BY <1>1, <2>2
<1>4. CASE ~IsAsked(s) /\ IsRuled(s)
  BY <1>2, <1>4 DEF Answers
<1>5. CASE ~IsAsked(s) /\ ~IsRuled(s)
  BY <1>1, <1>5 DEF Answers
<1> QED
  BY <1>3, <1>4, <1>5

(* What is asked, and what it means, keeps its type.                       *)
LEMMA SetIs ==
  ASSUME IsFiniteSet(Symbols), AskedOK, NEW s \in Symbols, NEW val \in Tri, Set(s, val)
  PROVE  AskedOK' /\ NowOK'
<1>1. /\ user' = [user EXCEPT ![s] = val] /\ fresh' \subseteq fresh
      /\ now' = Meaning(user', fresh', wish')
  BY DEF Set
<1>2. \/ wish' = wish
      \/ s \in MemberSet /\ wish' = [wish EXCEPT ![ChoiceOf(s)] = s]
  BY DEF Set
<1>3. user' \in [Symbols -> Tri] /\ fresh' \subseteq Symbols
  BY <1>1 DEF AskedOK
<1>4. wish' \in [ChoiceSymbols -> Options \cup {None}] /\ WishesOK(wish')
  <2>1. CASE wish' = wish
    BY <2>1 DEF AskedOK
  <2>2. CASE s \in MemberSet /\ wish' = [wish EXCEPT ![ChoiceOf(s)] = s]
    <3>1. PICK c : c = ChoiceOf(s)
      OBVIOUS
    <3>2. c \in ChoiceSymbols /\ s \in Range(Members[c]) /\ s \in Options
      BY <2>2, <3>1, MembersAre
    <3>3. wish' = [wish EXCEPT ![c] = s]
      BY <2>2, <3>1
    <3> QED
      BY <3>2, <3>3 DEF AskedOK, WishesOK
  <2> QED
    BY <1>2, <2>1, <2>2
<1>5. AskedOK'
  BY <1>3, <1>4 DEF AskedOK
<1>6. \A a \in Symbols : user'[a] \in Tri
  BY <1>3
<1>7. \A t \in Symbols : HasType(t, Meaning(user', fresh', wish')[t])
  BY <1>4, <1>6, MeaningIsTyped
<1> QED
  BY <1>1, <1>5, <1>7 DEF NowOK


LEMMA TypeInit == ASSUME IsFiniteSet(Symbols), Init PROVE TypeInv
<1>1. AskedOK
  BY DEF Init, AskedOK, WishesOK, Tri
<1>2. \A s \in Symbols : HasType(s, Unasked[s])
  <2>1. PICK u : u = [s \in Symbols |-> No]
    OBVIOUS
  <2>2. PICK w : w = [c \in ChoiceSymbols |-> None]
    OBVIOUS
  <2>3. (\A a \in Symbols : u[a] \in Tri) /\ WishesOK(w)
    BY <2>1, <2>2 DEF WishesOK, Tri
  <2>4. \A s \in Symbols : HasType(s, Meaning(u, Symbols, w)[s])
    BY <2>3, MeaningIsTyped
  <2> QED
    BY <2>1, <2>2, <2>4 DEF Unasked
<1>3. NowOK
  BY <1>2 DEF NowOK, Init
<1>4. todo \in Seq(Tasks) /\ config \in Files \cup {Absent}
  BY FewCalls, TreeAssumption DEF Init
<1> QED
  BY <1>1, <1>3, <1>4, ChildrenAre DEF Init, TypeInv, Modes, AskedOK, Titled

LEMMA StartTypes ==
  ASSUME IsFiniteSet(Symbols), TypeInv, NEW m \in Modes, NEW tty \in BOOLEAN, Start(m, tty)
  PROVE  TypeInv'
<1>0. Opened \in Files /\ (config # Absent => config \in Files)
  BY DEF Opened, Files, Lines, TypeInv
<1>1. Unread \/ \E file \in Files : Read(file)
  BY <1>0 DEF Start
<1>2. AskedOK'
  <2>1. CASE Unread
    BY <2>1 DEF Unread, AskedOK, WishesOK, Tri
  <2>2. ASSUME NEW file \in Files, Read(file) PROVE AskedOK'
    BY <2>2, LoadedIs DEF Read, AskedOK, WishesOK
  <2> QED
    BY <1>1, <2>1, <2>2
<1>3. todo' \in Seq(Tasks)
  <2>1. Root \in Nodes
    BY ChildrenAre
  <2>2. Call("conf", Root) \in Tasks /\ Call("check", Root) \in Tasks
    BY <2>1, CallsAre
  <2>3. \/ todo' = << Call("conf", Root) >>
        \/ todo' = << Call("check", Root) >>
    BY DEF Start
  <2> QED
    BY <2>2, <2>3, FewCalls
<1>4. phase' \in {"calculating", "reading", "aborted"}
  BY DEF Start
<1>5. mode' \in Modes /\ terminal' \in BOOLEAN /\ top' \in Titled /\ found' \in BOOLEAN
      /\ answered' \in BOOLEAN
  BY ChildrenAre DEF Start, Titled
<1>6. UNCHANGED <<config, now, open>>
  BY DEF Start
<1>7. NowOK'
  BY <1>6 DEF TypeInv, NowOK
<1> QED
  BY <1>2, <1>3, <1>4, <1>5, <1>6, <1>7 DEF TypeInv

LEMMA StepTypes ==
  ASSUME IsFiniteSet(Symbols), Hangs, TypeInv, Step
  PROVE  TypeInv'
<1>0. todo # <<>> => Head(todo) \in Tasks /\ Node \in Nodes
  BY HeadIs DEF TypeInv
<1>1. CASE Calculate
  <2>1. \A a \in Symbols : user[a] \in Tri
    BY DEF TypeInv, AskedOK
  <2>2. \A s \in Symbols : HasType(s, Meaning(user, fresh, wish)[s])
    BY <2>1, MeaningIsTyped DEF TypeInv, AskedOK
  <2>3. NowOK' /\ AskedOK'
    BY <1>1, <2>2 DEF Calculate, NowOK, AskedOK, TypeInv, asked
  <2>4. phase' \in {"forgetting", "asking"} /\ open' = fresh
        /\ UNCHANGED <<config, mode, terminal, todo, top, found, answered>>
    BY <1>1 DEF Calculate
  <2> QED
    BY <2>3, <2>4 DEF TypeInv, AskedOK
<1>2. CASE Forget
  <2>1. fresh' \subseteq Symbols
    <3>1. fresh' = Forgotten(fresh, [s \in Symbols |-> Visible(s)])
      BY <1>2 DEF Forget
    <3> QED
      BY <3>1, MembersAre DEF Forgotten, TypeInv, AskedOK
  <2>2. /\ phase' = "calculating"
        /\ UNCHANGED <<config, mode, terminal, user, wish, now, todo, top, found, open, answered>>
    BY <1>2 DEF Forget, history
  <2>3. NowOK' /\ AskedOK'
    BY <2>1, <2>2 DEF NowOK, AskedOK, TypeInv
  <2> QED
    BY <2>2, <2>3 DEF TypeInv
<1>a. ASSUME todo' \in Seq(Tasks), top' \in Titled, found' \in BOOLEAN,
             UNCHANGED <<config, mode, terminal, asked, now, phase, history>>
      PROVE  TypeInv'
  <2>1. NowOK' /\ AskedOK'
    BY <1>a DEF NowOK, AskedOK, TypeInv, asked
  <2> QED
    BY <1>a, <2>1 DEF TypeInv, history
<1>b. ASSUME Abort PROVE TypeInv'
  <2>1. UNCHANGED <<config, mode, terminal, asked, now, todo, top, found, history>>
        /\ phase' = "aborted"
    BY <1>b DEF Abort
  <2>2. NowOK' /\ AskedOK'
    BY <2>1 DEF NowOK, AskedOK, TypeInv, asked
  <2> QED
    BY <2>1, <2>2 DEF TypeInv, history
<1>3. CASE Enter
  <2>0. todo # <<>> /\ todo \in Seq(Tasks) /\ Node \in Nodes
    BY <1>0, <1>3 DEF Enter, Running, TypeInv
  <2>1. PICK n \in Nodes : n = Node
    BY <2>0
  <2>2. /\ <<Call("check", n)>> \in Seq(Tasks) /\ Calls("conf", Children[n]) \in Seq(Tasks)
        /\ <<>> \in Seq(Tasks)
    BY CallsAre
  <2>3. CASE ~Seen(n)
    <3>1. Then(<<>>)
      BY <1>3, <2>1, <2>3 DEF Enter
    <3> QED
      BY <1>3, <1>a, <2>0, <2>2, <3>1, ThenIs, FewCalls DEF Enter, TypeInv
  <2>4. CASE Seen(n) /\ n \in Menus
    <3>1. Then(<<Call("check", n)>>) \/ Then(Calls("conf", Children[n]))
      BY <1>3, <2>1, <2>4, NeitherIs DEF Enter
    <3>2. todo' \in Seq(Tasks)
      BY <2>0, <2>2, <3>1, ThenIs, FewCalls
    <3> QED
      BY <1>3, <1>a, <3>2 DEF Enter, TypeInv
  <2>5. CASE Seen(n) /\ n \in ChoiceSymbols
    <3>0. PICK isNew \in BOOLEAN : isNew = (n \in fresh)
      <4>1. CASE n \in fresh
        <5>1. TRUE = (n \in fresh)
          BY <4>1
        <5> QED
          BY <5>1
      <4>2. CASE n \notin fresh
        <5>1. FALSE = (n \in fresh)
          BY <4>2
        <5> QED
          BY <5>1
      <4> QED
        BY <4>1, <4>2
    <3>1. PICK new : new = [Call("settle", n) EXCEPT !.new = n \in fresh]
      OBVIOUS
    <3>a. new = [do |-> "settle", node |-> n, new |-> isNew]
      BY <3>0, <3>1 DEF Call
    <3>2. new \in Tasks /\ Call("sym", n) \in Tasks /\ Call("childs", n) \in Tasks
      BY <2>5, <3>a DEF Call, Tasks, Task, Symbols
    <3>3. << new, Call("childs", n) >> \in Seq(Tasks) /\ <<Call("sym", n)>> \in Seq(Tasks)
      BY <3>2
    <3>4. PICK first \in Seq(Tasks) :
            first = IF Changable(n) THEN <<Call("sym", n)>> ELSE <<>>
      BY <2>2, <3>3
    <3>5. Then(first \o << new, Call("childs", n) >>)
      BY <1>3, <2>1, <2>5, <3>1, <3>4, NeitherIs DEF Enter, Titled
    <3>6. first \o << new, Call("childs", n) >> \in Seq(Tasks)
      BY <3>3
    <3>7. todo' \in Seq(Tasks)
      BY <2>0, <3>5, <3>6, ThenIs, FewCalls
    <3> QED
      BY <1>3, <1>a, <3>7 DEF Enter, TypeInv
  <2>6. CASE Seen(n) /\ n \in Options
    <3>0. \/ Then(<<Call("check", n)>>)
          \/ Then(<<Call("sym", n)>> \o Calls("conf", Children[n]))
      BY <1>3, <2>1, <2>6, NeitherIs DEF Enter
    <3>1. Call("sym", n) \in Tasks
      BY <2>6 DEF Call, Tasks, Task, Symbols
    <3>2. <<Call("sym", n)>> \o Calls("conf", Children[n]) \in Seq(Tasks)
      BY <2>2, <3>1
    <3>3. todo' \in Seq(Tasks)
      BY <2>0, <2>2, <3>0, <3>2, ThenIs, FewCalls
    <3> QED
      BY <1>3, <1>a, <3>3 DEF Enter, TypeInv
  <2> QED
    BY <2>1, <2>3, <2>4, <2>5, <2>6 DEF Nodes, Symbols
<1>4. CASE ConfSym
  <2>1. CASE Abort
    BY <1>b, <2>1
  <2>2. CASE ~Abort
    <3>1. /\ todo # <<>> /\ Head(todo).do = "sym" /\ todo \in Seq(Tasks)
      BY <1>4 DEF ConfSym, Running, TypeInv
    <3>2. Node \in Symbols
      BY <1>0, <3>1 DEF Node, Tasks
    <3>3. PICK val \in Answers(Node) : Set(Node, val)
      BY <1>4, <2>2 DEF ConfSym
    <3>4. AskedOK' /\ NowOK'
      BY <3>2, <3>3, AnswersAre, SetIs DEF TypeInv
    <3>5. /\ answered' \in BOOLEAN /\ Then(<<>>)
          /\ UNCHANGED <<config, mode, terminal, top, found, phase, open>>
      BY <1>4, <2>2 DEF ConfSym, IsAsked, IsRuled, TypeInv
    <3>6. todo' \in Seq(Tasks)
      BY <3>1, <3>5, ThenIs, FewCalls
    <3> QED
      BY <3>4, <3>5, <3>6 DEF TypeInv
  <2> QED
    BY <2>1, <2>2
<1>5. CASE Settle
  <2>1. todo # <<>> /\ Head(todo).do = "settle" /\ todo \in Seq(Tasks)
    BY <1>5 DEF Settle, Running, TypeInv
  <2>2. [Head(todo) EXCEPT !.do = "pick"] \in Tasks
    BY <1>0, <2>1 DEF Tasks, Task
  <2>3. PICK next : next = [Head(todo) EXCEPT !.do = "pick"]
    OBVIOUS
  <2>4. Then(<<next>>) \/ Then(<<>>)
    BY <1>5, <2>3 DEF Settle
  <2>5. todo' \in Seq(Tasks)
    BY <2>1, <2>2, <2>3, <2>4, ThenIs, FewCalls
  <2> QED
    BY <1>5, <1>a, <2>5 DEF Settle, TypeInv
<1>6. CASE ConfChoice
  <2>1. CASE Abort
    BY <1>b, <2>1
  <2>2. CASE ~Abort
    <3>1. todo # <<>> /\ Head(todo).do = "pick" /\ todo \in Seq(Tasks)
      BY <1>6 DEF ConfChoice, Running, TypeInv
    <3>2. Node \in ChoiceSymbols
      BY <1>0, <3>1 DEF Node, Tasks
    <3>3. PICK c \in ChoiceSymbols : c = Node
      BY <3>2
    <3>4. PICK seen : seen = {n \in Range(Children[c]) : Seen(n)}
      OBVIOUS
    <3>5. PICK asking : asking = (Cardinality(seen) # 1 /\ (mode = "ask_all" \/
                     (mode \in {"ask_new", "ask_silent"} /\ Head(todo).new)))
      OBVIOUS
    <3>6. /\ \E val \in Taken(c, seen, asking) :
                  /\ IF now[val].tri = Yes \/ InRange(val, Yes)
                     THEN Set(val, Yes) ELSE UNCHANGED <<asked, now>>
                  /\ Then(LET below == Children[val]
                          IN IF below = <<>> THEN <<>> ELSE <<Call("conf", Head(below))>>)
          /\ answered' = (answered \/ asking \/ mode = "set_random")
          /\ UNCHANGED <<config, mode, terminal, top, found, phase, started, before, open>>
      BY <1>6, <2>2, <3>3, <3>4, <3>5 DEF ConfChoice
    <3>7. PICK val \in Taken(c, seen, asking) :
                  /\ IF now[val].tri = Yes \/ InRange(val, Yes)
                     THEN Set(val, Yes) ELSE UNCHANGED <<asked, now>>
                  /\ Then(IF Children[val] = <<>> THEN <<>> ELSE <<Call("conf", Head(Children[val]))>>)
      BY <3>6
    <3>8. val \in Range(Members[c]) /\ val \in Symbols /\ val \in Nodes
      <4>1. val \in seen
        BY <3>7 DEF Taken
      <4>2. val \in Range(Members[c])
        BY <3>4, <4>1, ChildrenAre DEF Range
      <4> QED
        BY <4>2, MembersAre, ChildrenAre
    <3>9. AskedOK' /\ NowOK'
      <4>1. CASE Set(val, Yes)
        BY <3>8, <4>1, SetIs DEF TypeInv, Tri
      <4>2. CASE UNCHANGED <<asked, now>>
        BY <4>2 DEF TypeInv, AskedOK, NowOK, asked
      <4> QED
        BY <3>7, <4>1, <4>2
    <3>10. todo' \in Seq(Tasks)
      <4>1. CASE Children[val] = <<>>
        BY <3>1, <3>7, <4>1, ThenIs, FewCalls
      <4>2. CASE Children[val] # <<>>
        <5>1. PICK k : k = Head(Children[val])
          OBVIOUS
        <5>2. k \in Nodes
          <6>1. Children[val] \in Seq(Nodes)
            BY <3>8, ChildrenAre
          <6> QED
            BY <4>2, <5>1, <6>1
        <5>3. <<Call("conf", k)>> \in Seq(Tasks)
          BY <5>2, CallsAre
        <5> QED
          BY <3>1, <3>7, <4>2, <5>1, <5>3, ThenIs, FewCalls
      <4> QED
        BY <4>1, <4>2
    <3>11. answered' \in BOOLEAN
      BY <3>6, <3>5 DEF TypeInv
    <3> QED
      BY <3>6, <3>9, <3>10, <3>11 DEF TypeInv
  <2> QED
    BY <2>1, <2>2
<1>7. CASE Childs
  <2>1. todo # <<>> /\ todo \in Seq(Tasks) /\ Node \in Nodes
    BY <1>0, <1>7 DEF Childs, Running, TypeInv
  <2>2. PICK n \in Nodes : n = Node
    BY <2>1
  <2>3. Calls("conf", Children[n]) \in Seq(Tasks)
    BY CallsAre
  <2>4. Then(Calls("conf", Children[n])) \/ Then(<<>>)
    BY <1>7, <2>2 DEF Childs
  <2>5. todo' \in Seq(Tasks)
    BY <2>1, <2>3, <2>4, ThenIs, FewCalls
  <2> QED
    BY <1>7, <1>a, <2>5 DEF Childs, TypeInv
<1>8. CASE Check
  <2>1. todo # <<>> /\ todo \in Seq(Tasks) /\ Node \in Nodes
    BY <1>0, <1>8 DEF Check, Running, TypeInv
  <2>2. PICK n \in Nodes : n = Node
    BY <2>1
  <2>3. PICK below \in Seq(Tasks) : below = Calls("check", Children[n])
    BY CallsAre
  <2>4. PICK up \in Titled : up = ParentMenu(n)
    BY ParentMenuIs
  <2>5. <<Call("conf", up)>> \o below \in Seq(Tasks)
    <3>1. Call("conf", up) \in Tasks
      BY CallsAre, ChildrenAre, NeitherIs
    <3> QED
      BY <3>1
  <2>6. \/ Then(<<>>) /\ UNCHANGED <<top, found>>
        \/ Then(<<Call("conf", up)>> \o below) /\ top' = up /\ found' = TRUE
        \/ Then(below) /\ UNCHANGED <<top, found>>
    BY <1>8, <2>2, <2>3, <2>4 DEF Check
  <2>7. todo' \in Seq(Tasks)
    BY <2>1, <2>5, <2>6, ThenIs, FewCalls
  <2>8. top' \in Titled /\ found' \in BOOLEAN
    BY <2>6 DEF TypeInv
  <2>9. UNCHANGED <<config, mode, terminal, asked, now, phase, history>>
    BY <1>8 DEF Check
  <2> QED
    BY <1>a, <2>7, <2>8, <2>9
<1>9. CASE Again
  <2>1. todo' \in Seq(Tasks)
    <3>1. Call("check", Root) \in Tasks
      BY CallsAre, ChildrenAre
    <3> QED
      BY <1>9, <3>1 DEF Again
  <2>2. mode' \in Modes
    BY <1>9 DEF Again, Modes, TypeInv
  <2>3. UNCHANGED <<config, terminal, asked, now, top, phase, history>> /\ found' = FALSE
    BY <1>9 DEF Again
  <2>4. NowOK' /\ AskedOK'
    BY <2>3 DEF NowOK, AskedOK, TypeInv, asked
  <2> QED
    BY <2>1, <2>2, <2>3, <2>4 DEF TypeInv, history
<1>10. CASE Write
  <2>1. /\ config' = [s \in Options |-> now[s].tri] /\ phase' = "written"
        /\ UNCHANGED <<mode, terminal, asked, now, todo, top, found, history>>
    BY <1>10 DEF Write
  <2>2. config' \in Files
    <3>1. \A s \in Options : HasType(s, now[s])
      BY DEF TypeInv, NowOK, Symbols
    <3> QED
      BY <2>1, <3>1 DEF Files, Lines, HasType, Meanings, Tri, No, Mod, Yes
  <2>3. NowOK' /\ AskedOK'
    BY <2>1 DEF NowOK, AskedOK, TypeInv, asked
  <2> QED
    BY <2>1, <2>2, <2>3 DEF TypeInv, history
<1> QED
  BY <1>1, <1>2, <1>3, <1>4, <1>5, <1>6, <1>7, <1>8, <1>9, <1>10 DEF Step

LEMMA TypeStep ==
  ASSUME IsFiniteSet(Symbols), Hangs, TypeInv, [Next]_vars PROVE TypeInv'
<1>1. CASE UNCHANGED vars
  <2>1. NowOK' /\ AskedOK'
    BY <1>1 DEF vars, asked, NowOK, AskedOK, TypeInv
  <2> QED
    BY <1>1, <2>1 DEF vars, history, TypeInv
<1> QED
  BY <1>1, StartTypes, StepTypes DEF Next

(* In every tree of menus that has an end, and for every .config file, the *)
(* dialogue gives each symbol a value of its type and walks to the nodes   *)
(* of the tree.                                                            *)
THEOREM Typed == ASSUME IsFiniteSet(Symbols), Hangs PROVE Spec => []TypeOK
<1>1. Spec => []TypeInv
  BY TypeInit, TypeStep, PTL DEF Spec
<1> QED
  BY <1>1, TypeInvIs, PTL
-----------------------------------------------------------------------------
(* Whose value the prompt of a node, or the dependency of a menu, is.      *)
Shown(n) == IF n \in Menus THEN Shows[n] ELSE Prompt[n]

(* An expression is "n" wherever another is; or wherever a symbol is.      *)
Narrows(e, f) == \A conj \in e : \E part \in f : part \subseteq conj
NoneWithout(e, s) ==
  \A conj \in e : \E f \in [Tri -> Tri] : f[No] = No /\ <<s, f>> \in conj

(* What menu_finalize puts in a menu has the dependencies of the menu.     *)
(* What it puts below a symbol needs this symbol, or its prompt's          *)
(* conditions, and so for the symbols that one is below; a symbol without a*)
(* prompt has none below it.                                               *)
Inherits(menu, over) ==
  /\ menu \in [Nodes -> Menus] /\ over \in [Nodes -> SUBSET Symbols]
  /\ \A p, n \in Nodes : Below(p, n) =>
       /\ menu[n] = IF p \in Menus THEN p ELSE menu[p]
       /\ over[n] = IF p \in Menus THEN {} ELSE over[p] \cup {p}
       /\ p \in Symbols => Prompt[p] # Never
  /\ \A n \in Nodes \ {Root} :
       /\ Narrows(Shown(n), Shows[menu[n]])
       /\ \A s \in over[n] : NoneWithout(Shown(n), s) \/ Narrows(Shown(n), Prompt[s])
Nested == \E menu, over : Inherits(menu, over)

(* The conditions of menus are expressions.                                *)
MenusAreShown == \A n \in Menus : Shows[n] \in Expressions

LEMMA NarrowsIs ==
  ASSUME NEW e \in Expressions, NEW f \in Expressions, Narrows(e, f), NEW v,
         \A a \in Atoms(e) \cup Atoms(f) : v[a] \in Tri, Eval(e, v) # No
  PROVE  Eval(f, v) # No
<1>1. PICK conj \in e : Eval(e, v) = Smallest(conj, v)
  BY ConjunctsAre
<1>2. PICK part \in f : part \subseteq conj
  BY <1>1 DEF Narrows
<1>3. \A l \in conj : l[2][v[l[1]]] \in Tri
  BY <1>1, ConjunctsAre
<1>4. PICK S \in SUBSET Tri : S = {l[2][v[l[1]]] : l \in conj}
  BY <1>3
<1>5. PICK T \in SUBSET Tri : T = {l[2][v[l[1]]] : l \in part}
  BY <1>2, <1>3
<1>6. T \subseteq S
  BY <1>2, <1>4, <1>5
<1>7. MinOf(S) # No /\ Smallest(part, v) = MinOf(T)
  BY <1>1, <1>4, <1>5 DEF Smallest
<1>8. MinOf(T) \in T \cup {Yes} /\ MinOf(S) \in Tri /\ \A t \in S : MinOf(S) <= t
  BY MostAre
<1>9. MinOf(T) # No
  BY <1>6, <1>7, <1>8 DEF Tri, No, Mod, Yes
<1>10. MinOf(T) <= Eval(f, v) /\ MinOf(T) \in Tri
  BY <1>2, <1>7, ConjunctsAre
<1> QED
  BY <1>9, <1>10 DEF Tri, No, Mod, Yes

LEMMA WithoutIs ==
  ASSUME NEW e \in Expressions, NEW s, NoneWithout(e, s), NEW v,
         \A a \in Atoms(e) : v[a] \in Tri, Eval(e, v) # No
  PROVE  s \in Atoms(e) /\ v[s] # No
<1>1. PICK conj \in e : Eval(e, v) = Smallest(conj, v)
  BY ConjunctsAre
<1>2. PICK f \in [Tri -> Tri] : f[No] = No /\ <<s, f>> \in conj
  BY <1>1 DEF NoneWithout
<1>3. \A l \in conj : l[2][v[l[1]]] \in Tri
  BY <1>1, ConjunctsAre
<1>4. PICK S \in SUBSET Tri : S = {l[2][v[l[1]]] : l \in conj}
  BY <1>3
<1>5. f[v[s]] \in S
  <2>1. PICK l \in conj : l = <<s, f>>
    BY <1>2
  <2>2. l[1] = s /\ l[2] = f
    BY <2>1
  <2> QED
    BY <1>4, <2>2
<1>6. MinOf(S) # No /\ MinOf(S) \in Tri /\ MinOf(S) <= f[v[s]]
  BY <1>1, <1>4, <1>5, MostAre DEF Smallest
<1>7. s \in Atoms(e)
  <2>1. <<s, f>> \in UNION e
    BY <1>1, <1>2
  <2> QED
    BY <2>1 DEF Atoms
<1>8. v[s] # No
  BY <1>2, <1>6 DEF Tri, No, Mod, Yes
<1> QED
  BY <1>7, <1>8

(* The values the conditions have now.                                     *)
Atomic(e) == [a \in Atoms(e) |-> IF a = M THEN Mod ELSE now[a].tri]

LEMMA ValueIs ==
  ASSUME NowOK, NEW e \in Expressions
  PROVE  /\ \A v : v = [a \in Atom |-> IF a = M THEN Mod ELSE now[a].tri] =>
              /\ Value(e) = Eval(e, v) /\ \A a \in Atom : v[a] \in Tri
         /\ Value(e) \in Tri
<1> SUFFICES ASSUME NEW v, v = [a \in Atom |-> IF a = M THEN Mod ELSE now[a].tri]
             PROVE  Value(e) = Eval(e, v) /\ (\A a \in Atom : v[a] \in Tri) /\ Value(e) \in Tri
  OBVIOUS
<1>1. Atoms(e) \subseteq Atom
  BY AtomsAre
<1>2. \A a \in Atom : v[a] \in Tri
  BY DEF Atom, NowOK, HasType, Meanings, Tri
<1>3. \A a \in Atoms(e) : v[a] = Atomic(e)[a]
  BY <1>1 DEF Atomic
<1>4. Value(e) = Eval(e, Atomic(e))
  BY DEF Value, Atomic
<1>5. Value(e) = Eval(e, v)
  BY <1>3, <1>4, EvalSame
<1> QED
  BY <1>1, <1>2, <1>5, EvalIs

LEMMA HoldsToo ==
  ASSUME NowOK, NEW e \in Expressions, Value(e) # No
  PROVE  /\ \A f \in Expressions : Narrows(e, f) => Value(f) # No
         /\ \A s \in Symbols : NoneWithout(e, s) => now[s].tri # No
<1>1. PICK v : v = [a \in Atom |-> IF a = M THEN Mod ELSE now[a].tri]
  OBVIOUS
<1>2. Value(e) = Eval(e, v) /\ \A a \in Atom : v[a] \in Tri
  BY <1>1, ValueIs
<1>3. ASSUME NEW f \in Expressions, Narrows(e, f) PROVE Value(f) # No
  <2>1. Value(f) = Eval(f, v)
    BY <1>1, ValueIs
  <2>2. \A a \in Atoms(e) \cup Atoms(f) : v[a] \in Tri
    BY <1>2, AtomsAre
  <2> QED
    BY <1>2, <1>3, <2>1, <2>2, NarrowsIs
<1>4. ASSUME NEW s \in Symbols, NoneWithout(e, s) PROVE now[s].tri # No
  <2>1. \A a \in Atoms(e) : v[a] \in Tri
    BY <1>2, AtomsAre
  <2>2. v[s] # No
    BY <1>2, <1>4, <2>1, WithoutIs
  <2> QED
    BY <1>1, <2>2, SymbolsAssumption DEF Atom
<1> QED
  BY <1>3, <1>4

(* menu_is_visible, of a node by those below it.                           *)
LEMMA SeenIs ==
  ASSUME Hangs, NEW n \in Nodes
  PROVE  /\ n \in Menus => (Seen(n) <=> Value(Shows[n]) # No)
         /\ n \notin Menus =>
              (Seen(n) <=> /\ Prompt[n] # Never
                           /\ \/ Visible(n) # No
                              \/ /\ now[n].tri # No
                                 /\ \E i \in DOMAIN Children[n] : Seen(Children[n][i]))
<1> DEFINE Sees(g, k) ==
             IF k \in Menus THEN Value(Shows[k]) # No
             ELSE /\ Prompt[k] # Never
                  /\ \/ Visible(k) # No
                     \/ now[k].tri # No /\ \E i \in DOMAIN Children[k] : g[Children[k][i]]
           Goes(g) == g = [k \in Nodes |-> Sees(g, k)]
<1>0. PICK N \in Nat : \E h : Finite(N, h)
  BY DEF Hangs
<1>1. PICK h : Finite(N, h)
  BY <1>0
<1>2. \A k \in Nodes : h[k] \in 0..N /\ h[k] \in Nat /\ h[k] <= N
  BY <1>1 DEF Finite
<1>3. \A k \in Nodes : \A i \in DOMAIN Children[k] :
        Children[k][i] \in Nodes /\ h[Children[k][i]] < h[k]
  BY <1>1, ChildrenAre DEF Finite, Below
<1>4. ASSUME NEW f, NEW g, NEW k \in Nodes,
             \A i \in DOMAIN Children[k] : f[Children[k][i]] = g[Children[k][i]]
      PROVE  Sees(f, k) = Sees(g, k)
  <2>1. Sees(f, k) <=> Sees(g, k)
    BY <1>4
  <2>2. Sees(f, k) \in BOOLEAN /\ Sees(g, k) \in BOOLEAN
    OBVIOUS
  <2> HIDE DEF Sees
  <2> QED
    BY <2>1, <2>2
<1> HIDE DEF Sees
<1>5. \E g : Goes(g)
  <2> DEFINE Right(g, m) == \A k \in Nodes : h[k] <= m => g[k] = Sees(g, k)
             S == {m \in Nat : \E g : Right(g, m)}
  <2>1. 0 \in S
    <3>1. PICK z : z = [k \in Nodes |-> FALSE]
      OBVIOUS
    <3>2. PICK f : f = [k \in Nodes |-> Sees(z, k)]
      OBVIOUS
    <3>3. ASSUME NEW k \in Nodes, h[k] <= 0 PROVE f[k] = Sees(f, k)
      <4>1. DOMAIN Children[k] = {}
        BY <1>2, <1>3, <3>3
      <4>2. Sees(z, k) = Sees(f, k)
        BY <1>4, <4>1
      <4> QED
        BY <3>2, <4>2
    <3> QED
      BY <3>3
  <2>2. ASSUME NEW m \in Nat, m \in S PROVE m + 1 \in S
    <3>1. PICK g : Right(g, m)
      BY <2>2
    <3>2. PICK f : f = [k \in Nodes |-> IF h[k] <= m THEN g[k] ELSE Sees(g, k)]
      OBVIOUS
    <3>3. ASSUME NEW k \in Nodes, h[k] <= m + 1 PROVE f[k] = Sees(f, k)
      <4>1. \A i \in DOMAIN Children[k] : f[Children[k][i]] = g[Children[k][i]]
        <5> SUFFICES ASSUME NEW i \in DOMAIN Children[k]
                     PROVE  f[Children[k][i]] = g[Children[k][i]]
          OBVIOUS
        <5>1. Children[k][i] \in Nodes /\ h[Children[k][i]] <= m
          BY <1>2, <1>3, <3>3
        <5> QED
          BY <3>2, <5>1
      <4>2. Sees(f, k) = Sees(g, k)
        BY <1>4, <4>1
      <4>3. f[k] = Sees(g, k)
        BY <3>1, <3>2
      <4> QED
        BY <4>2, <4>3
    <3> QED
      BY <3>3
  <2> HIDE DEF S, Right
  <2>3. Nat \subseteq S
    BY <2>1, <2>2, Counting
  <2>4. PICK g : Right(g, N)
    BY <2>3 DEF S
  <2>5. \A k \in Nodes : g[k] = Sees(g, k)
    BY <1>2, <2>4 DEF Right
  <2>6. PICK f : f = [k \in Nodes |-> g[k]]
    OBVIOUS
  <2>7. \A k \in Nodes : Sees(f, k) = Sees(g, k)
    <3> SUFFICES ASSUME NEW k \in Nodes PROVE Sees(f, k) = Sees(g, k)
      OBVIOUS
    <3>1. \A i \in DOMAIN Children[k] : f[Children[k][i]] = g[Children[k][i]]
      BY <1>3, <2>6
    <3> QED
      BY <1>4, <3>1
  <2>8. f = [k \in Nodes |-> Sees(f, k)]
    BY <2>5, <2>6, <2>7
  <2> QED
    BY <2>8
<1>6. PICK g : g = CHOOSE f : Goes(f)
  OBVIOUS
<1>7. Goes(g)
  <2> HIDE DEF Goes
  <2> QED
    BY <1>5, <1>6
<1>8. \A k : Seen(k) = g[k]
  BY <1>6 DEF Seen, Sees
<1>9. g[n] = Sees(g, n)
  BY <1>7
<1>10. Seen(n) = Sees(g, n)
  BY <1>8, <1>9
<1>11. n \in Menus => (Sees(g, n) <=> Value(Shows[n]) # No)
  BY DEF Sees
<1>12. n \notin Menus =>
         (Sees(g, n) <=> /\ Prompt[n] # Never
                         /\ \/ Visible(n) # No
                            \/ now[n].tri # No /\ \E i \in DOMAIN Children[n] : g[Children[n][i]])
  BY DEF Sees
<1>13. (\E i \in DOMAIN Children[n] : g[Children[n][i]])
         <=> \E i \in DOMAIN Children[n] : Seen(Children[n][i])
  BY <1>8
<1> HIDE DEF Goes
<1> QED
  BY <1>10, <1>11, <1>12, <1>13

(* What a node that is seen needs of the menu and the symbols around it.   *)
LEMMA NeededIs ==
  ASSUME NowOK, Hangs, MenusAreShown, NEW menu, NEW over, Inherits(menu, over),
         NEW n \in Nodes \ {Root}, Value(Shown(n)) # No
  PROVE  /\ Value(Shows[menu[n]]) # No
         /\ \A a \in over[n] : now[a].tri # No \/ Visible(a) # No
<1>1. Shown(n) \in Expressions
  BY PromptIs DEF MenusAreShown, Shown, Nodes
<1>2. menu[n] \in Menus /\ over[n] \subseteq Symbols
  BY DEF Inherits
<1>3. Value(Shows[menu[n]]) # No
  BY <1>1, <1>2, HoldsToo DEF Inherits, MenusAreShown
<1>4. ASSUME NEW a \in over[n] PROVE now[a].tri # No \/ Visible(a) # No
  <2>1. CASE NoneWithout(Shown(n), a)
    BY <1>1, <1>2, <2>1, HoldsToo
  <2>2. CASE Narrows(Shown(n), Prompt[a])
    <3>1. Value(Prompt[a]) # No
      BY <1>1, <1>2, <2>2, PromptIs, HoldsToo
    <3> QED
      BY <3>1 DEF Visible, Promote, No, Mod, Yes
  <2> QED
    BY <2>1, <2>2 DEF Inherits
<1> QED
  BY <1>3, <1>4

LEMMA AroundIs ==
  ASSUME NowOK, Hangs, MenusAreShown, NEW menu, NEW over, Inherits(menu, over),
         NEW n \in Nodes \ {Root}, Seen(n)
  PROVE  /\ Value(Shows[menu[n]]) # No
         /\ \A a \in over[n] : now[a].tri # No \/ Visible(a) # No
<1> DEFINE Fits(k) == /\ Value(Shows[menu[k]]) # No
                      /\ \A a \in over[k] : now[a].tri # No \/ Visible(a) # No
<1>0. PICK N \in Nat : \E h : Finite(N, h)
  BY DEF Hangs
<1>1. PICK h : Finite(N, h)
  BY <1>0
<1>2. \A k \in Nodes : h[k] \in 0..N /\ h[k] \in Nat
  BY <1>1 DEF Finite
<1>3. ASSUME NEW k \in Nodes \ {Root}, Seen(k),
             \A j \in Nodes \ {Root} : Below(k, j) /\ Seen(j) => Fits(j)
      PROVE  Fits(k)
  <2>1. CASE k \in Menus
    <3>1. Value(Shown(k)) # No
      BY <1>3, <2>1, SeenIs DEF Shown
    <3> QED
      BY <3>1, NeededIs
  <2>2. CASE k \notin Menus /\ Visible(k) # No
    <3>1. k \in Symbols
      BY <2>2 DEF Nodes
    <3>2. Value(Prompt[k]) # No
      BY <2>2 DEF Visible, Promote, No, Mod, Yes
    <3>3. Value(Shown(k)) # No
      BY <2>2, <3>2 DEF Shown
    <3> QED
      BY <3>3, NeededIs
  <2>3. CASE k \notin Menus /\ Visible(k) = No
    <3>1. PICK i \in DOMAIN Children[k] : Seen(Children[k][i])
      BY <1>3, <2>3, SeenIs
    <3>2. PICK j : j = Children[k][i]
      OBVIOUS
    <3>3. j \in Nodes \ {Root} /\ Below(k, j) /\ Seen(j)
      BY <3>1, <3>2, ChildrenAre DEF Below
    <3>4. Fits(j)
      BY <1>3, <3>3
    <3>5. menu[j] = menu[k] /\ over[k] \subseteq over[j]
      BY <2>3, <3>3 DEF Inherits
    <3> QED
      BY <3>4, <3>5
  <2> QED
    BY <2>1, <2>2, <2>3
<1> DEFINE S == {m \in Nat : \A k \in Nodes \ {Root} : h[k] <= m /\ Seen(k) => Fits(k)}
<1> HIDE DEF Fits
<1>4. 0 \in S
  <2> SUFFICES ASSUME NEW k \in Nodes \ {Root}, h[k] <= 0, Seen(k) PROVE Fits(k)
    OBVIOUS
  <2>1. \A j \in Nodes : ~Below(k, j)
    <3> SUFFICES ASSUME NEW j \in Nodes, Below(k, j) PROVE FALSE
      OBVIOUS
    <3>1. h[j] < h[k]
      BY <1>1 DEF Finite
    <3> QED
      BY <1>2, <3>1
  <2> QED
    BY <1>3, <2>1
<1>5. ASSUME NEW m \in Nat, m \in S PROVE m + 1 \in S
  <2> SUFFICES ASSUME NEW k \in Nodes \ {Root}, h[k] <= m + 1, Seen(k) PROVE Fits(k)
    OBVIOUS
  <2>1. ASSUME NEW j \in Nodes \ {Root}, Below(k, j), Seen(j) PROVE Fits(j)
    <3>1. h[j] < h[k]
      BY <1>1, <2>1 DEF Finite
    <3>2. h[j] <= m
      BY <1>2, <3>1
    <3> QED
      BY <1>5, <2>1, <3>2
  <2> QED
    BY <1>3, <2>1
<1> HIDE DEF S
<1>6. Nat \subseteq S
  BY <1>4, <1>5, Counting
<1>7. Fits(n)
  BY <1>2, <1>6 DEF S
<1> QED
  BY <1>7 DEF Fits

(* Whatever is seen hangs below what is seen.                              *)
LEMMA SeenAbove ==
  ASSUME NowOK, Hangs, Nested, MenusAreShown,
         NEW p \in Nodes, NEW n \in Nodes, Below(p, n), Seen(n)
  PROVE  Seen(p)
<1>1. PICK menu, over : Inherits(menu, over)
  BY DEF Nested
<1>2. n \in Nodes \ {Root}
  BY ChildrenAre DEF Below
<1>3. CASE p \in Menus
  <2>1. menu[n] = p
    BY <1>1, <1>3 DEF Inherits
  <2>2. Value(Shows[p]) # No
    BY <1>1, <1>2, <2>1, AroundIs
  <2> QED
    BY <1>3, <2>2, SeenIs
<1>4. CASE p \notin Menus
  <2>1. p \in over[n] /\ Prompt[p] # Never
    <3>1. p \in Symbols
      BY <1>4 DEF Nodes
    <3>2. over[n] = over[p] \cup {p}
      BY <1>1, <1>4 DEF Inherits
    <3>3. Prompt[p] # Never
      BY <1>1, <3>1 DEF Inherits
    <3> QED
      BY <3>2, <3>3
  <2>2. now[p].tri # No \/ Visible(p) # No
    BY <1>1, <1>2, <2>1, AroundIs
  <2>3. \E i \in DOMAIN Children[p] : Seen(Children[p][i])
    BY DEF Below
  <2> QED
    BY <1>4, <2>1, <2>2, <2>3, SeenIs
<1> QED
  BY <1>3, <1>4

(* What is seen, and can be set, is so as long as no value moves.          *)
LEMMA SeenStays ==
  ASSUME now' = now, NEW n PROVE (Seen(n)' <=> Seen(n)) /\ (Changable(n)' <=> Changable(n))
<1>1. Seen(n)' <=> Seen(n)
  BY DEF Seen, Value, Visible, NoModules
<1>2. Changable(n)' <=> Changable(n)
  BY DEF Changable, Visible, Least, IsBool, Value, NoModules
<1> QED
  BY <1>1, <1>2
-----------------------------------------------------------------------------
(* What check_conf leaves of a node that it passes over; the nodes it has  *)
(* still to come to; and the V it has been at.                             *)
Known(n) == ~Seen(n) \/ n \in Menus \/ n \notin fresh \/ ~Changable(n)
Pending == {todo[i].node : i \in DOMAIN todo}
Visited(V) ==
  /\ Root \in V \cup Pending
  /\ \A n \in V : Known(n) /\ (Seen(n) => \A k \in Nodes : Below(n, k) => k \in V \cup Pending)
Checks == [do : {"check"}, node : Nodes, new : BOOLEAN]
Checking == todo \in Seq(Checks)

(* While check_conf has found nothing there is nothing but its own walk.   *)
WalkInv ==
  ~found =>
    /\ phase \in {"reading", "forgetting", "calculating"} => todo = << Call("check", Root) >>
    /\ phase \in {"asking", "written"} => Checking /\ \E V \in SUBSET Nodes : Visited(V)
    /\ phase = "written" => todo = <<>>
WalkOK == WalkInv /\ (phase = "written" => ~found)

LEMMA WalkBegins ==
  ASSUME todo = << Call("check", Root) >>
  PROVE  Checking /\ \E V \in SUBSET Nodes : Visited(V)
<1>1. Call("check", Root) \in Checks
  BY ChildrenAre DEF Call, Checks
<1>2. Checking
  <2>1. << Call("check", Root) >> \in Seq(Checks)
    BY <1>1
  <2> QED
    BY <2>1 DEF Checking
<1>3. Root \in Pending
  <2>1. 1 \in DOMAIN todo /\ todo[1] = Call("check", Root)
    OBVIOUS
  <2>2. todo[1].node = Root
    BY <2>1 DEF Call
  <2> QED
    BY <2>1, <2>2 DEF Pending
<1>4. Visited({})
  BY <1>3 DEF Visited
<1> QED
  BY <1>2, <1>4

(* A step of another walk is none of check_conf's.                         *)
LEMMA OnlyChecks ==
  ASSUME Checking, todo # <<>> PROVE Head(todo).do = "check"
<1>1. Head(todo) \in Checks
  BY DEF Checking
<1> QED
  BY <1>1 DEF Checks

(* What is known stays known, and to come, as long as no value moves.      *)
LEMMA KnownStays ==
  ASSUME now' = now, fresh' = fresh, NEW n PROVE Known(n)' <=> Known(n)
BY SeenStays DEF Known

LEMMA VisitedStays ==
  ASSUME now' = now, fresh' = fresh, todo' = todo, \E V \in SUBSET Nodes : Visited(V)
  PROVE  (\E V \in SUBSET Nodes : Visited(V))'
<1>1. PICK V \in SUBSET Nodes : Visited(V)
  OBVIOUS
<1>2. Pending' = Pending
  BY DEF Pending
<1>3. \A n \in V : (Known(n)' <=> Known(n)) /\ (Seen(n)' <=> Seen(n))
  BY KnownStays, SeenStays
<1>4. Visited(V)'
  BY <1>1, <1>2, <1>3 DEF Visited
<1> QED
  BY <1>4

(* check_conf goes on to the nodes below one that is known.                *)
LEMMA CheckGoesOn ==
  ASSUME TypeInv, ~found, Checking, NEW V \in SUBSET Nodes, Visited(V), Check, ~found'
  PROVE  Checking' /\ (\E W \in SUBSET Nodes : Visited(W))'
<1>1. todo # <<>> /\ todo \in Seq(Checks)
  BY DEF Check, Running, Checking
<1>2. Head(todo) \in Checks /\ Tail(todo) \in Seq(Checks)
  BY <1>1
<1>3. PICK n \in Nodes : n = Node
  BY <1>2 DEF Node, Checks
<1>4. PICK below : below = Calls("check", Children[n])
  OBVIOUS
<1>5. below \in Seq(Checks)
  <2>1. \A k \in Nodes : Call("check", k) \in Checks
    BY DEF Call, Checks
  <2>2. PICK m \in Nat : DOMAIN Children[n] = 1..m
    BY ChildrenAre
  <2>3. below \in [1..m -> Checks]
    BY <1>4, <2>1, <2>2, ChildrenAre DEF Calls
  <2> QED
    BY <2>3, SeqDef
<1>6. \/ ~Seen(n) /\ Then(<<>>)
      \/ Seen(n) /\ ~(n \in fresh /\ Changable(n)) /\ Then(below)
  BY <1>3, <1>4 DEF Check
<1>7. <<>> \in Seq(Checks)
  OBVIOUS
<1>8. PICK tasks \in Seq(Checks) : todo' = tasks \o Tail(todo) /\ (Seen(n) => tasks = below)
  BY <1>5, <1>6, <1>7 DEF Then
<1>9. Checking'
  <2>1. tasks \o Tail(todo) \in Seq(Checks)
    BY <1>2
  <2> QED
    BY <1>8, <2>1 DEF Checking
<1>10. Pending \subseteq Pending' \cup {n}
  <2> SUFFICES ASSUME NEW i \in DOMAIN todo, todo[i].node # n PROVE todo[i].node \in Pending'
    BY DEF Pending
  <2>1. todo[1] = Head(todo) /\ DOMAIN todo = 1..Len(todo) /\ Len(todo) \in Nat
    BY <1>1
  <2>2. i # 1 /\ i \in Nat /\ i - 1 \in 1..(Len(todo) - 1)
    BY <1>3, <2>1 DEF Node
  <2>3. Len(Tail(todo)) = Len(todo) - 1 /\ Tail(todo)[i - 1] = todo[i]
    BY <1>1, <2>2
  <2>4. PICK j : j = Len(tasks) + (i - 1)
    OBVIOUS
  <2>5. Len(tasks) \in Nat
    OBVIOUS
  <2>6. j \in DOMAIN todo' /\ todo'[j] = Tail(todo)[i - 1]
    <3>1. PICK r \in Seq(Checks) : r = Tail(todo)
      BY <1>2
    <3>2. i - 1 \in 1..Len(r)
      BY <2>2, <2>3, <3>1
    <3>3. todo' = tasks \o r
      BY <1>8, <3>1
    <3>4. j \in 1..Len(tasks \o r) /\ (tasks \o r)[j] = r[i - 1]
      BY <2>4, <2>5, <3>2
    <3>5. DOMAIN (tasks \o r) = 1..Len(tasks \o r)
      OBVIOUS
    <3> QED
      BY <3>1, <3>3, <3>4, <3>5
  <2> QED
    BY <2>3, <2>6 DEF Pending
<1>11. ASSUME Seen(n), NEW k \in Nodes, Below(n, k) PROVE k \in Pending'
  <2>1. PICK i \in DOMAIN Children[n] : Children[n][i] = k
    BY <1>11 DEF Below
  <2>2. tasks = below /\ i \in DOMAIN below /\ below[i] = Call("check", k)
    BY <1>4, <1>8, <1>11, <2>1 DEF Calls
  <2>3. i \in DOMAIN todo' /\ todo'[i] = below[i]
    <3>1. PICK r \in Seq(Checks) : r = Tail(todo)
      BY <1>2
    <3>2. todo' = tasks \o r
      BY <1>8, <3>1
    <3>3. i \in 1..Len(tasks)
      BY <2>2
    <3>4. i \in 1..Len(tasks \o r) /\ (tasks \o r)[i] = tasks[i]
      BY <3>3
    <3>5. DOMAIN (tasks \o r) = 1..Len(tasks \o r)
      OBVIOUS
    <3> QED
      BY <2>2, <3>2, <3>4, <3>5
  <2>4. todo'[i].node = k
    BY <2>2, <2>3 DEF Call
  <2> QED
    BY <2>3, <2>4 DEF Pending
<1>12. now' = now /\ fresh' = fresh
  BY DEF Check, asked
<1>13. Known(n)
  BY <1>6 DEF Known
<1>14. \A k : (Known(k)' <=> Known(k)) /\ (Seen(k)' <=> Seen(k))
  BY <1>12, KnownStays, SeenStays
<1>15. Visited(V \cup {n})'
  <2>1. Root \in (V \cup {n}) \cup Pending'
    BY <1>10 DEF Visited
  <2>2. ASSUME NEW a \in V \cup {n}
        PROVE  /\ Known(a)'
               /\ Seen(a)' => \A k \in Nodes : Below(a, k) => k \in (V \cup {n}) \cup Pending'
    <3>1. CASE a = n
      BY <1>11, <1>13, <1>14, <3>1
    <3>2. CASE a \in V
      <4>1. Known(a) /\ (Seen(a) => \A k \in Nodes : Below(a, k) => k \in V \cup Pending)
        BY <3>2 DEF Visited
      <4> QED
        BY <1>10, <1>14, <4>1
    <3> QED
      BY <3>1, <3>2
  <2> QED
    BY <2>1, <2>2 DEF Visited
<1>16. PICK W \in SUBSET Nodes : W = V \cup {n}
  OBVIOUS
<1>17. Visited(W)'
  BY <1>15, <1>16
<1> QED
  BY <1>9, <1>17

LEMMA WalkStep ==
  ASSUME IsFiniteSet(Symbols), TypeInv, WalkOK, [Next]_vars PROVE WalkOK'
<1>1. CASE UNCHANGED vars
  <2>1. UNCHANGED <<now, fresh, todo, found, phase>>
    BY <1>1 DEF vars, asked
  <2>2. ASSUME \E V \in SUBSET Nodes : Visited(V) PROVE (\E V \in SUBSET Nodes : Visited(V))'
    BY <2>1, <2>2, VisitedStays
  <2> QED
    BY <2>1, <2>2 DEF WalkOK, WalkInv, Checking
<1>2. ASSUME NEW m \in Modes, NEW tty \in BOOLEAN, Start(m, tty) PROVE WalkOK'
  <2>1. CASE m = "ask_silent"
    <3>1. todo' = << Call("check", Root) >> /\ phase' \in {"reading", "aborted"}
      BY <1>2, <2>1 DEF Start, Quiet
    <3> QED
      BY <3>1 DEF WalkOK, WalkInv, Call
  <2>2. CASE m # "ask_silent"
    <3>1. found' /\ phase' # "written"
      BY <1>2, <2>2 DEF Start
    <3> QED
      BY <3>1 DEF WalkOK, WalkInv
  <2> QED
    BY <2>1, <2>2
<1>3. CASE Calculate
  <2>1. UNCHANGED <<todo, found>> /\ phase' \in {"forgetting", "asking"}
    BY <1>3 DEF Calculate
  <2>2. CASE found
    BY <2>1, <2>2 DEF WalkOK, WalkInv
  <2>3. CASE ~found
    <3>1. todo = << Call("check", Root) >>
      BY <1>3, <2>3 DEF WalkOK, WalkInv, Calculate
    <3>2. (todo = << Call("check", Root) >>)'
      BY <2>1, <3>1 DEF Call
    <3>3. Checking' /\ (\E V \in SUBSET Nodes : Visited(V))'
      BY <3>2, WalkBegins, PTL
    <3> QED
      BY <2>1, <3>2, <3>3 DEF WalkOK, WalkInv
  <2> QED
    BY <2>2, <2>3
<1>4. CASE Forget
  <2>1. UNCHANGED <<todo, found>> /\ phase = "forgetting" /\ phase' = "calculating"
    BY <1>4 DEF Forget
  <2> QED
    BY <2>1 DEF WalkOK, WalkInv, Call
<1>5. CASE Enter \/ ConfSym \/ Settle \/ ConfChoice \/ Childs
  <2>1. /\ phase = "asking" /\ phase' \in {"asking", "aborted"} /\ found' = found
        /\ todo # <<>> /\ Head(todo).do # "check"
    BY <1>5 DEF Enter, ConfSym, Settle, ConfChoice, Childs, Running, Abort
  <2>2. found
    BY <2>1, OnlyChecks DEF WalkOK, WalkInv
  <2> QED
    BY <2>1, <2>2 DEF WalkOK, WalkInv
<1>6. CASE Check
  <2>1. phase = "asking" /\ phase' = "asking" /\ UNCHANGED <<now, fresh>>
    BY <1>6 DEF Check, Running, asked
  <2>2. CASE found'
    BY <2>1, <2>2 DEF WalkOK, WalkInv
  <2>3. CASE ~found'
    <3>1. ~found
      <4>1. found' = found \/ found' = TRUE
        BY <1>6 DEF Check
      <4> QED
        BY <2>3, <4>1 DEF TypeInv
    <3>2. PICK V \in SUBSET Nodes : Visited(V)
      BY <2>1, <3>1 DEF WalkOK, WalkInv
    <3>3. Checking' /\ (\E W \in SUBSET Nodes : Visited(W))'
      BY <1>6, <2>1, <2>3, <3>1, <3>2, CheckGoesOn DEF WalkOK, WalkInv
    <3> QED
      BY <2>1, <3>3 DEF WalkOK, WalkInv
  <2> QED
    BY <2>2, <2>3
<1>7. CASE Again
  <2>1. phase' = "asking"
    BY <1>7 DEF Again
  <2>2. (todo = << Call("check", Root) >>)'
    BY <1>7 DEF Again, Call
  <2>3. Checking' /\ (\E V \in SUBSET Nodes : Visited(V))'
    BY <2>2, WalkBegins, PTL
  <2> QED
    BY <2>1, <2>3 DEF WalkOK, WalkInv
<1>8. CASE Write
  <2>1. /\ ~found /\ ~found' /\ todo = <<>> /\ phase = "asking" /\ phase' = "written"
        /\ UNCHANGED <<now, fresh, todo>>
    BY <1>8 DEF Write, asked, TypeInv
  <2>2. Checking /\ \E V \in SUBSET Nodes : Visited(V)
    BY <2>1 DEF WalkOK, WalkInv
  <2>3. (\E V \in SUBSET Nodes : Visited(V))'
    BY <2>1, <2>2, VisitedStays
  <2>4. Checking'
    BY <2>1, <2>2 DEF Checking
  <2> QED
    BY <2>1, <2>3, <2>4 DEF WalkOK, WalkInv
<1> QED
  BY <1>1, <1>2, <1>3, <1>4, <1>5, <1>6, <1>7, <1>8 DEF Next, Step

(* Where check_conf was at every node seen below one it was at, it was at  *)
(* every node that is seen.                                                *)
LEMMA AllWereVisited ==
  ASSUME NowOK, Hangs, Nested, MenusAreShown, NEW V \in SUBSET Nodes, Visited(V), todo = <<>>,
         NEW n \in Nodes, Seen(n)
  PROVE  n \in V
<1>0. PICK N \in Nat : \E h : Finite(N, h)
  BY DEF Hangs
<1>1. PICK h : Finite(N, h)
  BY <1>0
<1>2. \A k \in Nodes : h[k] \in 0..N /\ N - h[k] \in Nat
  BY <1>1 DEF Finite
<1>3. Pending = {}
  BY DEF Pending
<1> DEFINE S == {m \in Nat : \A k \in Nodes : N - h[k] <= m /\ Seen(k) => k \in V}
<1>4. ASSUME NEW k \in Nodes, Seen(k), k # Root,
             \A p \in Nodes : N - h[p] < N - h[k] /\ Seen(p) => p \in V
      PROVE  k \in V
  <2>1. PICK p \in Nodes : Below(p, k)
    BY <1>4 DEF Hangs
  <2>2. Seen(p)
    BY <1>4, <2>1, SeenAbove
  <2>3. h[k] < h[p] /\ h[k] \in 0..N /\ h[p] \in 0..N
    BY <1>1, <1>2, <2>1 DEF Finite
  <2>4. p \in V
    BY <1>4, <2>2, <2>3
  <2> QED
    BY <1>3, <2>1, <2>2, <2>4 DEF Visited
<1>5. 0 \in S
  <2> SUFFICES ASSUME NEW k \in Nodes, N - h[k] <= 0, Seen(k) PROVE k \in V
    OBVIOUS
  <2>1. CASE k = Root
    BY <1>3, <2>1 DEF Visited
  <2>2. CASE k # Root
    <3>1. \A p \in Nodes : ~(N - h[p] < N - h[k])
      BY <1>2
    <3> QED
      BY <1>4, <2>2, <3>1
  <2> QED
    BY <2>1, <2>2
<1>6. ASSUME NEW m \in Nat, m \in S PROVE m + 1 \in S
  <2> SUFFICES ASSUME NEW k \in Nodes, N - h[k] <= m + 1, Seen(k) PROVE k \in V
    OBVIOUS
  <2>1. CASE k = Root
    BY <1>3, <2>1 DEF Visited
  <2>2. CASE k # Root
    <3>1. ASSUME NEW p \in Nodes, N - h[p] < N - h[k], Seen(p) PROVE p \in V
      <4>1. N - h[p] <= m
        BY <1>2, <3>1
      <4> QED
        BY <1>6, <3>1, <4>1
    <3> QED
      BY <1>4, <2>2, <3>1
  <2> QED
    BY <2>1, <2>2
<1> HIDE DEF S
<1>7. Nat \subseteq S
  BY <1>5, <1>6, Counting
<1> QED
  BY <1>2, <1>7 DEF S

(* No .config is written while a symbol that can be seen and set was never *)
(* asked about, in every tree of menus whose parts inherit what they are   *)
(* below: however answers made others appear behind the walk.              *)
THEOREM NoneIsLeft ==
  ASSUME IsFiniteSet(Symbols), Hangs, Nested, MenusAreShown PROVE Spec => []AllAsked
<1>1. Init => WalkOK
  BY DEF Init, WalkOK, WalkInv
<1>2. ASSUME TypeInv, WalkOK PROVE AllAsked
  <2> SUFFICES ASSUME phase = "written", NEW s \in Symbols, Seen(s), Changable(s)
               PROVE  s \notin fresh
    BY DEF AllAsked, Written
  <2>1. todo = <<>> /\ \E V \in SUBSET Nodes : Visited(V)
    BY <1>2 DEF WalkOK, WalkInv
  <2>2. PICK V \in SUBSET Nodes : Visited(V)
    BY <2>1
  <2>3. s \in V
    BY <1>2, <2>1, <2>2, AllWereVisited DEF TypeInv, Nodes
  <2>4. Known(s)
    BY <2>2, <2>3 DEF Visited
  <2> QED
    BY <2>4, ChildrenAre DEF Known
<1>3. Spec => []TypeInv
  BY TypeInit, TypeStep, PTL DEF Spec
<1>4. Spec => []WalkOK
  BY <1>1, <1>3, WalkStep, PTL DEF Spec
<1> QED
  BY <1>2, <1>3, <1>4, PTL-----------------------------------------------------------------------------
(* What is shown is what was asked for means.                              *)
NowMeans == phase \in {"asking", "written"} => Means(now, user, fresh, wish)

(* Only the next call may be one that a symbol seen, or a choice at "y",   *)
(* was found for just before.                                              *)
Plain(t) == t.do # "sym" /\ t.do # "pick"
Next1(t) == /\ t.do = "sym" => Seen(t.node)
            /\ t.do = "pick" => now[t.node].tri = Yes
Headed ==
  /\ phase \in {"start", "reading", "forgetting", "calculating"} =>
       \A i \in DOMAIN todo : Plain(todo[i])
  /\ phase = "asking" => \A i \in DOMAIN todo : Plain(todo[i]) \/ (i = 1 /\ Next1(todo[i]))

(* What a mode that asks nobody has set.                                   *)
Free(s) == Defaults[s] = <<>> /\ \A d \in Selects : d.target # s
Ruled ==
  /\ started \in {"set_yes", "set_no"} => mode = started
  /\ phase \in {"asking", "written"} =>
       \A s \in (open \cap (Options \ MemberSet)) \ fresh :
         /\ started = "set_yes" => user[s] # No
         /\ started = "set_no" /\ Free(s) => user[s] = No


(* A value brought within its limits: t, at most high, at least low.       *)
Limit(t, high, low, bool) == Promote(Max({Min({t, high}), low}), bool)

LEMMA LimitMeans ==
  ASSUME NEW x \in Tri, NEW high \in Tri, NEW low \in Tri, NEW bool \in BOOLEAN
  PROVE  Limit(x, high, low, bool) =
           LET least == IF x <= high THEN x ELSE high
               most == IF least >= low THEN least ELSE low
           IN IF most = Mod /\ bool THEN Yes ELSE most
<1>1. PICK least \in Tri : least = Min({x, high}) /\ least = IF x <= high THEN x ELSE high
  BY TwoAre
<1>2. PICK most \in Tri : most = Max({least, low}) /\ most = IF least >= low THEN least ELSE low
  BY TwoAre
<1>3. Limit(x, high, low, bool) = Promote(most, bool)
  BY <1>1, <1>2 DEF Limit
<1> QED
  BY <1>1, <1>2, <1>3 DEF Promote

LEMMA LimitIs ==
  ASSUME NEW t \in Tri, NEW high \in Tri, NEW low \in Tri, NEW bool \in BOOLEAN,
         bool => high # Mod /\ low # Mod
  PROVE  \E l \in Tri : /\ l = Limit(t, high, low, bool)
                        /\ low <= l /\ l = Limit(l, high, low, bool)
                        /\ t # No /\ high # No => l # No
                        /\ t = No /\ low = No => l = No
                        /\ t = Yes /\ high = Yes => l = Yes
                        /\ bool => l # Mod
<1>1. \A x \in Tri : Limit(x, high, low, bool) =
        LET least == IF x <= high THEN x ELSE high
            most == IF least >= low THEN least ELSE low
        IN IF most = Mod /\ bool THEN Yes ELSE most
  BY LimitMeans
<1>2. PICK l : l = Limit(t, high, low, bool)
  OBVIOUS
<1>3. CASE bool
  <2>1. \A x \in Tri : Limit(x, high, low, bool) =
          LET least == IF x <= high THEN x ELSE high
              most == IF least >= low THEN least ELSE low
          IN IF most = Mod THEN Yes ELSE most
    BY <1>1, <1>3
  <2>2. high \in {No, Yes} /\ low \in {No, Yes}
    BY <1>3 DEF Tri
  <2>3. l = IF low = Yes \/ (t # No /\ high = Yes) THEN Yes ELSE No
    BY <1>2, <2>1, <2>2 DEF Tri, No, Mod, Yes
  <2>4. Limit(l, high, low, bool) = IF low = Yes \/ (l # No /\ high = Yes) THEN Yes ELSE No
    BY <2>1, <2>2, <2>3 DEF Tri, No, Mod, Yes
  <2>5. l \in Tri /\ l # Mod /\ low <= l /\ Limit(l, high, low, bool) = l
    BY <2>2, <2>3, <2>4 DEF Tri, No, Mod, Yes
  <2> QED
    BY <1>2, <2>2, <2>3, <2>5 DEF No, Mod, Yes
<1>4. CASE ~bool
  <2>1. \A x \in Tri : Limit(x, high, low, bool) =
          LET least == IF x <= high THEN x ELSE high
          IN IF least >= low THEN least ELSE low
    BY <1>1, <1>4
  <2>2. l \in Tri
    BY <1>2, <2>1 DEF Tri, No, Mod, Yes
  <2> QED
    BY <1>2, <1>4, <2>1, <2>2 DEF Tri, No, Mod, Yes
<1> QED
  BY <1>3, <1>4

(* What symbol.c answers of the present values, and what they are made of. *)
LEMMA AnswersMean ==
  ASSUME NowOK, NEW s \in Symbols
  PROVE  /\ ModsOf(now) = No <=> NoModules
         /\ BoolWith(s, ModsOf(now)) <=> s \notin Tristate \/ NoModules
         /\ ShownOf(s, now, ModsOf(now)) = Visible(s) /\ Visible(s) \in Tri
         /\ Visible(s) = Mod => ~BoolWith(s, ModsOf(now))
         /\ LeastOf(s, now, ModsOf(now)) \in Tri
         /\ LeastOf(s, now, ModsOf(now)) = Mod => ~BoolWith(s, ModsOf(now))
         /\ s \notin MemberSet => /\ IsBool(s) <=> BoolWith(s, ModsOf(now))
                                  /\ Least(s) = LeastOf(s, now, ModsOf(now))
<1>1. ModsOf(now) = No <=> NoModules
  BY DEF ModsOf, NoModules
<1>2. BoolWith(s, ModsOf(now)) <=> s \notin Tristate \/ NoModules
  BY <1>1 DEF BoolWith
<1>3. PICK bool \in BOOLEAN : bool = BoolWith(s, ModsOf(now))
  BY DEF BoolWith
<1>4. bool = (s \notin Tristate \/ NoModules)
  BY <1>2, <1>3
<1>5. ASSUME NEW e \in Expressions PROVE Under(e, None, now) = Value(e) /\ Value(e) \in Tri
  <2>1. PICK v : v = [a \in Atoms(e) |-> IF a = M THEN Mod ELSE IF a = None THEN Yes
                                         ELSE now[a].tri]
    OBVIOUS
  <2>2. \A a \in Atoms(e) : v[a] = Atomic(e)[a]
    BY <2>1, AtomsAre, SymbolsAssumption DEF Atomic, Atom
  <2>3. Under(e, None, now) = Eval(e, v) /\ Value(e) = Eval(e, Atomic(e))
    BY <2>1 DEF Under, Value, Atomic
  <2> QED
    BY <2>2, <2>3, EvalSame, ValueIs
<1>6. Visible(s) = Promote(Value(Prompt[s]), bool) /\ ShownOf(s, now, ModsOf(now)) = Visible(s)
  BY <1>3, <1>4, <1>5, PromptIs DEF Visible, ShownOf
<1>7. LeastOf(s, now, ModsOf(now)) = Promote(Value(Select[s]), bool)
  BY <1>3, <1>5, SelectIs DEF LeastOf
<1>8. /\ Promote(Value(Prompt[s]), bool) \in Tri /\ (bool => Promote(Value(Prompt[s]), bool) # Mod)
      /\ Promote(Value(Select[s]), bool) \in Tri /\ (bool => Promote(Value(Select[s]), bool) # Mod)
  BY <1>5, PromptIs, SelectIs, PromoteIs
<1>9. s \notin MemberSet => IsBool(s) = bool
  BY <1>4 DEF IsBool
<1>10. s \notin MemberSet => Least(s) = Promote(Value(Select[s]), bool)
  BY <1>9 DEF Least
<1> QED
  BY <1>1, <1>2, <1>3, <1>6, <1>7, <1>8, <1>9, <1>10

(* The value of an option that belongs to no choice.                       *)
LEMMA OptionIs ==
  ASSUME NowOK, AskedOK, Means(now, user, fresh, wish), NEW s \in Options \ MemberSet
  PROVE  /\ s \in Symbols /\ Visible(s) \in Tri /\ Least(s) \in Tri /\ IsBool(s) \in BOOLEAN
         /\ IsBool(s) => Visible(s) # Mod /\ Least(s) # Mod
         /\ BaseIn(s, now, user, fresh) \in Tri /\ DefaultOf(s, now) \in Tri
         /\ now[s].tri = IF Visible(s) = No /\ Least(s) = No
                         THEN Promote(DefaultOf(s, now), IsBool(s))
                         ELSE Limit(BaseIn(s, now, user, fresh), Visible(s), Least(s), IsBool(s))
<1>1. s \in Symbols /\ s \notin ChoiceSymbols
  BY SymbolsAssumption DEF Symbols
<1>2. /\ ShownOf(s, now, ModsOf(now)) = Visible(s) /\ Visible(s) \in Tri
      /\ Least(s) = LeastOf(s, now, ModsOf(now)) /\ Least(s) \in Tri
      /\ IsBool(s) <=> BoolWith(s, ModsOf(now))
      /\ IsBool(s) => Visible(s) # Mod /\ Least(s) # Mod
  BY <1>1, AnswersMean
<1>3. PICK bool \in BOOLEAN : bool = BoolWith(s, ModsOf(now))
  BY DEF BoolWith
<1>4. IsBool(s) = bool
  <2>1. IsBool(s) \in BOOLEAN
    BY DEF IsBool
  <2> QED
    BY <1>2, <1>3, <2>1
<1>5. now[s] = [tri |-> IF ShownOf(s, now, ModsOf(now)) = No /\ LeastOf(s, now, ModsOf(now)) = No
                        THEN Promote(DefaultOf(s, now), BoolWith(s, ModsOf(now)))
                        ELSE LimitedOf(BaseIn(s, now, user, fresh), s, now, ModsOf(now)),
                pick |-> None]
  BY <1>1, MeaningIs DEF Means
<1>6. LimitedOf(BaseIn(s, now, user, fresh), s, now, ModsOf(now))
        = Limit(BaseIn(s, now, user, fresh), Visible(s), Least(s), bool)
  BY <1>2, <1>3 DEF LimitedOf, Limit
<1>7. \A a \in Symbols : now[a].tri \in Tri
  BY DEF NowOK, HasType, Meanings
<1>8. BaseIn(s, now, user, fresh) \in Tri /\ DefaultOf(s, now) \in Tri
  BY <1>1, <1>7, DefaultOfIs DEF BaseIn, AskedOK
<1> QED
  BY <1>1, <1>2, <1>3, <1>4, <1>5, <1>6, <1>8

LEMMA SetMeans ==
  ASSUME Levelled, ModulesIsPlain, AskedOK', NEW s, NEW val, Set(s, val)
  PROVE  Means(now', user', fresh', wish')
<1>1. now' = Meaning(user', fresh', wish')
  BY DEF Set
<1>2. WishesOK(wish')
  BY DEF AskedOK
<1> QED
  BY <1>1, <1>2, MeansOwn DEF Means

LEMMA NowMeansStep ==
  ASSUME Levelled, ModulesIsPlain, AskedOK', NowMeans, [Next]_vars PROVE NowMeans'
<1>1. CASE UNCHANGED <<user, fresh, wish, now, phase>>
  BY <1>1 DEF NowMeans, Means
<1>2. CASE UNCHANGED <<user, fresh, wish, now>> /\ phase \in {"asking", "written"}
  BY <1>2 DEF NowMeans, Means
<1>3. ASSUME NEW m \in Modes, NEW tty \in BOOLEAN, Start(m, tty) PROVE NowMeans'
  <2>1. phase' \in {"calculating", "reading", "aborted"}
    BY <1>3 DEF Start
  <2> QED
    BY <2>1 DEF NowMeans
<1>4. CASE Calculate
  <2>1. now' = Meaning(user', fresh', wish')
    BY <1>4 DEF Calculate, asked
  <2>2. WishesOK(wish')
    BY DEF AskedOK
  <2>3. Means(now', user', fresh', wish')
    BY <2>1, <2>2, MeansOwn DEF Means
  <2> QED
    BY <2>3 DEF NowMeans, Means
<1>5. CASE Forget
  BY <1>5 DEF Forget, NowMeans
<1>6. CASE ConfSym
  <2>1. CASE Abort
    BY <1>2, <2>1, <1>6 DEF Abort, asked, Running, ConfSym
  <2>2. ASSUME NEW val, Set(Node, val) PROVE NowMeans'
    <3>1. Means(now', user', fresh', wish')
      BY <2>2, SetMeans
    <3> QED
      BY <3>1 DEF NowMeans, Means
  <2> QED
    BY <1>6, <2>1, <2>2 DEF ConfSym
<1>7. CASE ConfChoice
  <2>1. CASE Abort
    BY <1>2, <2>1, <1>7 DEF Abort, asked, Running, ConfChoice
  <2>2. ASSUME NEW val, Set(val, Yes) PROVE NowMeans'
    <3>1. Means(now', user', fresh', wish')
      BY <2>2, SetMeans
    <3> QED
      BY <3>1 DEF NowMeans, Means
  <2>3. CASE UNCHANGED <<asked, now>> /\ phase = "asking"
    BY <1>2, <2>3 DEF asked
  <2>4. phase = "asking"
    BY <1>7 DEF ConfChoice, Running
  <2> QED
    BY <1>7, <2>1, <2>2, <2>3, <2>4 DEF ConfChoice
<1>8. CASE Enter \/ Settle \/ Childs \/ Check \/ Again \/ Write
  <2>1. UNCHANGED <<asked, now>> /\ phase = "asking"
    BY <1>8 DEF Enter, Settle, Childs, Check, Again, Write, Running
  <2> QED
    BY <1>2, <2>1 DEF asked
<1>9. CASE UNCHANGED vars
  BY <1>1, <1>9 DEF vars, asked
<1> QED
  BY <1>3, <1>4, <1>5, <1>6, <1>7, <1>8, <1>9 DEF Next, Step

(* What is put before the calls to come leaves them plain.                 *)
LEMMA RestIs ==
  ASSUME todo \in Seq(Tasks), todo # <<>>
  PROVE  /\ Tail(todo) \in Seq(Tasks)
         /\ \A i \in 1..Len(Tail(todo)) :
              Tail(todo)[i] = todo[i + 1] /\ i + 1 \in DOMAIN todo /\ i + 1 # 1
OBVIOUS

LEMMA JoinIs ==
  ASSUME NEW a \in Seq(Tasks), NEW b \in Seq(Tasks)
  PROVE  /\ a \o b \in Seq(Tasks)
         /\ \A i \in DOMAIN (a \o b) :
              \/ i \in DOMAIN a /\ (a \o b)[i] = a[i]
              \/ i - Len(a) \in DOMAIN b /\ (a \o b)[i] = b[i - Len(a)]
OBVIOUS

LEMMA ThenPlain ==
  ASSUME todo \in Seq(Tasks), todo # <<>>, Headed, phase = "asking",
         NEW tasks \in Seq(Tasks), \A i \in DOMAIN tasks : Plain(tasks[i]), Then(tasks)
  PROVE  \A i \in DOMAIN todo' : Plain(todo'[i])
<1>1. PICK rest \in Seq(Tasks) : rest = Tail(todo)
  BY RestIs
<1>2. todo' = tasks \o rest
  BY <1>1 DEF Then
<1>3. \A i \in 1..Len(rest) : Plain(rest[i])
  <2> SUFFICES ASSUME NEW i \in 1..Len(rest) PROVE Plain(rest[i])
    OBVIOUS
  <2>1. rest[i] = todo[i + 1] /\ i + 1 \in DOMAIN todo /\ i + 1 # 1
    BY <1>1, RestIs
  <2> QED
    BY <2>1 DEF Headed
<1> HIDE DEF Plain
<1> QED
  BY <1>2, <1>3, JoinIs

LEMMA ThenHeaded ==
  ASSUME todo \in Seq(Tasks), todo # <<>>, Headed, phase = "asking", NEW t \in Tasks,
         NEW tasks \in Seq(Tasks), \A i \in DOMAIN tasks : Plain(tasks[i]), Then(<<t>> \o tasks)
  PROVE  \A i \in DOMAIN todo' : Plain(todo'[i]) \/ (i = 1 /\ todo'[i] = t)
<1>1. PICK rest \in Seq(Tasks) : rest = Tail(todo)
  BY RestIs
<1>2. todo' = (<<t>> \o tasks) \o rest
  BY <1>1 DEF Then
<1>3. \A i \in 1..Len(rest) : Plain(rest[i])
  <2> SUFFICES ASSUME NEW i \in 1..Len(rest) PROVE Plain(rest[i])
    OBVIOUS
  <2>1. rest[i] = todo[i + 1] /\ i + 1 \in DOMAIN todo /\ i + 1 # 1
    BY <1>1, RestIs
  <2> QED
    BY <2>1 DEF Headed
<1> HIDE DEF Plain
<1>4. PICK one \in Seq(Tasks) : one = <<t>>
  BY FewCalls
<1>a. Len(one) = 1 /\ one[1] = t /\ DOMAIN one = {1}
  BY <1>4
<1>5. PICK all \in Seq(Tasks) : all = one \o tasks
  BY JoinIs
<1>6. \A i \in DOMAIN all : Plain(all[i]) \/ (i = 1 /\ all[i] = t)
  BY <1>a, <1>5, JoinIs
<1> QED
  BY <1>2, <1>3, <1>4, <1>5, <1>6, JoinIs

LEMMA PlainCalls ==
  ASSUME NEW what \in {"conf", "check"}, NEW n \in Nodes
  PROVE  /\ Calls(what, Children[n]) \in Seq(Tasks)
         /\ \A i \in DOMAIN Calls(what, Children[n]) : Plain(Calls(what, Children[n])[i])
         /\ << Call(what, n) >> \in Seq(Tasks)
         /\ \A i \in DOMAIN << Call(what, n) >> : Plain(<< Call(what, n) >>[i])
<1>1. \A k : Plain(Call(what, k))
  BY DEF Call, Plain
<1>2. PICK t \in Tasks : t = Call(what, n)
  BY CallsAre
<1>3. << t >> \in Seq(Tasks) /\ \A i \in DOMAIN << t >> : << t >>[i] = t
  OBVIOUS
<1> QED
  BY <1>1, <1>2, <1>3, CallsAre

LEMMA NoCalls == <<>> \in Seq(Tasks) /\ \A i \in DOMAIN <<>> : Plain(<<>>[i])
BY FewCalls

LEMMA JoinPlain ==
  ASSUME NEW a \in Seq(Tasks), NEW b \in Seq(Tasks),
         \A i \in DOMAIN a : Plain(a[i]), \A i \in DOMAIN b : Plain(b[i])
  PROVE  a \o b \in Seq(Tasks) /\ \A i \in DOMAIN (a \o b) : Plain((a \o b)[i])
BY JoinIs

LEMMA ConfPlain ==
  ASSUME Hangs, TypeInv, Headed, ConfSym \/ ConfChoice \/ Childs \/ Check
  PROVE  phase' = "aborted" \/ (phase' = "asking" /\ \A i \in DOMAIN todo' : Plain(todo'[i]))
<1>0. phase = "asking" /\ todo \in Seq(Tasks) /\ todo # <<>> /\ Node \in Nodes
  BY HeadIs DEF TypeInv, ConfSym, ConfChoice, Childs, Check, Running
<1>1. ASSUME NEW tasks \in Seq(Tasks), \A i \in DOMAIN tasks : Plain(tasks[i]), Then(tasks)
      PROVE  \A i \in DOMAIN todo' : Plain(todo'[i])
  BY <1>0, <1>1, ThenPlain
<1>2. CASE ConfSym
  <2>1. CASE Abort
    BY <2>1 DEF Abort
  <2>2. CASE Then(<<>>) /\ phase' = phase
    BY <1>0, <1>1, <2>2, NoCalls
  <2> QED
    BY <1>2, <2>1, <2>2 DEF ConfSym
<1>3. CASE ConfChoice
  <2>1. CASE Abort
    BY <2>1 DEF Abort
  <2>2. ASSUME NEW val \in Nodes, phase' = phase,
               Then(IF Children[val] = <<>> THEN <<>> ELSE << Call("conf", Head(Children[val])) >>)
        PROVE  \A i \in DOMAIN todo' : Plain(todo'[i])
    <3>1. CASE Children[val] = <<>>
      BY <1>1, <2>2, <3>1, NoCalls
    <3>2. CASE Children[val] # <<>>
      <4>1. Children[val] \in Seq(Nodes)
        BY ChildrenAre
      <4>2. PICK k \in Nodes : k = Head(Children[val])
        BY <3>2, <4>1
      <4>3. Then(<< Call("conf", k) >>)
        BY <2>2, <3>2, <4>2
      <4> QED
        BY <1>1, <4>3, PlainCalls
    <3> QED
      BY <3>1, <3>2
  <2>3. \A seen, asking : \A val \in Taken(Node, seen, asking) : val \in seen
    BY DEF Taken
  <2>4. \A val \in {n \in Range(Children[Node]) : Seen(n)} : val \in Nodes
    BY <1>0, ChildrenAre DEF Range
  <2>5. CASE ~Abort
    <3>1. PICK seen : seen = {n \in Range(Children[Node]) : Seen(n)}
      OBVIOUS
    <3>2. PICK val \in seen :
            /\ phase' = phase
            /\ Then(IF Children[val] = <<>> THEN <<>> ELSE << Call("conf", Head(Children[val])) >>)
      BY <1>3, <2>3, <2>5, <3>1 DEF ConfChoice
    <3> QED
      BY <1>0, <2>2, <2>4, <3>1, <3>2
  <2> QED
    BY <2>1, <2>5
<1>4. CASE Childs
  <2>1. phase' = phase
    BY <1>4 DEF Childs
  <2>2. CASE now[Node].tri = Mod
    <3>1. Then(Calls("conf", Children[Node]))
      BY <1>4, <2>2 DEF Childs
    <3> QED
      BY <1>0, <1>1, <2>1, <3>1, PlainCalls
  <2>3. CASE now[Node].tri # Mod
    <3>1. Then(<<>>)
      BY <1>4, <2>3 DEF Childs
    <3> QED
      BY <1>0, <1>1, <2>1, <3>1, NoCalls
  <2> QED
    BY <2>2, <2>3
<1>5. CASE Check
  <2>1. phase' = phase
    BY <1>5 DEF Check
  <2>2. PICK n \in Nodes : n = Node
    BY <1>0
  <2>3. PICK up \in Nodes : up = ParentMenu(n)
    BY ParentMenuIs, ChildrenAre, NeitherIs
  <2>4. PICK one \in Seq(Tasks) :
          one = << Call("conf", up) >> /\ \A i \in DOMAIN one : Plain(one[i])
    BY PlainCalls
  <2>5. PICK below \in Seq(Tasks) :
          below = Calls("check", Children[n]) /\ \A i \in DOMAIN below : Plain(below[i])
    BY PlainCalls
  <2>6. Then(<<>>) \/ Then(below) \/ Then(one \o below)
    BY <1>5, <2>2, <2>3, <2>4, <2>5 DEF Check
  <2>7. one \o below \in Seq(Tasks) /\ \A i \in DOMAIN (one \o below) : Plain((one \o below)[i])
    BY <2>4, <2>5, JoinPlain
  <2> QED
    BY <1>0, <1>1, <2>1, <2>5, <2>6, <2>7, NoCalls
<1> QED
  BY <1>2, <1>3, <1>4, <1>5

(* conf() calls conf_sym for what is seen, and at once.                    *)
LEMMA EnterHeaded ==
  ASSUME TypeInv, Headed, Enter
  PROVE  /\ phase' = "asking" /\ now' = now
         /\ \A i \in DOMAIN todo' :
              Plain(todo'[i]) \/ (i = 1 /\ Seen(todo'[i].node) /\ todo'[i].do = "sym")
<1>0. /\ phase = "asking" /\ todo \in Seq(Tasks) /\ todo # <<>> /\ Node \in Nodes
      /\ phase' = phase /\ now' = now
  BY HeadIs DEF TypeInv, Enter, Running
<1>1. PICK n \in Nodes : n = Node
  BY <1>0
<1>2. ASSUME NEW tasks \in Seq(Tasks), \A i \in DOMAIN tasks : Plain(tasks[i]), Then(tasks)
      PROVE  \A i \in DOMAIN todo' : Plain(todo'[i])
  BY <1>0, <1>2, ThenPlain
<1>3. ASSUME NEW tasks \in Seq(Tasks), \A i \in DOMAIN tasks : Plain(tasks[i]), Seen(n), n \in Symbols,
             Then(<< Call("sym", n) >> \o tasks)
      PROVE  \A i \in DOMAIN todo' :
               Plain(todo'[i]) \/ (i = 1 /\ Seen(todo'[i].node) /\ todo'[i].do = "sym")
  <2>1. PICK t \in Tasks : t = Call("sym", n)
    BY <1>3 DEF Call, Tasks, Task
  <2>2. t.node = n /\ t.do = "sym"
    BY <2>1 DEF Call
  <2>3. \A i \in DOMAIN todo' : Plain(todo'[i]) \/ (i = 1 /\ todo'[i] = t)
    BY <1>0, <1>3, <2>1, ThenHeaded
  <2> QED
    BY <1>3, <2>2, <2>3
<1>4. CASE ~Seen(n)
  <2>1. Then(<<>>)
    BY <1>1, <1>4 DEF Enter
  <2> QED
    BY <1>0, <1>2, <2>1, NoCalls
<1>5. CASE Seen(n) /\ n \in Menus
  <2>1. n \notin ChoiceSymbols /\ n \notin Options
    BY <1>5, ChildrenAre DEF Symbols
  <2>2. Then(<< Call("check", n) >>) \/ Then(Calls("conf", Children[n]))
    BY <1>1, <1>5, <2>1 DEF Enter
  <2> QED
    BY <1>0, <1>2, <2>2, PlainCalls
<1>6. CASE Seen(n) /\ n \in ChoiceSymbols
  <2>1. n \notin Titled /\ n \notin Menus /\ n \notin Options /\ n \in Symbols
    BY <1>6, NeitherIs
  <2>a. PICK new \in BOOLEAN : new = (n \in fresh)
    <3>1. (n \in fresh) \in BOOLEAN
      OBVIOUS
    <3> QED
      BY ONLY <3>1, Zenon
  <2>2. PICK a : a = [Call("settle", n) EXCEPT !.new = n \in fresh]
    OBVIOUS
  <2>b. a = [do |-> "settle", node |-> n, new |-> new]
    BY <2>a, <2>2 DEF Call
  <2>c. a \in Tasks /\ Plain(a)
    BY <1>6, <2>b DEF Tasks, Task, Plain
  <2>3. PICK b \in Tasks : b = Call("childs", n) /\ Plain(b)
    <3>1. Call("childs", n) \in Tasks
      BY <1>6 DEF Call, Tasks, Task
    <3> QED
      BY <3>1 DEF Call, Plain
  <2>4. PICK both \in Seq(Tasks) : both = <<a, b>> /\ \A i \in DOMAIN both : Plain(both[i])
    <3>1. <<a, b>> \in Seq(Tasks) /\ \A i \in DOMAIN <<a, b>> : <<a, b>>[i] = a \/ <<a, b>>[i] = b
      BY <2>c
    <3> QED
      BY <2>c, <2>3, <3>1
  <2>5. Then((IF Changable(n) THEN << Call("sym", n) >> ELSE <<>>) \o both)
    BY <1>1, <1>6, <2>1, <2>2, <2>3, <2>4 DEF Enter
  <2>6. CASE Changable(n)
    BY <1>0, <1>3, <1>6, <2>1, <2>4, <2>5, <2>6
  <2>7. CASE ~Changable(n)
    <3>1. <<>> \o both = both
      OBVIOUS
    <3>2. Then(both)
      BY <2>5, <2>7, <3>1
    <3> QED
      BY <1>0, <1>2, <2>4, <3>2
  <2> QED
    BY <2>6, <2>7
<1>7. CASE Seen(n) /\ n \in Options
  <2>1. n \notin Menus /\ n \notin ChoiceSymbols /\ n \in Symbols
    BY <1>7, ChildrenAre, SymbolsAssumption DEF Symbols
  <2>2. \/ Then(<< Call("check", n) >>)
        \/ Then(<< Call("sym", n) >> \o Calls("conf", Children[n]))
    BY <1>1, <1>7, <2>1 DEF Enter
  <2>3. CASE Then(<< Call("check", n) >>)
    BY <1>0, <1>2, <2>3, PlainCalls
  <2> QED
    BY <1>0, <1>3, <1>7, <2>1, <2>2, <2>3, PlainCalls
<1> QED
  BY <1>4, <1>5, <1>6, <1>7 DEF Nodes, Symbols

LEMMA SettleHeaded ==
  ASSUME TypeInv, Headed, Settle
  PROVE  /\ phase' = "asking" /\ now' = now
         /\ \A i \in DOMAIN todo' :
              \/ Plain(todo'[i])
              \/ i = 1 /\ now[todo'[i].node].tri = Yes /\ todo'[i].do = "pick"
<1>0. /\ phase = "asking" /\ todo \in Seq(Tasks) /\ todo # <<>> /\ Node \in Nodes
      /\ Head(todo) \in Tasks /\ Head(todo).do = "settle"
      /\ phase' = phase /\ now' = now
  BY HeadIs DEF TypeInv, Settle, Running
<1>1. CASE now[Node].tri = Yes
  <2>1. PICK t \in Tasks : t = [Head(todo) EXCEPT !.do = "pick"]
    BY <1>0 DEF Tasks, Task
  <2>2. t.node = Node /\ t.do = "pick"
    BY <1>0, <2>1 DEF Node, Tasks, Task
  <2>3. << t >> = << t >> \o <<>>
    OBVIOUS
  <2>4. Then(<< t >> \o <<>>)
    BY <1>1, <2>1, <2>3 DEF Settle
  <2>5. \A i \in DOMAIN todo' : Plain(todo'[i]) \/ (i = 1 /\ todo'[i] = t)
    BY <1>0, <2>4, NoCalls, ThenHeaded
  <2> QED
    BY <1>0, <1>1, <2>2, <2>5
<1>2. CASE now[Node].tri # Yes
  <2>1. Then(<<>>)
    BY <1>2 DEF Settle
  <2>2. \A i \in DOMAIN todo' : Plain(todo'[i])
    BY <1>0, <2>1, NoCalls, ThenPlain
  <2> QED
    BY <1>0, <2>2
<1> QED
  BY <1>1, <1>2

LEMMA HeadedStep ==
  ASSUME Hangs, TypeInv, Headed, [Next]_vars PROVE Headed'
<1>1. CASE phase' \in {"asking", "reading", "calculating", "forgetting", "start"}
             /\ \A i \in DOMAIN todo' : Plain(todo'[i])
  BY <1>1 DEF Headed, Plain
<1>2. CASE phase' \in {"aborted", "written"}
  BY <1>2 DEF Headed
<1>3. ASSUME NEW m \in Modes, NEW tty \in BOOLEAN, Start(m, tty) PROVE Headed'
  <2>1. phase' \in {"calculating", "reading", "aborted"}
    BY <1>3 DEF Start
  <2>2. todo' = << Call("conf", Root) >> \/ todo' = << Call("check", Root) >>
    BY <1>3 DEF Start
  <2>3. \A i \in DOMAIN todo' : Plain(todo'[i])
    BY <2>2, PlainCalls, ChildrenAre
  <2> QED
    BY <1>1, <1>2, <2>1, <2>3
<1>4. CASE Calculate \/ Forget
  <2>1. /\ phase \in {"reading", "calculating", "forgetting"} /\ todo' = todo
        /\ phase' \in {"forgetting", "asking", "calculating"}
    BY <1>4 DEF Calculate, Forget
  <2>2. \A i \in DOMAIN todo' : Plain(todo'[i])
    BY <2>1 DEF Headed
  <2> QED
    BY <1>1, <2>1, <2>2
<1>5. CASE Enter
  <2>1. /\ phase' = "asking" /\ now' = now
        /\ \A i \in DOMAIN todo' :
             Plain(todo'[i]) \/ (i = 1 /\ Seen(todo'[i].node) /\ todo'[i].do = "sym")
    BY <1>5, EnterHeaded
  <2>2. \A n : Seen(n)' <=> Seen(n)
    BY <2>1, SeenStays
  <2>3. PICK later : later = todo'
    OBVIOUS
  <2>4. \A i \in DOMAIN later : Plain(later[i]) \/ (i = 1 /\ Next1(later[i])')
    BY <2>1, <2>2, <2>3 DEF Next1
  <2> QED
    BY <2>1, <2>3, <2>4 DEF Headed, Plain, Next1
<1>6. CASE Settle
  <2>1. /\ phase' = "asking" /\ now' = now
        /\ \A i \in DOMAIN todo' :
             \/ Plain(todo'[i])
             \/ i = 1 /\ now[todo'[i].node].tri = Yes /\ todo'[i].do = "pick"
    BY <1>6, SettleHeaded
  <2> QED
    BY <2>1 DEF Headed, Plain, Next1
<1>7. CASE ConfSym \/ ConfChoice \/ Childs \/ Check
  BY <1>1, <1>2, <1>7, ConfPlain
<1>8. CASE Again
  <2>1. phase' = "asking" /\ todo' = << Call("check", Root) >>
    BY <1>8 DEF Again
  <2> QED
    BY <1>1, <2>1, PlainCalls, ChildrenAre
<1>9. CASE Write
  BY <1>2, <1>9 DEF Write
<1>10. CASE UNCHANGED vars
  <2>1. UNCHANGED <<now, todo, phase>>
    BY <1>10 DEF vars
  <2>2. \A n : Seen(n)' <=> Seen(n)
    BY <2>1, SeenStays
  <2> QED
    BY <2>1, <2>2 DEF Headed, Plain, Next1
<1> QED
  BY <1>3, <1>4, <1>5, <1>6, <1>7, <1>8, <1>9, <1>10 DEF Next, Step

(* An option without default and select is not held up by anything.        *)
LEMMA FreeIs ==
  ASSUME NowOK, NEW s \in Options \ MemberSet, Free(s)
  PROVE  Least(s) = No /\ DefaultOf(s, now) = No
<1>1. s \in Symbols /\ s \notin ChoiceSymbols
  BY SymbolsAssumption DEF Symbols
<1>2. Select[s] = {}
  <2>1. {d \in Selects : d.target = s} = {}
    BY DEF Free
  <2>2. UNION {And(If(d.by), And(Base(d.by), d.when)) : d \in {d \in Selects : d.target = s}} = {}
    BY <2>1
  <2>3. Select[s] = Or(UNION {And(If(d.by), And(Base(d.by), d.when)) :
                                d \in {d \in Selects : d.target = s}}, Never)
    BY <1>1 DEF Select
  <2> QED
    BY <2>2, <2>3 DEF Or, Never
<1>3. Least(s) = No
  <2>1. Under(Select[s], None, now) = No
    BY <1>2, UnderNever
  <2>2. LeastOf(s, now, ModsOf(now)) = No
    BY <2>1 DEF LeastOf, Promote, No, Mod
  <2> QED
    BY <1>1, <2>2, AnswersMean
<1>4. DefaultOf(s, now) = No
  <2>1. Default[s] = [i \in DOMAIN Defaults[s] |-> [Defaults[s][i] EXCEPT !.when = And(Base(s), @)]]
    BY <1>1 DEF Default
  <2>2. DOMAIN Defaults[s] = {}
    BY DEF Free
  <2>3. DOMAIN ConditionsOf(s, now) = {}
    BY <2>1, <2>2 DEF ConditionsOf
  <2> QED
    BY <2>3, NoFirst DEF DefaultOf, FirstOf
<1> QED
  BY <1>3, <1>4

(* What a rule makes of a question, or the passing over one.               *)
LEMMA RuleIs ==
  ASSUME NowOK, NEW s \in Options \ MemberSet, Visible(s) \in Tri, Least(s) \in Tri, Changable(s),
         IsBool(s) => Visible(s) # Mod, NEW val \in ByRule(s)
  PROVE  /\ mode = "set_yes" => val # No
         /\ mode = "set_no" /\ Least(s) = No => val = No
<1>1. Least(s) < Visible(s)
  BY DEF Changable, Tri, No, Mod, Yes
<1>2. \A v \in Tri : InRange(s, v) <=> /\ ~(IsBool(s) /\ v = Mod)
                                       /\ Least(s) <= v /\ v <= Visible(s)
  BY DEF InRange
<1>3. CASE mode = "set_yes"
  <2>1. PICK middle \in Tri : middle = IF IsBool(s) THEN Yes ELSE Mod
    BY DEF Tri
  <2>2. PICK order : order = <<Yes, middle, No>>
    OBVIOUS
  <2>3. order[1] = Yes /\ order[2] = middle /\ order[3] = No /\ DOMAIN order = 1..3
    BY <2>2
  <2>4. PICK fit : fit = {i \in DOMAIN order : InRange(s, order[i])}
    OBVIOUS
  <2>5. fit \in SUBSET Nat /\ (1 \in fit \/ 2 \in fit)
    <3>1. CASE Visible(s) = Yes
      <4>1. InRange(s, Yes)
        BY <1>1, <1>2, <3>1 DEF Tri, No, Mod, Yes
      <4> QED
        BY <2>3, <2>4, <4>1
    <3>2. CASE Visible(s) = Mod
      <4>1. ~IsBool(s) /\ middle = Mod
        BY <2>1, <3>2
      <4>2. InRange(s, Mod)
        BY <1>1, <1>2, <3>2, <4>1 DEF Tri, No, Mod, Yes
      <4> QED
        BY <2>3, <2>4, <4>1, <4>2
    <3> QED
      BY <1>1, <2>3, <2>4, <3>1, <3>2 DEF Tri, No, Mod, Yes
  <2>6. \E x \in fit : \A y \in fit : x <= y
    BY <2>5, LeastExists
  <2>7. Min(fit) \in {1, 2}
    BY <2>5, <2>6, <2>3, <2>4 DEF Min
  <2>8. ByRule(s) = {order[Min(fit)]}
    <3>1. ByRule(s) = IF fit = {} THEN {v \in Tri : InRange(s, v)} ELSE {order[Min(fit)]}
      BY <1>3, <2>1, <2>2, <2>4 DEF ByRule
    <3> QED
      BY <2>5, <3>1
  <2>9. val # No
    BY <2>1, <2>3, <2>7, <2>8 DEF No, Mod, Yes
  <2> QED
    BY <1>3, <2>9
<1>4. CASE mode = "set_no" /\ Least(s) = No
  <2>1. PICK order : order = <<No>>
    OBVIOUS
  <2>2. order[1] = No /\ DOMAIN order = {1}
    BY <2>1
  <2>3. InRange(s, No)
    BY <1>1, <1>2, <1>4 DEF Tri, No, Mod, Yes
  <2>4. PICK fit : fit = {i \in DOMAIN order : InRange(s, order[i])}
    OBVIOUS
  <2>5. fit = {1}
    BY <2>2, <2>3, <2>4
  <2>6. Min(fit) = 1
    BY <2>5 DEF Min
  <2>7. ByRule(s) = IF fit = {} THEN {v \in Tri : InRange(s, v)} ELSE {order[Min(fit)]}
    BY <1>4, <2>1, <2>4 DEF ByRule
  <2>8. ByRule(s) = {No}
    BY <2>2, <2>5, <2>6, <2>7
  <2> QED
    BY <1>4, <2>8
<1> QED
  BY <1>3, <1>4

LEMMA PassingIs ==
  ASSUME NowOK, AskedOK, Means(now, user, fresh, wish), Hangs, NEW s \in Options \ MemberSet, Seen(s),
         ~Changable(s) \/ s \notin fresh
  PROVE  /\ (s \notin fresh /\ user[s] # No) \/ ~Changable(s) => now[s].tri # No
         /\ Free(s) /\ ((s \notin fresh /\ user[s] = No) \/ ~Changable(s)) => now[s].tri = No
<1> DEFINE v == Visible(s)
           low == Least(s)
           base == BaseIn(s, now, user, fresh)
<1>1. /\ s \in Symbols /\ v \in Tri /\ low \in Tri /\ IsBool(s) \in BOOLEAN
      /\ IsBool(s) => v # Mod /\ low # Mod
      /\ base \in Tri /\ DefaultOf(s, now) \in Tri
      /\ now[s].tri = IF v = No /\ low = No THEN Promote(DefaultOf(s, now), IsBool(s))
                      ELSE Limit(base, v, low, IsBool(s))
  BY OptionIs
<1>2. PICK l \in Tri : /\ l = Limit(base, v, low, IsBool(s)) /\ low <= l
                       /\ base # No /\ v # No => l # No
                       /\ base = No /\ low = No => l = No
  <2> HIDE DEF v, low, base
  <2> QED
    BY <1>1, LimitIs
<1>3. Changable(s) <=> low < v
  BY <1>1 DEF Changable, Tri, No, Mod, Yes
<1>4. s \notin fresh => base = user[s]
  BY DEF BaseIn
<1>5. v = No => now[s].tri # No
  <2>1. s \notin Menus
    BY <1>1, ChildrenAre
  <2> QED
    BY <1>1, <2>1, SeenIs, ChildrenAre
<1>6. Free(s) => low = No /\ DefaultOf(s, now) = No
  BY FreeIs
<1>7. Promote(No, IsBool(s)) = No
  BY DEF Promote, No, Mod
<1> HIDE DEF v, low, base
<1>8. ASSUME (s \notin fresh /\ user[s] # No) \/ ~Changable(s) PROVE now[s].tri # No
  <2>1. CASE v = No
    BY <1>5, <2>1
  <2>2. CASE v # No /\ ~Changable(s)
    <3>1. low # No
      BY <1>1, <1>3, <2>2 DEF Tri, No, Mod, Yes
    <3> QED
      BY <1>1, <1>2, <3>1 DEF Tri, No, Mod, Yes
  <2>3. CASE v # No /\ Changable(s)
    BY <1>1, <1>2, <1>4, <1>8, <2>3
  <2> QED
    BY <2>1, <2>2, <2>3
<1>9. ASSUME Free(s), (s \notin fresh /\ user[s] = No) \/ ~Changable(s) PROVE now[s].tri = No
  <2>1. CASE v = No
    BY <1>1, <1>6, <1>7, <1>9, <2>1
  <2>2. CASE v # No
    <3>1. Changable(s)
      BY <1>1, <1>3, <1>6, <1>9, <2>2 DEF Tri, No, Mod, Yes
    <3>2. base = No
      BY <1>4, <1>9, <3>1
    <3> QED
      BY <1>1, <1>2, <1>6, <1>9, <2>2, <3>2
  <2> QED
    BY <2>1, <2>2
<1> QED
  BY <1>8, <1>9

(* The answer to one symbol says nothing of the options outside a choice.  *)
LEMMA SetRules ==
  ASSUME AskedOK, NEW s \in Symbols, NEW val, Set(s, val), NEW x \in Options \ MemberSet, x \notin fresh'
  PROVE  /\ x = s => user'[x] = val
         /\ x # s => x \notin fresh /\ user'[x] = user[x]
<1>1. user' = [user EXCEPT ![s] = val]
  BY DEF Set
<1>2. x \in Symbols /\ user'[x] = IF x = s THEN val ELSE user[x]
  BY <1>1, MembersAre DEF AskedOK
<1>3. s \in MemberSet => x # ChoiceOf(s) /\ x \notin Range(Members[ChoiceOf(s)])
  BY MembersAre, SymbolsAssumption
<1>4. x # s => x \notin fresh
  BY <1>3 DEF Set
<1> QED
  BY <1>2, <1>4

LEMMA RuledValue ==
  ASSUME NowOK, AskedOK, Means(now, user, fresh, wish), Hangs, Ruled, phase = "asking",
         NEW s \in open \cap (Options \ MemberSet), Seen(s), NEW val \in Answers(s)
  PROVE  /\ started = "set_yes" => val # No
         /\ started = "set_no" /\ Free(s) => val = No
<1> SUFFICES ASSUME started \in {"set_yes", "set_no"}
             PROVE  /\ started = "set_yes" => val # No
                    /\ started = "set_no" /\ Free(s) => val = No
  OBVIOUS
<1>1. mode = started
  BY DEF Ruled
<1>2. ~IsAsked(s) /\ (IsRuled(s) <=> Changable(s) /\ s \in fresh)
  BY <1>1 DEF IsAsked, IsRuled, Quiet
<1>3. /\ Visible(s) \in Tri /\ Least(s) \in Tri /\ (IsBool(s) => Visible(s) # Mod)
  BY OptionIs
<1>4. CASE IsRuled(s)
  <2>1. val \in ByRule(s) /\ Changable(s)
    BY <1>2, <1>4 DEF Answers
  <2>2. /\ mode = "set_yes" => val # No
        /\ mode = "set_no" /\ Least(s) = No => val = No
    BY <1>3, <2>1, RuleIs
  <2> QED
    BY <1>1, <2>2, FreeIs
<1>5. CASE ~IsRuled(s)
  <2>1. val = now[s].tri
    BY <1>2, <1>5 DEF Answers
  <2>2. ~Changable(s) \/ s \notin fresh
    BY <1>2, <1>5
  <2>3. s \notin fresh => /\ started = "set_yes" => user[s] # No
                          /\ started = "set_no" /\ Free(s) => user[s] = No
    BY DEF Ruled
  <2> QED
    BY <2>1, <2>2, <2>3, PassingIs
<1> QED
  BY <1>4, <1>5

LEMMA RuledStep ==
  ASSUME Hangs, TypeInv, NowMeans, Headed, Ruled, [Next]_vars PROVE Ruled'
<1>1. CASE UNCHANGED <<started, mode, open, user, fresh>> /\ (phase' # phase => phase = "asking")
  BY <1>1 DEF Ruled, Free
<1>2. ASSUME NEW m \in Modes, NEW tty \in BOOLEAN, Start(m, tty) PROVE Ruled'
  BY <1>2 DEF Start, Ruled
<1>3. CASE Calculate
  BY <1>3 DEF Calculate, Ruled, asked
<1>4. CASE Forget
  BY <1>4 DEF Forget, Ruled, history
<1>5. CASE ConfSym
  <2>0. /\ phase = "asking" /\ todo \in Seq(Tasks) /\ todo # <<>> /\ Head(todo).do = "sym"
        /\ Head(todo) = todo[1] /\ 1 \in DOMAIN todo
    BY <1>5 DEF ConfSym, Running, TypeInv
  <2>1. Seen(Node) /\ Node \in Symbols
    <3>1. Head(todo) \in Tasks
      BY <2>0
    <3> QED
      BY <2>0, <3>1 DEF Headed, Plain, Next1, Node, Tasks
  <2>2. CASE Abort
    BY <2>2 DEF Abort, Ruled, history
  <2>3. CASE ~Abort
    <3>1. PICK val \in Answers(Node) : Set(Node, val)
      BY <1>5, <2>3 DEF ConfSym
    <3>2. UNCHANGED <<mode, phase, started, open>>
      BY <1>5, <2>3 DEF ConfSym
    <3>3. ASSUME NEW x \in (open \cap (Options \ MemberSet)) \ fresh'
          PROVE  /\ started = "set_yes" => user'[x] # No
                 /\ started = "set_no" /\ Free(x) => user'[x] = No
      <4>1. /\ x = Node => user'[x] = val
            /\ x # Node => x \notin fresh /\ user'[x] = user[x]
        BY <2>1, <3>1, SetRules DEF TypeInv
      <4>2. CASE x = Node
        <5>1. NowOK /\ AskedOK /\ Means(now, user, fresh, wish)
          BY <2>0 DEF TypeInv, NowMeans
        <5> QED
          BY <2>0, <2>1, <3>1, <4>1, <4>2, <5>1, RuledValue
      <4>3. CASE x # Node
        BY <2>0, <4>1, <4>3 DEF Ruled
      <4> QED
        BY <4>2, <4>3
    <3> QED
      BY <3>2, <3>3 DEF Ruled, Free
  <2> QED
    BY <2>2, <2>3
<1>6. CASE ConfChoice
  <2>0. phase = "asking" /\ Node \in ChoiceSymbols
    <3>1. Head(todo) \in Tasks /\ Head(todo).do = "pick"
      BY <1>6, HeadIs DEF ConfChoice, Running, TypeInv
    <3> QED
      BY <1>6, <3>1 DEF ConfChoice, Running, Node, Tasks
  <2>2. CASE Abort
    BY <2>2 DEF Abort, Ruled, history
  <2>3. CASE ~Abort
    <3>1. UNCHANGED <<mode, phase, started, open>>
      BY <1>6, <2>3 DEF ConfChoice
    <3>2. UNCHANGED asked \/ \E val \in Range(Children[Node]) : Set(val, Yes)
      <4>1. \A seen, asking : \A val \in Taken(Node, seen, asking) : val \in seen
        BY DEF Taken
      <4>2. PICK seen : seen = {n \in Range(Children[Node]) : Seen(n)}
        OBVIOUS
      <4>3. PICK val \in seen : IF now[val].tri = Yes \/ InRange(val, Yes)
                                THEN Set(val, Yes) ELSE UNCHANGED <<asked, now>>
        BY <1>6, <2>3, <4>1, <4>2 DEF ConfChoice
      <4> QED
        BY <4>2, <4>3
    <3>3. CASE UNCHANGED asked
      BY <1>1, <3>1, <3>3 DEF asked
    <3>4. ASSUME NEW val \in Range(Children[Node]), Set(val, Yes) PROVE Ruled'
      <4>1. val \in MemberSet /\ val \in Symbols
        <5>1. val \in Range(Members[Node])
          BY <2>0, TreeAssumption DEF Range
        <5> QED
          BY <2>0, <5>1, MembersAre
      <4>2. ASSUME NEW x \in (open \cap (Options \ MemberSet)) \ fresh'
            PROVE  x \notin fresh /\ user'[x] = user[x]
        BY <3>4, <4>1, SetRules DEF TypeInv
      <4> QED
        BY <2>0, <3>1, <4>2 DEF Ruled, Free
    <3> QED
      BY <3>2, <3>3, <3>4
  <2> QED
    BY <2>2, <2>3
<1>7. CASE Enter \/ Settle \/ Childs \/ Check \/ Write
  BY <1>1, <1>7 DEF Enter, Settle, Childs, Check, Write, Running, asked, history
<1>8. CASE Again
  <2>1. mode' = mode \/ mode = "ask_all"
    BY <1>8 DEF Again
  <2> QED
    BY <1>8, <2>1 DEF Again, Ruled, Free, asked, history
<1>9. CASE UNCHANGED vars
  BY <1>1, <1>9 DEF vars, asked, history
<1> QED
  BY <1>2, <1>3, <1>4, <1>5, <1>6, <1>7, <1>8, <1>9 DEF Next, Step

(* "All options are accepted with yes" or with no holds of what is written,*)
(* for every tree of menus that parses and every answer.                   *)
THEOREM RulesAreKept ==
  ASSUME Levelled, ModulesIsPlain, Hangs, Nested, MenusAreShown PROVE Spec => []RuleIsKept
<1>0. IsFiniteSet(Symbols)
  BY DEF Levelled
<1>1. Init => NowMeans /\ Headed /\ Ruled
  <2>1. Init => phase = "start" /\ todo = <<>> /\ started = "ask_all"
    BY DEF Init
  <2> QED
    BY <2>1 DEF NowMeans, Headed, Ruled
<1>2. ASSUME TypeInv, NowMeans, Ruled, AllAsked PROVE RuleIsKept
  <2> SUFFICES ASSUME phase = "written", NEW s \in open \cap (Options \ MemberSet)
               PROVE  /\ started = "set_yes" /\ InRange(s, Yes) =>
                           IF IsBool(s) THEN now[s].tri = Yes ELSE now[s].tri # No
                      /\ started = "set_no" /\ InRange(s, No) =>
                           now[s].tri = No \/ Defaults[s] # <<>> \/ \E d \in Selects : d.target = s
    BY DEF RuleIsKept, Written
  <2>1. NowOK /\ AskedOK /\ Means(now, user, fresh, wish)
    BY <1>2 DEF TypeInv, NowMeans
  <2>2. /\ s \in Symbols /\ Visible(s) \in Tri /\ Least(s) \in Tri /\ IsBool(s) \in BOOLEAN
        /\ IsBool(s) => Visible(s) # Mod /\ Least(s) # Mod
        /\ BaseIn(s, now, user, fresh) \in Tri /\ DefaultOf(s, now) \in Tri
        /\ now[s].tri = IF Visible(s) = No /\ Least(s) = No
                        THEN Promote(DefaultOf(s, now), IsBool(s))
                        ELSE Limit(BaseIn(s, now, user, fresh), Visible(s), Least(s), IsBool(s))
    BY <2>1, OptionIs
  <2>3. ASSUME Changable(s)
        PROVE  s \notin fresh /\ Visible(s) # No /\ BaseIn(s, now, user, fresh) = user[s]
               /\ user[s] \in Tri
    <3>1. Visible(s) # No
      BY <2>2, <2>3 DEF Changable, Tri, No, Mod, Yes
    <3>2. Prompt[s] # Never
      BY <2>1, <2>2, <3>1, AnswersMean, UnderNever DEF Never, ShownOf, Promote, No, Mod
    <3>3. Seen(s)
      BY <2>2, <3>1, <3>2, SeenIs, ChildrenAre
    <3>4. s \notin fresh
      BY <1>2, <2>2, <2>3, <3>3 DEF AllAsked, Written
    <3> QED
      BY <2>1, <2>2, <3>1, <3>4 DEF BaseIn, AskedOK
  <2>4. PICK l \in Tri :
          /\ l = Limit(BaseIn(s, now, user, fresh), Visible(s), Least(s), IsBool(s))
          /\ BaseIn(s, now, user, fresh) # No /\ Visible(s) # No => l # No
          /\ BaseIn(s, now, user, fresh) = No /\ Least(s) = No => l = No
          /\ IsBool(s) => l # Mod
    <3> HIDE DEF BaseIn, Limit
    <3> QED
      BY <2>2, LimitIs
  <2>5. \A v : InRange(s, v) => Changable(s) /\ Least(s) <= v
    BY DEF InRange
  <2>6. ASSUME started = "set_yes", InRange(s, Yes)
        PROVE  IF IsBool(s) THEN now[s].tri = Yes ELSE now[s].tri # No
    <3>1. s \notin fresh /\ Visible(s) # No /\ BaseIn(s, now, user, fresh) = user[s]
      BY <2>3, <2>5, <2>6
    <3>2. user[s] # No
      BY <1>2, <2>6, <3>1 DEF Ruled
    <3>3. now[s].tri = l /\ l # No /\ (IsBool(s) => l # Mod)
      BY <2>2, <2>4, <3>1, <3>2
    <3> QED
      BY <2>4, <3>3 DEF Tri
  <2>7. ASSUME started = "set_no", InRange(s, No), Defaults[s] = <<>>, \A d \in Selects : d.target # s
        PROVE  now[s].tri = No
    <3>1. s \notin fresh /\ Visible(s) # No /\ BaseIn(s, now, user, fresh) = user[s]
      BY <2>3, <2>5, <2>7
    <3>2. user[s] = No
      BY <1>2, <2>7, <3>1 DEF Ruled, Free
    <3>3. Least(s) = No
      BY <2>2, <2>5, <2>7 DEF Tri, No, Mod, Yes
    <3> QED
      BY <2>2, <2>4, <3>1, <3>2, <3>3
  <2> QED
    BY <2>6, <2>7
<1>3. Spec => []TypeInv
  BY <1>0, TypeInit, TypeStep, PTL DEF Spec
<1>4. TypeInv => AskedOK
  BY DEF TypeInv
<1>5. Spec => []NowMeans
  BY <1>1, <1>3, <1>4, NowMeansStep, PTL DEF Spec
<1>6. Spec => []Headed
  BY <1>1, <1>3, HeadedStep, PTL DEF Spec
<1>7. Spec => []Ruled
  BY <1>1, <1>3, <1>5, <1>6, RuledStep, PTL DEF Spec
<1>8. Spec => []AllAsked
  BY <1>0, NoneIsLeft
<1> QED
  BY <1>2, <1>3, <1>5, <1>7, <1>8, PTL
-----------------------------------------------------------------------------
(* menu_finalize: the values of a choice are what stands below it.         *)
ValuesBelow == \A c \in ChoiceSymbols : \A m \in Range(Members[c]) : Below(c, m)

(* The choices whose Meaning symbol.c shows after conf_read: any other     *)
(* keeps the value loaded when it is marked new (confdata.c:322-324).      *)
BoolChoices == ChoiceSymbols \cap Tristate = {} /\ Optional = {}

(* Nothing has moved while nothing was answered.                           *)
Unmoved ==
  /\ phase \in {"asking", "written"} /\ ~answered => \A s \in Symbols : now[s] = before[s]
  /\ phase = "written" => \A s \in Options : config[s] = now[s].tri
  /\ \A m \in MemberSet \cap fresh : user[m] = No

LEMMA LimitGrows ==
  ASSUME NEW t \in Tri, NEW high \in Tri, NEW low \in Tri, NEW bool \in BOOLEAN,
         bool => high # Mod /\ low # Mod
  PROVE  /\ Limit(No, high, low, bool) = Yes => Limit(t, high, low, bool) = Yes
         /\ Limit(t, high, low, bool) = Yes => Limit(Yes, high, low, bool) = Yes
         /\ Limit(No, high, low, bool) = Mod => low = Mod
         /\ Limit(t, high, low, bool) = Yes /\ Limit(No, high, low, bool) # Yes => high = Yes
<1>1. \A x \in Tri : Limit(x, high, low, bool) =
        LET least == IF x <= high THEN x ELSE high
            most == IF least >= low THEN least ELSE low
        IN IF most = Mod /\ bool THEN Yes ELSE most
  BY LimitMeans
<1>2. CASE bool
  <2>1. \A x \in Tri : Limit(x, high, low, bool) =
          LET least == IF x <= high THEN x ELSE high
              most == IF least >= low THEN least ELSE low
          IN IF most = Mod THEN Yes ELSE most
    BY <1>1, <1>2
  <2>2. high \in {No, Yes} /\ low \in {No, Yes}
    BY <1>2 DEF Tri
  <2>3. \A x \in Tri : Limit(x, high, low, bool) = IF low = Yes \/ (x # No /\ high = Yes)
                                                   THEN Yes ELSE No
    BY <2>1, <2>2 DEF Tri, No, Mod, Yes
  <2> QED
    BY <2>2, <2>3 DEF Tri, No, Mod, Yes
<1>3. CASE ~bool
  <2>1. \A x \in Tri : Limit(x, high, low, bool) =
          LET least == IF x <= high THEN x ELSE high
          IN IF least >= low THEN least ELSE low
    BY <1>1, <1>3
  <2> QED
    BY <2>1 DEF Tri, No, Mod, Yes
<1> QED
  BY <1>2, <1>3

(* What is visible of a choice, and the value it is on.                    *)
LEMMA ChoiceMeans ==
  ASSUME NowOK, AskedOK, Means(now, user, fresh, wish), NEW c \in ChoiceSymbols
  PROVE  \E high, low \in Tri, bool \in BOOLEAN :
           /\ high = ShownOf(c, now, ModsOf(now)) /\ low = LeastOf(c, now, ModsOf(now))
           /\ bool <=> BoolWith(c, ModsOf(now))
           /\ bool => high # Mod /\ low # Mod
           /\ \A t : LimitedOf(t, c, now, ModsOf(now)) = Limit(t, high, low, bool)
           /\ AskedIn(c, user, fresh) \in Tri
<1>0. c \in Symbols
  BY MembersAre
<1>1. PICK high \in Tri : high = ShownOf(c, now, ModsOf(now))
  BY <1>0, AnswersMean
<1>2. PICK low \in Tri : low = LeastOf(c, now, ModsOf(now))
  BY <1>0, AnswersMean
<1>3. PICK bool \in BOOLEAN : bool = BoolWith(c, ModsOf(now))
  BY DEF BoolWith
<1>4. bool => high # Mod /\ low # Mod
  BY <1>0, <1>1, <1>2, <1>3, AnswersMean
<1>5. \A t : LimitedOf(t, c, now, ModsOf(now)) = Limit(t, high, low, bool)
  BY <1>1, <1>2, <1>3 DEF LimitedOf, Limit
<1>6. AskedIn(c, user, fresh) \in Tri
  BY <1>0 DEF AskedIn, AskedOK, Tri
<1>7. bool <=> BoolWith(c, ModsOf(now))
  BY <1>3
<1> QED
  BY <1>1, <1>2, <1>4, <1>5, <1>6, <1>7

(* To set an option to its value changes no value.                         *)
LEMMA PinOption ==
  ASSUME NowOK, AskedOK, Means(now, user, fresh, wish), NEW s \in Options \ MemberSet,
         NEW v, NEW g, NEW y, v[s] = now[s].tri, s \notin g
  PROVE  now[s] = MeaningOf(s, now, ModsOf(now), v, g, y)
<1>0. s \in Symbols /\ s \notin ChoiceSymbols
  BY SymbolsAssumption DEF Symbols
<1>1. PICK high \in Tri, low \in Tri :
        high = ShownOf(s, now, ModsOf(now)) /\ low = LeastOf(s, now, ModsOf(now))
  BY <1>0, AnswersMean
<1>2. PICK bool \in BOOLEAN : bool = BoolWith(s, ModsOf(now))
  BY DEF BoolWith
<1>3. bool => high # Mod /\ low # Mod
  BY <1>0, <1>1, <1>2, AnswersMean
<1>4. \A t : LimitedOf(t, s, now, ModsOf(now)) = Limit(t, high, low, bool)
  BY <1>1, <1>2 DEF LimitedOf, Limit
<1>5. PICK base : base = BaseIn(s, now, user, fresh)
  OBVIOUS
<1>6. base \in Tri
  BY <1>5, OptionIs
<1>7. now[s] = [tri |-> IF high = No /\ low = No THEN Promote(DefaultOf(s, now), bool)
                        ELSE Limit(base, high, low, bool),
                pick |-> None]
  BY <1>0, <1>1, <1>2, <1>4, <1>5, MeaningIs DEF Means
<1>8. MeaningOf(s, now, ModsOf(now), v, g, y) =
        [tri |-> IF high = No /\ low = No THEN Promote(DefaultOf(s, now), bool)
                 ELSE Limit(now[s].tri, high, low, bool),
         pick |-> None]
  <2>1. BaseIn(s, now, v, g) = now[s].tri
    BY DEF BaseIn
  <2> QED
    BY <1>0, <1>1, <1>2, <1>4, <2>1, MeaningIs
<1>9. Limit(Limit(base, high, low, bool), high, low, bool) = Limit(base, high, low, bool)
  BY <1>3, <1>6, LimitIs
<1>10. now[s].tri = IF high = No /\ low = No THEN Promote(DefaultOf(s, now), bool)
                    ELSE Limit(base, high, low, bool)
  BY <1>7
<1> HIDE DEF Limit
<1> QED
  BY <1>7, <1>8, <1>9, <1>10

(* Nor does setting a choice to its value.                                 *)
LEMMA PinChoice ==
  ASSUME NowOK, AskedOK, BoolChoices, Means(now, user, fresh, wish), NEW c \in ChoiceSymbols,
         NEW v, NEW g, v[c] = now[c].tri, c \notin g
  PROVE  now[c] = MeaningOf(c, now, ModsOf(now), v, g, wish)
<1>0. c \in Symbols /\ c \notin MemberSet /\ wish[c] \in Range(Members[c]) \cup {None}
  BY MembersAre DEF AskedOK, WishesOK
<1>1. PICK high \in Tri, low \in Tri, bool \in BOOLEAN :
        /\ high = ShownOf(c, now, ModsOf(now)) /\ low = LeastOf(c, now, ModsOf(now))
        /\ bool <=> BoolWith(c, ModsOf(now))
        /\ bool => high # Mod /\ low # Mod
        /\ \A t : LimitedOf(t, c, now, ModsOf(now)) = Limit(t, high, low, bool)
        /\ AskedIn(c, user, fresh) \in Tri
  BY ChoiceMeans
<1>2. PICK t \in Tri : t = AskedIn(c, user, fresh)
  BY <1>1
<1>3. AskedIn(c, v, g) = now[c].tri
  BY DEF AskedIn
<1>4. PICK values : values = OpenIn(c, now, wish)
  OBVIOUS
<1>5. PICK on : on = [tri |-> Yes, pick |-> Candidates(c, wish)[Min(values)].pick]
  OBVIOUS
<1>6. \A u, f : MeaningOf(c, now, ModsOf(now), u, f, wish) =
        IF Limit(AskedIn(c, u, f), high, low, bool) # Yes
        THEN [tri |-> Limit(AskedIn(c, u, f), high, low, bool), pick |-> None]
        ELSE IF values = {} THEN [tri |-> No, pick |-> None] ELSE on
  <2> SUFFICES ASSUME NEW u, NEW f
               PROVE  MeaningOf(c, now, ModsOf(now), u, f, wish) =
                        IF Limit(AskedIn(c, u, f), high, low, bool) # Yes
                        THEN [tri |-> Limit(AskedIn(c, u, f), high, low, bool), pick |-> None]
                        ELSE IF values = {} THEN [tri |-> No, pick |-> None] ELSE on
    OBVIOUS
  <2>1. LimitedOf(AskedIn(c, u, f), c, now, ModsOf(now)) = Limit(AskedIn(c, u, f), high, low, bool)
    BY <1>1
  <2>2. CASE Limit(AskedIn(c, u, f), high, low, bool) # Yes
    BY <1>0, <2>1, <2>2, MeaningIs
  <2>3. CASE Limit(AskedIn(c, u, f), high, low, bool) = Yes
    BY <1>0, <1>4, <1>5, <2>1, <2>3, MeaningIs
  <2> QED
    BY <2>2, <2>3
<1>7. now[c] = IF Limit(t, high, low, bool) # Yes
               THEN [tri |-> Limit(t, high, low, bool), pick |-> None]
               ELSE IF values = {} THEN [tri |-> No, pick |-> None] ELSE on
  BY <1>0, <1>2, <1>6 DEF Means
<1>8. MeaningOf(c, now, ModsOf(now), v, g, wish) =
        IF Limit(now[c].tri, high, low, bool) # Yes
        THEN [tri |-> Limit(now[c].tri, high, low, bool), pick |-> None]
        ELSE IF values = {} THEN [tri |-> No, pick |-> None] ELSE on
  BY <1>3, <1>6
<1>9. /\ Limit(Limit(t, high, low, bool), high, low, bool) = Limit(t, high, low, bool)
      /\ Limit(No, high, low, bool) = Yes => Limit(t, high, low, bool) = Yes
      /\ Limit(t, high, low, bool) = Yes => Limit(Yes, high, low, bool) = Yes
      /\ Limit(No, high, low, bool) = Mod => low = Mod
      /\ Limit(t, high, low, bool) = Yes /\ Limit(No, high, low, bool) # Yes => high = Yes
      /\ Limit(No, high, low, bool) \in Tri
  <2>1. No \in Tri
    BY DEF Tri
  <2>2. \E l \in Tri : l = Limit(t, high, low, bool) /\ l = Limit(l, high, low, bool)
    BY <1>1, LimitIs
  <2>3. \E l \in Tri : l = Limit(No, high, low, bool)
    BY <1>1, <2>1, LimitIs
  <2>4. /\ Limit(No, high, low, bool) = Yes => Limit(t, high, low, bool) = Yes
        /\ Limit(t, high, low, bool) = Yes => Limit(Yes, high, low, bool) = Yes
        /\ Limit(No, high, low, bool) = Mod => low = Mod
        /\ Limit(t, high, low, bool) = Yes /\ Limit(No, high, low, bool) # Yes => high = Yes
    BY <1>1, LimitGrows
  <2> QED
    BY <2>2, <2>3, <2>4
<1> HIDE DEF Limit
<1>10. CASE Limit(t, high, low, bool) # Yes
  <2>1. now[c].tri = Limit(t, high, low, bool)
    BY <1>7, <1>10
  <2> QED
    BY <1>7, <1>8, <1>9, <1>10, <2>1
<1>11. CASE Limit(t, high, low, bool) = Yes /\ values # {}
  <2>1. now[c] = on /\ now[c].tri = Yes
    BY <1>5, <1>7, <1>11
  <2> QED
    BY <1>8, <1>9, <1>11, <2>1
<1>12. CASE Limit(t, high, low, bool) = Yes /\ values = {}
  <2>1. now[c] = [tri |-> No, pick |-> None] /\ now[c].tri = No
    BY <1>7, <1>12
  <2>2. Limit(No, high, low, bool) # Mod
    <3> SUFFICES ASSUME Limit(No, high, low, bool) = Mod PROVE FALSE
      OBVIOUS
    <3>1. low = Mod /\ ~bool
      BY <1>1, <1>9 DEF Mod, Yes
    <3>2. c \in Tristate
      BY <1>1, <3>1 DEF BoolWith
    <3> QED
      BY <3>2 DEF BoolChoices
  <2>3. CASE Limit(No, high, low, bool) = Yes
    BY <1>8, <1>12, <2>1, <2>3
  <2>4. CASE Limit(No, high, low, bool) = No
    BY <1>8, <2>1, <2>4 DEF No, Yes
  <2> QED
    BY <1>9, <2>2, <2>3, <2>4 DEF Tri
<1> QED
  BY <1>10, <1>11, <1>12

(* Nor does setting a value of a choice to its own, other than "y".        *)
LEMMA PinValue ==
  ASSUME NowOK, AskedOK, Means(now, user, fresh, wish), NEW m \in MemberSet,
         NEW v, NEW g, NEW y, v[m] = now[m].tri, m \notin g
  PROVE  now[m] = MeaningOf(m, now, ModsOf(now), v, g, y)
<1>0. m \in Symbols /\ m \notin ChoiceSymbols /\ m \in Options
  BY MembersAre
<1>1. PICK high \in Tri : high = ShownOf(m, now, ModsOf(now))
  BY <1>0, AnswersMean
<1>2. PICK bool \in BOOLEAN : bool = BoolWith(m, ModsOf(now))
  BY DEF BoolWith
<1>3. bool => high # Mod
  BY <1>0, <1>1, <1>2, AnswersMean
<1>4. CASE high = Yes
  BY <1>0, <1>1, <1>4, MeaningIs DEF Means
<1>5. CASE high # Yes
  <2>1. PICK base : base = BaseIn(m, now, user, fresh)
    OBVIOUS
  <2>2. base \in Tri
    <3>1. DefaultOf(m, now) \in Tri
      BY <1>0, DefaultOfIs DEF NowOK, HasType, Meanings
    <3> QED
      BY <1>0, <2>1, <3>1 DEF BaseIn, AskedOK
  <2>3. BaseIn(m, now, v, g) = now[m].tri
    BY DEF BaseIn
  <2>4. now[m] = [tri |-> Promote(Min({base, high}), bool), pick |-> None]
    BY <1>0, <1>1, <1>2, <1>5, <2>1, MeaningIs DEF Means
  <2>5. MeaningOf(m, now, ModsOf(now), v, g, y) =
          [tri |-> Promote(Min({now[m].tri, high}), bool), pick |-> None]
    BY <1>0, <1>1, <1>2, <1>5, <2>3, MeaningIs
  <2>6. \A x \in Tri : Min({x, high}) = IF x <= high THEN x ELSE high
    BY TwoAre
  <2>7. CASE bool
    <3>1. high = No
      BY <1>3, <1>5, <2>7 DEF Tri
    <3>2. \A x \in Tri : Promote(Min({x, high}), bool) = No
      BY <2>6, <3>1 DEF Promote, Tri, No, Mod, Yes
    <3>3. now[m].tri = No
      BY <2>2, <2>4, <3>2
    <3> QED
      BY <2>4, <2>5, <3>2, <3>3 DEF Tri
  <2>8. CASE ~bool
    <3>1. \A x \in Tri : Promote(Min({x, high}), bool) = IF x <= high THEN x ELSE high
      BY <2>6, <2>8 DEF Promote
    <3>2. now[m].tri = IF base <= high THEN base ELSE high
      BY <2>2, <2>4, <3>1
    <3>3. now[m].tri \in Tri /\ now[m].tri <= high
      BY <2>2, <3>2 DEF Tri, No, Mod, Yes
    <3>4. Promote(Min({now[m].tri, high}), bool) = now[m].tri
      BY <3>1, <3>3
    <3> QED
      BY <2>4, <2>5, <3>4
  <2> QED
    BY <2>7, <2>8
<1> QED
  BY <1>4, <1>5

(* A value at "y" is the one its choice, at "y", has fallen on.            *)
LEMMA ChosenIs ==
  ASSUME NowOK, AskedOK, Means(now, user, fresh, wish), NEW m \in MemberSet, now[m].tri = Yes,
         NEW c, c = ChoiceOf(m)
  PROVE  /\ Visible(m) = Yes /\ now[c] = [tri |-> Yes, pick |-> m]
         /\ LimitedOf(AskedIn(c, user, fresh), c, now, ModsOf(now)) = Yes
         /\ Under(Prompt[m], c, now) # No
<1>0. /\ m \in Symbols /\ m \notin ChoiceSymbols /\ m \in Options /\ m # None
      /\ c \in ChoiceSymbols /\ c \in Symbols /\ m \in Range(Members[c]) /\ c \notin MemberSet
      /\ wish[c] \in Range(Members[c]) \cup {None}
  BY MembersAre, SymbolsAssumption DEF AskedOK, WishesOK
<1>1. PICK high \in Tri : high = ShownOf(m, now, ModsOf(now)) /\ high = Visible(m)
  BY <1>0, AnswersMean
<1>2. PICK bool \in BOOLEAN : bool = BoolWith(m, ModsOf(now))
  BY DEF BoolWith
<1>3. bool => high # Mod
  BY <1>0, <1>1, <1>2, AnswersMean
<1>4. high = Yes
  <2> SUFFICES ASSUME high # Yes PROVE FALSE
    OBVIOUS
  <2>1. PICK base : base = BaseIn(m, now, user, fresh)
    OBVIOUS
  <2>2. base \in Tri
    <3>1. DefaultOf(m, now) \in Tri
      BY <1>0, DefaultOfIs DEF NowOK, HasType, Meanings
    <3> QED
      BY <1>0, <2>1, <3>1 DEF BaseIn, AskedOK
  <2>3. now[m] = [tri |-> Promote(Min({base, high}), bool), pick |-> None]
    BY <1>0, <1>1, <1>2, <2>1, MeaningIs DEF Means
  <2>4. Min({base, high}) = IF base <= high THEN base ELSE high
    BY <2>2, TwoAre
  <2>5. CASE bool
    <3>1. high = No
      BY <1>3, <2>5 DEF Tri
    <3> QED
      BY <2>2, <2>3, <2>4, <3>1 DEF Promote, Tri, No, Mod, Yes
  <2>6. CASE ~bool
    <3>1. Promote(Min({base, high}), bool) = IF base <= high THEN base ELSE high
      BY <2>4, <2>6 DEF Promote
    <3>2. now[m].tri = IF base <= high THEN base ELSE high
      BY <2>3, <3>1
    <3> QED
      BY <2>2, <3>2 DEF Tri, No, Mod, Yes
  <2> QED
    BY <2>5, <2>6
<1>5. now[c].pick = m
  <2>1. now[m] = [tri |-> IF now[c].pick = m THEN Yes ELSE No, pick |-> None]
    BY <1>0, <1>1, <1>4, MeaningIs DEF Means
  <2> QED
    BY <2>1 DEF No, Yes
<1>6. LimitedOf(AskedIn(c, user, fresh), c, now, ModsOf(now)) = Yes
  <2> SUFFICES ASSUME LimitedOf(AskedIn(c, user, fresh), c, now, ModsOf(now)) # Yes PROVE FALSE
    OBVIOUS
  <2>1. now[c] = [tri |-> LimitedOf(AskedIn(c, user, fresh), c, now, ModsOf(now)), pick |-> None]
    BY <1>0, MeaningIs DEF Means
  <2> QED
    BY <1>0, <1>5, <2>1
<1>7. PICK values : values = OpenIn(c, now, wish)
  OBVIOUS
<1>8. now[c] = IF values = {} THEN [tri |-> No, pick |-> None]
               ELSE [tri |-> Yes, pick |-> Candidates(c, wish)[Min(values)].pick]
  BY <1>0, <1>6, <1>7, MeaningIs DEF Means
<1>9. values # {}
  BY <1>0, <1>5, <1>8
<1>10. now[c] = [tri |-> Yes, pick |-> Candidates(c, wish)[Min(values)].pick]
  BY <1>8, <1>9
<1>11. Min(values) \in values
  <2>1. values \in SUBSET Nat
    <3>1. \A n \in Nat : 1..n \subseteq Nat
      OBVIOUS
    <3>2. DOMAIN Candidates(c, wish) \subseteq Nat
      <4>1. /\ DOMAIN Candidates(c, wish) = 1..Len(Candidates(c, wish))
            /\ Len(Candidates(c, wish)) \in Nat
        BY <1>0, CandidatesAre
      <4> QED
        BY <3>1, <4>1
    <3> QED
      BY <1>7, <3>2 DEF OpenIn
  <2>2. \E x \in values : \A y \in values : x <= y
    BY <1>9, <2>1, LeastExists
  <2> QED
    BY <2>2 DEF Min
<1>12. Candidates(c, wish)[Min(values)].pick = m
  BY <1>5, <1>10
<1>13. Under(Prompt[m], c, now) # No
  BY <1>7, <1>11, <1>12 DEF OpenIn
<1> QED
  BY <1>1, <1>4, <1>6, <1>10, <1>12, <1>13

(* To wish for what the choice has fallen on leaves it there.              *)
LEMMA PinChosen ==
  ASSUME NowOK, AskedOK, Means(now, user, fresh, wish), NEW m \in MemberSet, now[m].tri = Yes,
         NEW c, c = ChoiceOf(m), NEW v, NEW g, NEW y, v[c] = user[c], c \notin g, y[c] = m
  PROVE  now[c] = MeaningOf(c, now, ModsOf(now), v, g, y)
<1>0. /\ m # None /\ c \in ChoiceSymbols /\ c \in Symbols /\ m \in Range(Members[c])
      /\ c \notin MemberSet /\ user[c] \in Tri
  BY MembersAre, SymbolsAssumption DEF AskedOK
<1>1. /\ now[c] = [tri |-> Yes, pick |-> m]
      /\ LimitedOf(AskedIn(c, user, fresh), c, now, ModsOf(now)) = Yes
      /\ Under(Prompt[m], c, now) # No
  BY ChosenIs
<1>2. LimitedOf(AskedIn(c, v, g), c, now, ModsOf(now)) = Yes
  <2>1. PICK high \in Tri, low \in Tri, bool \in BOOLEAN :
          /\ bool => high # Mod /\ low # Mod
          /\ \A t : LimitedOf(t, c, now, ModsOf(now)) = Limit(t, high, low, bool)
    BY <1>0, ChoiceMeans
  <2>2. AskedIn(c, v, g) = user[c] /\ AskedIn(c, user, fresh) \in {No, user[c]}
    BY DEF AskedIn
  <2>3. Limit(No, high, low, bool) = Yes => Limit(user[c], high, low, bool) = Yes
    BY <1>0, <2>1, LimitGrows
  <2>4. Limit(No, high, low, bool) = Yes \/ Limit(user[c], high, low, bool) = Yes
    BY <1>1, <2>1, <2>2
  <2>5. Limit(user[c], high, low, bool) = Yes
    BY <2>3, <2>4
  <2> QED
    BY <2>1, <2>2, <2>5
<1>3. /\ DOMAIN Candidates(c, y) = 1..Len(Candidates(c, y)) /\ Len(Candidates(c, y)) \in Nat
      /\ 1 \in 1..Len(Candidates(c, y)) /\ Candidates(c, y)[1] = [when |-> Always, pick |-> m]
  BY <1>0, CandidatesAre
<1>4. PICK values : values = OpenIn(c, now, y)
  OBVIOUS
<1>5. 1 \in values
  <2>1. Candidates(c, y)[1].when = Always /\ Candidates(c, y)[1].pick = m
    BY <1>3
  <2>2. Under(Always, c, now) # No
    BY UnderAlways DEF No, Yes
  <2>3. 1 \in DOMAIN Candidates(c, y)
    BY <1>3
  <2> QED
    BY <1>1, <1>4, <2>1, <2>2, <2>3 DEF OpenIn
<1>6. Min(values) = 1
  <2>1. values \subseteq 1..Len(Candidates(c, y))
    BY <1>3, <1>4 DEF OpenIn
  <2>2. \A x \in values : x \in Nat /\ 1 <= x
    BY <1>3, <2>1
  <2> QED
    BY <1>5, <2>2 DEF Min
<1>7. MeaningOf(c, now, ModsOf(now), v, g, y)
        = [tri |-> Yes, pick |-> Candidates(c, y)[Min(values)].pick]
  BY <1>0, <1>2, <1>4, <1>5, MeaningIs
<1>8. Candidates(c, y)[1].pick = m
  BY <1>3
<1> QED
  BY <1>1, <1>6, <1>7, <1>8

(* To set a symbol to the value it has moves none.                         *)
LEMMA PinningKeeps ==
  ASSUME Levelled, ModulesIsPlain, ValuesArePlain, BoolChoices, NowOK, AskedOK, AskedOK',
         Means(now, user, fresh, wish), \A m \in MemberSet \cap fresh : user[m] = No,
         NEW s \in Symbols, Set(s, now[s].tri)
  PROVE  \A x \in Symbols : now'[x] = now[x]
<1>0. /\ user' = [user EXCEPT ![s] = now[s].tri] /\ s \notin fresh' /\ fresh' \subseteq fresh
      /\ now' = Meaning(user', fresh', wish') /\ user \in [Symbols -> Tri]
      /\ wish \in [ChoiceSymbols -> Options \cup {None}]
  BY DEF Set, AskedOK
<1>b. PICK v : v = user'
  OBVIOUS
<1>c. PICK g : g = fresh'
  OBVIOUS
<1>d. PICK y : y = wish'
  OBVIOUS
<1>a. user'[s] = now[s].tri /\ \A x \in Symbols : x # s => user'[x] = user[x]
  BY <1>0
<1>e. s \in MemberSet => now[s] = MeaningOf(s, now, ModsOf(now), user', fresh', wish')
  <2> SUFFICES ASSUME s \in MemberSet PROVE now[s] = MeaningOf(s, now, ModsOf(now), v, g, y)
    BY <1>b, <1>c, <1>d
  <2>1. v[s] = now[s].tri /\ s \notin g
    BY <1>0, <1>a, <1>b, <1>c
  <2> QED
    BY <2>1, PinValue
<1>1. ASSUME s \in MemberSet, now[s].tri = Yes, NEW x \in Symbols
      PROVE  now[x] = MeaningOf(x, now, ModsOf(now), user', fresh', wish')
  <2>1. PICK c : c = ChoiceOf(s)
    OBVIOUS
  <2>2. /\ c \in ChoiceSymbols /\ c \in Symbols /\ c # s
        /\ fresh' = fresh \ ({s, c} \cup {m \in Range(Members[c]) : Visible(m) # No})
        /\ wish' = [wish EXCEPT ![c] = s]
    BY <1>1, <2>1, MembersAre DEF Set
  <2>3. CASE x = c
    <3>1. user'[c] = user[c] /\ c \notin fresh' /\ wish'[c] = s
      BY <1>0, <1>a, <2>2
    <3> QED
      BY <1>1, <2>1, <2>3, <3>1, PinChosen
  <2>4. CASE x = s
    BY <1>1, <1>e, <2>4
  <2>5. CASE x # s /\ x # c
    <3>1. x \in ChoiceSymbols => /\ AskedIn(x, user, fresh) = AskedIn(x, user', fresh')
                                 /\ wish[x] = wish'[x]
      <4> SUFFICES ASSUME x \in ChoiceSymbols
                   PROVE  AskedIn(x, user, fresh) = AskedIn(x, user', fresh') /\ wish[x] = wish'[x]
        OBVIOUS
      <4>1. x \in fresh <=> x \in fresh'
        BY <2>2, <2>5, MembersAre
      <4> QED
        BY <1>0, <1>a, <2>2, <2>5, <4>1 DEF AskedIn
    <3>2. x \notin ChoiceSymbols => BaseIn(x, now, user, fresh) = BaseIn(x, now, user', fresh')
      <4>1. CASE x \in fresh <=> x \in fresh'
        BY <1>a, <2>5, <4>1 DEF BaseIn
      <4>2. CASE x \in fresh /\ x \notin fresh'
        <5>1. x \in MemberSet
          BY <2>2, <2>5, <4>2, MembersAre
        <5>2. user[x] = No /\ user'[x] = No
          BY <1>a, <2>5, <4>2, <5>1
        <5>3. DefaultOf(x, now) = No
          <6>1. Defaults[x] = <<>>
            BY <5>1 DEF ValuesArePlain
          <6>2. DOMAIN Default[x] = {}
            BY <6>1, DefaultIs
          <6>3. DOMAIN ConditionsOf(x, now) = {}
            BY <6>2 DEF ConditionsOf
          <6> QED
            BY <6>3, NoFirst DEF DefaultOf, FirstOf
        <5> QED
          BY <4>2, <5>2, <5>3 DEF BaseIn
      <4> QED
        BY <1>0, <4>1, <4>2
    <3>3. now[x] = MeaningOf(x, now, ModsOf(now), user, fresh, wish)
      BY DEF Means
    <3> QED
      BY <3>1, <3>2, <3>3, SameAsked
  <2> QED
    BY <2>3, <2>4, <2>5
<1>2. ASSUME ~(s \in MemberSet /\ now[s].tri = Yes), NEW x \in Symbols
      PROVE  now[x] = MeaningOf(x, now, ModsOf(now), user', fresh', wish')
  <2>1. fresh' = fresh \ {s} /\ wish' = wish
    BY <1>2 DEF Set
  <2>2. CASE x # s
    <3>1. AskedIn(x, user, fresh) = AskedIn(x, user', fresh')
      BY <1>a, <2>1, <2>2 DEF AskedIn
    <3>2. BaseIn(x, now, user, fresh) = BaseIn(x, now, user', fresh')
      BY <1>a, <2>1, <2>2 DEF BaseIn
    <3>3. now[x] = MeaningOf(x, now, ModsOf(now), user, fresh, wish)
      BY DEF Means
    <3> QED
      BY <2>1, <3>1, <3>2, <3>3, SameAsked
  <2>3. CASE x = s /\ s \in ChoiceSymbols
    BY <1>0, <1>a, <2>1, <2>3, PinChoice
  <2>4. CASE x = s /\ s \in MemberSet
    BY <1>e, <2>4
  <2>5. CASE x = s /\ s \in Options \ MemberSet
    <3>1. v[s] = now[s].tri /\ s \notin g
      BY <1>0, <1>a, <1>b, <1>c
    <3>2. now[s] = MeaningOf(s, now, ModsOf(now), v, g, y)
      BY <2>5, <3>1, PinOption
    <3> QED
      BY <1>b, <1>c, <1>d, <2>5, <3>2
  <2> QED
    BY <2>2, <2>3, <2>4, <2>5 DEF Symbols
<1>3. \A x \in Symbols : now[x] = MeaningOf(x, now, ModsOf(now), user', fresh', wish')
  BY <1>1, <1>2
<1>4. WishesOK(y)
  BY <1>d DEF AskedOK
<1>5. PICK of : of = now
  OBVIOUS
<1>6. \A x \in Symbols : of[x] = MeaningOf(x, of, ModsOf(of), v, g, y)
  BY <1>3, <1>5, <1>b, <1>c, <1>d
<1>7. \A x \in Symbols : Meaning(v, g, y)[x] = of[x]
  BY <1>4, <1>6, MeansNoOther
<1>8. now' = Meaning(v, g, y)
  BY <1>0, <1>b, <1>c, <1>d
<1> QED
  BY <1>5, <1>7, <1>8

(* What a choice at "y" has fallen on can be seen.                         *)
LEMMA PickIs ==
  ASSUME NowOK, AskedOK, Means(now, user, fresh, wish), Hangs, NEW c \in ChoiceSymbols,
         now[c].tri = Yes, NEW p, p = now[c].pick
  PROVE  p \in MemberSet /\ ChoiceOf(p) = c /\ p \in Range(Members[c]) /\ Seen(p)
<1>0. c \in Symbols /\ c \notin MemberSet /\ wish[c] \in Range(Members[c]) \cup {None}
  BY MembersAre DEF AskedOK, WishesOK
<1>1. LimitedOf(AskedIn(c, user, fresh), c, now, ModsOf(now)) = Yes
  <2> SUFFICES ASSUME LimitedOf(AskedIn(c, user, fresh), c, now, ModsOf(now)) # Yes PROVE FALSE
    OBVIOUS
  <2>1. now[c] = [tri |-> LimitedOf(AskedIn(c, user, fresh), c, now, ModsOf(now)), pick |-> None]
    BY <1>0, MeaningIs DEF Means
  <2> QED
    BY <2>1
<1>2. PICK values : values = OpenIn(c, now, wish)
  OBVIOUS
<1>3. now[c] = IF values = {} THEN [tri |-> No, pick |-> None]
               ELSE [tri |-> Yes, pick |-> Candidates(c, wish)[Min(values)].pick]
  BY <1>0, <1>1, <1>2, MeaningIs DEF Means
<1>4. values # {}
  BY <1>3 DEF No, Yes
<1>5. p = Candidates(c, wish)[Min(values)].pick
  BY <1>3, <1>4
<1>6. /\ DOMAIN Candidates(c, wish) = 1..Len(Candidates(c, wish))
      /\ Len(Candidates(c, wish)) \in Nat
      /\ \A i \in 1..Len(Candidates(c, wish)) : Candidates(c, wish)[i].pick \in Range(Members[c])
  BY <1>0, CandidatesAre
<1>7. Min(values) \in values
  <2>1. \A n \in Nat : 1..n \subseteq Nat
    OBVIOUS
  <2>2. values \in SUBSET Nat
    BY <1>2, <1>6, <2>1 DEF OpenIn
  <2>3. \E x \in values : \A y \in values : x <= y
    BY <1>4, <2>2, LeastExists
  <2> QED
    BY <2>3 DEF Min
<1>8. p \in Range(Members[c]) /\ Under(Prompt[p], c, now) # No
  <2>1. Min(values) \in DOMAIN Candidates(c, wish)
    BY <1>2, <1>7 DEF OpenIn
  <2> QED
    BY <1>2, <1>5, <1>6, <1>7, <2>1 DEF OpenIn
<1>9. p \in MemberSet /\ ChoiceOf(p) = c /\ p \in Symbols /\ p \notin Menus
  BY <1>8, MembersAre, ChildrenAre
<1>10. Under(Prompt[p], None, now) = Under(Prompt[p], c, now)
  <2>1. \A a \in Atoms(Prompt[p]) : a \in Symbols \cup {M}
    BY <1>9, AtomsAre, PromptIs DEF Atom
  <2>2. \A a \in Atoms(Prompt[p]) : a = M \/ a # None
    BY <2>1, SymbolsAssumption
  <2>3. [a \in Atoms(Prompt[p]) |-> IF a = M THEN Mod ELSE IF a = None THEN Yes ELSE now[a].tri]
        = [a \in Atoms(Prompt[p]) |-> IF a = M THEN Mod ELSE IF a = c THEN Yes ELSE now[a].tri]
    BY <2>2
  <2> QED
    BY <2>3 DEF Under
<1>11. Visible(p) # No
  <2>1. ShownOf(p, now, ModsOf(now)) = Visible(p)
    BY <1>9, AnswersMean
  <2> QED
    BY <1>8, <1>10, <2>1 DEF ShownOf, Promote, No, Mod, Yes
<1>12. Prompt[p] # Never
  BY <1>8, UnderNever DEF Never
<1>13. Seen(p)
  BY <1>9, <1>11, <1>12, SeenIs, ChildrenAre
<1> QED
  BY <1>8, <1>9, <1>13

(* Passed over, a choice stays where it is.                                *)
LEMMA PassedIs ==
  ASSUME IsFiniteSet(Symbols), NowOK, AskedOK, Means(now, user, fresh, wish), Hangs, ValuesBelow,
         NEW c \in ChoiceSymbols, now[c].tri = Yes,
         NEW seen, seen = {n \in Range(Children[c]) : Seen(n)}, NEW asking, ~asking,
         mode # "set_random", NEW val \in Taken(c, seen, asking),
         now[val].tri = Yes \/ InRange(val, Yes)
  PROVE  now[val].tri = Yes /\ val \in Symbols
<1>1. PICK p : p = now[c].pick
  OBVIOUS
<1>2. p \in MemberSet /\ ChoiceOf(p) = c /\ p \in Range(Members[c]) /\ Seen(p)
  BY <1>1, PickIs
<1>3. p \in seen
  <2>1. p \in Range(Children[c])
    BY <1>2 DEF ValuesBelow, Below, Range
  <2> QED
    BY <1>2, <2>1
<1>4. IsFiniteSet(seen)
  <2>1. seen \subseteq Symbols
    BY TreeAssumption, MembersAre DEF Range
  <2> QED
    BY <2>1, FS_Subset
<1>5. val = p
  <2>1. CASE Cardinality(seen) = 1
    <3>1. PICK x : seen = {x}
      BY <1>4, <2>1, FS_Singleton
    <3>2. val \in seen
      BY DEF Taken
    <3> QED
      BY <1>3, <3>1, <3>2
  <2>2. CASE Cardinality(seen) # 1
    BY <1>1, <2>2 DEF Taken
  <2> QED
    BY <2>1, <2>2
<1>6. p \in Symbols /\ p \notin ChoiceSymbols
  BY <1>2, MembersAre
<1>7. CASE InRange(p, Yes)
  <2>1. Visible(p) \in Tri /\ ShownOf(p, now, ModsOf(now)) = Visible(p)
    BY <1>6, AnswersMean
  <2>2. Visible(p) = Yes
    BY <1>7, <2>1 DEF InRange, Tri, No, Mod, Yes
  <2>3. now[p] = [tri |-> IF now[c].pick = p THEN Yes ELSE No, pick |-> None]
    BY <1>2, <1>6, <2>1, <2>2, MeaningIs DEF Means
  <2> QED
    BY <1>1, <1>5, <1>6, <2>3
<1> QED
  BY <1>5, <1>6, <1>7

LEMMA SetUnmoved ==
  ASSUME Levelled, ModulesIsPlain, ValuesArePlain, BoolChoices, TypeInv, TypeInv', NowMeans,
         Unmoved, phase = "asking", phase' = phase, before' = before, answered => answered',
         NEW s \in Symbols, NEW val, Set(s, val), ~answered' => val = now[s].tri
  PROVE  Unmoved'
<1>1. user' = [user EXCEPT ![s] = val] /\ fresh' \subseteq fresh \ {s}
  BY DEF Set
<1>2. \A m \in MemberSet \cap fresh' : user'[m] = No
  BY <1>1, MembersAre DEF Unmoved, TypeInv, AskedOK
<1>3. ~answered' => \A x \in Symbols : now'[x] = before'[x]
  <2> SUFFICES ASSUME ~answered' PROVE \A x \in Symbols : now'[x] = before'[x]
    OBVIOUS
  <2>1. NowOK /\ AskedOK /\ AskedOK' /\ Means(now, user, fresh, wish) /\ Set(s, now[s].tri)
    BY DEF TypeInv, NowMeans
  <2>2. \A m \in MemberSet \cap fresh : user[m] = No
    BY DEF Unmoved
  <2>3. \A x \in Symbols : now'[x] = now[x]
    BY <2>1, <2>2, PinningKeeps
  <2> QED
    BY <2>3 DEF Unmoved
<1> QED
  BY <1>2, <1>3 DEF Unmoved

LEMMA UnmovedStep ==
  ASSUME Levelled, ModulesIsPlain, ValuesArePlain, BoolChoices, ValuesBelow, Hangs,
         TypeInv, TypeInv', NowMeans, Headed, Unmoved, [Next]_vars
  PROVE  Unmoved'
<1>1. CASE /\ UNCHANGED <<now, before, answered, user, fresh, config>>
           /\ phase' = phase \/ phase' = "aborted"
  BY <1>1 DEF Unmoved
<1>2. ASSUME NEW m \in Modes, NEW tty \in BOOLEAN, Start(m, tty) PROVE Unmoved'
  <2>1. phase' \in {"calculating", "reading", "aborted"}
    BY <1>2 DEF Start
  <2>2. \A x \in MemberSet \cap fresh' : user'[x] = No
    <3>1. CASE Unread
      BY <3>1, MembersAre DEF Unread
    <3>2. ASSUME NEW file, Read(file) PROVE \A x \in MemberSet \cap fresh' : user'[x] = No
      BY <3>2, MembersAre DEF Read, LoadedUser, LoadedFresh
    <3>3. Unread \/ Read(config) \/ Read(Opened)
      BY <1>2 DEF Start
    <3> QED
      BY <3>1, <3>2, <3>3
  <2> QED
    BY <2>1, <2>2 DEF Unmoved
<1>3. CASE Calculate
  BY <1>3 DEF Calculate, Unmoved, asked
<1>4. CASE Forget
  BY <1>4, MembersAre DEF Forget, Forgotten, Unmoved
<1>5. CASE Enter \/ Settle \/ Childs \/ Check \/ Again
  BY <1>1, <1>5 DEF Enter, Settle, Childs, Check, Again, asked, history
<1>6. CASE ConfSym
  <2>0. phase = "asking" /\ Node \in Symbols
    <3>1. Head(todo) \in Tasks /\ Head(todo).do = "sym"
      BY <1>6, HeadIs DEF ConfSym, Running, TypeInv
    <3> QED
      BY <1>6, <3>1 DEF ConfSym, Running, Node, Tasks
  <2>1. CASE Abort
    BY <1>1, <2>1 DEF Abort, asked, history
  <2>2. CASE ~Abort
    <3>1. PICK val \in Answers(Node) : Set(Node, val)
      BY <1>6, <2>2 DEF ConfSym
    <3>2. /\ answered' = (answered \/ IsAsked(Node) \/ IsRuled(Node))
          /\ phase' = phase /\ before' = before
      BY <1>6, <2>2 DEF ConfSym
    <3>3. ~answered' => val = now[Node].tri
      BY <3>1, <3>2 DEF Answers
    <3>4. answered => answered'
      BY <3>2
    <3> QED
      BY <2>0, <3>1, <3>2, <3>3, <3>4, SetUnmoved
  <2> QED
    BY <2>1, <2>2
<1>7. CASE ConfChoice
  <2>0. phase = "asking" /\ Node \in ChoiceSymbols /\ now[Node].tri = Yes
    <3>1. Head(todo) \in Tasks /\ Head(todo).do = "pick" /\ todo \in Seq(Tasks) /\ todo # <<>>
      BY <1>7, HeadIs DEF ConfChoice, Running, TypeInv
    <3>2. Head(todo) = todo[1] /\ 1 \in DOMAIN todo
      BY <3>1
    <3> QED
      BY <1>7, <3>1, <3>2 DEF ConfChoice, Running, Node, Tasks, Headed, Plain, Next1
  <2>1. CASE Abort
    BY <1>1, <2>1 DEF Abort, asked, history
  <2>2. CASE ~Abort
    <3>1. PICK seen : seen = {n \in Range(Children[Node]) : Seen(n)}
      OBVIOUS
    <3>2. PICK asking \in BOOLEAN :
            asking <=> Cardinality(seen) # 1 /\ (mode = "ask_all" \/
                         (mode \in {"ask_new", "ask_silent"} /\ Head(todo).new))
      OBVIOUS
    <3>3. /\ \E val \in Taken(Node, seen, asking) :
               IF now[val].tri = Yes \/ InRange(val, Yes)
               THEN Set(val, Yes) ELSE UNCHANGED <<asked, now>>
          /\ answered' <=> (answered \/ asking \/ mode = "set_random")
          /\ phase' = phase /\ before' = before /\ config' = config
      BY <1>7, <2>2, <3>1, <3>2 DEF ConfChoice, Taken
    <3>4. PICK val \in Taken(Node, seen, asking) :
               IF now[val].tri = Yes \/ InRange(val, Yes)
               THEN Set(val, Yes) ELSE UNCHANGED <<asked, now>>
      BY <3>3
    <3>5. CASE ~(now[val].tri = Yes \/ InRange(val, Yes))
      BY <2>0, <3>3, <3>4, <3>5 DEF Unmoved, asked
    <3>6. CASE now[val].tri = Yes \/ InRange(val, Yes)
      <4>1. Set(val, Yes)
        BY <3>4, <3>6
      <4>2. val \in Symbols
        <5>1. val \in Range(Children[Node])
          BY <3>1, <3>4 DEF Taken
        <5> QED
          BY <2>0, <5>1, TreeAssumption, MembersAre DEF Range
      <4>3. ~answered' => Yes = now[val].tri
        <5> SUFFICES ASSUME ~answered' PROVE now[val].tri = Yes
          OBVIOUS
        <5>1. ~asking /\ mode # "set_random"
          BY <3>3
        <5>2. NowOK /\ AskedOK /\ Means(now, user, fresh, wish) /\ IsFiniteSet(Symbols)
          BY <2>0 DEF TypeInv, NowMeans, Levelled
        <5> QED
          BY <2>0, <3>1, <3>4, <3>6, <5>1, <5>2, PassedIs
      <4>4. answered => answered'
        BY <3>3
      <4> QED
        BY <2>0, <3>3, <4>1, <4>2, <4>3, <4>4, SetUnmoved
    <3> QED
      BY <3>5, <3>6
  <2> QED
    BY <2>1, <2>2
<1>8. CASE Write
  <2>1. phase = "asking" /\ phase' = "written"
    BY <1>8 DEF Write
  <2>2. config' = [s \in Options |-> now[s].tri] /\ UNCHANGED <<now, before, answered, user, fresh>>
    BY <1>8 DEF Write, asked, history
  <2> QED
    BY <2>1, <2>2 DEF Unmoved
<1>9. CASE UNCHANGED vars
  BY <1>1, <1>9 DEF vars, asked, history
<1> QED
  BY <1>2, <1>3, <1>4, <1>5, <1>6, <1>7, <1>8, <1>9 DEF Next, Step

(* In every tree of menus that menu_finalize makes and whose choices are   *)
(* bool and not optional: a run that asked nobody writes the values it     *)
(* read, however often it set each symbol to the value it had.             *)
THEOREM NothingMoves ==
  ASSUME Levelled, ModulesIsPlain, ValuesArePlain, BoolChoices, ValuesBelow, Hangs
  PROVE  Spec => []UnaskedIsUnchanged
<1>0. IsFiniteSet(Symbols)
  BY DEF Levelled
<1>1. Init => NowMeans /\ Headed /\ Unmoved
  <2>1. Init => /\ phase = "start" /\ todo = <<>>
                /\ user = [s \in Symbols |-> No]
    BY DEF Init
  <2> QED
    BY <2>1, MembersAre DEF NowMeans, Headed, Unmoved
<1>2. Unmoved => UnaskedIsUnchanged
  BY DEF Unmoved, UnaskedIsUnchanged, Written, Symbols
<1>3. Spec => []TypeInv
  BY <1>0, TypeInit, TypeStep, PTL DEF Spec
<1>4. TypeInv => AskedOK
  BY DEF TypeInv
<1>5. Spec => []NowMeans
  BY <1>1, <1>3, <1>4, NowMeansStep, PTL DEF Spec
<1>6. Spec => []Headed
  BY <1>1, <1>3, HeadedStep, PTL DEF Spec
<1>7. Spec => []Unmoved
  BY <1>1, <1>3, <1>5, <1>6, UnmovedStep, PTL DEF Spec
<1> QED
  BY <1>2, <1>7, PTL

=============================================================================
