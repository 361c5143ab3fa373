-------------------------------- MODULE Expr --------------------------------
(***************************************************************************)
(* scripts/kconfig/expr.c: the dependency expressions of Config.in files   *)
(* and how menu_finalize rewrites them.  The code rewrites in place; a slot*)
(* of the tree is the path that leads to it.                               *)
(***************************************************************************)
EXTENDS ExprTests

(* expr_calc_value                                                         *)
RECURSIVE Calc(_, _)
Calc(e, v) ==
  CASE e = NULL -> Yes
    [] Tests(e) -> TestValue(e, v)
    [] Of("not", e) -> 2 - Calc(e[2], v)
    [] Both(e) -> Joined(e[1], Calc(e[2], v), Calc(e[3], v))

(* expr_alloc_and, expr_alloc_or                                           *)
Alloc(type, e, f) == CASE e = NULL -> f [] f = NULL -> e [] OTHER -> <<type, e, f>>

(* expr_is_yes, expr_is_no                                                 *)
IsYes(e) == e \in {NULL, Y}
IsNo(e) == e = N

RECURSIVE At(_, _), Put(_, _, _)
At(e, p) == IF p = <<>> THEN e ELSE At(e[Head(p)], Tail(p))
Put(e, p, x) == IF p = <<>> THEN x ELSE [e EXCEPT ![Head(p)] = Put(@, Tail(p), x)]
Left(p) == Append(p, 2)
Right(p) == Append(p, 3)

(* What leaves the other side of "and", of "or", as it is.                 *)
Unit(type) == IF type = "and" THEN Y ELSE N
-----------------------------------------------------------------------------
(* expr_eliminate_yn                                                       *)
RECURSIVE EliminateYn(_)
EliminateYn(e) ==
  IF ~Both(e) THEN e
  ELSE LET l == EliminateYn(e[2])
           r == EliminateYn(e[3])
           unit == Unit(e[1])
           zero == IF unit = Y THEN N ELSE Y
       IN CASE l = unit -> r
            [] l # unit /\ zero \in {l, r} -> zero
            [] l # unit /\ zero \notin {l, r} /\ r = unit -> l
            [] OTHER -> <<e[1], l, r>>

(* __expr_eliminate_eq and expr_extract_eq: what stands on both sides is   *)
(* taken out of x below p and y below q; n counts.  The first leaves equal *)
(* constants alone.                                                        *)
RECURSIVE Eq(_, _), TakeEq(_, _, _, _, _)
TakeEq(t, type, p, q, constants) ==
  LET e == At(t.x, p)
      f == At(t.y, q)
  IN CASE Of(type, e) ->
            TakeEq(TakeEq(t, type, Left(p), q, constants), type, Right(p), q, constants)
       [] ~Of(type, e) /\ Of(type, f) ->
            TakeEq(TakeEq(t, type, p, Left(q), constants), type, p, Right(q), constants)
       [] OTHER ->
            IF (~constants /\ e = f /\ e \in {Y, N}) \/ ~Eq(e, f) THEN t
            ELSE [x |-> Put(t.x, p, Unit(type)), y |-> Put(t.y, q, Unit(type)),
                  n |-> t.n + 1]
Pair(e, f) == [x |-> e, y |-> f, n |-> 0]

(* expr_eliminate_eq                                                       *)
EliminateEq(e, f) ==
  IF NULL \in {e, f} THEN Pair(e, f)
  ELSE LET Sides(t) == Pair(EliminateYn(t.x), EliminateYn(t.y))
           Other(t) == IF t.x[1] # t.y[1] /\ Both(t.y)
                       THEN TakeEq(t, t.y[1], <<>>, <<>>, FALSE) ELSE t
       IN Sides(Other(IF Both(e) THEN TakeEq(Pair(e, f), e[1], <<>>, <<>>, FALSE)
                      ELSE Pair(e, f)))

(* expr_eq                                                                 *)
Eq(e, f) ==
  /\ e[1] = f[1]
  /\ CASE Both(e) -> LET Same(t) == Of("sym", t.x) /\ t.x = t.y IN Same(EliminateEq(e, f))
       [] Of("not", e) -> Eq(e[2], f[2])
       [] OTHER -> e = f
-----------------------------------------------------------------------------
(* expr_join_or, expr_join_and: of two equal ones the first.               *)
MutJoin(type, e, f) ==
  IF Eq(e, f) THEN e
  ELSE IF type = "or" THEN JoinOr(e, f)
  ELSE IF Tests(e) /\ Tests(f) /\ e[2] = f[2] /\ {e[1], f[1]} = {"ne", "sym"} THEN
         <<"sym", e[2]>>
  ELSE JoinAnd(e, f)
Join(type, e, f) ==
  IF Eq(e, f) THEN e ELSE IF type = "or" THEN JoinOr(e, f) ELSE JoinAnd(e, f)

(* expr_transform: what "not" becomes.                                     *)
RECURSIVE Transform(_), Negation(_)
Negation(e) ==
  CASE Of("not", e) -> Transform(e[2])
    [] Of("eq", e) -> <<"ne", e[2], e[3]>>
    [] Of("ne", e) -> <<"eq", e[2], e[3]>>
    [] Of("or", e) -> Transform(<<"and", <<"not", e[2]>>, <<"not", e[3]>> >>)
    [] Of("and", e) -> Transform(<<"or", <<"not", e[2]>>, <<"not", e[3]>> >>)
    [] e = Y -> N
    [] e = M -> M
    [] e = N -> Y
    [] OTHER -> <<"not", e>>
Transform(e) ==
  CASE Both(e) -> <<e[1], Transform(e[2]), Transform(e[3])>>
    [] Of("not", e) -> Negation(Transform(e[2]))
    [] Of("eq", e) \/ Of("ne", e) -> Compared(e)
    [] OTHER -> e
-----------------------------------------------------------------------------
(* expr_eliminate_dups1 compares what the slots p and q of t.e hold.       *)
RECURSIVE Dups1(_, _, _, _), Dups2(_, _, _, _), Dups(_)
Dups1(t, type, p, q) ==
  LET e == At(t.e, p)
  IN CASE Of(type, e) -> Dups1(Dups1(t, type, Left(p), q), type, Right(p), q)
       [] ~Of(type, e) /\ Of(type, At(t.e, q)) ->
            Dups1(Dups1(t, type, p, Left(q)), type, p, Right(q))
       [] OTHER ->
            IF p = q THEN t
            ELSE LET Merge(u, joined) ==
                       IF joined = NULL THEN u
                       ELSE [e |-> Put(Put(u.e, p, Unit(type)), q, joined), n |-> u.n + 1]
                     Try(u) == Merge(u, Join(type, At(u.e, p), At(u.e, q)))
                 IN Try(IF Both(e) THEN Dups1(t, e[1], p, p) ELSE t)

(* expr_eliminate_dups2: "(FOO || BAR) && (!FOO && !BAR) -> n" and the like*)
Dups2(t, type, p, q) ==
  IF Of(type, At(t.e, p)) THEN Dups2(Dups2(t, type, Left(p), q), type, Right(p), q)
  ELSE LET Rest(taken) == IF taken.n = 0 THEN taken.x ELSE EliminateYn(taken.x)
           Settle(w, sub, other) ==
             IF Rest(TakeEq(Pair(Transform(<<"not", At(w.e, p)>>), At(w.e, q)),
                            other, <<>>, <<>>, TRUE)) # Unit(other) THEN w
             ELSE [e |-> Put(w.e, p, Unit(sub)), n |-> w.n + 1]
           Inner(u, sub) == Settle(Dups2(u, sub, p, p), sub, IF sub = "or" THEN "and" ELSE "or")
           Try(u) ==
             IF p = q \/ ~Both(At(u.e, p)) THEN u ELSE Inner(u, At(u.e, p)[1])
       IN Try(IF Of(type, At(t.e, q))
              THEN Dups2(Dups2(t, type, p, Left(q)), type, p, Right(q)) ELSE t)

(* expr_eliminate_dups                                                     *)
Dups(e) ==
  IF ~Both(e) THEN e
  ELSE LET Again(t) == IF t.n = 0 THEN e ELSE Dups(EliminateYn(t.e))
       IN Again(Dups2(Dups1([e |-> e, n |-> 0], e[1], <<>>, <<>>), e[1], <<>>, <<>>))

(* expr_trans_bool                                                         *)
RECURSIVE TransBool(_), TransCompare(_, _)
TransBool(e) ==
  CASE Both(e) -> <<e[1], TransBool(e[2]), TransBool(e[3])>>
    [] Of("not", e) -> <<"not", TransBool(e[2])>>
    [] Of("ne", e) -> IF e[2] \in Tristates /\ e[3] = "n" THEN <<"sym", e[2]>> ELSE e
    [] OTHER -> e

(* expr_trans_compare with symbol_no: e='n' or e!='n'.                     *)
TransCompare(e, type) ==
  LET Against(x) == IF type = "ne" THEN <<"not", x>> ELSE x
  IN CASE e = NULL -> Against(N)
       [] Of("and", e) ->
            Against(<<"or", TransCompare(e[2], "eq"), TransCompare(e[3], "eq")>>)
       [] Of("or", e) ->
            Against(<<"and", TransCompare(e[2], "eq"), TransCompare(e[3], "eq")>>)
       [] Of("not", e) -> TransCompare(e[2], IF type = "eq" THEN "ne" ELSE "eq")
       [] Of("eq", e) \/ Of("ne", e) -> IF type = "eq" THEN <<"not", e>> ELSE e
       [] OTHER -> <<type, e[2], "n">>

(* expr_contains_symbol, expr_depends_symbol                               *)
RECURSIVE Mentions(_, _), DependsOn(_, _)
Mentions(e, s) ==
  CASE Both(e) -> Mentions(e[2], s) \/ Mentions(e[3], s)
    [] Of("not", e) -> Mentions(e[2], s)
    [] Of("sym", e) -> e[2] = s
    [] Of("eq", e) \/ Of("ne", e) -> s \in {e[2], e[3]}
    [] OTHER -> FALSE
DependsOn(e, s) ==
  CASE Of("and", e) -> DependsOn(e[2], s) \/ DependsOn(e[3], s)
    [] Of("sym", e) -> e[2] = s
    [] Of("eq", e) -> e[2] = s /\ e[3] \in {"y", "m"}
    [] Of("ne", e) -> e[2] = s /\ e[3] = "n"
    [] OTHER -> FALSE
=============================================================================
