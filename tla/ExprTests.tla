------------------------------ MODULE ExprTests ------------------------------
(***************************************************************************)
(* scripts/kconfig/expr.c: the expressions that test one symbol, their     *)
(* values, and what the code makes of two tests of the same symbol, or of  *)
(* one test of a bool.  An expression is NULL, a symbol <<"sym", s>>, a    *)
(* comparison <<"eq", s, t>> or <<"ne", s, t>>, or made of others:         *)
(* <<"not", e>>, <<"and", e, f>>, <<"or", e, f>>.                          *)
(***************************************************************************)
EXTENDS Naturals, Sequences

CONSTANTS Bools, Tristates  \* names of the bool and of the tristate symbols

Symbols == Bools \cup Tristates
Constants == {"y", "m", "n"}  \* symbol_yes, symbol_mod, symbol_no

(* A name is that of a bool, of a tristate or of a constant; "-" is none.  *)
ASSUME SymbolsAssumption ==
  /\ Bools \cap Tristates = {} /\ Symbols \cap Constants = {} /\ Symbols # {}
  /\ "-" \notin Symbols

NULL == <<>>
Y == <<"sym", "y">>
M == <<"sym", "m">>
N == <<"sym", "n">>

No == 0
Mod == 1
Yes == 2
Tri == {No, Mod, Yes}

(* The values symbols can have: a bool is never "m".                       *)
Valuations == {v \in [Symbols -> Tri] : \A b \in Bools : v[b] # Mod}

Of(type, e) == e # NULL /\ e[1] = type
Both(e) == Of("and", e) \/ Of("or", e)
Tests(e) == Of("sym", e) \/ Of("eq", e) \/ Of("ne", e)

(* expr_calc_value, of a symbol, of a test, and what joins two values.     *)
Value(s, v) == CASE s = "y" -> Yes [] s = "m" -> Mod [] s = "n" -> No [] OTHER -> v[s]
TestValue(e, v) ==
  IF e[1] = "sym" THEN Value(e[2], v)
  ELSE IF (e[1] = "eq") = (Value(e[2], v) = Value(e[3], v)) THEN Yes ELSE No
Joined(type, l, r) == IF (type = "and") = (l < r) THEN l ELSE r
-----------------------------------------------------------------------------
(* expr_join_or, expr_join_and of two different expressions: one for two   *)
(* that test the same symbol, or NULL.                                     *)
SymOf(e) == IF Of("not", e) THEN e[2][2] ELSE e[2]
Joinable(e, f) ==
  /\ Tests(e) \/ (Of("not", e) /\ Tests(e[2]))
  /\ Tests(f) \/ (Of("not", f) /\ Of("sym", f[2]))
  /\ SymOf(e) = SymOf(f) /\ SymOf(e) \in Symbols

Is(a, c) == <<"eq", a, c>>
IsNot(a, c) == <<"ne", a, c>>
On(a) == <<"sym", a>>
Are(both, e, f) == both = {e, f}  \* in either order

EitherOf(a, both) ==
  CASE a \in Tristates /\ Are(both, Is(a, "y"), Is(a, "m")) -> IsNot(a, "n")
    [] a \in Tristates /\ Are(both, Is(a, "y"), Is(a, "n")) -> IsNot(a, "m")
    [] a \in Tristates /\ Are(both, Is(a, "m"), Is(a, "n")) -> IsNot(a, "y")
    [] a \in Bools /\ Are(both, On(a), <<"not", On(a)>>) -> Y
    [] OTHER -> NULL
JoinOr(e, f) == IF Joinable(e, f) THEN EitherOf(SymOf(e), {e, f}) ELSE NULL

AllOf(a, both) ==
  CASE Are(both, On(a), Is(a, "y")) -> Is(a, "y")
    [] Are(both, On(a), IsNot(a, "n")) -> On(a)
    [] Are(both, On(a), IsNot(a, "m")) -> Is(a, "y")
    [] a \in Tristates /\ Are(both, IsNot(a, "y"), IsNot(a, "n")) -> Is(a, "m")
    [] a \in Tristates /\ Are(both, IsNot(a, "y"), IsNot(a, "m")) -> Is(a, "n")
    [] a \in Tristates /\ Are(both, IsNot(a, "m"), IsNot(a, "n")) -> Is(a, "y")
    [] OTHER -> NULL
Versus(e, f) == {e[1], f[1]} = {"eq", "ne"} /\ {e[3], f[3]} \subseteq Constants
JoinAnd(e, f) ==
  IF ~Joinable(e, f) THEN NULL
  ELSE IF SymOf(e) \in Tristates /\ Versus(e, f)
  THEN IF e[3] = f[3] THEN N ELSE IF e[1] = "eq" THEN e ELSE f
  ELSE AllOf(SymOf(e), {e, f})

(* expr_transform: a bool compared with a constant.                        *)
Compared(e) ==
  IF e[2] \notin Bools \/ e[3] \notin Constants THEN e
  ELSE IF e[3] = "m" THEN IF e[1] = "eq" THEN N ELSE Y
  ELSE IF (e[1] = "eq") = (e[3] = "y") THEN <<"sym", e[2]>> ELSE <<"not", <<"sym", e[2]>> >>
=============================================================================
