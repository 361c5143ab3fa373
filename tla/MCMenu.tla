------------------------------- MODULE MCMenu -------------------------------
(* Config.in files of a few statements for Menu.                           *)
EXTENDS Menu

Sym(s) == <<"sym", s>>
NotSym(s) == <<"not", Sym(s)>>
Config(s, on, asks, select) ==
  [kind |-> "config", sym |-> s, dep |-> on, prompt |-> asks, select |-> select]
Block(kind, on) ==
  [kind |-> kind, sym |-> "-", dep |-> on, prompt |-> IF kind = "if" THEN Hidden ELSE NULL,
   select |-> "-"]

(* B is a bool, T a tristate, C a choice.                                  *)
MenuBools == {"B", "C", "MODULES"}
MenuTristates == {"T"}
MenuOrders == { <<"B", "C", "MODULES", "T">>, <<"T", "MODULES", "C", "B">> }
MenuStatements ==
  {Config("B", on, asks, "-") :
     on \in {NULL, <<"and", Sym("T"), <<"or", Sym("T"), Sym("C")>> >>},
     asks \in {NULL, <<"ne", "T", "n">>}}
  \cup {Config("T", on, NULL, "-") :
          on \in {Sym("B"), <<"or", Sym("B"), Sym("C")>>,
                  <<"and", <<"or", Sym("B"), Sym("C")>>,
                           <<"and", NotSym("B"), NotSym("C")>> >>}}
  \cup {Config("T", M, Hidden, "B")}
  \cup {Block("if", Sym("B")), Block("if", <<"not", <<"eq", "T", "y">> >>), Block("menu", Sym("T")),
        [kind |-> "choice", sym |-> "C", dep |-> Sym("B"), prompt |-> NULL, select |-> "-"]}

(* B needs T=n; the option after it needs !T, which is m where T is m.     *)
NegatedStatements ==
  {Config("T", NULL, NULL, "-"), Config("B", <<"eq", "T", "n">>, NULL, "-"),
   Config("C", <<"and", NotSym("T"), <<"or", Sym("B"), Sym("T")>> >>, NULL, "-")}
=============================================================================
