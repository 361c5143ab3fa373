-------------------------------- MODULE Menu --------------------------------
(***************************************************************************)
(* Reading Config.in files, as the whole of conf_parse: the tree of MenuTree*)
(* with the conditions of its entries.  menu_finalize puts every condition *)
(* an entry stands under into its dependency, and by their dependencies it *)
(* decides which entries belong below an option; then sym_check_deps, as in*)
(* DepCheck, on what the conditions have become.                           *)
(***************************************************************************)
EXTENDS Expr, MenuTree, DepCheck

CONSTANTS
  Orders      \* bound: orders in which the symbols come out of the hash table

ASSUME OrdersAssumption == Orders \subseteq Seq(Symbols) /\ \A o \in Orders : Range(o) = Symbols

VARIABLES
  dep,      \* the dep of each entry
  shown,    \* the visible.expr of its prompt, or Hidden
  revDep,   \* rev_dep of each symbol
  within    \* history: the block each entry was declared in

conditions == <<dep, shown, revDep>>
vars == <<treeVars, conditions, within, checkVars>>

Init ==
  /\ TreeInit /\ CheckInit
  /\ dep = [n \in Entries |-> NULL] /\ shown = [n \in Entries |-> NULL]
  /\ revDep = [s \in Symbols |-> NULL] /\ within = [n \in Entries |-> Nil]
-----------------------------------------------------------------------------
(* menu_check_dep: "change 'm' into 'm' && MODULES"                        *)
RECURSIVE CheckDep(_)
CheckDep(e) ==
  CASE e = M -> <<"and", M, <<"sym", "MODULES">> >>
    [] Of("not", e) -> <<"not", CheckDep(e[2])>>
    [] Both(e) -> <<e[1], CheckDep(e[2]), CheckDep(e[3])>>
    [] OTHER -> e

(* menu_add_entry, menu_add_dep, menu_add_prompt.                          *)
Declare(s) ==
  /\ Link(s)
  /\ LET n == Len(entry) + 1
     IN /\ dep' = [dep EXCEPT ![n] = CheckDep(s.dep)]
        /\ shown' = [shown EXCEPT ![n] =
                       IF s.prompt = Hidden THEN Hidden ELSE CheckDep(s.prompt)]
        /\ within' = [within EXCEPT ![n] = current]
  /\ UNCHANGED <<revDep, checkVars>>
-----------------------------------------------------------------------------
(* menu_finalize, on t: [dep, shown, rev].                                 *)
SymbolOf(n) == <<"sym", entry[n].sym>>

(* What stands around the entries of p.                                    *)
Around(p) ==
  IF IsChoice(p) THEN SymbolOf(p) ELSE IF shown[p] # Hidden THEN shown[p] ELSE dep[p]

(* Entry m: the condition around it goes into its own and into that of its *)
(* prompt; a select goes to the symbol selected.                           *)
MutConditions(t, around, m) ==
  LET full(base, e) == Dups(Alloc("and", base, Transform(e)))
  IN [t EXCEPT !.dep[m] = full(around, @),
               !.shown[m] = IF @ = Hidden THEN @ ELSE full(around, @)]
Conditions(t, around, m) ==
  LET Short(d) == IF IsSymbol(m) /\ entry[m].sym \notin Tristates THEN TransBool(d) ELSE d
      Full(base, e) == Short(Dups(Alloc("and", base, Transform(e))))
      Given(base) == [t EXCEPT !.dep[m] = base,
                               !.shown[m] = IF @ = Hidden THEN Hidden ELSE Full(base, @)]
      target == entry[m].select
      With(base) ==
        IF target = "-" THEN Given(base)
        ELSE [Given(base) EXCEPT !.rev[target] =
                Alloc("or", @, Alloc("and", SymbolOf(m), Full(base, NULL)))]
  IN With(Dups(Alloc("and", around, Transform(t.dep[m]))))

(* An entry that follows p: whether it belongs below p.                    *)
DepOf(m) == IF shown[m] # Hidden THEN shown[m] ELSE dep[m]
IsAsked(e) == Dups(Transform(TransCompare(e, "ne")))
MutBelongs(p, m) == Mentions(DepOf(m), entry[p].sym)
Belongs(p, m) ==
  /\ Mentions(DepOf(m), entry[p].sym)
  /\ \/ DependsOn(DepOf(m), entry[p].sym)
     \/ IsYes(EliminateEq(IsAsked(DepOf(m)),
                IsAsked(IF shown[p] # Hidden THEN shown[p] ELSE NULL)).y)

(* menu_finalize(p) begins with the conditions of the entries below it.    *)
RECURSIVE EachCondition(_, _, _)
EachCondition(t, around, m) ==
  IF m = Nil THEN t ELSE EachCondition(Conditions(t, around, m), around, next[m])
Applied(p) ==
  \E t \in {EachCondition([dep |-> dep, shown |-> shown, rev |-> revDep], Around(p), list[p])} :
    dep' = t.dep /\ shown' = t.shown /\ revDep' = t.rev

(* ... and ends, for a choice that is not optional, with its being at least*)
(* "m" where it is visible.                                                *)
Limited(p) ==
  /\ revDep' = IF IsChoice(p) /\ shown[p] # Hidden
               THEN [revDep EXCEPT ![entry[p].sym] = Alloc("or", @, Alloc("and", shown[p], M))]
               ELSE revDep
  /\ UNCHANGED <<dep, shown>>
-----------------------------------------------------------------------------
(* What sym_check_deps of s walks over: rev_dep, then the prompts, in the  *)
(* order declared.                                                         *)
RECURSIVE SymbolsIn(_)
SymbolsIn(e) ==
  CASE Both(e) -> SymbolsIn(e[2]) \o SymbolsIn(e[3])
    [] Of("not", e) -> SymbolsIn(e[2])
    [] Of("sym", e) -> <<e[2]>>
    [] Of("eq", e) \/ Of("ne", e) -> <<e[2], e[3]>>
    [] OTHER -> <<>>
DepsOf(s) ==
  SymbolsIn(revDep[s])
    \o FoldLeft(LAMBDA all, n : IF IsSymbol(n) /\ entry[n].sym = s /\ shown[n] # Hidden
                                THEN all \o SymbolsIn(shown[n]) ELSE all,
                <<>>, [i \in Declared |-> i])

Next ==
  \/ \E s \in Statements : Declare(s)
  \/ \E kind \in Blocks : End(kind) /\ UNCHANGED <<conditions, within, checkVars>>
  \/ \E f \in Files : Source(f) /\ UNCHANGED <<conditions, within, checkVars>>
  \/ EndFile /\ UNCHANGED <<conditions, within, checkVars>>
  \/ Finalize /\ Applied(Root) /\ UNCHANGED <<within, checkVars>>
  \/ Each /\ Applied(Following) /\ UNCHANGED <<within, checkVars>>
  \/ EachDone /\ UNCHANGED <<conditions, within, checkVars>>
  \/ Gather /\ Belongs(Caller, Following) /\ Applied(Following) /\ UNCHANGED <<within, checkVars>>
  \/ /\ GatherDone /\ (Following # Nil => ~Belongs(Caller, Following))
     /\ UNCHANGED <<conditions, within, checkVars>>
  \/ Dissolve /\ UNCHANGED <<conditions, within, checkVars>>
  \/ Return /\ Limited(Caller) /\ UNCHANGED <<within, checkVars>>
  \/ /\ phase = "finalized"
     /\ \E order \in Orders : Start([s \in Symbols |-> DepsOf(s)], order)
     /\ UNCHANGED <<treeVars, conditions, within>>
  \/ (Check \/ Visit \/ Leave) /\ UNCHANGED <<treeVars, conditions, within>>

Spec == Init /\ [][Next]_vars
-----------------------------------------------------------------------------
(* Properties.                                                             *)

Finalized == phase = "finalized" /\ ~Started

(* The value an entry's conditions have where it was declared: its own and *)
(* those of the blocks around it, up to a choice, which stands for its own.*)
RECURSIVE Meant(_, _), Inside(_, _)
Least(S) == CHOOSE x \in S : \A y \in S : x <= y
Own(n) == {CheckDep(entry[n].dep)} \cup
            (IF entry[n].prompt = Hidden THEN {} ELSE {CheckDep(entry[n].prompt)})
Inside(n, v) ==
  IF n = Nil THEN Yes ELSE IF IsChoice(n) THEN v[entry[n].sym] ELSE Meant(n, v)
Meant(n, v) == Least({Calc(e, v) : e \in Own(n)} \cup {Inside(within[n], v)})

(* An entry is asked about where all its conditions hold, however they were*)
(* joined, simplified and passed down; with a symbol at "m" it may be "n"  *)
(* instead, but is never asked where one of its conditions is "n".         *)
DependencyIsKept ==
  Finalized => \A n \in Declared : shown[n] # Hidden =>
    \A v \in Valuations :
      /\ Calc(shown[n], v) # No => Meant(n, v) # No
      /\ (\A s \in Symbols : v[s] # Mod) => Calc(shown[n], v) = Meant(n, v)

(* "the child entry must become invisible, if the parent is set to 'n'" or *)
(* "the child entry must only be visible, if the parent is visible".       *)
Below(p, m) == list[p] # Nil /\ m \in Chain(list[p])
SubmenuFollows ==
  Finalized => \A p, m \in Declared :
    entry[p].kind = "config" /\ Below(p, m) =>
      LET seen(n, v) == Calc(DepOf(n), v) # No
      IN \/ \A v \in Valuations : v[entry[p].sym] = No => ~seen(m, v)
         \/ \A v \in Valuations : seen(m, v) => shown[p] # Hidden /\ seen(p, v)
=============================================================================
