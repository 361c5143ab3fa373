------------------------------ MODULE DepCheck ------------------------------
(***************************************************************************)
(* sym_check_deps of symbol.c: a walk over the symbols that each symbol's  *)
(* conditions test, which reports those that depend on themselves.  It     *)
(* calls itself: path holds a frame for every call, and the symbols in its *)
(* frames are those with SYMBOL_CHECK.                                     *)
(***************************************************************************)
EXTENDS ExprTests

VARIABLES
  deps,     \* the symbols each one's conditions test, in order; NULL before the check
  queue,    \* symbols that conf_parse has still to check
  path,     \* calls of sym_check_deps: [sym, seen], seen of its deps have been checked
  checked,  \* SYMBOL_CHECKED
  met,      \* the sym2 that is returned: a symbol met again on the path, or "-"
  named     \* symbols named in warnings of recursive dependencies

checkVars == <<deps, queue, path, checked, met, named>>

Started == deps # NULL
CheckDone == Started /\ queue = <<>> /\ path = <<>>

CheckInit ==
  /\ deps = NULL /\ queue = <<>> /\ path = <<>>
  /\ checked = {} /\ met = "-" /\ named = {}

(* conf_parse, for_all_symbols: in the order of a hash table.              *)
Start(graph, order) ==
  /\ ~Started
  /\ deps' = graph /\ queue' = order
  /\ UNCHANGED <<path, checked, met, named>>

MutMet(s) == FALSE
Met(s) == \E i \in DOMAIN path : path[i].sym = s
Called(s, calls) ==
  IF s \in checked \cup Constants THEN path' = calls /\ UNCHANGED checked
  ELSE path' = Append(calls, [sym |-> s, seen |-> 0]) /\ checked' = checked \cup {s}

Check ==
  /\ path = <<>> /\ queue # <<>>
  /\ Called(Head(queue), path) /\ queue' = Tail(queue)
  /\ UNCHANGED <<deps, met, named>>

(* The next symbol of an expression, until one is met again.               *)
Frame == path[Len(path)]
Visit ==
  /\ path # <<>> /\ met = "-" /\ Frame.seen < Len(deps[Frame.sym])
  /\ LET s == deps[Frame.sym][Frame.seen + 1]
         calls == [path EXCEPT ![Len(path)].seen = @ + 1]
     IN IF Met(s) THEN met' = s /\ path' = calls /\ UNCHANGED checked
        ELSE Called(s, calls) /\ UNCHANGED met
  /\ UNCHANGED <<deps, queue, named>>

(* sym_check_deps returns: on the way back to the symbol that was met, each*)
(* is named.                                                               *)
Leave ==
  /\ path # <<>> /\ (met # "-" \/ Frame.seen = Len(deps[Frame.sym]))
  /\ path' = SubSeq(path, 1, Len(path) - 1)
  /\ named' = IF met = "-" THEN named ELSE named \cup {Frame.sym}
  /\ met' = IF met = Frame.sym THEN "-" ELSE met
  /\ UNCHANGED <<deps, queue, checked>>

Graphs == [Symbols -> Seq(Symbols \cup Constants)]
HashOrders == {order \in Seq(Symbols) : \A s \in Symbols : \E i \in DOMAIN order : order[i] = s}

CheckNext ==
  \/ \E graph \in Graphs, order \in HashOrders : Start(graph, order)
  \/ Check \/ Visit \/ Leave

CheckSpec == CheckInit /\ [][CheckNext]_checkVars
-----------------------------------------------------------------------------
Edge(s, t) == \E i \in DOMAIN deps[s] : deps[s][i] = t

(* t is in every set that holds what s depends on and what its members     *)
(* depend on.                                                              *)
Reaches(s, t) ==
  \A S \in SUBSET Symbols :
    (\A x \in S \cup {s}, y \in Symbols : Edge(x, y) => y \in S) => t \in S

(* A dependency of symbols on themselves is reported: no cycle is made only*)
(* of symbols that are not named, and each that is named is on a cycle.    *)
CyclesAreNamed ==
  CheckDone =>
    /\ \A S \in SUBSET (Symbols \ named) :
         S # {} => \E s \in S : \A t \in S : ~Edge(s, t)
    /\ \A s \in named : Reaches(s, s)
=============================================================================
