-------------------------------- MODULE Conf --------------------------------
(***************************************************************************)
(* scripts/kconfig/conf.c: the line-by-line dialogue behind "make config", *)
(* "oldconfig", "silentoldconfig", "defconfig" and "all*config".  It walks *)
(* the menu tree, answers or asks what it meets, starts over while         *)
(* check_conf finds something new, and writes .config.                     *)
(*                                                                         *)
(* The values shown are Kconfig's Meaning of what was asked so far, which  *)
(* Confdata!KeptIsMeant promises of symbol.c.  The calls of conf,          *)
(* check_conf, conf_sym and conf_choice that are still to come are a list  *)
(* of tasks.  An end of input is an empty line; a line that is not         *)
(* understood, a "?" and a refused answer leave the state as it is.        *)
(* Comments, which are only printed, are left out.                         *)
(***************************************************************************)
EXTENDS ConfigFile, FiniteSets

CONSTANTS
  Menus,     \* nodes of the tree that are no symbol: "mainmenu" and "menu"
  MenuConfigs, \* options declared by "menuconfig": their prompt is a menu's
  Root,      \* rootmenu
  Children,  \* the list of each node after menu_finalize, in order
  Shows,     \* the dependency of each menu
  Absent,    \* no .config
  FirstFiles \* bound: the .config files the program may start from

Nodes == Menus \cup Symbols

(* What has a prompt of type P_MENU.                                       *)
Titled == Menus \cup MenuConfigs

ASSUME TreeAssumption ==
  /\ Root \in Menus /\ Menus \cap Symbols = {} /\ MenuConfigs \subseteq Options
  /\ FirstFiles \subseteq Files \cup {Absent}
  /\ Children \in [Nodes -> Seq(Nodes \ {Root})]
  /\ \A c \in ChoiceSymbols :
       \A i \in DOMAIN Children[c] : Children[c][i] \in Range(Members[c])

Quiet == {"set_default", "set_no", "set_mod", "set_yes", "set_random"}
Modes == Quiet \cup {"ask_all", "ask_new", "ask_silent"}

VARIABLES
  config,    \* .config: a value for each option, Unset, or Absent
  mode,      \* input_mode
  terminal,  \* valid_stdin
  user, wish, fresh,
  now,       \* the value of each symbol
  todo,      \* calls to come, the next one first
  top,       \* rootEntry
  found,     \* check_conf has to run (again): conf_cnt is not 0
  phase,     \* how far the program is
  started,   \* history: the mode asked for
  before,    \* history: the values after conf_read
  open,      \* history: the symbols the file left open
  answered   \* history: someone was asked, or a rule chose, a value

asked == <<user, wish, fresh>>
history == <<started, before, open, answered>>
vars == <<config, mode, terminal, asked, now, todo, top, found, phase, history>>

Task == [do : {"conf", "check", "sym", "settle", "pick", "childs"}, node : Nodes,
         new : BOOLEAN]

TypeOK ==
  /\ config # Absent => \A s \in Options : config[s] \in Lines(s)
  /\ open \subseteq Symbols
  /\ mode \in Modes /\ terminal \in BOOLEAN
  /\ user \in [Symbols -> Tri] /\ fresh \subseteq Symbols
  /\ wish \in [ChoiceSymbols -> Options \cup {None}]
  /\ \A s \in Symbols : now[s].tri \in Tri
  /\ todo \in Seq(Task) /\ top \in Titled /\ {found, answered} \subseteq BOOLEAN
  /\ phase \in {"start", "reading", "forgetting", "calculating", "asking",
                "written", "aborted"}
-----------------------------------------------------------------------------
(* What symbol.c and menu.c answer.                                        *)
Value(e) == Eval(e, [a \in Atoms(e) |-> IF a = M THEN Mod ELSE now[a].tri])
NoModules == Modules = None \/ now[Modules].tri = No

Visible(s) == Promote(Value(Prompt[s]), s \notin Tristate \/ NoModules)
IsBool(s) == s \notin Tristate \/ NoModules \/ (s \in MemberSet /\ Visible(s) = Yes)
Least(s) == IF s \in MemberSet THEN No ELSE Promote(Value(Select[s]), IsBool(s))

(* sym_is_changable                                                        *)
Changable(s) == Visible(s) > Least(s)

(* sym_tristate_within_range                                               *)
InRange(s, val) ==
  /\ Changable(s)
  /\ ~(IsBool(s) /\ val = Mod)
  /\ IF s \in MemberSet /\ Visible(s) = Yes THEN val = Yes
     ELSE Least(s) <= val /\ val <= Visible(s)

(* menu_is_visible                                                         *)
Seen(node) ==
  LET seen[n \in Nodes] ==
        IF n \in Menus THEN Value(Shows[n]) # No
        ELSE /\ Prompt[n] # Never
             /\ \/ Visible(n) # No
                \/ now[n].tri # No /\ \E i \in DOMAIN Children[n] : seen[Children[n][i]]
  IN seen[node]

(* menu_get_parent_menu                                                    *)
MutParentMenu(node) ==
  IF node \in Titled THEN node
  ELSE CHOOSE p \in Nodes : \E i \in DOMAIN Children[p] : Children[p][i] = node
ParentMenu(node) ==
  LET up[n \in Nodes] ==
        IF n \in Titled THEN n
        ELSE up[CHOOSE p \in Nodes : \E i \in DOMAIN Children[p] : Children[p][i] = n]
  IN up[node]

(* sym_set_tristate_value, for a value in range or the present one.        *)
Set(s, val) ==
  LET chosen == s \in MemberSet /\ val = Yes
      c == ChoiceOf(s)
      u == [user EXCEPT ![s] = val]
      f == fresh \ IF chosen THEN {s, c} \cup {m \in Range(Members[c]) : Visible(m) # No}
                   ELSE {s}
      w == IF chosen THEN [wish EXCEPT ![c] = s] ELSE wish
  IN user' = u /\ fresh' = f /\ wish' = w /\ now' = Meaning(u, f, w)
-----------------------------------------------------------------------------
(* The start of main: .config is read, for "all*config" when there is one; *)
(* for "defconfig" it is the file named that is read, and has to be there. *)
Unread ==
  /\ user' = [s \in Symbols |-> No] /\ wish' = [c \in ChoiceSymbols |-> None]
  /\ fresh' = Symbols
Read(file) ==
  /\ user' = LoadedUser(file) /\ wish' = LoadedWish(file) /\ fresh' = LoadedFresh(file)

(* When there is no .config, conf_read(NULL) opens /dev/null.              *)
Opened == IF config = Absent THEN [s \in Options |-> Unset] ELSE config

Call(what, n) == [do |-> what, node |-> n, new |-> FALSE]
Calls(what, nodes) == [i \in DOMAIN nodes |-> Call(what, nodes[i])]
Then(tasks) == todo' = tasks \o Tail(todo)

(* "make silentoldconfig" does without the first walk.                     *)
Start(m, tty) ==
  /\ phase = "start"
  /\ mode' = m /\ terminal' = (tty \/ m # "ask_silent")
  /\ IF m \in Quiet \ {"set_default"}
     THEN phase' = "calculating" /\ (Unread \/ (config # Absent /\ Read(config)))
     ELSE IF config # Absent \/ m \in {"ask_all", "ask_new"}
     THEN phase' = "reading" /\ Read(Opened)
     ELSE phase' = "aborted" /\ Unread
  /\ todo' = << Call(IF m = "ask_silent" THEN "check" ELSE "conf", Root) >>
  /\ top' = Root /\ found' = (m # "ask_silent")
  /\ started' = m /\ answered' = FALSE
  /\ UNCHANGED <<config, now, before, open>>

(* conf_read calculates every symbol and forgets; conf_read_simple leaves  *)
(* that to whoever asks first.                                             *)
Calculate ==
  /\ phase \in {"reading", "calculating"}
  /\ phase' = IF phase = "reading" THEN "forgetting" ELSE "asking"
  /\ now' = Meaning(user, fresh, wish) /\ before' = now'
  /\ open' = fresh
  /\ UNCHANGED <<config, mode, terminal, asked, todo, top, found, started, answered>>
Forget ==
  /\ phase = "forgetting" /\ phase' = "calculating"
  /\ fresh' = Forgotten(fresh, [s \in Symbols |-> Visible(s)])
  /\ UNCHANGED <<config, mode, terminal, user, wish, now, todo, top, found, history>>

Running(what) == phase = "asking" /\ todo # <<>> /\ Head(todo).do = what
Node == Head(todo).node

(* conf(), which leaves a menu within the one it is in to check_conf.      *)
Enter ==
  /\ Running("conf")
  /\ IF ~Seen(Node) THEN Then(<<>>)
     ELSE IF Node \in Titled /\ mode = "ask_silent" /\ top # Node
     THEN Then(<<Call("check", Node)>>)
     ELSE CASE Node \in Menus -> Then(Calls("conf", Children[Node]))
            [] Node \in ChoiceSymbols ->
                 Then((IF Changable(Node) THEN <<Call("sym", Node)>> ELSE <<>>)
                        \o << [Call("settle", Node) EXCEPT !.new = Node \in fresh],
                              Call("childs", Node) >>)
            [] Node \in Options ->
                 Then(<<Call("sym", Node)>> \o Calls("conf", Children[Node]))
  /\ UNCHANGED <<config, mode, terminal, asked, now, top, found, phase, history>>

(* conf_askvalue: whether a line is read for s, or a rule of the mode      *)
(* chooses; otherwise the line is empty and the value stays.               *)
IsAsked(s) ==
  Changable(s) /\ (mode = "ask_all" \/ (mode \in {"ask_new", "ask_silent"} /\ s \in fresh))
IsRuled(s) == Changable(s) /\ mode \in Quiet \ {"set_default"} /\ s \in fresh

(* The cases fall through: the first value in range, or one at random.     *)
ByRule(s) ==
  LET middle == IF IsBool(s) THEN Yes ELSE Mod
      order == CASE mode = "set_yes" -> <<Yes, middle, No>>
                 [] mode = "set_mod" -> <<middle, No>>
                 [] mode = "set_no" -> <<No>>
                 [] mode = "set_random" -> <<>>
      fit == {i \in DOMAIN order : InRange(s, order[i])}
  IN IF fit = {} THEN {v \in Tri : InRange(s, v)} ELSE {order[Min(fit)]}

(* conf_sym: what the line may make of s.                                  *)
Answers(s) ==
  CASE IsAsked(s) -> {now[s].tri} \cup {v \in Tri : InRange(s, v)}
    [] IsRuled(s) -> ByRule(s)
    [] OTHER -> {now[s].tri}

(* check_stdin                                                             *)
NoOneToAsk(asking) == asking /\ mode = "ask_silent" /\ ~terminal
Abort ==
  /\ phase' = "aborted"
  /\ UNCHANGED <<config, mode, terminal, asked, now, todo, top, found, history>>

ConfSym ==
  /\ Running("sym")
  /\ LET s == Node
     IN IF NoOneToAsk(IsAsked(s)) THEN Abort
        ELSE /\ \E val \in Answers(s) : Set(s, val)
             /\ answered' = (answered \/ IsAsked(s) \/ IsRuled(s))
             /\ Then(<<>>)
             /\ UNCHANGED <<config, mode, terminal, top, found, phase, started, before, open>>

(* The middle of conf_choice: only a choice at "y" is one of its values.   *)
Settle ==
  /\ Running("settle")
  /\ Then(IF now[Node].tri = Yes THEN <<[Head(todo) EXCEPT !.do = "pick"]>> ELSE <<>>)
  /\ UNCHANGED <<config, mode, terminal, asked, now, top, found, phase, history>>

(* The loop of conf_choice: which of the values seen is taken.  A number   *)
(* that names none asks again.                                             *)
MutTaken(c, seen, asking) ==
  IF asking \/ mode = "set_random" \/ seen = {} THEN seen
  ELSE {Children[c][Min({i \in DOMAIN Children[c] : Children[c][i] \in seen})]}
Taken(c, seen, asking) ==
  IF Cardinality(seen) = 1 \/ asking \/ mode = "set_random" THEN seen
  ELSE seen \cap {now[c].pick}

(* Below the value that is set, only the first node is entered.            *)
ConfChoice ==
  /\ Running("pick")
  /\ LET c == Node
         seen == {n \in Range(Children[c]) : Seen(n)}
         asking == Cardinality(seen) # 1 /\ (mode = "ask_all" \/
                     (mode \in {"ask_new", "ask_silent"} /\ Head(todo).new))
     IN IF NoOneToAsk(asking) THEN Abort
        ELSE /\ \E val \in Taken(c, seen, asking) :
                  /\ IF now[val].tri = Yes \/ InRange(val, Yes)
                     THEN Set(val, Yes) ELSE UNCHANGED <<asked, now>>
                  /\ Then(LET below == Children[val]
                          IN IF below = <<>> THEN <<>> ELSE <<Call("conf", Head(below))>>)
             /\ answered' = (answered \/ asking \/ mode = "set_random")
             /\ UNCHANGED <<config, mode, terminal, top, found, phase, started, before, open>>

(* Back in conf(): the values of a choice at "m" are options of their own. *)
Childs ==
  /\ Running("childs")
  /\ Then(IF now[Node].tri = Mod THEN Calls("conf", Children[Node]) ELSE <<>>)
  /\ UNCHANGED <<config, mode, terminal, asked, now, top, found, phase, history>>

(* check_conf()                                                            *)
Check ==
  /\ Running("check")
  /\ LET n == Node
         new == n \in fresh /\ (Changable(n) \/ (n \in ChoiceSymbols /\ now[n].tri = Yes))
         below == Calls("check", Children[n])
     IN CASE ~Seen(n) -> Then(<<>>) /\ UNCHANGED <<top, found>>
          [] Seen(n) /\ new ->
               /\ Then(<<Call("conf", ParentMenu(n))>> \o below)
               /\ top' = ParentMenu(n) /\ found' = TRUE
          [] OTHER -> Then(below) /\ UNCHANGED <<top, found>>
  /\ UNCHANGED <<config, mode, terminal, asked, now, phase, history>>

(* main: check_conf follows the first walk, and itself while it found      *)
(* something; then .config is written.                                     *)
MutAgain ==
  /\ phase = "asking" /\ todo = <<>> /\ found /\ todo' = <<>>
  /\ found' = FALSE
  /\ UNCHANGED <<config, mode, terminal, asked, now, top, phase, history>>
MutCount ==
  /\ phase = "asking" /\ todo = <<>> /\ found
  /\ todo' = <<Call("check", Root)>>
  /\ mode' = IF mode = "ask_all" THEN "ask_silent" ELSE mode
  /\ UNCHANGED <<config, terminal, asked, now, top, found, phase, history>>
Again ==
  /\ phase = "asking" /\ todo = <<>> /\ found
  /\ todo' = <<Call("check", Root)>> /\ found' = FALSE
  /\ mode' = IF mode = "ask_all" THEN "ask_silent" ELSE mode
  /\ UNCHANGED <<config, terminal, asked, now, top, phase, history>>

Write ==
  /\ phase = "asking" /\ todo = <<>> /\ ~found
  /\ config' = [s \in Options |-> now[s].tri]
  /\ phase' = "written"
  /\ UNCHANGED <<mode, terminal, asked, now, todo, top, found, history>>

Step == Calculate \/ Forget \/ Enter \/ ConfSym \/ Settle \/ ConfChoice \/ Childs \/ Check \/ Again \/ Write

Unasked ==
  Meaning([s \in Symbols |-> No], Symbols, [c \in ChoiceSymbols |-> None])

Init ==
  /\ config \in FirstFiles
  /\ phase = "start"
  /\ mode = "ask_all" /\ terminal = TRUE
  /\ user = [s \in Symbols |-> No] /\ wish = [c \in ChoiceSymbols |-> None]
  /\ fresh = Symbols /\ now = Unasked
  /\ todo = <<>> /\ top = Root /\ found = FALSE
  /\ started = mode /\ before = now /\ open = fresh /\ answered = FALSE

Next == Step \/ \E m \in Modes, tty \in BOOLEAN : Start(m, tty)

(* The program runs, and whoever is asked gives an answer in the end.      *)
Fairness == WF_vars(Step)
Spec == Init /\ [][Next]_vars /\ Fairness
-----------------------------------------------------------------------------
(* Properties.                                                             *)

Written == phase = "written"

(* No question is left: what .config is written from has no symbol that    *)
(* the user could see and set and was never asked about, however answers   *)
(* made others appear behind the place the walk had reached.               *)
AllAsked ==
  Written => \A s \in Symbols : Seen(s) /\ Changable(s) => s \notin fresh

(* A run that asked nobody and chose nothing writes the values it read:    *)
(* pressing on through what is known, with the pinning of each value and of*)
(* each choice, moves none.                                                *)
UnaskedIsUnchanged ==
  Written /\ ~answered => \A s \in Options : config[s] = before[s].tri

(* "All options are accepted with yes", or with no: of what .config leaves *)
(* open, no bool that could be set is left unset, though its limits rose   *)
(* and fell while the walk went on; a tristate is not left out.  With no,  *)
(* nothing is set that has no default and is not selected.                 *)
RuleIsKept ==
  Written =>
    \A s \in open \cap (Options \ MemberSet) :
      /\ started = "set_yes" /\ InRange(s, Yes) =>
           IF IsBool(s) THEN now[s].tri = Yes ELSE now[s].tri # No
      /\ started = "set_no" /\ InRange(s, No) =>
           now[s].tri = No \/ Defaults[s] # <<>> \/ \E d \in Selects : d.target = s

(* "New config where all options are answered with no": what could be "n"  *)
(* in the end is, also what was selected when the walk came to it.         *)
AllAreAnsweredNo ==
  Written /\ started = "set_no" =>
    \A s \in open \cap (Options \ MemberSet) : InRange(s, No) => now[s].tri = No

(* The dialogue ends, however often it starts over.                        *)
DialogueEnds == phase # "start" ~> phase \in {"written", "aborted"}
=============================================================================
