------------------------------ MODULE MenuTree ------------------------------
(***************************************************************************)
(* The tree of menu entries: the statements of Config.in files as zconf.y  *)
(* accepts them and menu.c links them, and how menu_finalize moves entries *)
(* below the option they depend on and dissolves the blocks without a      *)
(* prompt.  menu_finalize calls itself: stack holds a frame for every call.*)
(* Which entries depend on an option is left open here; Menu adds the      *)
(* conditions that decide it.                                              *)
(*                                                                         *)
(* A statement is read as a whole, with its options.  After an error the   *)
(* program reads on, to report more of them, and exits: here it stops.     *)
(***************************************************************************)
EXTENDS Naturals, Sequences, FiniteSets, SequencesExt

CONSTANTS
  Statements, \* what a file may declare: [kind, sym, dep, prompt, select]
  Files,      \* names of Config.in files
  Main,       \* the one on the command line
  MaxEntries  \* bound on the entries declared and files sourced

Blocks == {"menu", "if", "choice"}
ASSUME MenuAssumption ==
  /\ MaxEntries \in Nat /\ Main \in Files
  /\ \A s \in Statements : s.kind \in Blocks \cup {"config", "comment"}

Root == 1
Nil == 0
Entries == 1..(MaxEntries + 1)
Hidden == <<"no prompt">>

VARIABLES
  entry,    \* the statement of each entry, in the order declared
  list,     \* the first entry below each
  next,     \* the entry after it
  parent,   \* the entry it is below
  current,  \* current_menu
  last,     \* last_entry_ptr: an entry and "list" or "next"
  fileOf,   \* the file of each entry
  open,     \* the files being read, the innermost last
  scanned,  \* FILE_SCANNED
  stack,    \* calls of menu_finalize: [menu, stage, at], at the entry last come to
  phase     \* "reading", "failed", "exited", "finalizing" or "finalized"

links == <<list, next, parent>>
readVars == <<entry, current, last, fileOf, open, scanned>>
treeVars == <<readVars, links, stack, phase>>

Declared == DOMAIN entry
IsSymbol(n) == entry[n].kind \in {"config", "choice"}
IsChoice(n) == entry[n].kind = "choice"
Links == [Entries -> {Nil} \cup Entries]
Frames == [menu : Entries, stage : {"each", "gather", "dissolve"}, at : {Nil} \cup Entries]

(* menu_init and the prompt of rootmenu.                                   *)
RootMenu == [kind |-> "menu", sym |-> "-", dep |-> <<>>, prompt |-> <<>>, select |-> "-"]
TreeInit ==
  /\ entry = <<RootMenu>> /\ current = Root /\ last = <<Root, "list">>
  /\ list = [n \in Entries |-> Nil] /\ next = list /\ parent = list
  /\ fileOf = [n \in Entries |-> Main] /\ open = <<Main>> /\ scanned = {}
  /\ stack = <<>> /\ phase = "reading"
-----------------------------------------------------------------------------
(* Where the grammar allows a statement: a block of values holds no menu   *)
(* and no choice of its own.                                               *)
Allowed(kind) == IsChoice(current) => kind \notin {"menu", "choice"}

(* menu_add_entry, and menu_add_menu for what begins a block.              *)
LastPointer(s, n) == <<n, IF s.kind \in Blocks THEN "list" ELSE "next">>

Reading == phase = "reading" /\ open # <<>>
Bounded == Len(entry) + Len(open) + Cardinality(scanned) <= MaxEntries + 1

Link(s) ==
  /\ Reading /\ Allowed(s.kind) /\ Bounded
  /\ LET n == Len(entry) + 1
         from(way, links_) == IF last[2] = way THEN [links_ EXCEPT ![last[1]] = n] ELSE links_
     IN /\ entry' = Append(entry, s)
        /\ list' = from("list", list) /\ next' = from("next", next)
        /\ parent' = [parent EXCEPT ![n] = current]
        /\ fileOf' = [fileOf EXCEPT ![n] = Last(open)]
        /\ last' = LastPointer(s, n)
        /\ current' = IF s.kind \in Blocks THEN n ELSE current
  /\ UNCHANGED <<open, scanned, stack, phase>>

(* zconf_endtoken and menu_end_menu; the grammar has no end without a start.*)
MutMatches(kind) == entry[current].kind = kind /\ fileOf[current] = Last(open)
Matches(kind) ==
  current # Root /\ entry[current].kind = kind /\ fileOf[current] = Last(open)

End(kind) ==
  /\ Reading
  /\ IF Matches(kind)
     THEN last' = <<current, "next">> /\ current' = parent[current] /\ UNCHANGED phase
     ELSE phase' = "failed" /\ UNCHANGED <<current, last>>
  /\ UNCHANGED <<entry, links, fileOf, open, scanned, stack>>

(* zconf_nextfile: "recursive scan?", "already scanned?"                   *)
Source(f) ==
  /\ Reading /\ Bounded
  /\ IF f \in Range(open) \cup scanned THEN phase' = "exited" /\ UNCHANGED open
     ELSE open' = Append(open, f) /\ UNCHANGED phase
  /\ UNCHANGED <<entry, links, current, last, fileOf, scanned, stack>>

(* zconf_endfile; a block still open when the last file ends is an error.  *)
EndFile ==
  /\ Reading
  /\ open' = Front(open) /\ scanned' = scanned \cup {Last(open)}
  /\ phase' = IF Len(open) = 1 /\ current # Root THEN "failed" ELSE phase
  /\ UNCHANGED <<entry, links, current, last, fileOf, stack>>
-----------------------------------------------------------------------------
(* menu_finalize(m) is called: an entry with others below it, a symbol     *)
(* without any, or neither.                                                *)
Call(m) ==
  [menu |-> m, at |-> Nil,
   stage |-> IF list[m] # Nil THEN "each" ELSE IF IsSymbol(m) THEN "gather" ELSE "dissolve"]

Doing(stage) == stack # <<>> /\ Last(stack).stage = stage
Caller == Last(stack).menu

(* The entry its loop comes to: the "menu" of each of its three loops.     *)
Following ==
  CASE Last(stack).at # Nil -> next[Last(stack).at]
    [] Doing("gather") /\ Last(stack).at = Nil -> next[Caller]
    [] OTHER -> list[Caller]

Enter(m) == stack' = Append([stack EXCEPT ![Len(stack)].at = m], Call(m))
Then(stage) == stack' = [stack EXCEPT ![Len(stack)] = [@ EXCEPT !.stage = stage, !.at = Nil]]

(* conf_parse, once everything is read.                                    *)
Finalize ==
  /\ phase = "reading" /\ open = <<>> /\ current = Root
  /\ stack' = <<Call(Root)>> /\ phase' = "finalizing"
  /\ UNCHANGED <<readVars, links>>

(* Every entry below the caller's menu is finalized.                       *)
Each ==
  /\ Doing("each") /\ Following # Nil /\ Enter(Following)
  /\ UNCHANGED <<readVars, links, phase>>
EachDone ==
  /\ Doing("each") /\ Following = Nil /\ Then("dissolve")
  /\ UNCHANGED <<readVars, links, phase>>

(* The entries that follow an option move below it, up to the first that   *)
(* does not belong there; each is finalized before its parent is set.      *)
Gather ==
  /\ Doing("gather") /\ Following # Nil /\ Enter(Following)
  /\ UNCHANGED <<readVars, links, phase>>
MutGathered(p, at) ==
  IF at = Nil THEN UNCHANGED <<list, next>>
  ELSE list' = [list EXCEPT ![p] = next[p]] /\ next' = [next EXCEPT ![p] = next[at]]
Gathered(p, at) ==
  IF at = Nil THEN UNCHANGED <<list, next>>
  ELSE /\ list' = [list EXCEPT ![p] = next[p]]
       /\ next' = [next EXCEPT ![p] = next[at], ![at] = Nil]
GatherDone ==
  /\ Doing("gather") /\ Gathered(Caller, Last(stack).at) /\ Then("dissolve")
  /\ UNCHANGED <<readVars, parent, phase>>

(* The entries met from n on by following next.                            *)
Chain(n) ==
  {m \in Declared : \A S \in SUBSET Declared :
     n \in S /\ (\A x \in S : next[x] # Nil => next[x] \in S) => m \in S}
EndOf(chain) == CHOOSE m \in chain : next[m] = Nil

(* What is below an entry without a prompt follows it instead.             *)
Dissolve ==
  /\ Doing("dissolve") /\ Following # Nil
  /\ stack' = [stack EXCEPT ![Len(stack)].at = Following]
  /\ LET m == Following
         below == Chain(list[m])
     IN IF list[m] = Nil \/ entry[m].prompt # Hidden THEN UNCHANGED links
        ELSE /\ list' = [list EXCEPT ![m] = Nil]
             /\ next' = [next EXCEPT ![EndOf(below)] = next[m], ![m] = list[m]]
             /\ parent' = [n \in Entries |-> IF n \in below THEN Caller ELSE parent[n]]
  /\ UNCHANGED <<readVars, phase>>

(* menu_finalize returns, at last to conf_parse.                           *)
Return ==
  /\ Doing("dissolve") /\ Following = Nil
  /\ stack' = Front(stack)
  /\ LET caller == Last(stack')
     IN parent' = IF stack' # <<>> /\ caller.stage = "gather"
                  THEN [parent EXCEPT ![Caller] = caller.menu] ELSE parent
  /\ phase' = IF stack' = <<>> THEN "finalized" ELSE phase
  /\ UNCHANGED <<readVars, list, next>>

TreeNext ==
  \/ \E s \in Statements : Link(s)
  \/ \E kind \in Blocks : End(kind)
  \/ \E f \in Files : Source(f)
  \/ EndFile \/ Finalize
  \/ Each \/ EachDone \/ Gather \/ GatherDone \/ Dissolve \/ Return

TreeSpec == TreeInit /\ [][TreeNext]_treeVars
-----------------------------------------------------------------------------
TypeOK ==
  /\ Len(entry) \in Entries /\ entry \in Seq(Statements \cup {RootMenu})
  /\ list \in Links /\ next \in Links /\ parent \in Links
  /\ current \in Declared /\ last \in Declared \X {"list", "next"}
  /\ fileOf \in [Entries -> Files] /\ open \in Seq(Files) /\ scanned \subseteq Files
  /\ stack \in Seq(Frames)
  /\ phase \in {"reading", "failed", "exited", "finalizing", "finalized"}

(* The walk that conf_write and the front ends make: down, then on, then   *)
(* up to the next entry of a menu around.                                  *)
After[n \in Declared] ==
  IF next[n] # Nil THEN next[n] ELSE IF n = Root THEN Nil ELSE After[parent[n]]
Walk(n) == IF list[n] # Nil THEN list[n] ELSE After[n]

(* However entries are moved, no entry is lost, none is met twice, and a   *)
(* walk through the menus meets them in the order they were declared; each *)
(* knows the entry it is below.                                            *)
TreeIsKept ==
  phase \in {"reading", "finalized"} =>
    /\ \A n \in Declared \ {Root} : parent[n] \in 1..(n - 1)
    /\ \A n \in Declared : Walk(n) = IF n = Len(entry) THEN Nil ELSE n + 1
    /\ \A n \in Declared :
         /\ list[n] # Nil => parent[list[n]] = n
         /\ next[n] # Nil => parent[next[n]] = parent[n]
=============================================================================
