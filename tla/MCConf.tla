------------------------------- MODULE MCConf -------------------------------
(* A small tree of menus for Conf.                                         *)
EXTENDS Conf

CONSTANTS root, drivers, core, usb, one, two, extra, group, net

(* core comes last; what is asked before it needs it: the second value of a*)
(* choice, and usb in a menu of its own.  extra is asked below the second  *)
(* value and selects usb.  core is a "menuconfig", with net in its menu.   *)
TreeOptions == {core, usb, one, two, extra, net}
TreeSymbols == TreeOptions \cup {group}
TreeMembers == [c \in {group} |-> <<one, two>>]
TreeDepends == [s \in TreeSymbols |->
                  CASE s \in {usb, two, net} -> If(core)
                    [] s = extra -> And(If(two), If(group)) [] OTHER -> Always]
TreeAsks == [s \in TreeSymbols |-> Always]
TreeDefaults == [s \in TreeSymbols |->
                   IF s = group THEN << [when |-> If(core), pick |-> two] >> ELSE <<>>]
TreeSelects == { [by |-> extra, target |-> usb, when |-> Always] }
TreeChildren ==
  [n \in TreeSymbols \cup {root, drivers} |->
     CASE n = root -> <<group, drivers, core>> [] n = drivers -> <<usb>>
       [] n = group -> <<one, two>> [] n = two -> <<extra>>
       [] n = core -> <<net>> [] OTHER -> <<>>]
TreeShows == [m \in {root, drivers} |-> IF m = drivers THEN If(core) ELSE Always]

(* The lines for usb and extra, where there are any, say n and y; there is *)
(* none for net.                                                           *)
TreeFiles ==
  {f \in Files : f[usb] # Yes /\ f[extra] # No /\ f[net] = Unset} \cup {Absent}

(* usb comes first; extra, which selects it, is not asked: it is "y" if    *)
(* core is, and core is "y" until it is asked.                             *)
AutoOptions == {core, usb, extra}
AutoMembers == [c \in {} |-> <<>>]
AutoDepends == [s \in AutoOptions |-> IF s = extra THEN If(core) ELSE Always]
AutoAsks == [s \in AutoOptions |-> IF s = extra THEN Never ELSE Always]
AutoDefaults ==
  [s \in AutoOptions |-> IF s = usb THEN <<>> ELSE << [when |-> Always, value |-> Always] >>]
AutoChildren ==
  [n \in AutoOptions \cup {root} |->
     CASE n = root -> <<usb, core>> [] n = core -> <<extra>> [] OTHER -> <<>>]
AutoShows == [m \in {root} |-> Always]
=============================================================================
