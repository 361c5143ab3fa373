---------------------------- MODULE MCConfdata ----------------------------
(* Small trees of Config.in files for Confdata.                            *)
EXTENDS Confdata

CONSTANTS mods, core, net, usb, gate, one, two, group

IfM == {{<<M, Identity>>}}
Free(S) == [s \in S |-> Always]
NoDefaults(S) == [s \in S |-> <<>>]
NoMembers == [c \in {} |-> <<>>]
DefaultTo(e) == << [when |-> Always, value |-> e] >>

(* Modules: core, on as a module by default, net that needs core, and usb, *)
(* a tristate that selects core.                                           *)
TreeOptions == {mods, core, net, usb}
TreeDepends == [Free(TreeOptions) EXCEPT ![net] = If(core)]
TreeAsks == Free(TreeOptions)
TreeDefaults == [NoDefaults(TreeOptions) EXCEPT
                   ![core] = DefaultTo(And(IfM, If(mods))),
                   ![net] = DefaultTo(Always)]
TreeSelects == { [by |-> usb, target |-> core, when |-> Always] }

(* A bool choice between two options, the second only there with gate, and *)
(* an option that needs the second.                                        *)
ChoiceOptions == {gate, one, two, net}
ChoiceSyms == ChoiceOptions \cup {group}
ChoiceMembers == [c \in {group} |-> <<one, two>>]
ChoiceDepends == [Free(ChoiceSyms) EXCEPT ![two] = If(gate), ![net] = If(two)]
ChoiceAsks == Free(ChoiceSyms)
ChoiceDefaults == [NoDefaults(ChoiceSyms) EXCEPT
                     ![group] = << [when |-> If(gate), pick |-> two] >>]

(* A tristate choice whose values need gate.                               *)
DriverOptions == {mods, gate, one, two}
DriverSyms == DriverOptions \cup {group}
DriverDepends == [Free(DriverSyms) EXCEPT ![one] = If(gate), ![two] = If(gate)]
DriverAsks == Free(DriverSyms)
DriverDefaults == NoDefaults(DriverSyms)

(* net has no prompt: it is on with core.                                  *)
HiddenAsks == [Free(TreeOptions) EXCEPT ![net] = Never]

(* usb is a bool that needs net and selects core.                          *)
BoolDepends == [Free(TreeOptions) EXCEPT ![usb] = If(net)]

(* gate selects a value of the choice.                                     *)
MemberSelects == { [by |-> gate, target |-> one, when |-> Always] }
=============================================================================
