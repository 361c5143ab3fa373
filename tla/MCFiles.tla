------------------------------ MODULE MCFiles ------------------------------
(***************************************************************************)
(* The two programs that replace files others rely on: conf and mconf, who *)
(* save the configuration (ConfWrite), and install (Install).  They have   *)
(* no file in common, so a behaviour is one of the one or of the other.    *)
(***************************************************************************)
EXTENDS ConfWrite, Install

VARIABLE program

Plain == [kind |-> "file", dir |-> <<"etc">>, name |-> "conf", from |-> "conf",
          deep |-> FALSE, backup |-> "numbered", preserve |-> FALSE]
Commands == [j \in Jobs |->
  CASE j = "lib" -> [Plain EXCEPT !.kind = "directory", !.dir = <<"usr", "lib">>]
    [] j = "bin" -> [Plain EXCEPT !.dir = <<"usr", "bin">>, !.name = "tool",
                       !.from = "tool.sh", !.deep = TRUE, !.backup = "none",
                       !.preserve = TRUE]
    [] j = "conf" -> Plain]
Etc == {<<"etc">>}
EtcConf == {[dir |-> <<"etc">>, name |-> "conf", suffix |-> 0]}

all == <<program, saveVars, vars>>

FilesInit ==
  /\ program \in {"conf", "install"} /\ SaveInit /\ Init
  /\ program = "install" => ~include

Saves == program = "conf" /\ SaveNext /\ UNCHANGED <<program, vars>>
Runs(A) == program = "install" /\ A /\ UNCHANGED <<program, saveVars>>

FilesNext == Saves \/ Runs(Next)

FilesSpec ==
  /\ FilesInit /\ [][FilesNext]_all
  /\ WF_all(Runs(Again))
  /\ \A j \in Jobs : WF_all(Runs(Step(j)))

(* As stated in Install, of the behaviours that are its own: in the end    *)
(* everything is installed, whatever a stopped run left behind.            *)
InstallEnds == program = "install" => InstalledInTheEnd
=============================================================================
