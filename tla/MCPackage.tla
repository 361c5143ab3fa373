----------------------------- MODULE MCPackage -----------------------------
(* Small instances of Package.                                             *)
EXTENDS Package

CONSTANTS lib, app, tool

(* app needs lib; tool needs nothing.                                      *)
MCPackages == {lib, app}
MCPackages3 == {lib, app, tool}
MCDependances == [p \in MCPackages |-> IF p = app THEN {lib} ELSE {}]
MCDependances3 == [p \in MCPackages3 |-> IF p = app THEN {lib} ELSE {}]

AllTar == [p \in MCPackages |-> "tar"]
LibFile == [p \in MCPackages |-> IF p = lib THEN "file" ELSE "tar"]
OneOfEach == [p \in MCPackages3 |-> CASE p = lib -> "git" [] p = app -> "tar"
                                      [] p = tool -> "file"]
=============================================================================
