--------------------------- MODULE MCPackageBuild ---------------------------
(* The instances TLC checks: a library alone, and a library, made for the  *)
(* host or for the target, with the application that depends on it.        *)
EXTENDS PackageBuild

CONSTANTS lib, app

DepsOfTwo == [p \in {lib, app} |-> IF p = app THEN <<lib>> ELSE <<>>]
LevelOfTwo == [p \in {lib, app} |-> IF p = app THEN 1 ELSE 0]
TargetsOfTwo == <<app, lib>>

DepsOfOne == [p \in {lib} |-> <<>>]
LevelOfOne == [p \in {lib} |-> 0]
TargetsOfOne == <<lib>>
=============================================================================
