-------------------------- MODULE DependencyOrder --------------------------
(***************************************************************************)
(* What the package infrastructure promises to the author of a package, in *)
(* terms of packages and not of stamp files: a package is configured only  *)
(* when all its dependencies are installed, and installed only after it    *)
(* was configured.  Anything may be undone at any time, but nothing is     *)
(* redone out of order.                                                    *)
(***************************************************************************)
CONSTANTS Pkgs,     \* packages
          Deps,     \* Deps[p]: the set of packages p depends on
          Virtual   \* packages that install nothing

VARIABLES configured,  \* packages that are configured
          installed    \* packages whose files are installed

Init == configured = {} /\ installed = Virtual

Configure(p) ==
  /\ Deps[p] \subseteq installed
  /\ configured' = configured \cup {p}
  /\ UNCHANGED installed

Install(p) ==
  /\ p \in configured
  /\ installed' = installed \cup {p}
  /\ UNCHANGED configured

\* Sources removed, files uninstalled, stamps deleted.
Undo ==
  /\ configured' \subseteq configured
  /\ installed' \subseteq installed

Next == Undo \/ \E p \in Pkgs : Configure(p) \/ Install(p)

Spec == Init /\ [][Next]_<<configured, installed>>
=============================================================================
