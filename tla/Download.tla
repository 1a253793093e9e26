------------------------------ MODULE Download ------------------------------
(***************************************************************************)
(* DOWNLOAD of package/Makefile.package.in: how a package gets its source  *)
(* archive into DL_DIR, which all builds of the same source tree share.    *)
(*                                                                         *)
(* The module follows one archive.  Each site is tried in turn, and before *)
(* each try "test -e" decides whether there is anything to do.  wget never *)
(* overwrites: a file that appeared meanwhile makes it write <name>.1.     *)
(* git and svn make a checkout in DL_DIR first and pack it with a shell    *)
(* redirection or tar, which truncate what is there.                       *)
(***************************************************************************)
EXTENDS Naturals, Sequences

CONSTANTS
  Builds,    \* builds that run at the same time
  Sites,     \* the sites that are configured, in the order they are tried
  Methods,   \* what <PKG>_SITE_METHOD may be: a subset of {"wget", "git", "svn"}
  Cuts,      \* sites whose transfers may break off (after the retries, wget -t 3)
  Kills      \* whether a build may be killed

ASSUME DownloadAssumption ==
  /\ Sites \in Seq({"primary", "site", "backup"})
  /\ Sites # <<>>
  /\ Methods \subseteq {"wget", "git", "svn"}
  /\ Kills \in BOOLEAN

VARIABLES
  method,    \* <PKG>_SITE_METHOD
  serves,    \* the sites that have the archive
  file,      \* the archive in DL_DIR
  tree,      \* the checkout is in DL_DIR
  stage,     \* stage[b]: what build b is doing
  try,       \* try[b]: the site it is at
  owns,      \* builds that write into the archive itself
  disturbed  \* some transfer was cut or some build was killed (history)

vars == <<method, serves, file, tree, stage, try, owns, disturbed>>
world == <<method, serves>>

Init ==
  /\ method \in Methods
  /\ serves \in SUBSET {Sites[i] : i \in DOMAIN Sites}
  /\ file = "absent"
  /\ tree = FALSE
  /\ stage = [b \in Builds |-> "off"]
  /\ try = [b \in Builds |-> 1]
  /\ owns = {}
  /\ disturbed = FALSE

Serving(b) == Sites[try[b]] \in serves
Checkout(b) == Sites[try[b]] = "site" /\ method # "wget"

GoTo(b, s) == stage' = [stage EXCEPT ![b] = s]

\* A build of a tree in which the package is not extracted yet.
Start(b) ==
  /\ stage[b] \in {"off", "extracted", "failed"}
  /\ GoTo(b, "test")
  /\ try' = [try EXCEPT ![b] = 1]
  /\ UNCHANGED <<world, file, tree, owns, disturbed>>

\* A variant: the backup site is never tried.
NextSiteNoBackup(b) ==
  /\ try' = [try EXCEPT ![b] = @ + 1]
  /\ GoTo(b, IF try[b] + 1 < Len(Sites) THEN "test" ELSE "failed")

\* && exit was not reached: the next site, or exit 1.
NextSite(b) ==
  /\ try' = [try EXCEPT ![b] = @ + 1]
  /\ GoTo(b, IF try[b] < Len(Sites) THEN "test" ELSE "failed")

\* test -e: an archive that is there will do.
TestExists(b) ==
  /\ stage[b] = "test"
  /\ GoTo(b, IF file # "absent" THEN "extract"
             ELSE IF Checkout(b) THEN "checkout" ELSE "connect")
  /\ UNCHANGED <<world, file, tree, try, owns, disturbed>>

NotServed(b) ==
  /\ stage[b] \in {"connect", "checkout"}
  /\ ~Serving(b)
  /\ NextSite(b)
  /\ UNCHANGED <<world, file, tree, owns, disturbed>>

\* b opens the archive, truncates it and begins to write.
Open(b) ==
  /\ file' = IF owns = {} THEN "part" ELSE "broken"
  /\ owns' = owns \cup {b}

\* A variant: wget -O.
WgetOpensOver(b) ==
  /\ stage[b] = "connect" /\ Serving(b)
  /\ Open(b)
  /\ GoTo(b, "write")
  /\ UNCHANGED <<world, tree, try, disturbed>>

\* wget gets the first byte; if the name is taken it writes <name>.1.
WgetOpens(b) ==
  /\ stage[b] = "connect" /\ Serving(b)
  /\ IF file = "absent" THEN Open(b) ELSE UNCHANGED <<file, owns>>
  /\ GoTo(b, "write")
  /\ UNCHANGED <<world, tree, try, disturbed>>

\* git clone and svn export refuse a directory that exists.
CheckoutRefused(b) ==
  /\ stage[b] = "checkout" /\ Serving(b) /\ tree
  /\ NextSite(b)
  /\ UNCHANGED <<world, file, tree, owns, disturbed>>

CheckoutBegins(b) ==
  /\ stage[b] = "checkout" /\ Serving(b) /\ ~tree
  /\ tree' = TRUE
  /\ GoTo(b, "clone")
  /\ UNCHANGED <<world, file, try, owns, disturbed>>

\* The checkout is there; gzip or tar opens the archive.
Pack(b) ==
  /\ stage[b] = "clone"
  /\ Open(b)
  /\ GoTo(b, "write")
  /\ UNCHANGED <<world, tree, try, disturbed>>

\* The last byte; a checkout is then removed.
Written(b) ==
  /\ stage[b] = "write"
  /\ file' = IF b \in owns /\ file = "part" THEN "whole" ELSE file
  /\ owns' = owns \ {b}
  /\ tree' = IF Checkout(b) THEN FALSE ELSE tree
  /\ GoTo(b, "extract")
  /\ UNCHANGED <<world, try, disturbed>>

\* A variant: the broken transfer leaves its file open.
CutStillOpen(b) ==
  /\ stage[b] = "write" /\ ~Checkout(b)
  /\ Sites[try[b]] \in Cuts
  /\ NextSite(b)
  /\ disturbed' = TRUE
  /\ UNCHANGED <<world, file, tree, owns>>

\* Only the network breaks off: packing is local.  git removes its directory, svn does not.
Cut(b) ==
  /\ \/ stage[b] \in {"connect", "write"} /\ ~Checkout(b) /\ UNCHANGED tree
     \/ stage[b] = "clone" /\ tree' = (method = "svn")
  /\ Sites[try[b]] \in Cuts
  /\ NextSite(b)
  /\ owns' = owns \ {b}
  /\ disturbed' = TRUE
  /\ UNCHANGED <<world, file>>

Kill(b) ==
  /\ Kills
  /\ stage[b] \notin {"off", "extracted", "failed"}
  /\ \/ UNCHANGED tree
     \/ stage[b] = "clone" /\ tree' = FALSE
  /\ GoTo(b, "off")
  /\ owns' = owns \ {b}
  /\ disturbed' = TRUE
  /\ UNCHANGED <<world, file, try>>

\* tar refuses an archive that ends too early.
Extract(b) ==
  /\ stage[b] = "extract"
  /\ GoTo(b, IF file = "whole" THEN "extracted" ELSE "failed")
  /\ UNCHANGED <<world, file, tree, try, owns, disturbed>>

Go(b) ==
  \/ TestExists(b) \/ NotServed(b) \/ WgetOpens(b)
  \/ CheckoutRefused(b) \/ CheckoutBegins(b) \/ Pack(b)
  \/ Written(b) \/ Extract(b)

Next == \E b \in Builds : Start(b) \/ Go(b) \/ Cut(b) \/ Kill(b)

Spec == Init /\ [][Next]_vars

\* A build that was started goes on; nobody has to start one.
FairSpec == Spec /\ \A b \in Builds : WF_vars(Go(b))

-----------------------------------------------------------------------------
(* Properties.                                                             *)

Stages == {"off", "test", "connect", "checkout", "clone", "write", "extract",
           "extracted", "failed"}

\* Every variable keeps its type, and a site is at hand wherever one is talked to.
TypeOK ==
  /\ method \in Methods
  /\ serves \subseteq {Sites[i] : i \in DOMAIN Sites}
  /\ file \in {"absent", "part", "whole", "broken"}
  /\ tree \in BOOLEAN
  /\ stage \in [Builds -> Stages]
  /\ try \in [Builds -> 1 .. Len(Sites) + 1]
  /\ owns \subseteq {b \in Builds : stage[b] = "write"}
  /\ disturbed \in BOOLEAN
  /\ \A b \in Builds : stage[b] \in {"test", "connect", "checkout", "clone", "write"}
                         => try[b] \in DOMAIN Sites

\* An archive that is complete stays so, whatever other builds do and however they
\* end: the unpacking of one build is not disturbed by the wget of another.
WholeStaysWhole == [][method = "wget" /\ file = "whole" => file' = "whole"]_vars

\* Where the sites are asked with wget an archive that nobody writes any more is
\* complete, unless a transfer was cut or a build was killed.
WholeUnlessDisturbed ==
  method = "wget" /\ owns = {} /\ ~disturbed => file \in {"absent", "whole"}

\* The sites are tried until one has the archive: after a build has begun, with no
\* cut and no kill, the complete archive arrives.
ArchiveArrives ==
  \A b \in Builds :
    (method = "wget" /\ stage[b] = "test" /\ serves # {}) ~> (file = "whole" \/ disturbed)

\* "You can safely run multiple builds in parallel using the same source tree as long
\* as they use unique output directories": with every site up and no transfer cut no
\* build fails (docs/buildroot.html, Building out-of-tree).
ParallelBuildsSafe ==
  serves # {} /\ ~disturbed => \A b \in Builds : stage[b] # "failed"

\* "Buildroot will fall back to download package sources from here if the normal
\* location fails": a build that comes to the backup site, which has the archive,
\* unpacks what that site has (BR2_BACKUP_SITE).
BackupIsUsed ==
  \A b \in Builds :
    stage[b] = "failed" /\ "backup" \in serves => "backup" \in Cuts \/ Kills
=============================================================================
