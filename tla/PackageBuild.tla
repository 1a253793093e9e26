---------------------------- MODULE PackageBuild ----------------------------
(***************************************************************************)
(* The generic package infrastructure: GENTARGETS and the stamp rules of   *)
(* package/Makefile.package.in, driven by one (serial, .NOTPARALLEL) make. *)
(*                                                                         *)
(* A package goes through stages.  Each stage has a stamp file in the      *)
(* build directory of the package and a recipe that runs commands first    *)
(* and touches the stamp last.  make looks at nothing but the existence of *)
(* the stamp: no stamp rule has prerequisites.  The model keeps, beside    *)
(* the stamps, what the commands really left on disk, so that the two can  *)
(* be compared after interrupted, failed and undone builds.                *)
(*                                                                         *)
(* Only one recipe runs at a time and nobody looks at the disk while it    *)
(* does, so a recipe is one action when it completes (RunRecipe) and       *)
(* another one (RecipeStops) when it dies somewhere in the middle.         *)
(***************************************************************************)
EXTENDS Naturals, Sequences

CONSTANTS
  Pkgs,        \* package names, the host-* ones included
  NoPkg,       \* "no package"
  Deps,        \* <PKG>_DEPENDENCIES: a sequence of packages for each package
  Host,        \* packages of type host
  Staging,     \* target packages with <PKG>_INSTALL_STAGING = YES
  Target,      \* target packages with <PKG>_INSTALL_TARGET = YES
  HasPatches,  \* packages with something to patch
  TARGETS,     \* the enabled packages, in the order of the .mk files
  Level,       \* depth of each package in the dependency graph
  Goals,       \* the targets of a package the user asks for (AllGoals)
  Ops          \* what else may happen (AllOps)

AllGoals == {"source", "extract", "patch", "configure", "build", "install",
             "uninstall", "clean", "dirclean"}

AllOps == {"stop",      \* a recipe fails or make is killed while it builds
           "rmstamp",   \* the user removes .stamp_configured or .stamp_built
           "hostclean", \* make <pkg>-clean of a host package
           "wipe",      \* make clean
           "cut"}       \* one of these removals is interrupted

DepSet(p) == {Deps[p][i] : i \in DOMAIN Deps[p]}

ASSUME PkgsAssumption ==
  /\ NoPkg \notin Pkgs
  /\ Deps \in [Pkgs -> Seq(Pkgs)]
  /\ Host \subseteq Pkgs /\ Staging \subseteq Pkgs \ Host /\ Target \subseteq Pkgs \ Host
  /\ TARGETS \in Seq(Pkgs)
  /\ Goals \subseteq AllGoals /\ Ops \subseteq AllOps

\* make drops circular dependencies; the packages have none.
ASSUME DepsAcyclic ==
  /\ Level \in [Pkgs -> Nat]
  /\ \A p \in Pkgs : \A d \in DepSet(p) : Level[d] < Level[p]

Stages == {"downloaded", "extracted", "patched", "configured", "built",
           "staging", "target", "host"}
Removals == {"unstaging", "untarget", "clean", "dirclean"}
Steps == Stages \cup Removals \cup {"depends", "end"}

VARIABLES
  stamp,    \* stamp[p]: the stages whose stamp file exists
  effect,   \* effect[p][s]: what the commands of s left on disk
  at,       \* at[p]: where the running make is in the targets of p
  caller,   \* caller[p]: the package p is being made for
  cur,      \* the package make is working on
  goal,     \* the target asked for
  todo,     \* the packages still to be made for this invocation
  asked,    \* the packages this invocation was asked for
  outcome   \* how the last invocation ended

disk == <<stamp, effect>>
vars == <<stamp, effect, at, caller, cur, goal, todo, asked, outcome>>

-----------------------------------------------------------------------------
(* The order of the targets of one package and what each goal includes.    *)

\* A variant: the dependencies come after the configure step.
AfterDependsLate(s) ==
  CASE s = "downloaded" -> "extracted"
    [] s = "extracted"  -> "patched"
    [] s = "patched"    -> "configured"
    [] s = "configured" -> "depends"
    [] s = "depends"    -> "built"
    [] s = "built"      -> "staging"
    [] s = "staging"    -> "target"
    [] OTHER            -> "end"

After(s) ==
  CASE s = "downloaded" -> "depends"
    [] s = "depends"    -> "extracted"
    [] s = "extracted"  -> "patched"
    [] s = "patched"    -> "configured"
    [] s = "configured" -> "built"
    [] s = "built"      -> "staging"
    [] s = "staging"    -> "target"
    [] s = "target"     -> "host"
    [] s = "host"       -> "unstaging"
    [] s = "unstaging"  -> "untarget"
    [] s = "untarget"   -> "clean"
    [] s = "clean"      -> "dirclean"
    [] OTHER            -> "end"

InstallSteps(p) ==
  (IF p \in Host THEN {"host"} ELSE {})
    \cup (IF p \in Staging THEN {"staging"} ELSE {})
    \cup (IF p \in Target THEN {"target"} ELSE {})

ToExtracted == {"downloaded", "depends", "extracted"}
ToConfigured == ToExtracted \cup {"patched", "configured"}

\* A variant: clean does not uninstall first.
WantedCleanAlone(p, g) ==
  CASE g = "clean"    -> ToConfigured \cup {"clean"}
    [] g = "dirclean" -> {"dirclean"}
    [] OTHER          -> IF InstallSteps(p) = {} THEN {}
                         ELSE ToConfigured \cup {"built"} \cup InstallSteps(p)

\* A package with neither INSTALL_STAGING nor INSTALL_TARGET is not even built.
Wanted(p, g) ==
  CASE g = "source"    -> {"downloaded"}
    [] g = "extract"   -> ToExtracted
    [] g = "patch"     -> ToExtracted \cup {"patched"}
    [] g = "configure" -> ToConfigured
    [] g = "build"     -> ToConfigured \cup {"built"}
    [] g = "install"   -> IF InstallSteps(p) = {} THEN {}
                          ELSE ToConfigured \cup {"built"} \cup InstallSteps(p)
    [] g = "uninstall" -> ToConfigured \cup {"unstaging", "untarget"}
    [] g = "clean"     -> ToConfigured \cup {"unstaging", "untarget", "clean"}
    [] g = "dirclean"  -> {"dirclean"}

\* Dependencies are made through their own <pkg> target.
GoalOf(p) == IF caller[p] = NoPkg THEN goal ELSE "install"

Doing(p, s) == cur = p /\ at[p] = s /\ s \in Wanted(p, GoalOf(p))

-----------------------------------------------------------------------------
(* What the commands of a stage do to the disk.                            *)

\* Stages whose result is made from the result of s.
Later(s) ==
  CASE s = "extracted"  -> {"patched", "configured", "built", "staging", "target", "host"}
    [] s = "patched"    -> {"configured", "built", "staging", "target", "host"}
    [] s = "configured" -> {"built", "staging", "target", "host"}
    [] s = "built"      -> {"staging", "target", "host"}
    [] OTHER            -> {}

\* A variant: only the stages that s reaches are kept track of.
RedoneForgetful(e, s, v) == [t \in Later(s) \cup {s} |-> v]

\* The stage s of e gets the result v; what was made from the former one is old.
Redone(e, s, v) ==
  [t \in Stages |-> IF t = s THEN v
                    ELSE IF t \in Later(s) /\ e[t] = "done" THEN "stale" ELSE e[t]]

\* DOWNLOAD starts with test -e: an archive that is there, whole or not, will do.
HasArchive(p) == effect[p]["downloaded"] # "none"

\* tar refuses a truncated archive, patch a tree that was patched before.
Works(p, s) ==
  /\ s = "extracted" => effect[p]["downloaded"] = "done"
  /\ s = "patched" /\ p \in HasPatches => effect[p]["patched"] = "none"

Result(p, s) ==
  IF s = "downloaded" /\ HasArchive(p) THEN effect[p] ELSE Redone(effect[p], s, "done")

\* What a recipe that dies before its touch may leave.
Remains(p, s) ==
  IF s = "downloaded" /\ HasArchive(p) THEN {effect[p]}
  ELSE {effect[p]} \cup {Redone(effect[p], s, v) : v \in {"partial", "done"}}

-----------------------------------------------------------------------------
Init ==
  /\ stamp = [p \in Pkgs |-> {}]
  /\ effect = [p \in Pkgs |-> [s \in Stages |-> "none"]]
  /\ at = [p \in Pkgs |-> "off"]
  /\ caller = [p \in Pkgs |-> NoPkg]
  /\ cur = NoPkg
  /\ goal = "install"
  /\ todo = <<>>
  /\ asked = {}
  /\ outcome = "none"

Running == outcome = "running"

Start(g, list) ==
  /\ ~Running
  /\ at' = [p \in Pkgs |-> "off"]
  /\ caller' = [p \in Pkgs |-> NoPkg]
  /\ cur' = NoPkg
  /\ goal' = g
  /\ todo' = list
  /\ asked' = {list[i] : i \in DOMAIN list}
  /\ outcome' = "running"
  /\ UNCHANGED disk

\* make <pkg>, make <pkg>-build, make <pkg>-uninstall, ...
StartPkg ==
  \E p \in Pkgs, g \in Goals :
    /\ g = "clean" /\ p \in Host => "hostclean" \in Ops
    /\ Start(g, <<p>>)

\* make world: every enabled package, from left to right.
StartWorld == Start("install", TARGETS)

NextGoal ==
  /\ Running /\ cur = NoPkg /\ todo # <<>>
  /\ todo' = Tail(todo)
  /\ IF at[Head(todo)] = "made" THEN UNCHANGED <<at, cur>>
     ELSE /\ at' = [at EXCEPT ![Head(todo)] = "downloaded"]
          /\ cur' = Head(todo)
  /\ UNCHANGED <<disk, caller, goal, asked, outcome>>

\* The make process is gone, and what it knew with it.
NoMake ==
  /\ at' = [p \in Pkgs |-> "off"]
  /\ caller' = [p \in Pkgs |-> NoPkg]
  /\ cur' = NoPkg
  /\ todo' = <<>>

MakeEnds ==
  /\ Running /\ cur = NoPkg /\ todo = <<>>
  /\ outcome' = "ok"
  /\ NoMake
  /\ UNCHANGED <<disk, goal, asked>>

MakeDies ==
  /\ outcome' = "failed"
  /\ NoMake
  /\ goal' = "install"
  /\ asked' = {}

Advance(p) == at' = [at EXCEPT ![p] = After(at[p])]

\* A stage the goal does not include, or whose stamp is there.
Skip(p) ==
  /\ Running /\ cur = p
  /\ at[p] \in Steps \ {"end"}
  /\ at[p] \in Wanted(p, GoalOf(p)) => at[p] \in stamp[p]
  /\ Advance(p)
  /\ UNCHANGED <<disk, caller, cur, goal, todo, asked, outcome>>

\* <pkg>-depends: the first dependency that this make has not made yet.
MakeDependency(p) ==
  /\ Running /\ Doing(p, "depends")
  /\ \E i \in DOMAIN Deps[p] :
       /\ at[Deps[p][i]] # "made"
       /\ \A j \in 1 .. i - 1 : at[Deps[p][j]] = "made"
       /\ at' = [at EXCEPT ![Deps[p][i]] = "downloaded"]
       /\ caller' = [caller EXCEPT ![Deps[p][i]] = p]
       /\ cur' = Deps[p][i]
  /\ UNCHANGED <<disk, goal, todo, asked, outcome>>

\* A variant: one dependency is enough.
DependenciesMadeEarly(p) ==
  /\ Running /\ Doing(p, "depends")
  /\ \E d \in DepSet(p) : Advance(p)
  /\ UNCHANGED <<disk, caller, cur, goal, todo, asked, outcome>>

DependenciesMade(p) ==
  /\ Running /\ Doing(p, "depends")
  /\ \A d \in DepSet(p) : at[d] = "made"
  /\ Advance(p)
  /\ UNCHANGED <<disk, caller, cur, goal, todo, asked, outcome>>

\* The last target of p is up to date: make returns to what needed p.
Return(p) ==
  /\ Running /\ cur = p /\ at[p] = "end"
  /\ at' = [at EXCEPT ![p] = IF GoalOf(p) = "install" THEN "made" ELSE "off"]
  /\ cur' = caller[p]
  /\ UNCHANGED <<disk, caller, goal, todo, asked, outcome>>

-----------------------------------------------------------------------------
(* The stamp rules.                                                        *)

\* The recipe of $(BUILD_DIR)/%/.stamp_<s> runs to its end and touches the stamp.
RunRecipe(p, s) ==
  /\ Running /\ Doing(p, s) /\ s \notin stamp[p] /\ Works(p, s)
  /\ effect' = [effect EXCEPT ![p] = Result(p, s)]
  /\ stamp' = [stamp EXCEPT ![p] = @ \cup {s}]
  /\ Advance(p)
  /\ UNCHANGED <<caller, cur, goal, todo, asked, outcome>>

\* A command of the recipe cannot succeed: make stops, the tree is a mess.
RecipeFails(p, s) ==
  /\ Running /\ Doing(p, s) /\ s \notin stamp[p] /\ ~Works(p, s)
  /\ effect' = [effect EXCEPT ![p] = Redone(@, s, "partial")]
  /\ MakeDies
  /\ UNCHANGED stamp

\* A variant: the stamp is touched before the commands run.
RecipeStopsTouched(p, s) ==
  /\ "stop" \in Ops
  /\ Running /\ Doing(p, s) /\ s \notin stamp[p] /\ Works(p, s)
  /\ \E e \in Remains(p, s) : effect' = [effect EXCEPT ![p] = e]
  /\ stamp' = [stamp EXCEPT ![p] = @ \cup {s}]
  /\ MakeDies

\* A command fails, or make is killed, anywhere before the touch.
RecipeStops(p, s) ==
  /\ "stop" \in Ops
  /\ Running /\ Doing(p, s) /\ s \notin stamp[p] /\ Works(p, s)
  /\ \E e \in Remains(p, s) : effect' = [effect EXCEPT ![p] = e]
  /\ MakeDies
  /\ UNCHANGED stamp

\* The stage that a removal undoes.
Undone(r) == CASE r = "unstaging" -> "staging"
               [] r = "untarget"  -> "target"
               [] r = "clean"     -> "built"

\* A package need not define the commands: its files then stay.  An error of
\* CLEAN_CMDS is ignored ("-"), so they may stop half way.
Left(p, r) ==
  {"none", effect[p][Undone(r)]}
    \cup (IF r = "clean" /\ effect[p]["built"] # "none" THEN {"partial"} ELSE {})

\* A variant: the stamp is not removed with the files.
RemoveFilesOnly(p, r) ==
  /\ Running /\ Doing(p, r)
  /\ \E v \in Left(p, r) : effect' = [effect EXCEPT ![p][Undone(r)] = v]
  /\ Advance(p)
  /\ UNCHANGED <<stamp, caller, cur, goal, todo, asked, outcome>>

\* UNINSTALL_STAGING_CMDS, UNINSTALL_TARGET_CMDS or CLEAN_CMDS, then rm of the stamp.
Remove(p, r) ==
  /\ Running /\ Doing(p, r)
  /\ \E v \in Left(p, r) : effect' = [effect EXCEPT ![p][Undone(r)] = v]
  /\ stamp' = [stamp EXCEPT ![p] = @ \ {Undone(r)}]
  /\ Advance(p)
  /\ UNCHANGED <<caller, cur, goal, todo, asked, outcome>>

\* The commands fail or are killed: files are gone, the stamp is not.
RemoveCut(p, r) ==
  /\ "cut" \in Ops
  /\ Running /\ Doing(p, r)
  /\ effect[p][Undone(r)] # "none"
  /\ \E v \in {"none", "partial"} : effect' = [effect EXCEPT ![p][Undone(r)] = v]
  /\ MakeDies
  /\ UNCHANGED stamp

BuildDirStages == {"extracted", "patched", "configured", "built"}

\* A variant: only the stamp files are removed.
DirCleanStampsOnly(p) ==
  /\ Running /\ Doing(p, "dirclean")
  /\ stamp' = [stamp EXCEPT ![p] = {}]
  /\ Advance(p)
  /\ UNCHANGED <<effect, caller, cur, goal, todo, asked, outcome>>

\* rm -Rf of the build directory takes the stamps and the tree with it.
DirClean(p) ==
  /\ Running /\ Doing(p, "dirclean")
  /\ stamp' = [stamp EXCEPT ![p] = {}]
  /\ effect' = [effect EXCEPT ![p] =
                  [s \in Stages |-> IF s \in BuildDirStages THEN "none" ELSE @[s]]]
  /\ Advance(p)
  /\ UNCHANGED <<caller, cur, goal, todo, asked, outcome>>

\* rm -Rf is killed: any of the stamps may have survived the files.
DirCleanCut(p) ==
  /\ "cut" \in Ops
  /\ Running /\ Doing(p, "dirclean")
  /\ \E left \in SUBSET stamp[p] : stamp' = [stamp EXCEPT ![p] = left]
  /\ effect' = [effect EXCEPT ![p] =
                  [s \in Stages |-> IF s \in BuildDirStages /\ @[s] # "none"
                                   THEN "partial" ELSE @[s]]]
  /\ MakeDies

\* make clean removes STAGING_DIR, TARGET_DIR, HOST_DIR, BUILD_DIR in this order.
WipeOrder == <<{"staging"}, {"target"}, {"host"}, BuildDirStages>>
Wiped(n) == UNION {WipeOrder[i] : i \in 1 .. n}

\* The disk is not as the last invocation left it.
Forget ==
  /\ outcome' = "none"
  /\ goal' = "install"
  /\ asked' = {}
  /\ UNCHANGED <<at, caller, cur, todo>>

Wipe ==
  /\ "wipe" \in Ops /\ ~Running
  /\ stamp' = [p \in Pkgs |-> {}]
  /\ effect' = [p \in Pkgs |->
                  [s \in Stages |-> IF s \in Wiped(4) THEN "none" ELSE effect[p][s]]]
  /\ Forget

\* Killed before it reached BUILD_DIR, with all the stamps still there.
WipeCut ==
  /\ {"wipe", "cut"} \subseteq Ops /\ ~Running
  /\ \E n \in 1 .. 3 :
       effect' = [p \in Pkgs |->
                    [s \in Stages |-> IF s \in Wiped(n) THEN "none" ELSE effect[p][s]]]
  /\ MakeDies
  /\ UNCHANGED stamp

\* The documented way to rebuild part of a package: rm .stamp_configured / .stamp_built
RemoveStamp(p, s) ==
  /\ "rmstamp" \in Ops /\ ~Running
  /\ s \in stamp[p]
  /\ stamp' = [stamp EXCEPT ![p] = @ \ {s}]
  /\ Forget
  /\ UNCHANGED effect

-----------------------------------------------------------------------------
MakeStep(p) ==
  \/ Skip(p)
  \/ MakeDependency(p)
  \/ DependenciesMade(p)
  \/ Return(p)
  \/ \E s \in Stages : RunRecipe(p, s) \/ RecipeFails(p, s)
  \/ \E r \in Removals \ {"dirclean"} : Remove(p, r)
  \/ DirClean(p)

Make == NextGoal \/ MakeEnds \/ \E p \in Pkgs : MakeStep(p)

Disturb ==
  \/ \E p \in Pkgs, s \in Stages : RecipeStops(p, s)
  \/ \E p \in Pkgs, r \in Removals \ {"dirclean"} : RemoveCut(p, r)
  \/ \E p \in Pkgs : DirCleanCut(p)
  \/ \E p \in Pkgs, s \in {"configured", "built"} : RemoveStamp(p, s)
  \/ Wipe
  \/ WipeCut

Next == StartPkg \/ StartWorld \/ Make \/ Disturb

Spec == Init /\ [][Next]_vars

\* make goes on until it is done: nothing in it waits for anybody.
FairSpec == Spec /\ WF_vars(Make)
-----------------------------------------------------------------------------
(* Properties.                                                             *)

Effects == {"none", "partial", "stale", "done"}

\* Every variable keeps its type.
TypeOK ==
  /\ stamp \in [Pkgs -> SUBSET Stages]
  /\ effect \in [Pkgs -> [Stages -> Effects]]
  /\ at \in [Pkgs -> Steps \cup {"off", "made"}]
  /\ caller \in [Pkgs -> Pkgs \cup {NoPkg}]
  /\ cur \in Pkgs \cup {NoPkg}
  /\ goal \in AllGoals
  /\ todo \in Seq(Pkgs)
  /\ asked \subseteq Pkgs
  /\ outcome \in {"none", "running", "ok", "failed"}

Whole(v) == v \in {"stale", "done"}

\* The files of p are where its dependents look for them.
Installed(p) == \A s \in InstallSteps(p) : Whole(effect[p][s])

\* The stamps tell the truth: a stage with a stamp has a complete result on disk,
\* whatever was interrupted before.  (.stamp_downloaded is not claimed: test -e
\* takes what a killed download left.)
StampHonest ==
  \A p \in Pkgs : \A s \in stamp[p] \ {"downloaded"} : Whole(effect[p][s])

\* When the configure step of a package is about to run, all its dependencies are
\* compiled and installed (<PKG>_DEPENDENCIES, docs/buildroot.html).
DepsInstalledAtConfigure ==
  \A p \in Pkgs :
    Running /\ Doing(p, "configured") /\ "configured" \notin stamp[p]
      => \A d \in DepSet(p) : Installed(d)

\* Every stage of p has been run on the final result of the stage before it.
UpToDate(p) ==
  \A s \in Wanted(p, "install") \ {"downloaded", "depends"} : effect[p][s] = "done"

\* A make world (or make <pkg>) that succeeds leaves what was asked for, with all
\* it depends on, built from the current sources and installed: no stage is old.
SuccessIsUpToDate ==
  outcome = "ok" /\ goal = "install" =>
    \E S \in SUBSET Pkgs :
      /\ asked \subseteq S
      /\ \A p \in S : /\ UpToDate(p)
                      /\ InstallSteps(p) # {} => DepSet(p) \subseteq S

\* "If removed, Buildroot will trigger the recompilation of the package from the
\* configuration step": after a successful make <pkg> the objects are those of the
\* last configuration (docs/buildroot.html on .stamp_configured).
RecompiledAfterConfigure ==
  outcome = "ok" /\ goal = "install" =>
    \A p \in asked : effect[p]["configured"] = "done" => effect[p]["built"] = "done"

\* Only an invocation that ends badly can make the stamps of a package lie: uninstalling,
\* cleaning, dircleaning, rebuilding and removing stamps by hand never do.
HonestyLostOnlyWhenInterrupted ==
  [][\A p \in Pkgs :
       (\A s \in stamp[p] \ {"downloaded"} : Whole(effect[p][s]))
         => \/ \A s \in stamp'[p] \ {"downloaded"} : Whole(effect'[p][s])
            \/ outcome' = "failed"]_vars

\* Without failing recipes and interruptions every build succeeds: no sequence of
\* uninstalling, cleaning and dircleaning leaves a tree that cannot be built.
BuildSucceeds == (Running /\ goal = "install") ~> (outcome = "ok" /\ goal = "install")

-----------------------------------------------------------------------------
(* What the rest of the build relies on: packages are configured in        *)
(* dependency order, however often they are undone and redone.             *)

Order == INSTANCE DependencyOrder WITH
  Deps <- [p \in Pkgs |-> DepSet(p)],
  Virtual <- {p \in Pkgs : InstallSteps(p) = {}},
  configured <- {p \in Pkgs : "configured" \in stamp[p]},
  installed <- {p \in Pkgs : Installed(p)}

\* The stamps and the depth-first make implement that order.
DependencyOrderSpec == Order!Spec
=============================================================================
