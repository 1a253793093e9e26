------------------------- MODULE PackageBuildProofs -------------------------
(***************************************************************************)
(* Proofs about PackageBuild, for every set of packages, every dependency  *)
(* graph and every set of goals and disturbances (the refinement, what it  *)
(* says of the order and that a build is up to date: without interrupted   *)
(* removals).                                                              *)
(***************************************************************************)
EXTENDS PackageBuild, TLAPS

-----------------------------------------------------------------------------
(* Lemmas about the operators.                                             *)

\* Redoing a stage keeps the record of effects well typed.
LEMMA RedoneType ==
  ASSUME NEW e \in [Stages -> Effects], NEW s \in Stages, NEW v \in Effects
  PROVE  Redone(e, s, v) \in [Stages -> Effects]
BY DEF Redone, Effects

\* Redoing a stage leaves no hole: what was complete elsewhere is at worst old.
LEMMA RedoneWhole ==
  ASSUME NEW e \in [Stages -> Effects], NEW s \in Stages, NEW v \in Effects,
         NEW t \in Stages, t # s, Whole(e[t])
  PROVE  Whole(Redone(e, s, v)[t])
BY DEF Redone, Effects, Whole

\* What a recipe leaves is well typed, whether it ends or dies.
LEMMA ResultType ==
  ASSUME NEW p \in Pkgs, NEW s \in Stages, TypeOK
  PROVE  /\ Result(p, s) \in [Stages -> Effects]
         /\ Remains(p, s) \subseteq [Stages -> Effects]
         /\ \A v \in Effects : Redone(effect[p], s, v) \in [Stages -> Effects]
<1>1. effect[p] \in [Stages -> Effects]
  BY DEF TypeOK
<1>2. \A v \in Effects : Redone(effect[p], s, v) \in [Stages -> Effects]
  BY <1>1, RedoneType
<1>3. "done" \in Effects /\ "partial" \in Effects
  BY DEF Effects
<1> QED
  BY <1>1, <1>2, <1>3 DEF Result, Remains

\* After stays among the steps.
LEMMA AfterType == ASSUME NEW s \in Steps PROVE After(s) \in Steps
BY DEF After, Steps, Stages, Removals

\* Stages an install needs are stages with a stamp, and not the download.
LEMMA InstallStepsType ==
  ASSUME NEW p \in Pkgs
  PROVE  InstallSteps(p) \subseteq {"staging", "target", "host"}
BY DEF InstallSteps

-----------------------------------------------------------------------------
(* Type correctness.                                                       *)

\* A new invocation is well typed whatever list of packages it is for.
LEMMA StartType ==
  ASSUME TypeOK, NEW g \in AllGoals, NEW list \in Seq(Pkgs), Start(g, list)
  PROVE  TypeOK'
<1>1. {list[i] : i \in DOMAIN list} \subseteq Pkgs
  OBVIOUS
<1> QED
  BY <1>1 DEF TypeOK, Start, disk, Steps

\* One step of make for the package p.
LEMMA MakeStepType ==
  ASSUME TypeOK, NEW p \in Pkgs, MakeStep(p)
  PROVE  TypeOK'
<1>a. ASSUME Advance(p), cur = p, at[p] \in Steps
      PROVE  at' \in [Pkgs -> Steps \cup {"off", "made"}]
  <2>1. After(at[p]) \in Steps
    BY <1>a, AfterType
  <2> QED
    BY <1>a, <2>1 DEF Advance, TypeOK
<1>b. ASSUME NEW e \in [Stages -> Effects], effect' = [effect EXCEPT ![p] = e]
      PROVE  effect' \in [Pkgs -> [Stages -> Effects]]
  BY <1>b DEF TypeOK
<1>1. CASE Skip(p)
  <2>1. at[p] \in Steps \/ at[p] \in {"off", "made"}
    BY DEF TypeOK
  <2>2. After(at[p]) \in Steps
    BY <2>1, AfterType DEF After, Steps, Stages, Removals
  <2> QED
    BY <1>1, <2>2 DEF Skip, Advance, TypeOK, disk
<1>2. CASE MakeDependency(p)
  <2>1. PICK i \in DOMAIN Deps[p] :
          /\ at' = [at EXCEPT ![Deps[p][i]] = "downloaded"]
          /\ caller' = [caller EXCEPT ![Deps[p][i]] = p]
          /\ cur' = Deps[p][i]
    BY <1>2 DEF MakeDependency
  <2>2. Deps[p][i] \in Pkgs
    BY PkgsAssumption
  <2>3. "downloaded" \in Steps
    BY DEF Steps, Stages
  <2> QED
    BY <1>2, <2>1, <2>2, <2>3 DEF MakeDependency, TypeOK, disk
<1>3. CASE DependenciesMade(p)
  <2>1. cur = p /\ at[p] \in Steps /\ Advance(p)
    BY <1>3 DEF DependenciesMade, Doing, Steps
  <2> QED
    BY <1>3, <1>a, <2>1 DEF DependenciesMade, TypeOK, disk
<1>4. CASE Return(p)
  BY <1>4 DEF Return, TypeOK, disk
<1>5. ASSUME NEW s \in Stages, RunRecipe(p, s)
      PROVE  TypeOK'
  <2>1. cur = p /\ at[p] \in Steps /\ Advance(p)
    BY <1>5 DEF RunRecipe, Doing, Steps
  <2>2. effect' \in [Pkgs -> [Stages -> Effects]]
    BY <1>5, <1>b, ResultType DEF RunRecipe
  <2>3. stamp' \in [Pkgs -> SUBSET Stages]
    BY <1>5 DEF RunRecipe, TypeOK
  <2> QED
    BY <1>5, <1>a, <2>1, <2>2, <2>3 DEF RunRecipe, TypeOK
<1>6. ASSUME NEW s \in Stages, RecipeFails(p, s)
      PROVE  TypeOK'
  <2>1. effect' = [effect EXCEPT ![p] = Redone(effect[p], s, "partial")]
    BY <1>6 DEF RecipeFails
  <2>2. effect' \in [Pkgs -> [Stages -> Effects]]
    BY <2>1, <1>b, ResultType DEF Effects
  <2> QED
    BY <1>6, <2>2 DEF RecipeFails, MakeDies, NoMake, TypeOK, AllGoals
<1>7. ASSUME NEW r \in Removals \ {"dirclean"}, Remove(p, r)
      PROVE  TypeOK'
  <2>1. cur = p /\ at[p] \in Steps /\ Advance(p)
    BY <1>7 DEF Remove, Doing, Steps
  <2>2. Undone(r) \in Stages
    BY DEF Undone, Removals, Stages
  <2>3. PICK v \in Left(p, r) : effect' = [effect EXCEPT ![p][Undone(r)] = v]
    BY <1>7 DEF Remove
  <2>4. v \in Effects
    BY <2>2, <2>3 DEF Left, Effects, TypeOK
  <2>5. effect' \in [Pkgs -> [Stages -> Effects]]
    BY <2>2, <2>3, <2>4 DEF TypeOK
  <2>6. stamp' \in [Pkgs -> SUBSET Stages]
    BY <1>7 DEF Remove, TypeOK
  <2> QED
    BY <1>7, <1>a, <2>1, <2>5, <2>6 DEF Remove, TypeOK
<1>8. CASE DirClean(p)
  <2>1. cur = p /\ at[p] \in Steps /\ Advance(p)
    BY <1>8 DEF DirClean, Doing, Steps, Removals
  <2>2. [s \in Stages |-> IF s \in BuildDirStages THEN "none" ELSE effect[p][s]]
          \in [Stages -> Effects]
    BY DEF TypeOK, Effects
  <2>3. effect' \in [Pkgs -> [Stages -> Effects]]
    BY <1>8, <1>b, <2>2 DEF DirClean
  <2>4. stamp' \in [Pkgs -> SUBSET Stages]
    BY <1>8 DEF DirClean, TypeOK
  <2> QED
    BY <1>8, <1>a, <2>1, <2>3, <2>4 DEF DirClean, TypeOK
<1> QED
  BY <1>1, <1>2, <1>3, <1>4, <1>5, <1>6, <1>7, <1>8 DEF MakeStep

\* TypeOK is an invariant of every step.
LEMMA TypeStep == TypeOK /\ [Next]_vars => TypeOK'
<1> SUFFICES ASSUME TypeOK, [Next]_vars PROVE TypeOK'
  OBVIOUS
<1>1. CASE StartPkg
  <2>1. PICK p \in Pkgs, g \in Goals : Start(g, <<p>>)
    BY <1>1 DEF StartPkg
  <2>2. g \in AllGoals /\ <<p>> \in Seq(Pkgs)
    BY PkgsAssumption
  <2> QED
    BY <2>1, <2>2, StartType
<1>2. CASE StartWorld
  BY <1>2, StartType, PkgsAssumption DEF StartWorld, AllGoals
<1>3. CASE NextGoal
  <2>1. Head(todo) \in Pkgs /\ Tail(todo) \in Seq(Pkgs)
    BY <1>3 DEF NextGoal, TypeOK
  <2>2. "downloaded" \in Steps
    BY DEF Steps, Stages
  <2> QED
    BY <1>3, <2>1, <2>2 DEF NextGoal, TypeOK, disk
<1>4. CASE MakeEnds
  BY <1>4 DEF MakeEnds, NoMake, TypeOK, disk
<1>5. CASE \E p \in Pkgs : MakeStep(p)
  BY <1>5, MakeStepType
<1>6. ASSUME NEW p \in Pkgs, NEW s \in Stages, RecipeStops(p, s)
      PROVE  TypeOK'
  <2>1. PICK e \in Remains(p, s) : effect' = [effect EXCEPT ![p] = e]
    BY <1>6 DEF RecipeStops
  <2>2. e \in [Stages -> Effects]
    BY <2>1, ResultType
  <2>3. effect' \in [Pkgs -> [Stages -> Effects]]
    BY <2>1, <2>2 DEF TypeOK
  <2> QED
    BY <1>6, <2>3 DEF RecipeStops, MakeDies, NoMake, TypeOK, AllGoals
<1>7. ASSUME NEW p \in Pkgs, NEW r \in Removals \ {"dirclean"}, RemoveCut(p, r)
      PROVE  TypeOK'
  <2>1. Undone(r) \in Stages
    BY DEF Undone, Removals, Stages
  <2>2. effect' \in [Pkgs -> [Stages -> Effects]]
    BY <1>7, <2>1 DEF RemoveCut, TypeOK, Effects
  <2> QED
    BY <1>7, <2>2 DEF RemoveCut, MakeDies, NoMake, TypeOK, AllGoals
<1>8. ASSUME NEW p \in Pkgs, DirCleanCut(p)
      PROVE  TypeOK'
  <2> DEFINE rest == [s \in Stages |-> IF s \in BuildDirStages /\ effect[p][s] # "none"
                                       THEN "partial" ELSE effect[p][s]]
  <2>1. rest \in [Stages -> Effects]
    BY DEF TypeOK, Effects
  <2>2. effect' = [effect EXCEPT ![p] = rest]
    BY <1>8 DEF DirCleanCut
  <2>3. effect' \in [Pkgs -> [Stages -> Effects]]
    BY <2>1, <2>2 DEF TypeOK
  <2>4. PICK left \in SUBSET stamp[p] : stamp' = [stamp EXCEPT ![p] = left]
    BY <1>8 DEF DirCleanCut
  <2>5. stamp' \in [Pkgs -> SUBSET Stages]
    BY <2>4 DEF TypeOK
  <2> QED
    BY <1>8, <2>3, <2>5 DEF DirCleanCut, MakeDies, NoMake, TypeOK, AllGoals
<1>9. CASE \E p \in Pkgs, s \in {"configured", "built"} : RemoveStamp(p, s)
  <2>1. PICK p \in Pkgs, s \in {"configured", "built"} : RemoveStamp(p, s)
    BY <1>9
  <2>2. stamp' \in [Pkgs -> SUBSET Stages]
    BY <2>1 DEF RemoveStamp, TypeOK
  <2> QED
    BY <2>1, <2>2 DEF RemoveStamp, Forget, TypeOK, AllGoals
<1>10. CASE Wipe
  <2>1. \A p \in Pkgs : [s \in Stages |-> IF s \in Wiped(4) THEN "none" ELSE effect[p][s]]
                           \in [Stages -> Effects]
    BY DEF TypeOK, Effects
  <2> QED
    BY <1>10, <2>1 DEF Wipe, Forget, TypeOK, AllGoals
<1>11. CASE WipeCut
  <2>1. PICK n \in 1 .. 3 :
          effect' = [p \in Pkgs |->
                       [s \in Stages |-> IF s \in Wiped(n) THEN "none" ELSE effect[p][s]]]
    BY <1>11 DEF WipeCut
  <2>2. \A p \in Pkgs : [s \in Stages |-> IF s \in Wiped(n) THEN "none" ELSE effect[p][s]]
                           \in [Stages -> Effects]
    BY DEF TypeOK, Effects
  <2> QED
    BY <1>11, <2>1, <2>2 DEF WipeCut, MakeDies, NoMake, TypeOK, AllGoals
<1>12. CASE UNCHANGED vars
  BY <1>12 DEF TypeOK, vars
<1> QED
  BY <1>1, <1>2, <1>3, <1>4, <1>5, <1>6, <1>7, <1>8, <1>9, <1>10, <1>11, <1>12
     DEF Next, Make, Disturb

\* The variables of the package build keep their types, whatever the packages, their
\* dependencies and the disturbances are.
THEOREM TypeCorrect == Spec => []TypeOK
<1>1. Init => TypeOK
  BY DEF Init, TypeOK, Effects, AllGoals
<1> QED
  BY <1>1, TypeStep, PTL DEF Spec

-----------------------------------------------------------------------------
(* Honesty of a single package, with every disturbance allowed.            *)

HonestPkg(p) == \A s \in stamp[p] \ {"downloaded"} : Whole(effect[p][s])

\* A recipe that ends leaves an honest package honest.
LEMMA RecipeKeepsHonesty ==
  ASSUME TypeOK, NEW p \in Pkgs, NEW q \in Pkgs, NEW s \in Stages,
         RunRecipe(q, s), HonestPkg(p)
  PROVE  HonestPkg(p)'
<1>1. /\ effect' = [effect EXCEPT ![q] = Result(q, s)]
      /\ stamp' = [stamp EXCEPT ![q] = @ \cup {s}]
      /\ s \notin stamp[q]
  BY DEF RunRecipe
<1>2. CASE p # q
  <2>1. effect'[p] = effect[p] /\ stamp'[p] = stamp[p]
    BY <1>1, <1>2 DEF TypeOK
  <2> QED
    BY <2>1 DEF HonestPkg
<1>3. CASE p = q
  <2>1. effect'[p] = Result(p, s) /\ stamp'[p] = stamp[p] \cup {s}
    BY <1>1, <1>3 DEF TypeOK
  <2>2. effect[p] \in [Stages -> Effects] /\ stamp[p] \subseteq Stages
    BY DEF TypeOK
  <2>3. ASSUME NEW t \in stamp[p] \ {"downloaded"} PROVE Whole(Result(p, s)[t])
    <3>1. t \in Stages /\ t # s /\ Whole(effect[p][t])
      BY <1>1, <1>3, <2>2 DEF HonestPkg
    <3>2. Whole(Redone(effect[p], s, "done")[t])
      BY <2>2, <3>1, RedoneWhole DEF Effects
    <3> QED
      BY <3>1, <3>2 DEF Result
  <2>4. s = "downloaded" \/ Whole(Result(p, s)[s])
    BY <2>2 DEF Result, Redone, Whole
  <2> QED
    BY <2>1, <2>3, <2>4 DEF HonestPkg
<1> QED
  BY <1>2, <1>3

\* Every step keeps a package honest or ends the invocation badly.
LEMMA StepKeepsHonesty ==
  ASSUME TypeOK, [Next]_vars, NEW p \in Pkgs, HonestPkg(p)
  PROVE  HonestPkg(p)' \/ outcome' = "failed"
<1>1. ASSUME UNCHANGED disk PROVE HonestPkg(p)'
  BY <1>1 DEF disk, HonestPkg
<1>2. CASE StartPkg \/ StartWorld \/ NextGoal \/ MakeEnds
  BY <1>1, <1>2 DEF StartPkg, StartWorld, Start, NextGoal, MakeEnds
<1>3. ASSUME NEW q \in Pkgs, MakeStep(q) PROVE HonestPkg(p)' \/ outcome' = "failed"
  <2>1. CASE Skip(q) \/ MakeDependency(q) \/ DependenciesMade(q) \/ Return(q)
    BY <1>1, <2>1 DEF Skip, MakeDependency, DependenciesMade, Return
  <2>2. CASE \E s \in Stages : RunRecipe(q, s)
    BY <2>2, RecipeKeepsHonesty
  <2>3. CASE \E s \in Stages : RecipeFails(q, s)
    BY <2>3 DEF RecipeFails, MakeDies
  <2>4. ASSUME NEW r \in Removals \ {"dirclean"}, Remove(q, r) PROVE HonestPkg(p)'
    <3>1. PICK v \in Left(q, r) : effect' = [effect EXCEPT ![q][Undone(r)] = v]
      BY <2>4 DEF Remove
    <3>2. stamp' = [stamp EXCEPT ![q] = @ \ {Undone(r)}]
      BY <2>4 DEF Remove
    <3> HIDE DEF Left
    <3>3. \A s \in stamp'[p] : s \in stamp[p] /\ effect'[p][s] = effect[p][s]
      BY <3>1, <3>2 DEF TypeOK
    <3> QED
      BY <3>3 DEF HonestPkg
  <2>5. CASE DirClean(q)
    <3>1. stamp'[p] = {} \/ (stamp'[p] = stamp[p] /\ effect'[p] = effect[p])
      BY <2>5 DEF DirClean, TypeOK
    <3> QED
      BY <3>1 DEF HonestPkg
  <2> QED
    BY <1>3, <2>1, <2>2, <2>3, <2>4, <2>5 DEF MakeStep
<1>4. CASE \E q \in Pkgs, s \in Stages : RecipeStops(q, s)
  BY <1>4 DEF RecipeStops, MakeDies
<1>5. CASE \E q \in Pkgs, r \in Removals \ {"dirclean"} : RemoveCut(q, r)
  BY <1>5 DEF RemoveCut, MakeDies
<1>6. CASE \E q \in Pkgs : DirCleanCut(q)
  BY <1>6 DEF DirCleanCut, MakeDies
<1>7. CASE \E q \in Pkgs, s \in {"configured", "built"} : RemoveStamp(q, s)
  <2>1. PICK q \in Pkgs, s \in {"configured", "built"} : RemoveStamp(q, s)
    BY <1>7
  <2>2. stamp'[p] \subseteq stamp[p] /\ effect' = effect
    BY <2>1 DEF RemoveStamp, TypeOK
  <2> QED
    BY <2>2 DEF HonestPkg
<1>8. CASE Wipe
  BY <1>8 DEF Wipe, HonestPkg
<1>9. CASE WipeCut
  BY <1>9 DEF WipeCut, MakeDies
<1>10. CASE UNCHANGED vars
  BY <1>1, <1>10 DEF vars, disk
<1> QED
  BY <1>2, <1>3, <1>4, <1>5, <1>6, <1>7, <1>8, <1>9, <1>10 DEF Next, Make, Disturb

\* Stamps come to lie only in an invocation that fails or is killed, whatever else
\* happens.
THEOREM HonestyLost == Spec => HonestyLostOnlyWhenInterrupted
<1>1. TypeOK /\ [Next]_vars
        => [\A p \in Pkgs :
              (\A s \in stamp[p] \ {"downloaded"} : Whole(effect[p][s]))
                => \/ \A s \in stamp'[p] \ {"downloaded"} : Whole(effect'[p][s])
                   \/ outcome' = "failed"]_vars
  BY StepKeepsHonesty DEF HonestPkg
<1> QED
  BY <1>1, TypeCorrect, PTL DEF Spec, HonestyLostOnlyWhenInterrupted

-----------------------------------------------------------------------------
(* Order and honesty, when no removal is interrupted.                      *)
(*                                                                         *)
(* StampHonest is about the disk and DepsInstalledAtConfigure about the    *)
(* moment before a configure step; neither is inductive.  What carries     *)
(* them is Progress: how far make has come in a package tells which stamps *)
(* exist, and a package that is past its dependencies has them all made.   *)

\* The targets of a package that come after an install stage.
PastInstall(s) ==
  Removals \cup {"end"}
    \cup (IF s \in {"staging", "target"} THEN {"host"} ELSE {})
    \cup (IF s = "staging" THEN {"target"} ELSE {})

BeforeBuild == {"extracted", "patched", "configured"}
AfterConfigure == {"built", "staging", "target", "host"}

Progress ==
  Running =>
    \A p \in Pkgs :
      /\ at[p] = "made" => InstallSteps(p) \subseteq stamp[p]
      /\ GoalOf(p) = "install" =>
           \A s \in InstallSteps(p) : at[p] \in PastInstall(s) => s \in stamp[p]
      /\ at[p] \in BeforeBuild /\ "depends" \in Wanted(p, GoalOf(p)) =>
           \A d \in DepSet(p) : at[d] = "made"
      /\ at[p] \in AfterConfigure /\ "configured" \in Wanted(p, GoalOf(p)) =>
           "configured" \in stamp[p]

Inv == TypeOK /\ StampHonest /\ Progress

\* What the goals include: configuring implies the dependencies, installing implies
\* configuring, and an install removes nothing.
LEMMA WantedFacts ==
  ASSUME NEW p \in Pkgs, NEW g \in AllGoals
  PROVE  /\ "configured" \in Wanted(p, g) => "depends" \in Wanted(p, g)
         /\ \A s \in {"staging", "target", "host"} :
              s \in Wanted(p, g) => "configured" \in Wanted(p, g)
         /\ \A r \in Removals : r \notin Wanted(p, "install")
         /\ InstallSteps(p) \subseteq Wanted(p, "install")
<1>1. InstallSteps(p) \subseteq {"staging", "target", "host"}
  BY InstallStepsType
<1>2. \A r \in Removals : r \notin {"staging", "target", "host"} /\ r \notin ToConfigured \cup {"built"}
  BY DEF Removals, ToConfigured, ToExtracted
<1>3. Wanted(p, "install") = IF InstallSteps(p) = {} THEN {}
                             ELSE ToConfigured \cup {"built"} \cup InstallSteps(p)
  BY DEF Wanted
<1>4. "configured" \in Wanted(p, g) => "depends" \in Wanted(p, g)
  BY <1>1 DEF Wanted, ToConfigured, ToExtracted, AllGoals
<1>5. ASSUME NEW s \in {"staging", "target", "host"}, s \in Wanted(p, g)
      PROVE  "configured" \in Wanted(p, g)
  BY <1>5, <1>1 DEF Wanted, ToConfigured, ToExtracted, AllGoals
<1> QED
  BY <1>1, <1>2, <1>3, <1>4, <1>5

\* Where After leads.
LEMMA AfterFacts ==
  ASSUME NEW s \in Steps
  PROVE  /\ After(s) \in BeforeBuild => s = "depends" \/ s \in BeforeBuild
         /\ After(s) \in AfterConfigure => s = "configured" \/ s \in AfterConfigure
         /\ \A t \in {"staging", "target", "host"} :
              After(s) \in PastInstall(t) => s = t \/ s \in PastInstall(t)
         /\ After(s) # "made"
BY DEF After, Steps, Stages, Removals, BeforeBuild, AfterConfigure, PastInstall

\* The goal for which a package is made is a goal.
LEMMA GoalType == ASSUME TypeOK, NEW p \in Pkgs PROVE GoalOf(p) \in AllGoals
BY DEF TypeOK, GoalOf, AllGoals

\* Progress outlives a step that moves a package from one of its targets to the next:
\* a stage the goal needed has its stamp, and only a removal takes stamps away.
LEMMA AdvanceProgress ==
  ASSUME Inv, Running, NEW p \in Pkgs, Advance(p), at[p] \in Steps,
         UNCHANGED <<caller, goal>>,
         \A q \in Pkgs \ {p} : stamp[q] \subseteq stamp'[q],
         stamp[p] \subseteq stamp'[p] \/ (at[p] \in Removals /\ GoalOf(p) # "install"),
         at[p] \in Stages /\ at[p] \in Wanted(p, GoalOf(p)) => at[p] \in stamp'[p],
         at[p] = "depends" /\ "depends" \in Wanted(p, GoalOf(p))
           => \A d \in DepSet(p) : at[d] = "made"
  PROVE  Progress'
<1>1. at' = [at EXCEPT ![p] = After(at[p])] /\ at \in [Pkgs -> Steps \cup {"off", "made"}]
  BY DEF Advance, Inv, TypeOK
<1>2. \A q \in Pkgs : GoalOf(q)' = GoalOf(q)
  BY DEF GoalOf
<1>3. at[p] # "made"
  BY DEF Steps, Stages, Removals
<1>4. \A d \in Pkgs : at[d] = "made" => at'[d] = "made"
  BY <1>1, <1>3
<1>5. \A q \in Pkgs : DepSet(q) \subseteq Pkgs
  BY PkgsAssumption DEF DepSet
<1>6. ASSUME NEW q \in Pkgs
      PROVE  /\ at[q] = "made" => InstallSteps(q) \subseteq stamp[q]
             /\ GoalOf(q) = "install" =>
                  \A s \in InstallSteps(q) : at[q] \in PastInstall(s) => s \in stamp[q]
             /\ at[q] \in BeforeBuild /\ "depends" \in Wanted(q, GoalOf(q)) =>
                  \A d \in DepSet(q) : at[d] = "made"
             /\ at[q] \in AfterConfigure /\ "configured" \in Wanted(q, GoalOf(q)) =>
                  "configured" \in stamp[q]
  BY DEF Inv, Progress
<1> DEFINE Good(q) ==
      /\ at'[q] = "made" => InstallSteps(q) \subseteq stamp'[q]
      /\ GoalOf(q) = "install" =>
           \A s \in InstallSteps(q) : at'[q] \in PastInstall(s) => s \in stamp'[q]
      /\ at'[q] \in BeforeBuild /\ "depends" \in Wanted(q, GoalOf(q)) =>
           \A d \in DepSet(q) : at'[d] = "made"
      /\ at'[q] \in AfterConfigure /\ "configured" \in Wanted(q, GoalOf(q)) =>
           "configured" \in stamp'[q]
<1>7. ASSUME NEW q \in Pkgs \ {p} PROVE Good(q)
  <2>1. at'[q] = at[q] /\ stamp[q] \subseteq stamp'[q]
    BY <1>1
  <2> QED
    BY <1>4, <1>5, <1>6, <2>1
<1>8. Good(p)
  <2>1. at'[p] = After(at[p])
    BY <1>1
  <2>2. at'[p] # "made"
    BY <2>1, AfterFacts
  <2>3. ASSUME GoalOf(p) = "install", NEW s \in InstallSteps(p), at'[p] \in PastInstall(s)
        PROVE  s \in stamp'[p]
    <3>1. s \in {"staging", "target", "host"} /\ s \in Wanted(p, "install")
      BY <2>3, InstallStepsType, WantedFacts DEF AllGoals
    <3>2. CASE at[p] = s
      BY <2>3, <3>1, <3>2 DEF Stages
    <3>3. CASE at[p] \in PastInstall(s)
      BY <1>6, <2>3, <3>3
    <3> QED
      BY <2>1, <2>3, <3>1, <3>2, <3>3, AfterFacts
  <2>4. ASSUME at'[p] \in BeforeBuild, "depends" \in Wanted(p, GoalOf(p)), NEW d \in DepSet(p)
        PROVE  at'[d] = "made"
    <3>1. at[p] = "depends" \/ at[p] \in BeforeBuild
      BY <2>1, <2>4, AfterFacts
    <3>2. at[d] = "made"
      BY <1>6, <2>4, <3>1
    <3> QED
      BY <1>4, <1>5, <3>2
  <2>5. ASSUME at'[p] \in AfterConfigure, "configured" \in Wanted(p, GoalOf(p))
        PROVE  "configured" \in stamp'[p]
    <3>1. CASE at[p] = "configured"
      BY <2>5, <3>1 DEF Stages
    <3>2. CASE at[p] \in AfterConfigure
      <4>1. at[p] \notin Removals
        BY <3>2 DEF AfterConfigure, Removals
      <4> QED
        BY <1>6, <2>5, <3>2, <4>1
    <3> QED
      BY <2>1, <2>5, <3>1, <3>2, AfterFacts
  <2> QED
    BY <2>2, <2>3, <2>4, <2>5
<1> HIDE DEF Good
<1>9. \A q \in Pkgs : Good(q)
  BY <1>7, <1>8
<1> QED
  BY <1>2, <1>9 DEF Good, Progress

\* Progress outlives the start of a package that this make has not made yet.
LEMMA EnterProgress ==
  ASSUME Inv, Running, NEW p \in Pkgs, at[p] # "made",
         at' = [at EXCEPT ![p] = "downloaded"],
         \A q \in Pkgs \ {p} : caller'[q] = caller[q],
         UNCHANGED <<stamp, goal>>
  PROVE  Progress'
<1>1. at \in [Pkgs -> Steps \cup {"off", "made"}]
  BY DEF Inv, TypeOK
<1>2. at'[p] = "downloaded" /\ \A q \in Pkgs \ {p} : at'[q] = at[q]
  BY <1>1
<1>3. \A q \in Pkgs : DepSet(q) \subseteq Pkgs
  BY PkgsAssumption DEF DepSet
<1>4. \A d \in Pkgs : at[d] = "made" => at'[d] = "made"
  BY <1>2
<1>5. \A s \in {"staging", "target", "host"} : "downloaded" \notin PastInstall(s)
  BY DEF PastInstall, Removals
<1>6. "downloaded" \notin BeforeBuild \cup AfterConfigure
  BY DEF BeforeBuild, AfterConfigure
<1>7. ASSUME NEW q \in Pkgs \ {p} PROVE GoalOf(q)' = GoalOf(q)
  BY DEF GoalOf
<1> QED
  BY <1>2, <1>3, <1>4, <1>5, <1>6, <1>7, InstallStepsType DEF Inv, Progress

\* Progress outlives the return of make from a package.
LEMMA ReturnProgress ==
  ASSUME Inv, NEW p \in Pkgs, Return(p)
  PROVE  Progress'
<1>1. at \in [Pkgs -> Steps \cup {"off", "made"}]
  BY DEF Inv, TypeOK
<1>2. /\ at[p] = "end"
      /\ at'[p] = IF GoalOf(p) = "install" THEN "made" ELSE "off"
      /\ \A q \in Pkgs \ {p} : at'[q] = at[q]
  BY <1>1 DEF Return
<1>3. \A q \in Pkgs : DepSet(q) \subseteq Pkgs
  BY PkgsAssumption DEF DepSet
<1>4. \A d \in Pkgs : at[d] = "made" => at'[d] = "made"
  BY <1>2
<1>5. at'[p] = "made" => InstallSteps(p) \subseteq stamp[p]
  BY <1>2 DEF Inv, Progress, PastInstall, Return
<1>6. \A s \in {"staging", "target", "host"} : {"made", "off"} \cap PastInstall(s) = {}
  BY DEF PastInstall, Removals
<1>7. {"made", "off"} \cap (BeforeBuild \cup AfterConfigure) = {}
  BY DEF BeforeBuild, AfterConfigure
<1>8. \A q \in Pkgs : GoalOf(q)' = GoalOf(q)
  BY DEF GoalOf, Return
<1> QED
  BY <1>2, <1>3, <1>4, <1>5, <1>6, <1>7, <1>8, InstallStepsType
     DEF Inv, Progress, Return, disk, Running

\* StampHonest outlives a change of what one package left on disk, if the stages with
\* a stamp stay complete.
LEMMA HonestStep ==
  ASSUME Inv, NEW p \in Pkgs, NEW e \in [Stages -> Effects],
         effect' = [effect EXCEPT ![p] = e],
         \A q \in Pkgs \ {p} : stamp'[q] \subseteq stamp[q],
         \A t \in stamp'[p] \ {"downloaded"} : Whole(e[t])
  PROVE  StampHonest'
BY DEF Inv, TypeOK, StampHonest, Whole

\* StampHonest outlives a recipe that leaves the stage s in whatever state, as long as
\* s has no stamp before, and none after either unless it is complete.
LEMMA RecipeHonest ==
  ASSUME Inv, NEW p \in Pkgs, NEW s \in Stages, s \notin stamp[p],
         NEW e \in {effect[p]} \cup {Redone(effect[p], s, v) : v \in Effects},
         effect' = [effect EXCEPT ![p] = e],
         \A q \in Pkgs \ {p} : stamp'[q] \subseteq stamp[q],
         stamp'[p] \subseteq stamp[p] \cup {s},
         s \in stamp'[p] => s = "downloaded" \/ Whole(e[s])
  PROVE  StampHonest'
<1>1. effect[p] \in [Stages -> Effects] /\ stamp[p] \subseteq Stages
  BY DEF Inv, TypeOK
<1>2. e \in [Stages -> Effects]
  BY <1>1, RedoneType
<1>3. ASSUME NEW t \in stamp[p] \ {"downloaded"} PROVE Whole(e[t])
  <2>1. t \in Stages /\ t # s /\ Whole(effect[p][t])
    BY <1>1 DEF Inv, StampHonest
  <2> QED
    BY <1>1, <2>1, RedoneWhole
<1>4. ASSUME NEW t \in stamp'[p] \ {"downloaded"} PROVE Whole(e[t])
  BY <1>3
<1> QED
  BY <1>2, <1>4, HonestStep

\* One step of make preserves the invariant.
LEMMA MakeStepInv ==
  ASSUME Inv, NEW p \in Pkgs, MakeStep(p)
  PROVE  StampHonest' /\ Progress'
<1>t. TypeOK /\ stamp[p] \subseteq Stages /\ effect[p] \in [Stages -> Effects]
  BY DEF Inv, TypeOK
<1>g. GoalOf(p) \in AllGoals
  BY <1>t, GoalType
<1>d. "depends" \notin Stages
  BY DEF Stages
<1>1. CASE Skip(p)
  <2>1. StampHonest'
    BY <1>1 DEF Skip, disk, Inv, StampHonest
  <2>2. Progress'
    <3>1. /\ Running /\ Advance(p) /\ at[p] \in Steps
          /\ UNCHANGED <<caller, goal, stamp>>
          /\ at[p] \in Wanted(p, GoalOf(p)) => at[p] \in stamp[p]
      BY <1>1 DEF Skip, disk
    <3> QED
      BY <1>t, <1>d, <3>1, AdvanceProgress
  <2> QED
    BY <2>1, <2>2
<1>2. CASE MakeDependency(p)
  <2>1. StampHonest'
    BY <1>2 DEF MakeDependency, disk, Inv, StampHonest
  <2>2. PICK i \in DOMAIN Deps[p] :
          /\ at[Deps[p][i]] # "made"
          /\ at' = [at EXCEPT ![Deps[p][i]] = "downloaded"]
          /\ caller' = [caller EXCEPT ![Deps[p][i]] = p]
    BY <1>2 DEF MakeDependency
  <2>3. Deps[p][i] \in Pkgs
    BY PkgsAssumption
  <2>4. \A q \in Pkgs \ {Deps[p][i]} : caller'[q] = caller[q]
    BY <1>t, <2>2 DEF TypeOK
  <2>5. Progress'
    BY <1>2, <2>2, <2>3, <2>4, EnterProgress DEF MakeDependency, disk
  <2> QED
    BY <2>1, <2>5
<1>3. CASE DependenciesMade(p)
  <2>1. StampHonest'
    BY <1>3 DEF DependenciesMade, disk, Inv, StampHonest
  <2>2. /\ Running /\ Advance(p) /\ at[p] = "depends"
        /\ UNCHANGED <<caller, goal, stamp>>
        /\ \A d \in DepSet(p) : at[d] = "made"
    BY <1>3 DEF DependenciesMade, disk, Doing
  <2>3. Progress'
    BY <1>d, <2>2, AdvanceProgress DEF Steps
  <2> QED
    BY <2>1, <2>3
<1>4. CASE Return(p)
  BY <1>4, ReturnProgress DEF Return, disk, Inv, StampHonest
<1>5. ASSUME NEW s \in Stages, RunRecipe(p, s)
      PROVE  StampHonest' /\ Progress'
  <2>1. /\ Running /\ Advance(p) /\ at[p] = s /\ s \notin stamp[p]
        /\ UNCHANGED <<caller, goal>>
        /\ effect' = [effect EXCEPT ![p] = Result(p, s)]
        /\ stamp' = [stamp EXCEPT ![p] = @ \cup {s}]
    BY <1>5 DEF RunRecipe, Doing
  <2>2. stamp'[p] = stamp[p] \cup {s} /\ \A q \in Pkgs \ {p} : stamp'[q] = stamp[q]
    BY <1>t, <2>1 DEF TypeOK
  <2>3. Result(p, s) \in {effect[p]} \cup {Redone(effect[p], s, v) : v \in Effects}
    BY DEF Result, Effects
  <2>4. s = "downloaded" \/ Whole(Result(p, s)[s])
    BY <1>t DEF Result, Redone, Whole
  <2>5. StampHonest'
    <3>1. stamp'[p] \subseteq stamp[p] \cup {s} /\ \A q \in Pkgs \ {p} : stamp'[q] \subseteq stamp[q]
      BY <2>2
    <3>2. PICK e \in {effect[p]} \cup {Redone(effect[p], s, v) : v \in Effects} :
            e = Result(p, s)
      BY <2>3
    <3>3. effect' = [effect EXCEPT ![p] = e]
      BY <2>1, <3>2
    <3>4. s \in stamp'[p] => s = "downloaded" \/ Whole(e[s])
      BY <2>4, <3>2
    <3>5. s \notin stamp[p]
      BY <2>1
    <3> QED
      BY <3>1, <3>3, <3>4, <3>5, RecipeHonest
  <2>6. Progress'
    BY <1>d, <2>1, <2>2, AdvanceProgress DEF Steps
  <2> QED
    BY <2>5, <2>6
<1>6. ASSUME NEW s \in Stages, RecipeFails(p, s)
      PROVE  StampHonest' /\ Progress'
  <2>1. /\ s \notin stamp[p] /\ stamp' = stamp
        /\ effect' = [effect EXCEPT ![p] = Redone(effect[p], s, "partial")]
    BY <1>6 DEF RecipeFails
  <2>2. StampHonest'
    BY <2>1, RecipeHonest DEF Effects
  <2>3. ~Running'
    BY <1>6 DEF RecipeFails, MakeDies, Running
  <2> QED
    BY <2>2, <2>3 DEF Progress
<1>7. ASSUME NEW r \in Removals \ {"dirclean"}, Remove(p, r)
      PROVE  StampHonest' /\ Progress'
  <2>1. /\ Running /\ Advance(p) /\ at[p] = r /\ r \in Wanted(p, GoalOf(p))
        /\ UNCHANGED <<caller, goal>>
        /\ stamp' = [stamp EXCEPT ![p] = @ \ {Undone(r)}]
    BY <1>7 DEF Remove, Doing
  <2>2. stamp'[p] = stamp[p] \ {Undone(r)} /\ \A q \in Pkgs \ {p} : stamp'[q] = stamp[q]
    BY <1>t, <2>1 DEF TypeOK
  <2>3. PICK v \in Left(p, r) : effect' = [effect EXCEPT ![p][Undone(r)] = v]
    BY <1>7 DEF Remove
  <2>4. Undone(r) \in Stages
    BY DEF Undone, Removals, Stages
  <2>5. v \in Effects
    BY <1>t, <2>3, <2>4 DEF Left, Effects
  <2>6. /\ [effect[p] EXCEPT ![Undone(r)] = v] \in [Stages -> Effects]
        /\ effect' = [effect EXCEPT ![p] = [effect[p] EXCEPT ![Undone(r)] = v]]
        /\ \A t \in stamp'[p] \ {"downloaded"} : Whole([effect[p] EXCEPT ![Undone(r)] = v][t])
    BY <1>t, <2>2, <2>3, <2>4, <2>5 DEF Inv, StampHonest, TypeOK
  <2>7. StampHonest'
    BY <2>2, <2>6, HonestStep
  <2>8. r \in Removals /\ r \notin Stages /\ r # "depends"
    BY DEF Removals, Stages
  <2>9. GoalOf(p) # "install"
    BY <1>g, <2>1, <2>8, WantedFacts
  <2>10. Progress'
    BY <2>1, <2>2, <2>8, <2>9, AdvanceProgress DEF Steps
  <2> QED
    BY <2>7, <2>10
<1>8. CASE DirClean(p)
  <2> DEFINE e == [s \in Stages |-> IF s \in BuildDirStages THEN "none" ELSE effect[p][s]]
  <2>1. /\ Running /\ Advance(p) /\ at[p] = "dirclean" /\ "dirclean" \in Wanted(p, GoalOf(p))
        /\ UNCHANGED <<caller, goal>>
        /\ stamp' = [stamp EXCEPT ![p] = {}]
        /\ effect' = [effect EXCEPT ![p] = e]
    BY <1>8 DEF DirClean, Doing
  <2>2. stamp'[p] = {} /\ \A q \in Pkgs \ {p} : stamp'[q] = stamp[q]
    BY <1>t, <2>1 DEF TypeOK
  <2>3. e \in [Stages -> Effects]
    BY <1>t DEF Effects
  <2>4. StampHonest'
    BY <2>1, <2>2, <2>3, HonestStep
  <2>5. "dirclean" \in Removals /\ "dirclean" \notin Stages
    BY DEF Removals, Stages
  <2>6. GoalOf(p) # "install"
    BY <1>g, <2>1, <2>5, WantedFacts
  <2>7. Progress'
    BY <2>1, <2>2, <2>5, <2>6, AdvanceProgress DEF Steps
  <2> QED
    BY <2>4, <2>7
<1> QED
  BY <1>1, <1>2, <1>3, <1>4, <1>5, <1>6, <1>7, <1>8 DEF MakeStep

\* The invariant is inductive as long as no removal is interrupted.
LEMMA InvStep ==
  ASSUME "cut" \notin Ops, Inv, [Next]_vars
  PROVE  Inv'
<1>t. TypeOK'
  BY TypeStep DEF Inv
<1>0. SUFFICES StampHonest' /\ Progress'
  BY <1>t DEF Inv
<1>1. ASSUME NEW g, NEW list, Start(g, list)
      PROVE  StampHonest' /\ Progress'
  <2>1. \A p \in Pkgs : at'[p] = "off"
    BY <1>1 DEF Start
  <2>2. \A s \in {"staging", "target", "host"} : "off" \notin PastInstall(s)
    BY DEF PastInstall, Removals
  <2>3. "off" \notin BeforeBuild \cup AfterConfigure
    BY DEF BeforeBuild, AfterConfigure
  <2>4. Progress'
    BY <2>1, <2>2, <2>3, InstallStepsType DEF Progress
  <2> QED
    BY <1>1, <2>4 DEF Start, disk, Inv, StampHonest
<1>2. CASE StartPkg \/ StartWorld
  BY <1>1, <1>2 DEF StartPkg, StartWorld
<1>3. CASE NextGoal
  <2>1. StampHonest'
    BY <1>3 DEF NextGoal, disk, Inv, StampHonest
  <2>2. Running /\ UNCHANGED <<stamp, caller, goal>> /\ Running' /\ Head(todo) \in Pkgs
    BY <1>3 DEF NextGoal, disk, Inv, TypeOK, Running
  <2>3. CASE at[Head(todo)] = "made"
    <3>1. at' = at
      BY <1>3, <2>3 DEF NextGoal
    <3> QED
      BY <2>1, <2>2, <3>1 DEF Inv, Progress, GoalOf
  <2>4. CASE at[Head(todo)] # "made"
    <3>1. at' = [at EXCEPT ![Head(todo)] = "downloaded"]
      BY <1>3, <2>4 DEF NextGoal
    <3>2. PICK h \in Pkgs : h = Head(todo)
      BY <2>2
    <3>3. Progress'
      BY <2>2, <2>4, <3>1, <3>2, EnterProgress
    <3> QED
      BY <2>1, <3>3
  <2> QED
    BY <2>3, <2>4
<1>4. CASE MakeEnds
  BY <1>4 DEF MakeEnds, disk, Inv, StampHonest, Progress, Running
<1>5. CASE \E p \in Pkgs : MakeStep(p)
  BY <1>5, MakeStepInv
<1>6. ASSUME NEW p \in Pkgs, NEW s \in Stages, RecipeStops(p, s)
      PROVE  StampHonest' /\ Progress'
  <2>1. s \notin stamp[p] /\ stamp' = stamp
    BY <1>6 DEF RecipeStops
  <2>2. PICK e \in Remains(p, s) : effect' = [effect EXCEPT ![p] = e]
    BY <1>6 DEF RecipeStops
  <2>3. e \in {effect[p]} \cup {Redone(effect[p], s, v) : v \in Effects}
    BY <2>2 DEF Remains, Effects
  <2>4. StampHonest'
    BY <2>1, <2>2, <2>3, RecipeHonest
  <2>5. ~Running'
    BY <1>6 DEF RecipeStops, MakeDies, Running
  <2> QED
    BY <2>4, <2>5 DEF Progress
<1>7. CASE \E p \in Pkgs, s \in {"configured", "built"} : RemoveStamp(p, s)
  <2>1. PICK p \in Pkgs, s \in {"configured", "built"} : RemoveStamp(p, s)
    BY <1>7
  <2>2. \A q \in Pkgs : stamp'[q] \subseteq stamp[q]
    BY <2>1 DEF RemoveStamp, Inv, TypeOK
  <2>3. effect' = effect /\ ~Running'
    BY <2>1 DEF RemoveStamp, Forget, Running
  <2> QED
    BY <2>2, <2>3 DEF Inv, StampHonest, Progress
<1>8. CASE Wipe
  BY <1>8 DEF Wipe, Forget, Running, StampHonest, Progress
<1>9. CASE UNCHANGED vars
  BY <1>9 DEF vars, Inv, StampHonest, Progress, Running, GoalOf
<1> QED
  BY <1>2, <1>3, <1>4, <1>5, <1>6, <1>7, <1>8, <1>9
     DEF Next, Make, Disturb, RemoveCut, DirCleanCut, WipeCut

\* The invariant holds initially and so always.
LEMMA Invariance == ASSUME "cut" \notin Ops PROVE Spec => []Inv
<1>1. Init => Inv
  BY DEF Init, Inv, TypeOK, Effects, AllGoals, StampHonest, Progress, Running
<1>2. Inv /\ [Next]_vars => Inv'
  BY InvStep
<1> QED
  BY <1>1, <1>2, PTL DEF Spec

\* A stamp stands for a complete result on disk, after any sequence of builds, failed
\* and killed builds, uninstalls, cleans and stamps removed by hand.
THEOREM StampsAreHonest == ASSUME "cut" \notin Ops PROVE Spec => []StampHonest
<1>1. Inv => StampHonest
  BY DEF Inv
<1> QED
  BY <1>1, Invariance, PTL

\* A package whose target was made in this invocation is installed.
LEMMA MadeIsInstalled ==
  ASSUME Inv, Running, NEW p \in Pkgs, at[p] = "made"
  PROVE  Installed(p)
<1>1. InstallSteps(p) \subseteq stamp[p] \ {"downloaded"}
  BY InstallStepsType DEF Inv, Progress
<1> QED
  BY <1>1 DEF Inv, StampHonest, Installed

\* A package about to be configured has its dependencies installed.
LEMMA ConfigureHasDeps ==
  ASSUME Inv, Running, NEW p \in Pkgs, Doing(p, "configured")
  PROVE  \A d \in DepSet(p) : Installed(d)
<1>1. at[p] \in BeforeBuild /\ "configured" \in Wanted(p, GoalOf(p))
  BY DEF Doing, BeforeBuild
<1>2. "depends" \in Wanted(p, GoalOf(p))
  BY <1>1, WantedFacts, GoalType DEF Inv
<1>3. \A d \in DepSet(p) : at[d] = "made"
  BY <1>1, <1>2 DEF Inv, Progress
<1>4. DepSet(p) \subseteq Pkgs
  BY PkgsAssumption DEF DepSet
<1> QED
  BY <1>3, <1>4, MadeIsInstalled

\* The guarantee documented for <PKG>_DEPENDENCIES, for every dependency graph.
THEOREM DependenciesFirst ==
  ASSUME "cut" \notin Ops PROVE Spec => []DepsInstalledAtConfigure
<1>1. Inv => DepsInstalledAtConfigure
  BY ConfigureHasDeps DEF DepsInstalledAtConfigure
<1> QED
  BY <1>1, Invariance, PTL

-----------------------------------------------------------------------------
(* PackageBuild implements DependencyOrder.                                *)

\* A step that loses stamps and files is an Undo.
LEMMA UndoStep ==
  ASSUME \A p \in Pkgs : "configured" \in stamp'[p] => "configured" \in stamp[p],
         \A p \in Pkgs : Installed(p)' => Installed(p)
  PROVE  Order!Next
BY DEF Order!Next, Order!Undo

\* A recipe of the stage s of p changes nothing else that counts as installed.
LEMMA OthersInstalled ==
  ASSUME TypeOK, NEW p \in Pkgs, NEW s \in Stages,
         NEW e \in {effect[p]} \cup {Redone(effect[p], s, v) : v \in Effects},
         effect' = [effect EXCEPT ![p] = e]
  PROVE  /\ \A q \in Pkgs \ {p} : Installed(q)' = Installed(q)
         /\ s \notin InstallSteps(p) => (Installed(p)' <=> Installed(p))
<1>1. effect[p] \in [Stages -> Effects] /\ effect'[p] = e
      /\ \A q \in Pkgs \ {p} : effect'[q] = effect[q]
  BY DEF TypeOK
<1>2. ASSUME NEW t \in Stages \ {s} PROVE Whole(e[t]) <=> Whole(effect[p][t])
  BY <1>1 DEF Redone, Whole, Effects
<1>3. InstallSteps(p) \subseteq Stages
  BY InstallStepsType DEF Stages
<1>4. ASSUME s \notin InstallSteps(p) PROVE Installed(p)' <=> Installed(p)
  BY <1>1, <1>2, <1>3, <1>4 DEF Installed
<1>5. \A q \in Pkgs \ {p} : Installed(q)' = Installed(q)
  BY <1>1 DEF Installed
<1> QED
  BY <1>4, <1>5

\* A package whose install recipe runs has been configured.
LEMMA InstallAfterConfigure ==
  ASSUME Inv, Running, NEW p \in Pkgs, NEW s \in InstallSteps(p), Doing(p, s)
  PROVE  "configured" \in stamp[p]
<1>1. s \in {"staging", "target", "host"}
  BY InstallStepsType
<1>2. at[p] \in AfterConfigure /\ s \in Wanted(p, GoalOf(p))
  BY <1>1 DEF Doing, AfterConfigure
<1>3. "configured" \in Wanted(p, GoalOf(p))
  BY <1>1, <1>2, WantedFacts, GoalType DEF Inv
<1> QED
  BY <1>2, <1>3 DEF Inv, Progress

\* A recipe, whether it ends or dies, is at most one abstract step.
LEMMA RecipeRefines ==
  ASSUME Inv, Running, NEW p \in Pkgs, NEW s \in Stages, Doing(p, s),
         NEW e \in {effect[p]} \cup {Redone(effect[p], s, v) : v \in Effects},
         effect' = [effect EXCEPT ![p] = e],
         \/ stamp' = stamp
         \/ stamp' = [stamp EXCEPT ![p] = @ \cup {s}]
  PROVE  Order!Next
<1>1. /\ \A q \in Pkgs \ {p} : Installed(q)' = Installed(q)
      /\ s \notin InstallSteps(p) => (Installed(p)' <=> Installed(p))
  BY OthersInstalled DEF Inv
<1>2. /\ \A q \in Pkgs \ {p} : stamp'[q] = stamp[q]
      /\ stamp'[p] = stamp[p] \/ stamp'[p] = stamp[p] \cup {s}
  BY DEF Inv, TypeOK
<1>3. CASE s = "configured"
  <2>1. \A q \in Pkgs : Installed(q)' <=> Installed(q)
    BY <1>1, <1>3, InstallStepsType
  <2>2. CASE stamp'[p] = stamp[p]
    BY <1>2, <2>1, <2>2, UndoStep
  <2>3. CASE stamp'[p] = stamp[p] \cup {s}
    <3>1. \A d \in DepSet(p) : Installed(d) /\ d \in Pkgs
      BY <1>3, ConfigureHasDeps, PkgsAssumption DEF DepSet
    <3>2. {q \in Pkgs : "configured" \in stamp'[q]}
            = {q \in Pkgs : "configured" \in stamp[q]} \cup {p}
      BY <1>2, <1>3, <2>3
    <3>3. {q \in Pkgs : Installed(q)'} = {q \in Pkgs : Installed(q)}
      BY <2>1
    <3>4. Order!Configure(p)
      BY <3>1, <3>2, <3>3 DEF Order!Configure
    <3> QED
      BY <3>4 DEF Order!Next
  <2> QED
    BY <1>2, <2>2, <2>3
<1>4. CASE s # "configured" /\ (Installed(p)' => Installed(p))
  BY <1>1, <1>2, <1>4, UndoStep
<1>5. CASE s # "configured" /\ Installed(p)' /\ ~Installed(p)
  <2>1. s \in InstallSteps(p)
    BY <1>1, <1>5
  <2>2. "configured" \in stamp[p]
    BY <2>1, InstallAfterConfigure
  <2>3. {q \in Pkgs : "configured" \in stamp'[q]} = {q \in Pkgs : "configured" \in stamp[q]}
    BY <1>2, <1>5
  <2>4. {q \in Pkgs : Installed(q)'} = {q \in Pkgs : Installed(q)} \cup {p}
    BY <1>1, <1>5
  <2>5. Order!Install(p)
    BY <2>2, <2>3, <2>4 DEF Order!Install
  <2> QED
    BY <2>5 DEF Order!Next
<1> QED
  BY <1>3, <1>4, <1>5

\* Every step is an abstract step or changes nothing the abstraction sees.
LEMMA StepRefines ==
  ASSUME "cut" \notin Ops, Inv, [Next]_vars
  PROVE  Order!Next
<1>t. TypeOK
  BY DEF Inv
<1>1. ASSUME UNCHANGED disk PROVE Order!Next
  <2>1. stamp' = stamp /\ effect' = effect
    BY <1>1 DEF disk
  <2>2. \A p \in Pkgs : Installed(p)' => Installed(p)
    BY <2>1 DEF Installed
  <2> QED
    BY <2>1, <2>2, UndoStep
<1>2. CASE StartPkg \/ StartWorld \/ NextGoal \/ MakeEnds
  BY <1>1, <1>2 DEF StartPkg, StartWorld, Start, NextGoal, MakeEnds
<1>3. ASSUME NEW p \in Pkgs, MakeStep(p) PROVE Order!Next
  <2>1. CASE Skip(p) \/ MakeDependency(p) \/ DependenciesMade(p) \/ Return(p)
    BY <1>1, <2>1 DEF Skip, MakeDependency, DependenciesMade, Return
  <2>2. ASSUME NEW s \in Stages, RunRecipe(p, s) PROVE Order!Next
    <3>1. PICK e \in {effect[p]} \cup {Redone(effect[p], s, v) : v \in Effects} :
            e = Result(p, s)
      BY DEF Result, Effects
    <3>2. effect' = [effect EXCEPT ![p] = e]
      BY <2>2, <3>1 DEF RunRecipe
    <3>3. Running /\ Doing(p, s) /\ stamp' = [stamp EXCEPT ![p] = @ \cup {s}]
      BY <2>2 DEF RunRecipe
    <3> QED
      BY <3>2, <3>3, RecipeRefines
  <2>3. ASSUME NEW s \in Stages, RecipeFails(p, s) PROVE Order!Next
    <3>1. PICK e \in {effect[p]} \cup {Redone(effect[p], s, v) : v \in Effects} :
            e = Redone(effect[p], s, "partial")
      BY DEF Effects
    <3>2. effect' = [effect EXCEPT ![p] = e]
      BY <2>3, <3>1 DEF RecipeFails
    <3>3. Running /\ Doing(p, s) /\ stamp' = stamp
      BY <2>3 DEF RecipeFails
    <3> QED
      BY <3>2, <3>3, RecipeRefines
  <2>4. ASSUME NEW r \in Removals \ {"dirclean"}, Remove(p, r) PROVE Order!Next
    <3>1. PICK v \in Left(p, r) : effect' = [effect EXCEPT ![p][Undone(r)] = v]
      BY <2>4 DEF Remove
    <3>2. Undone(r) \in Stages
      BY DEF Undone, Removals, Stages
    <3>3. \A q \in Pkgs : stamp'[q] \subseteq stamp[q]
      BY <1>t, <2>4 DEF Remove, TypeOK
    <3>4. v \in {"none", "partial", effect[p][Undone(r)]}
      BY <3>1 DEF Left
    <3>5. \A q \in Pkgs : \A s \in Stages : Whole(effect'[q][s]) => Whole(effect[q][s])
      BY <1>t, <3>1, <3>2, <3>4 DEF TypeOK, Whole
    <3>6. \A q \in Pkgs : Installed(q)' => Installed(q)
      BY <3>5, InstallStepsType DEF Installed, Stages
    <3> QED
      BY <3>3, <3>6, UndoStep
  <2>5. CASE DirClean(p)
    <3>1. \A q \in Pkgs : \A s \in Stages : Whole(effect'[q][s]) => Whole(effect[q][s])
      BY <1>t, <2>5 DEF DirClean, TypeOK, Whole
    <3>2. \A q \in Pkgs : Installed(q)' => Installed(q)
      BY <3>1, InstallStepsType DEF Installed, Stages
    <3>3. \A q \in Pkgs : stamp'[q] \subseteq stamp[q]
      BY <1>t, <2>5 DEF DirClean, TypeOK
    <3> QED
      BY <3>2, <3>3, UndoStep
  <2> QED
    BY <1>3, <2>1, <2>2, <2>3, <2>4, <2>5 DEF MakeStep
<1>4. ASSUME NEW p \in Pkgs, NEW s \in Stages, RecipeStops(p, s) PROVE Order!Next
  <2>1. PICK e \in Remains(p, s) : effect' = [effect EXCEPT ![p] = e]
    BY <1>4 DEF RecipeStops
  <2>2. e \in {effect[p]} \cup {Redone(effect[p], s, v) : v \in Effects}
    BY <2>1 DEF Remains, Effects
  <2>3. Running /\ Doing(p, s) /\ stamp' = stamp
    BY <1>4 DEF RecipeStops
  <2> QED
    BY <2>1, <2>2, <2>3, RecipeRefines
<1>5. CASE \E p \in Pkgs, s \in {"configured", "built"} : RemoveStamp(p, s)
  <2>1. PICK p \in Pkgs, s \in {"configured", "built"} : RemoveStamp(p, s)
    BY <1>5
  <2>2. \A q \in Pkgs : stamp'[q] \subseteq stamp[q] /\ (Installed(q)' => Installed(q))
    BY <1>t, <2>1 DEF RemoveStamp, TypeOK, Installed
  <2> QED
    BY <2>2, UndoStep
<1>6. CASE Wipe
  <2>1. \A q \in Pkgs : \A s \in Stages : Whole(effect'[q][s]) => Whole(effect[q][s])
    BY <1>6 DEF Wipe, Whole
  <2>2. \A q \in Pkgs : Installed(q)' => Installed(q)
    BY <2>1, InstallStepsType DEF Installed, Stages
  <2>3. \A q \in Pkgs : stamp'[q] = {}
    BY <1>6 DEF Wipe
  <2> QED
    BY <2>2, <2>3, UndoStep
<1>7. CASE UNCHANGED vars
  BY <1>1, <1>7 DEF vars, disk
<1> QED
  BY <1>2, <1>3, <1>4, <1>5, <1>6, <1>7
     DEF Next, Make, Disturb, RemoveCut, DirCleanCut, WipeCut

\* The stamp machinery implements the promise it makes to package authors: packages are
\* configured and installed in dependency order, however often they are undone.
THEOREM ImplementsDependencyOrder ==
  ASSUME "cut" \notin Ops PROVE Spec => DependencyOrderSpec
<1>1. Init => Order!Init
  <2>1. ASSUME Init, NEW p \in Pkgs
        PROVE  "configured" \notin stamp[p] /\ (Installed(p) <=> InstallSteps(p) = {})
    BY <2>1, InstallStepsType DEF Init, Installed, Whole, Stages
  <2> QED
    BY <2>1 DEF Order!Init
<1>2. Inv /\ [Next]_vars => Order!Next
  BY StepRefines
<1> QED
  BY <1>1, <1>2, Invariance, PTL DEF Spec, DependencyOrderSpec, Order!Spec

(***************************************************************************)
(* A build that succeeds is up to date, for every graph without circles,   *)
(* when stamps are not removed by hand, host packages are not cleaned and  *)
(* no removal is interrupted.  Three invariants carry it: which packages   *)
(* are being made (a stack, of falling level), what the stamps of a        *)
(* package say about one another, and that whatever was asked for is made, *)
(* waits its turn or is under way.                                         *)
(***************************************************************************)

-----------------------------------------------------------------------------
(* The invariants.                                                         *)

\* The packages that make is in the middle of.
Stack == {p \in Pkgs : at[p] \in Steps}

\* The one make works on is the deepest, and each of the others needs the next one below.
StackInv ==
  Running =>
    /\ cur = NoPkg => Stack = {}
    /\ cur # NoPkg => cur \in Stack /\ \A q \in Stack \ {cur} : Level[cur] < Level[q]
    /\ \A p \in Stack : caller[p] = NoPkg => \A q \in Stack \ {p} : Level[q] < Level[p]
    /\ \A p \in Stack : caller[p] # NoPkg =>
         /\ caller[p] \in Stack /\ Level[p] < Level[caller[p]]
         /\ \A q \in Stack \ {p, caller[p]} : Level[q] < Level[p] \/ Level[caller[p]] < Level[q]
    /\ \A p \in Pkgs : caller[p] # NoPkg => at[p] \in Steps \cup {"made"}

Waiting == {todo[i] : i \in DOMAIN todo}

\* What was asked for, and by which goal.
AskedInv ==
  Running =>
    /\ Waiting \subseteq asked
    /\ \A p \in Stack : caller[p] = NoPkg => p \in asked
    /\ goal = "clean" => asked \cap Host = {}
    /\ goal = "install" => \A p \in asked : at[p] = "made" \/ p \in Waiting \cup Stack

\* A stage has a stamp only if the stages it is made from have theirs, and then its
\* result is the one that the present results of those stages give.
Closed == \A p \in Pkgs : \A s \in stamp[p], t \in Stages : s \in Later(t) => t \in stamp[p]
Current == \A p \in Pkgs : \A s \in stamp[p] \ {"downloaded"} : effect[p][s] = "done"
HostStamps == \A p \in Pkgs : "host" \in stamp[p] => p \in Host

\* Where make is in a package tells which stamps are there, and which a clean has removed.
Reached ==
  Running =>
    \A p \in Pkgs :
      /\ \A t \in Stages : t \in Wanted(p, GoalOf(p)) /\ at[p] \in Later(t) => t \in stamp[p]
      /\ GoalOf(p) = "clean" /\ at[p] \in {"untarget", "clean"} => "staging" \notin stamp[p]
      /\ GoalOf(p) = "clean" /\ at[p] = "clean" => "target" \notin stamp[p]

DiskInv == Closed /\ Current /\ HostStamps /\ Reached

\* What a package that is installed depends on has been made in the same invocation.
AfterDepends == Steps \ {"downloaded", "depends"}
DepsMade ==
  Running =>
    \A p \in Pkgs :
      /\ InstallSteps(p) # {}
      /\ at[p] = "made" \/ (at[p] \in AfterDepends /\ GoalOf(p) = "install")
      => \A d \in DepSet(p) : at[d] = "made"

-----------------------------------------------------------------------------
(* The kinds of steps, as far as make's own state goes.                    *)

Calm == Ops \subseteq {"stop", "wipe"}

\* make goes from one target of p to the next.
Passes(p) ==
  /\ Running /\ cur = p /\ at[p] \in Steps \ {"end"}
  /\ at[p] = "depends" /\ "depends" \in Wanted(p, GoalOf(p)) => \A d \in DepSet(p) : at[d] = "made"
  /\ Advance(p)
  /\ UNCHANGED <<caller, cur, goal, todo, asked, outcome>>

LEMMA StepKinds ==
  ASSUME TypeOK, Calm, Next
  PROVE  \/ StartPkg \/ StartWorld \/ NextGoal \/ MakeEnds
         \/ \E p \in Pkgs : Passes(p) \/ MakeDependency(p) \/ Return(p)
         \/ ~Running' /\ outcome' # "ok"
<1>1. ASSUME NEW p \in Pkgs, MakeStep(p)
      PROVE  \/ Passes(p) \/ MakeDependency(p) \/ Return(p)
             \/ ~Running' /\ outcome' # "ok"
  <2>0. "depends" \notin Stages \cup Removals
    BY DEF Stages, Removals
  <2>1. CASE Skip(p)
    <3>1. "depends" \notin stamp[p]
      BY <2>0 DEF TypeOK
    <3> QED
      BY <2>1, <3>1 DEF Skip, Passes
  <2>2. CASE DependenciesMade(p)
    <3>1. "depends" \in Steps \ {"end"}
      BY DEF Steps, Stages, Removals
    <3> QED
      BY <2>2, <3>1 DEF DependenciesMade, Doing, Passes
  <2>3. ASSUME NEW s \in Stages, RunRecipe(p, s) PROVE Passes(p)
    <3>1. s \in Steps \ {"end"} /\ s # "depends"
      BY <2>0 DEF Steps, Stages
    <3> QED
      BY <2>3, <3>1 DEF RunRecipe, Doing, Passes
  <2>4. ASSUME NEW r \in Removals \ {"dirclean"}, Remove(p, r) PROVE Passes(p)
    <3>1. r \in Steps \ {"end"} /\ r # "depends"
      BY <2>0 DEF Steps, Removals
    <3> QED
      BY <2>4, <3>1 DEF Remove, Doing, Passes
  <2>5. CASE DirClean(p)
    <3>1. "dirclean" \in Steps \ {"end"}
      BY DEF Steps, Removals
    <3> QED
      BY <2>5, <3>1 DEF DirClean, Doing, Passes
  <2>6. CASE \E s \in Stages : RecipeFails(p, s)
    BY <2>6 DEF RecipeFails, MakeDies, Running
  <2> QED
    BY <1>1, <2>1, <2>2, <2>3, <2>4, <2>5, <2>6 DEF MakeStep
<1>2. CASE Disturb
  BY <1>2 DEF Calm, Disturb, RecipeStops, RemoveCut, DirCleanCut, RemoveStamp, Wipe, WipeCut,
              Forget, MakeDies, Running
<1> QED
  BY <1>1, <1>2 DEF Next, Make

\* What a new invocation begins with.
LEMMA Begins ==
  ASSUME Calm, StartPkg \/ StartWorld
  PROVE  /\ Running' /\ ~Running /\ cur' = NoPkg /\ UNCHANGED disk
         /\ \A p \in Pkgs : at'[p] = "off" /\ caller'[p] = NoPkg
         /\ Waiting' = asked'
         /\ goal' = "clean" => asked' \cap Host = {}
<1>1. PICK g, list : /\ Start(g, list)
                     /\ g = "clean" => {list[i] : i \in DOMAIN list} \cap Host = {}
  <2>1. CASE StartPkg
    <3>1. PICK p \in Pkgs, g \in Goals : /\ g = "clean" /\ p \in Host => "hostclean" \in Ops
                                         /\ Start(g, <<p>>)
      BY <2>1 DEF StartPkg
    <3>2. {<<p>>[i] : i \in DOMAIN <<p>>} = {p}
      OBVIOUS
    <3> QED
      BY <3>1, <3>2 DEF Calm
  <2>2. CASE StartWorld
    <3>1. Start("install", TARGETS)
      BY <2>2 DEF StartWorld
    <3> QED
      BY <3>1
  <2> QED
    BY <2>1, <2>2
<1> QED
  BY <1>1 DEF Start, Running, Waiting

\* What is made stays made, and a step of p moves p from target to target.
LEMMA PassesStack ==
  ASSUME TypeOK, NEW p \in Pkgs, Passes(p)
  PROVE  /\ Running' /\ Stack' = Stack /\ \A q \in Pkgs : at[q] = "made" <=> at'[q] = "made"
         /\ \A q \in Pkgs \ {p} : at'[q] = at[q]
         /\ at'[p] = After(at[p]) /\ at'[p] \in Steps
         /\ \A q \in Pkgs : GoalOf(q)' = GoalOf(q)
<1>1. at' = [at EXCEPT ![p] = After(at[p])] /\ at \in [Pkgs -> Steps \cup {"off", "made"}]
  BY DEF Passes, Advance, TypeOK
<1>2. at[p] \in Steps /\ After(at[p]) \in Steps
  BY AfterType DEF Passes
<1>3. "made" \notin Steps
  BY DEF Steps, Stages, Removals
<1>4. \A q \in Pkgs \ {p} : at'[q] = at[q]
  BY <1>1
<1>5. at'[p] = After(at[p])
  BY <1>1
<1>6. Stack' = Stack
  BY <1>2, <1>4, <1>5 DEF Stack
<1>7. \A q \in Pkgs : GoalOf(q)' = GoalOf(q)
  BY DEF Passes, GoalOf
<1> QED
  BY <1>2, <1>3, <1>4, <1>5, <1>6, <1>7 DEF Passes, Running

LEMMA DependencyStack ==
  ASSUME TypeOK, StackInv, NEW p \in Pkgs, MakeDependency(p)
  PROVE  \E d \in DepSet(p) :
           /\ d \in Pkgs /\ d # p /\ Level[d] < Level[p] /\ p \in Stack /\ d \notin Stack
           /\ at[d] # "made" /\ cur = p /\ cur' = d
           /\ Running /\ Running' /\ Stack' = Stack \cup {d}
           /\ at'[d] = "downloaded" /\ \A q \in Pkgs \ {d} : at'[q] = at[q]
           /\ caller'[d] = p /\ \A q \in Pkgs \ {d} : caller'[q] = caller[q]
<1>1. PICK i \in DOMAIN Deps[p] :
        /\ at[Deps[p][i]] # "made"
        /\ at' = [at EXCEPT ![Deps[p][i]] = "downloaded"]
        /\ caller' = [caller EXCEPT ![Deps[p][i]] = p]
        /\ cur' = Deps[p][i]
  BY DEF MakeDependency
<1> DEFINE d == Deps[p][i]
<1>2. d \in DepSet(p) /\ d \in Pkgs
  BY PkgsAssumption DEF DepSet
<1>3. Level[d] < Level[p] /\ Level[d] \in Nat /\ Level[p] \in Nat
  BY <1>2, DepsAcyclic
<1>4. Running /\ Running' /\ cur = p /\ p # NoPkg
  BY PkgsAssumption DEF MakeDependency, Doing, Running
<1> HIDE DEF d
<1>5. p \in Stack /\ \A q \in Stack \ {p} : Level[p] < Level[q]
  BY <1>4 DEF StackInv
<1>6. d \notin Stack /\ d # p
  BY <1>3, <1>5
<1>7. /\ at'[d] = "downloaded" /\ \A q \in Pkgs \ {d} : at'[q] = at[q]
      /\ caller'[d] = p /\ \A q \in Pkgs \ {d} : caller'[q] = caller[q]
      /\ cur' = d /\ at[d] # "made"
  BY <1>1, <1>2 DEF d, TypeOK
<1>8. "downloaded" \in Steps
  BY DEF Steps, Stages
<1>9. Stack' = Stack \cup {d}
  BY <1>2, <1>7, <1>8 DEF Stack
<1> QED
  BY <1>2, <1>3, <1>4, <1>5, <1>6, <1>7, <1>9

LEMMA ReturnStack ==
  ASSUME TypeOK, StackInv, NEW p \in Pkgs, Return(p)
  PROVE  /\ Running /\ Running' /\ cur = p /\ cur' = caller[p]
         /\ p \in Stack /\ Stack' = Stack \ {p} /\ \A q \in Stack' : Level[p] < Level[q]
         /\ at[p] = "end" /\ at'[p] = IF GoalOf(p) = "install" THEN "made" ELSE "off"
         /\ \A q \in Pkgs \ {p} : at'[q] = at[q]
         /\ UNCHANGED <<disk, caller, goal, todo, asked>>
<1>1. at' = [at EXCEPT ![p] = IF GoalOf(p) = "install" THEN "made" ELSE "off"]
      /\ Running /\ cur = p /\ at[p] = "end" /\ cur' = caller[p] /\ Running'
      /\ UNCHANGED <<disk, caller, goal, todo, asked>>
  BY DEF Return, Running
<1>2. /\ at'[p] = IF GoalOf(p) = "install" THEN "made" ELSE "off"
      /\ \A q \in Pkgs \ {p} : at'[q] = at[q]
  BY <1>1 DEF TypeOK
<1>3. "end" \in Steps /\ "made" \notin Steps /\ "off" \notin Steps
  BY DEF Steps, Stages, Removals
<1>4. p \in Stack /\ Stack' = Stack \ {p}
  BY <1>1, <1>2, <1>3 DEF Stack
<1>5. p # NoPkg
  BY PkgsAssumption
<1>6. \A q \in Stack \ {p} : Level[p] < Level[q]
  BY <1>1, <1>5 DEF StackInv
<1> QED
  BY <1>1, <1>2, <1>4, <1>6

\* A package whose turn comes is not under way.
LEMMA NextGoalStack ==
  ASSUME TypeOK, StackInv, NextGoal
  PROVE  \E h \in Pkgs :
           /\ h \in Waiting /\ Waiting \subseteq Waiting' \cup {h} /\ Waiting' \subseteq Waiting
           /\ Running /\ Running' /\ Stack = {} /\ UNCHANGED <<disk, caller, goal, asked>>
           /\ \/ at[h] = "made" /\ UNCHANGED <<at, cur>>
              \/ /\ at[h] = "off" /\ at'[h] = "downloaded" /\ caller[h] = NoPkg
                 /\ \A q \in Pkgs \ {h} : at'[q] = at[q]
                 /\ cur' = h /\ Stack' = {h}
<1> DEFINE h == Head(todo)
<1>1. Running /\ Running' /\ cur = NoPkg /\ todo # <<>> /\ todo \in Seq(Pkgs) /\ todo' = Tail(todo)
      /\ UNCHANGED <<disk, caller, goal, asked>>
  BY DEF NextGoal, TypeOK, Running
<1>2. h \in Pkgs /\ h \in Waiting /\ Waiting' \subseteq Waiting
  BY <1>1 DEF Waiting
<1>3. Waiting \subseteq Waiting' \cup {h}
  <2> SUFFICES ASSUME NEW i \in DOMAIN todo, i # 1
               PROVE  \E j \in DOMAIN todo' : todo'[j] = todo[i]
    BY <1>1 DEF Waiting
  <2>1. i - 1 \in DOMAIN Tail(todo) /\ Tail(todo)[i - 1] = todo[i]
    BY <1>1
  <2> QED
    BY <1>1, <2>1
<1>4. Stack = {}
  BY <1>1 DEF StackInv
<1>5. CASE at[h] = "made"
  BY <1>1, <1>2, <1>3, <1>4, <1>5 DEF NextGoal
<1>6. CASE at[h] # "made"
  <2>1. at' = [at EXCEPT ![h] = "downloaded"] /\ cur' = h
    BY <1>6 DEF NextGoal
  <2> HIDE DEF h
  <2>2. at'[h] = "downloaded" /\ \A q \in Pkgs \ {h} : at'[q] = at[q]
    BY <1>2, <2>1 DEF TypeOK
  <2>3. at[h] \notin Steps
    BY <1>2, <1>4 DEF Stack
  <2>4. at[h] = "off" /\ caller[h] = NoPkg
    BY <1>1, <1>2, <1>6, <2>3 DEF TypeOK, StackInv
  <2>5. "downloaded" \in Steps
    BY DEF Steps, Stages
  <2>6. Stack' = {h}
    BY <1>2, <1>4, <2>2, <2>5 DEF Stack
  <2> QED
    BY <1>1, <1>2, <1>3, <1>4, <2>1, <2>2, <2>4, <2>6
<1> QED
  BY <1>5, <1>6

-----------------------------------------------------------------------------
(* The stack of packages.                                                  *)

LEMMA OffSteps == "off" \notin Steps /\ "made" \notin Steps /\ "off" # "made"
BY DEF Steps, Stages, Removals

LEMMA Levels == \A p, q \in Pkgs : Level[p] < Level[q] => ~(Level[q] < Level[p]) /\ p # q
BY DepsAcyclic

LEMMA StackNext == TypeOK /\ Calm /\ StackInv /\ [Next]_vars => StackInv'
<1> SUFFICES ASSUME TypeOK, Calm, StackInv, [Next]_vars PROVE StackInv'
  OBVIOUS
<1>0. Stack \subseteq Pkgs /\ Stack' \subseteq Pkgs /\ Level \in [Pkgs -> Nat] /\ NoPkg \notin Pkgs
  BY DepsAcyclic, PkgsAssumption DEF Stack
<1>1. CASE StartPkg \/ StartWorld
  <2>1. Running' /\ cur' = NoPkg /\ \A p \in Pkgs : at'[p] = "off" /\ caller'[p] = NoPkg
    BY <1>1, Begins
  <2>2. Stack' = {}
    BY <2>1, OffSteps DEF Stack
  <2> QED
    BY <2>1, <2>2 DEF StackInv
<1>2. CASE NextGoal
  <2>1. PICK h \in Pkgs :
           /\ Running /\ Running' /\ Stack = {} /\ UNCHANGED caller
           /\ \/ at[h] = "made" /\ UNCHANGED <<at, cur>>
              \/ /\ at[h] = "off" /\ at'[h] = "downloaded" /\ caller[h] = NoPkg
                 /\ \A q \in Pkgs \ {h} : at'[q] = at[q]
                 /\ cur' = h /\ Stack' = {h}
    BY <1>2, NextGoalStack
  <2>2. CASE UNCHANGED <<at, cur>>
    BY <2>1, <2>2 DEF StackInv, Stack
  <2>3. CASE cur' = h /\ Stack' = {h} /\ caller[h] = NoPkg /\ \A q \in Pkgs \ {h} : at'[q] = at[q]
    BY <1>0, <2>1, <2>3 DEF StackInv
  <2> QED
    BY <2>1, <2>2, <2>3
<1>3. ASSUME NEW p \in Pkgs, Passes(p) PROVE StackInv'
  <2>1. /\ Running' /\ Stack' = Stack /\ \A q \in Pkgs : at[q] = "made" <=> at'[q] = "made"
        /\ \A q \in Pkgs \ {p} : at'[q] = at[q]
        /\ at'[p] \in Steps
    BY <1>3, PassesStack
  <2>2. Running /\ UNCHANGED <<cur, caller>>
    BY <1>3 DEF Passes
  <2>3. \A q \in Pkgs : at[q] \in Steps \cup {"made"} => at'[q] \in Steps \cup {"made"}
    BY <2>1
  <2> QED
    BY <2>1, <2>2, <2>3 DEF StackInv
<1>4. ASSUME NEW p \in Pkgs, MakeDependency(p) PROVE StackInv'
  <2>1. PICK d \in Pkgs :
           /\ d # p /\ Level[d] < Level[p] /\ p \in Stack /\ d \notin Stack
           /\ cur = p /\ cur' = d
           /\ Running /\ Running' /\ Stack' = Stack \cup {d}
           /\ at'[d] = "downloaded" /\ \A q \in Pkgs \ {d} : at'[q] = at[q]
           /\ caller'[d] = p /\ \A q \in Pkgs \ {d} : caller'[q] = caller[q]
    BY <1>4, DependencyStack
  <2>2. \A q \in Stack : Level[d] < Level[q]
    <3>1. \A q \in Stack \ {p} : Level[p] < Level[q]
      BY <1>0, <2>1 DEF StackInv
    <3> QED
      BY <1>0, <2>1, <3>1
  <2>3. \A q \in Stack : caller'[q] = caller[q]
    BY <1>0, <2>1
  <2>4. cur' # NoPkg /\ cur' \in Stack' /\ \A q \in Stack' \ {cur'} : Level[cur'] < Level[q]
    BY <1>0, <2>1, <2>2
  <2>5. ASSUME NEW q \in Stack', caller'[q] = NoPkg, NEW r \in Stack' \ {q}
        PROVE  Level[r] < Level[q]
    <3>1. q \in Stack /\ caller[q] = NoPkg
      BY <1>0, <2>1, <2>3, <2>5
    <3> QED
      BY <1>0, <2>1, <2>2, <2>5, <3>1 DEF StackInv
  <2>6. ASSUME NEW q \in Stack', caller'[q] # NoPkg
        PROVE  /\ caller'[q] \in Stack' /\ Level[q] < Level[caller'[q]]
               /\ \A r \in Stack' \ {q, caller'[q]} :
                    Level[r] < Level[q] \/ Level[caller'[q]] < Level[r]
    <3>1. CASE q = d
      BY <1>0, <2>1, <3>1 DEF StackInv
    <3>2. CASE q \in Stack
      <4>1. /\ caller[q] \in Stack /\ Level[q] < Level[caller[q]]
            /\ \A r \in Stack \ {q, caller[q]} : Level[r] < Level[q] \/ Level[caller[q]] < Level[r]
        BY <2>1, <2>3, <2>6, <3>2 DEF StackInv
      <4> QED
        BY <2>1, <2>2, <2>3, <3>2, <4>1
    <3> QED
      BY <2>1, <3>1, <3>2
  <2>7. \A q \in Pkgs : caller'[q] # NoPkg => at'[q] \in Steps \cup {"made"}
    <3>1. "downloaded" \in Steps
      BY DEF Steps, Stages
    <3> QED
      BY <2>1, <3>1 DEF StackInv
  <2> QED
    BY <2>1, <2>4, <2>5, <2>6, <2>7 DEF StackInv
<1>5. ASSUME NEW p \in Pkgs, Return(p) PROVE StackInv'
  <2>1. /\ Running /\ Running' /\ cur = p /\ cur' = caller[p]
        /\ p \in Stack /\ Stack' = Stack \ {p} /\ \A q \in Stack' : Level[p] < Level[q]
        /\ at'[p] = IF GoalOf(p) = "install" THEN "made" ELSE "off"
        /\ \A q \in Pkgs \ {p} : at'[q] = at[q]
        /\ UNCHANGED caller
    BY <1>5, ReturnStack
  <2>2. ASSUME cur' = NoPkg PROVE Stack' = {}
    <3>1. \A q \in Stack' : Level[q] < Level[p]
      BY <2>1, <2>2 DEF StackInv
    <3> QED
      BY <1>0, <2>1, <3>1, Levels
  <2>3. ASSUME cur' # NoPkg
        PROVE  cur' \in Stack' /\ \A q \in Stack' \ {cur'} : Level[cur'] < Level[q]
    <3>1. /\ caller[p] \in Stack /\ Level[p] < Level[caller[p]]
          /\ \A q \in Stack \ {p, caller[p]} : Level[q] < Level[p] \/ Level[caller[p]] < Level[q]
      BY <2>1, <2>3 DEF StackInv
    <3> QED
      BY <1>0, <2>1, <3>1, Levels
  <2>4. ASSUME NEW q \in Stack', caller'[q] # NoPkg
        PROVE  /\ caller'[q] \in Stack' /\ Level[q] < Level[caller'[q]]
               /\ \A r \in Stack' \ {q, caller'[q]} :
                    Level[r] < Level[q] \/ Level[caller'[q]] < Level[r]
    <3>1. /\ caller[q] \in Stack /\ Level[q] < Level[caller[q]]
          /\ \A r \in Stack \ {q, caller[q]} : Level[r] < Level[q] \/ Level[caller[q]] < Level[r]
      BY <2>1, <2>4 DEF StackInv
    <3>2. caller[q] # p
      BY <1>0, <2>1, <2>4, <3>1, Levels
    <3> QED
      BY <2>1, <3>1, <3>2
  <2>5. \A q \in Stack' : caller'[q] = NoPkg => \A r \in Stack' \ {q} : Level[r] < Level[q]
    BY <2>1 DEF StackInv
  <2>6. \A q \in Pkgs : caller'[q] # NoPkg => at'[q] \in Steps \cup {"made"}
    BY <2>1 DEF StackInv, GoalOf
  <2> QED
    BY <2>2, <2>3, <2>4, <2>5, <2>6 DEF StackInv
<1>6. CASE ~Running' \/ MakeEnds
  BY <1>6 DEF MakeEnds, StackInv, Running
<1>7. CASE UNCHANGED vars
  BY <1>7 DEF vars, StackInv, Stack, Running
<1> QED
  BY <1>1, <1>2, <1>3, <1>4, <1>5, <1>6, <1>7, StepKinds

-----------------------------------------------------------------------------
(* What was asked for, and what its dependencies have come to.             *)

LEMMA AskedNext == TypeOK /\ Calm /\ StackInv /\ AskedInv /\ [Next]_vars => AskedInv'
<1> SUFFICES ASSUME TypeOK, Calm, StackInv, AskedInv, [Next]_vars PROVE AskedInv'
  OBVIOUS
<1>0. Stack \subseteq Pkgs /\ NoPkg \notin Pkgs
  BY PkgsAssumption DEF Stack
<1>1. CASE StartPkg \/ StartWorld
  <2>1. /\ \A p \in Pkgs : at'[p] = "off"
        /\ Waiting' = asked' /\ (goal' = "clean" => asked' \cap Host = {})
    BY <1>1, Begins
  <2>2. Stack' = {}
    BY <2>1, OffSteps DEF Stack
  <2> QED
    BY <2>1, <2>2 DEF AskedInv
<1>2. CASE NextGoal
  <2>1. PICK h \in Pkgs :
           /\ h \in Waiting /\ Waiting \subseteq Waiting' \cup {h} /\ Waiting' \subseteq Waiting
           /\ Running /\ Running' /\ Stack = {} /\ UNCHANGED <<caller, goal, asked>>
           /\ \/ at[h] = "made" /\ UNCHANGED at
              \/ /\ at[h] = "off" /\ caller[h] = NoPkg
                 /\ \A q \in Pkgs \ {h} : at'[q] = at[q]
                 /\ Stack' = {h}
    BY <1>2, NextGoalStack
  <2>2. h \in asked /\ asked \subseteq Pkgs
    BY <2>1 DEF AskedInv, TypeOK
  <2>3. \A q \in Pkgs : at[q] = "made" => at'[q] = "made"
    BY <2>1
  <2>4. CASE UNCHANGED at /\ at[h] = "made"
    BY <2>1, <2>2, <2>4 DEF AskedInv, Stack
  <2>5. CASE Stack' = {h}
    BY <2>1, <2>2, <2>3, <2>5 DEF AskedInv
  <2> QED
    BY <2>1, <2>4, <2>5
<1>3. ASSUME NEW p \in Pkgs, Passes(p) PROVE AskedInv'
  <2>1. Stack' = Stack /\ \A q \in Pkgs : at[q] = "made" <=> at'[q] = "made"
    BY <1>3, PassesStack
  <2>2. UNCHANGED <<caller, goal, todo, asked, outcome>> /\ asked \subseteq Pkgs
    BY <1>3 DEF Passes, TypeOK
  <2> QED
    BY <2>1, <2>2 DEF AskedInv, Waiting, Running
<1>4. ASSUME NEW p \in Pkgs, MakeDependency(p) PROVE AskedInv'
  <2>1. PICK d \in Pkgs :
           /\ at[d] # "made" /\ Stack' = Stack \cup {d}
           /\ \A q \in Pkgs \ {d} : at'[q] = at[q]
           /\ caller'[d] = p /\ \A q \in Pkgs \ {d} : caller'[q] = caller[q]
    BY <1>4, DependencyStack
  <2>2. UNCHANGED <<goal, todo, asked, outcome>> /\ asked \subseteq Pkgs
    BY <1>4 DEF MakeDependency, TypeOK
  <2> QED
    BY <1>0, <2>1, <2>2 DEF AskedInv, Waiting, Running
<1>5. ASSUME NEW p \in Pkgs, Return(p) PROVE AskedInv'
  <2>1. /\ Running /\ Stack' = Stack \ {p}
        /\ at'[p] = IF GoalOf(p) = "install" THEN "made" ELSE "off"
        /\ \A q \in Pkgs \ {p} : at'[q] = at[q]
        /\ UNCHANGED <<caller, goal, todo, asked>>
    BY <1>5, ReturnStack
  <2>2. goal = "install" => at'[p] = "made"
    BY <2>1 DEF GoalOf
  <2>3. asked \subseteq Pkgs
    BY DEF TypeOK
  <2> QED
    BY <2>1, <2>2, <2>3 DEF AskedInv, Waiting
<1>6. CASE ~Running' \/ MakeEnds
  BY <1>6 DEF MakeEnds, AskedInv, Running
<1>7. CASE UNCHANGED vars
  BY <1>7 DEF vars, AskedInv, Stack, Running, Waiting
<1> QED
  BY <1>1, <1>2, <1>3, <1>4, <1>5, <1>6, <1>7, StepKinds

LEMMA DepsNext == TypeOK /\ Calm /\ StackInv /\ DepsMade /\ [Next]_vars => DepsMade'
<1> SUFFICES ASSUME TypeOK, Calm, StackInv, DepsMade, [Next]_vars PROVE DepsMade'
  OBVIOUS
<1>0. \A q \in Pkgs : DepSet(q) \subseteq Pkgs
  BY PkgsAssumption DEF DepSet
<1>1. CASE StartPkg \/ StartWorld
  <2>1. \A p \in Pkgs : at'[p] = "off"
    BY <1>1, Begins
  <2> QED
    BY <2>1, OffSteps DEF DepsMade, AfterDepends
<1>2. ASSUME NEW d \in Pkgs, Running, at[d] # "made", at'[d] = "downloaded",
             \A q \in Pkgs \ {d} : at'[q] = at[q] /\ GoalOf(q)' = GoalOf(q)
      PROVE  DepsMade'
  <2>1. \A q \in Pkgs : at[q] = "made" => at'[q] = "made"
    BY <1>2
  <2>2. at'[d] \notin AfterDepends /\ at'[d] # "made"
    BY <1>2 DEF AfterDepends
  <2> QED
    BY <1>0, <1>2, <2>1, <2>2 DEF DepsMade
<1>3. CASE NextGoal
  <2>1. PICK h \in Pkgs :
           /\ Running /\ UNCHANGED <<caller, goal>>
           /\ \/ at[h] = "made" /\ UNCHANGED at
              \/ /\ at[h] = "off" /\ at'[h] = "downloaded"
                 /\ \A q \in Pkgs \ {h} : at'[q] = at[q]
    BY <1>3, NextGoalStack
  <2>2. \A q \in Pkgs : GoalOf(q)' = GoalOf(q)
    BY <2>1 DEF GoalOf
  <2>3. CASE UNCHANGED at
    BY <2>1, <2>2, <2>3 DEF DepsMade
  <2> QED
    BY <1>2, <2>1, <2>2, <2>3, OffSteps
<1>4. ASSUME NEW p \in Pkgs, Passes(p) PROVE DepsMade'
  <2>1. /\ \A q \in Pkgs : at[q] = "made" <=> at'[q] = "made"
        /\ \A q \in Pkgs \ {p} : at'[q] = at[q]
        /\ at'[p] = After(at[p])
        /\ \A q \in Pkgs : GoalOf(q)' = GoalOf(q)
    BY <1>4, PassesStack
  <2>2. /\ Running /\ at[p] \in Steps
        /\ at[p] = "depends" /\ "depends" \in Wanted(p, GoalOf(p)) => \A d \in DepSet(p) : at[d] = "made"
    BY <1>4 DEF Passes
  <2>3. ASSUME InstallSteps(p) # {}, at'[p] \in AfterDepends, GoalOf(p) = "install"
        PROVE  \A d \in DepSet(p) : at[d] = "made"
    <3>1. at[p] \in AfterDepends \/ at[p] = "depends"
      BY <2>1, <2>2, <2>3 DEF AfterDepends, After
    <3>2. "depends" \in Wanted(p, "install")
      BY <2>3 DEF Wanted, ToConfigured, ToExtracted
    <3> QED
      BY <2>2, <2>3, <3>1, <3>2 DEF DepsMade
  <2>4. at'[p] # "made"
    BY <2>1, <2>2, AfterFacts
  <2>5. ASSUME NEW q \in Pkgs, InstallSteps(q) # {},
               at'[q] = "made" \/ (at'[q] \in AfterDepends /\ GoalOf(q) = "install")
        PROVE  \A d \in DepSet(q) : at[d] = "made"
    <3>1. CASE q = p
      BY <2>3, <2>4, <2>5, <3>1
    <3>2. CASE q # p
      BY <2>1, <2>2, <2>5, <3>2 DEF DepsMade
    <3> QED
      BY <3>1, <3>2
  <2> QED
    BY <1>0, <2>1, <2>5 DEF DepsMade
<1>5. ASSUME NEW p \in Pkgs, MakeDependency(p) PROVE DepsMade'
  <2>1. PICK d \in Pkgs :
           /\ at[d] # "made" /\ Running /\ at'[d] = "downloaded"
           /\ \A q \in Pkgs \ {d} : at'[q] = at[q] /\ caller'[q] = caller[q]
    BY <1>5, DependencyStack
  <2>2. \A q \in Pkgs \ {d} : GoalOf(q)' = GoalOf(q)
    BY <1>5, <2>1 DEF MakeDependency, GoalOf
  <2> QED
    BY <1>2, <2>1, <2>2
<1>6. ASSUME NEW p \in Pkgs, Return(p) PROVE DepsMade'
  <2>1. /\ Running /\ at[p] = "end"
        /\ at'[p] = IF GoalOf(p) = "install" THEN "made" ELSE "off"
        /\ \A q \in Pkgs \ {p} : at'[q] = at[q]
        /\ UNCHANGED <<caller, goal>>
    BY <1>6, ReturnStack
  <2>2. \A q \in Pkgs : GoalOf(q)' = GoalOf(q)
    BY <2>1 DEF GoalOf
  <2>3. "end" \in AfterDepends /\ "end" # "made"
    BY DEF AfterDepends, Steps
  <2>4. \A q \in Pkgs : at[q] = "made" => at'[q] = "made"
    BY <2>1
  <2>5. ASSUME NEW q \in Pkgs, InstallSteps(q) # {},
               at'[q] = "made" \/ (at'[q] \in AfterDepends /\ GoalOf(q) = "install")
        PROVE  \A d \in DepSet(q) : at[d] = "made"
    <3>1. CASE q = p
      <4>1. GoalOf(p) = "install"
        BY <2>1, <2>5, <3>1, OffSteps DEF AfterDepends
      <4> QED
        BY <2>1, <2>3, <2>5, <3>1, <4>1 DEF DepsMade
    <3>2. CASE q # p
      BY <2>1, <2>5, <3>2 DEF DepsMade
    <3> QED
      BY <3>1, <3>2
  <2> QED
    BY <1>0, <2>2, <2>4, <2>5 DEF DepsMade
<1>7. CASE ~Running' \/ MakeEnds
  BY <1>7 DEF MakeEnds, DepsMade, Running
<1>8. CASE UNCHANGED vars
  BY <1>8 DEF vars, DepsMade, Running, GoalOf
<1> QED
  BY <1>1, <1>3, <1>4, <1>5, <1>6, <1>7, <1>8, StepKinds

-----------------------------------------------------------------------------
(* The stamps of a package and their results.                              *)

\* Where After leads, with respect to the stages that are made from one another.
LEMMA AfterLater ==
  ASSUME NEW s \in Steps
  PROVE  /\ \A t \in Stages : After(s) \in Later(t) => s = t \/ s \in Later(t)
         /\ \A t \in Stages : After(s) \in Later(t) => s \in Stages \cup {"depends"}
         /\ After(s) = "untarget" => s = "unstaging"
         /\ After(s) = "clean" => s = "untarget"
BY DEF After, Later, Steps, Stages, Removals

\* A goal that includes a stage includes those it is made from.
LEMMA WantedLater ==
  ASSUME NEW p \in Pkgs, NEW g \in AllGoals, NEW s \in Stages, s \in Wanted(p, g)
  PROVE  /\ \A t \in Stages : s \in Later(t) => t \in Wanted(p, g)
         /\ s = "host" => p \in Host
<1>1. InstallSteps(p) \subseteq {"staging", "target", "host"} /\ ("host" \in InstallSteps(p) => p \in Host)
  BY DEF InstallSteps
<1>2. \A t \in Stages : s \in Later(t) => t \in {"extracted", "patched", "configured", "built"}
  BY DEF Later
<1>3. CASE g = "install"
  BY <1>1, <1>2, <1>3 DEF Wanted, ToConfigured, ToExtracted
<1>4. CASE g # "install"
  BY <1>2, <1>4 DEF Wanted, ToConfigured, ToExtracted, Later, AllGoals
<1> QED
  BY <1>3, <1>4

LEMMA WantedRemovals ==
  ASSUME NEW p \in Pkgs, NEW g \in AllGoals
  PROVE  /\ "clean" \in Wanted(p, g) => g = "clean"
         /\ {"unstaging", "untarget"} \subseteq Wanted(p, "clean")
<1>1. InstallSteps(p) \subseteq {"staging", "target", "host"}
  BY InstallStepsType
<1> QED
  BY <1>1 DEF Wanted, ToConfigured, ToExtracted, AllGoals

\* What is made from later results is not made from itself.
LEMMA LaterFacts ==
  \A s \in Stages : s \notin Later(s) /\ Later(s) \subseteq Stages
BY DEF Later, Stages

LEMMA ReachedPasses ==
  ASSUME TypeOK, Reached, NEW p \in Pkgs, Passes(p),
         \A q \in Pkgs \ {p} : stamp'[q] = stamp[q],
         at[p] \in Stages \cup {"depends"} => stamp[p] \subseteq stamp'[p],
         at[p] \in Stages /\ at[p] \in Wanted(p, GoalOf(p)) => at[p] \in stamp'[p],
         at[p] \in Removals => stamp'[p] \subseteq stamp[p],
         GoalOf(p) = "clean" /\ at[p] = "unstaging" => "staging" \notin stamp'[p],
         GoalOf(p) = "clean" /\ at[p] = "untarget" => "target" \notin stamp'[p]
  PROVE  Reached'
<1>1. /\ \A q \in Pkgs \ {p} : at'[q] = at[q]
      /\ at'[p] = After(at[p])
      /\ \A q \in Pkgs : GoalOf(q)' = GoalOf(q)
  BY PassesStack
<1>2. Running /\ at[p] \in Steps
  BY DEF Passes
<1>3. ASSUME NEW t \in Stages, t \in Wanted(p, GoalOf(p)), at'[p] \in Later(t)
      PROVE  t \in stamp'[p]
  <2>1. at[p] \in Stages \cup {"depends"} /\ (at[p] = t \/ at[p] \in Later(t))
    BY <1>1, <1>2, <1>3, AfterLater
  <2> QED
    BY <1>2, <1>3, <2>1 DEF Reached
<1>4. ASSUME GoalOf(p) = "clean"
      PROVE  /\ at'[p] \in {"untarget", "clean"} => "staging" \notin stamp'[p]
             /\ at'[p] = "clean" => "target" \notin stamp'[p]
  <2>1. {"unstaging", "untarget"} \subseteq Removals
    BY DEF Removals
  <2>2. CASE at'[p] = "untarget"
    BY <1>1, <1>2, <1>4, <2>2, AfterLater
  <2>3. CASE at'[p] = "clean"
    BY <1>1, <1>2, <1>4, <2>1, <2>3, AfterLater DEF Reached
  <2> QED
    BY <2>2, <2>3
<1> QED
  BY <1>1, <1>2, <1>3, <1>4 DEF Reached

\* A recipe works on a package none of whose later stages has a stamp.
LEMMA RecipeCurrent ==
  ASSUME TypeOK, Closed, Current, NEW p \in Pkgs, NEW s \in Stages, s \notin stamp[p],
         NEW e \in {effect[p]} \cup {Redone(effect[p], s, v) : v \in Effects},
         effect' = [effect EXCEPT ![p] = e]
  PROVE  /\ \A q \in Pkgs : \A t \in stamp[q] \ {"downloaded"} : effect'[q][t] = "done"
         /\ effect'[p] = e
<1>1. /\ effect'[p] = e /\ \A q \in Pkgs \ {p} : effect'[q] = effect[q]
      /\ stamp[p] \subseteq Stages
  BY DEF TypeOK
<1>2. ASSUME NEW t \in stamp[p] \ {"downloaded"} PROVE e[t] = "done"
  <2>1. t \in Stages /\ t # s /\ t \notin Later(s) /\ effect[p][t] = "done"
    BY <1>1, <1>2 DEF Closed, Current
  <2>2. CASE e = effect[p]
    BY <2>1, <2>2
  <2>3. ASSUME NEW v \in Effects, e = Redone(effect[p], s, v) PROVE e[t] = "done"
    BY <2>1, <2>3 DEF Redone
  <2> QED
    BY <2>2, <2>3
<1> QED
  BY <1>1, <1>2 DEF Current

LEMMA RecipeDisk ==
  ASSUME TypeOK, DiskInv, NEW p \in Pkgs, NEW s \in Stages, RunRecipe(p, s), Passes(p)
  PROVE  DiskInv'
<1>1. /\ at[p] = s /\ s \in Wanted(p, GoalOf(p)) /\ s \notin stamp[p] /\ Running
      /\ stamp' = [stamp EXCEPT ![p] = @ \cup {s}]
      /\ effect' = [effect EXCEPT ![p] = Result(p, s)]
  BY DEF RunRecipe, Doing
<1>2. stamp'[p] = stamp[p] \cup {s} /\ \A q \in Pkgs \ {p} : stamp'[q] = stamp[q]
  BY <1>1 DEF TypeOK
<1>3. GoalOf(p) \in AllGoals
  BY GoalType
<1>4. /\ \A t \in Stages : s \in Later(t) => t \in Wanted(p, GoalOf(p)) /\ t \in stamp[p]
      /\ s = "host" => p \in Host
  BY <1>1, <1>3, WantedLater DEF DiskInv, Reached
<1>5. Closed'
  BY <1>2, <1>4 DEF DiskInv, Closed
<1>6. HostStamps'
  BY <1>2, <1>4 DEF DiskInv, HostStamps
<1>7. Current'
  <2>1. PICK e \in {effect[p]} \cup {Redone(effect[p], s, v) : v \in Effects} : e = Result(p, s)
    BY DEF Result, Effects
  <2>2. /\ \A q \in Pkgs : \A t \in stamp[q] \ {"downloaded"} : effect'[q][t] = "done"
        /\ effect'[p] = Result(p, s)
    <3>1. effect' = [effect EXCEPT ![p] = e] /\ Current /\ Closed /\ s \notin stamp[p]
      BY <1>1, <2>1 DEF DiskInv
    <3>2. \A q \in Pkgs : \A t \in stamp[q] \ {"downloaded"} : effect'[q][t] = "done"
      BY <3>1, RecipeCurrent
    <3>3. effect'[p] = Result(p, s)
      BY <2>1, <3>1 DEF TypeOK
    <3> QED
      BY <3>2, <3>3
  <2>3. s # "downloaded" => Result(p, s)[s] = "done"
    BY DEF Result, Redone
  <2> QED
    BY <1>2, <2>2, <2>3 DEF Current
<1>8. Reached'
  <2>1. s \notin Removals /\ "unstaging" \notin Stages /\ "untarget" \notin Stages
    BY DEF Removals, Stages
  <2> QED
    BY <1>1, <1>2, <2>1, ReachedPasses DEF DiskInv
<1> QED
  BY <1>5, <1>6, <1>7, <1>8 DEF DiskInv

\* A package of type host is not cleaned, so nothing installed is left when objects go.
LEMMA CleanBare ==
  ASSUME TypeOK, StackInv, AskedInv, DiskInv, NEW p \in Pkgs, Doing(p, "clean"), Running
  PROVE  /\ GoalOf(p) = "clean"
         /\ stamp[p] \cap {"staging", "target", "host"} = {}
<1>1. at[p] = "clean" /\ GoalOf(p) = "clean"
  BY WantedRemovals, GoalType DEF Doing
<1>2. caller[p] = NoPkg /\ goal = "clean"
  BY <1>1 DEF GoalOf
<1>3. p \in Stack
  BY <1>1 DEF Stack, Steps, Removals
<1>4. p \notin Host
  BY <1>2, <1>3 DEF AskedInv
<1> QED
  BY <1>1, <1>4 DEF DiskInv, HostStamps, Reached

LEMMA RemoveDisk ==
  ASSUME TypeOK, StackInv, AskedInv, DiskInv, NEW p \in Pkgs, NEW r \in Removals \ {"dirclean"},
         Remove(p, r), Passes(p)
  PROVE  DiskInv'
<1> DEFINE u == Undone(r)
<1>1. u \in Stages /\ r \in {"unstaging", "untarget", "clean"}
  BY DEF Undone, Removals, Stages
<1>2. /\ at[p] = r /\ Doing(p, r) /\ Running
      /\ stamp' = [stamp EXCEPT ![p] = @ \ {u}]
      /\ \E v : effect' = [effect EXCEPT ![p][u] = v]
  BY DEF Remove, Doing
<1>3. /\ r = "unstaging" => u = "staging"
      /\ r = "untarget" => u = "target"
      /\ r = "clean" => u = "built"
  BY DEF Undone
<1> HIDE DEF u
<1>4. /\ stamp'[p] = stamp[p] \ {u} /\ \A q \in Pkgs \ {p} : stamp'[q] = stamp[q]
      /\ \A q \in Pkgs : \A t \in stamp'[q] : effect'[q][t] = effect[q][t]
  BY <1>2 DEF TypeOK
<1>5. \A s \in stamp'[p] : s \notin Later(u)
  <2>1. CASE r = "clean"
    <3>1. stamp[p] \cap {"staging", "target", "host"} = {}
      BY <1>2, <2>1, CleanBare
    <3> QED
      BY <1>3, <1>4, <2>1, <3>1 DEF Later
  <2>2. CASE r \in {"unstaging", "untarget"}
    BY <1>3, <2>2 DEF Later
  <2> QED
    BY <1>1, <2>1, <2>2
<1>6. Closed'
  BY <1>4, <1>5 DEF DiskInv, Closed
<1>7. Current' /\ HostStamps'
  BY <1>4 DEF DiskInv, Current, HostStamps
<1>8. Reached'
  <2>1. r \notin Stages \cup {"depends"}
    BY <1>1 DEF Stages
  <2> QED
    BY <1>2, <1>3, <1>4, <2>1, ReachedPasses DEF DiskInv
<1> QED
  BY <1>6, <1>7, <1>8 DEF DiskInv

LEMMA DiskNext ==
  TypeOK /\ Calm /\ StackInv /\ AskedInv /\ DiskInv /\ [Next]_vars => DiskInv'
<1> SUFFICES ASSUME TypeOK, Calm, StackInv, AskedInv, DiskInv, [Next]_vars PROVE DiskInv'
  OBVIOUS
<1>1. ASSUME UNCHANGED disk PROVE Closed' /\ Current' /\ HostStamps'
  BY <1>1 DEF disk, DiskInv, Closed, Current, HostStamps
<1>0. "off" \notin Stages /\ "made" \notin Stages
      /\ \A t \in Stages : Later(t) \subseteq Stages \ {"downloaded"}
  BY DEF Stages, Later
<1>2. CASE StartPkg \/ StartWorld
  <2>1. UNCHANGED disk /\ \A p \in Pkgs : at'[p] = "off"
    BY <1>2, Begins
  <2>2. Reached'
    BY <1>0, <2>1 DEF Reached
  <2> QED
    BY <1>1, <2>1, <2>2 DEF DiskInv
<1>3. CASE NextGoal
  <2>1. PICK h \in Pkgs :
           /\ Running /\ UNCHANGED <<disk, caller, goal>>
           /\ \/ UNCHANGED at
              \/ at'[h] = "downloaded" /\ \A q \in Pkgs \ {h} : at'[q] = at[q]
    BY <1>3, NextGoalStack
  <2>2. Reached'
    BY <1>0, <2>1 DEF DiskInv, Reached, GoalOf, disk
  <2> QED
    BY <1>1, <2>1, <2>2 DEF DiskInv
<1>4. ASSUME NEW p \in Pkgs, MakeDependency(p) PROVE DiskInv'
  <2>1. PICK d \in Pkgs :
           /\ Running /\ at'[d] = "downloaded"
           /\ \A q \in Pkgs \ {d} : at'[q] = at[q] /\ caller'[q] = caller[q]
    BY <1>4, DependencyStack
  <2>2. UNCHANGED <<disk, goal>>
    BY <1>4 DEF MakeDependency
  <2>3. Reached'
    BY <1>0, <2>1, <2>2 DEF DiskInv, Reached, GoalOf, disk
  <2> QED
    BY <1>1, <2>2, <2>3 DEF DiskInv
<1>5. ASSUME NEW p \in Pkgs, Return(p) PROVE DiskInv'
  <2>1. /\ Running /\ at'[p] \in {"made", "off"} /\ \A q \in Pkgs \ {p} : at'[q] = at[q]
        /\ UNCHANGED <<disk, caller, goal>>
    BY <1>5, ReturnStack
  <2>2. Reached'
    BY <1>0, <2>1 DEF DiskInv, Reached, GoalOf, disk
  <2> QED
    BY <1>1, <2>1, <2>2 DEF DiskInv
<1>6. ASSUME NEW p \in Pkgs, Skip(p) \/ DependenciesMade(p) PROVE DiskInv'
  <2>1. Passes(p)
    <3>1. "depends" \notin stamp[p] /\ "depends" \in Steps \ {"end"}
      BY DEF TypeOK, Steps, Stages, Removals
    <3> QED
      BY <1>6, <3>1 DEF Skip, DependenciesMade, Doing, Passes
  <2>2. UNCHANGED disk
    BY <1>6 DEF Skip, DependenciesMade
  <2>3. /\ at[p] \in Stages /\ at[p] \in Wanted(p, GoalOf(p)) => at[p] \in stamp[p]
        /\ at[p] \in {"unstaging", "untarget"} => GoalOf(p) # "clean"
    <3>1. CASE Skip(p)
      <4>1. at[p] \in Wanted(p, GoalOf(p)) => at[p] \in stamp[p]
        BY <3>1 DEF Skip
      <4>2. \A r \in {"unstaging", "untarget"} : r \notin stamp[p]
        BY DEF TypeOK, Stages
      <4>3. {"unstaging", "untarget"} \subseteq Wanted(p, "clean")
        BY WantedRemovals DEF AllGoals
      <4> QED
        BY <4>1, <4>2, <4>3
    <3>2. CASE DependenciesMade(p)
      BY <3>2 DEF DependenciesMade, Doing, Stages
    <3> QED
      BY <1>6, <3>1, <3>2
  <2>4. stamp' = stamp
    BY <2>2 DEF disk
  <2>5. Reached'
    BY <2>1, <2>3, <2>4, ReachedPasses DEF DiskInv
  <2> QED
    BY <1>1, <2>2, <2>5 DEF DiskInv
<1>7. ASSUME NEW p \in Pkgs, NEW s \in Stages, RunRecipe(p, s) PROVE DiskInv'
  <2>1. s \in Steps \ {"end"} /\ s # "depends"
    BY DEF Steps, Stages
  <2>2. Passes(p)
    BY <1>7, <2>1 DEF RunRecipe, Doing, Passes
  <2> QED
    BY <1>7, <2>2, RecipeDisk
<1>8. ASSUME NEW p \in Pkgs, NEW r \in Removals \ {"dirclean"}, Remove(p, r) PROVE DiskInv'
  <2>1. r \in Steps \ {"end"} /\ r # "depends"
    BY DEF Steps, Removals
  <2>2. Passes(p)
    BY <1>8, <2>1 DEF Remove, Doing, Passes
  <2> QED
    BY <1>8, <2>2, RemoveDisk
<1>9. ASSUME NEW p \in Pkgs, DirClean(p) PROVE DiskInv'
  <2>1. "dirclean" \in Steps \ {"end"} /\ "dirclean" \notin Stages \cup {"depends"}
    BY DEF Steps, Stages, Removals
  <2>2. Passes(p) /\ at[p] = "dirclean"
    BY <1>9, <2>1 DEF DirClean, Doing, Passes
  <2>3. stamp'[p] = {} /\ \A q \in Pkgs \ {p} : stamp'[q] = stamp[q] /\ effect'[q] = effect[q]
    BY <1>9 DEF DirClean, TypeOK
  <2>4. Reached'
    BY <2>1, <2>2, <2>3, ReachedPasses DEF DiskInv
  <2>5. Closed' /\ Current' /\ HostStamps'
    BY <2>3 DEF DiskInv, Closed, Current, HostStamps
  <2> QED
    BY <2>4, <2>5 DEF DiskInv
<1>10. ASSUME NEW p \in Pkgs, NEW s \in Stages, RecipeFails(p, s) \/ RecipeStops(p, s) PROVE DiskInv'
  <2>1. s \notin stamp[p] /\ stamp' = stamp /\ ~Running'
    BY <1>10 DEF RecipeFails, RecipeStops, MakeDies, Running
  <2>2. PICK e \in {effect[p]} \cup {Redone(effect[p], s, v) : v \in Effects} :
          effect' = [effect EXCEPT ![p] = e]
    <3>1. CASE RecipeFails(p, s)
      BY <3>1 DEF RecipeFails, Effects
    <3>2. CASE RecipeStops(p, s)
      BY <3>2 DEF RecipeStops, Remains, Effects
    <3> QED
      BY <1>10, <3>1, <3>2
  <2>3. \A q \in Pkgs : \A t \in stamp[q] \ {"downloaded"} : effect'[q][t] = "done"
    BY <2>1, <2>2, RecipeCurrent DEF DiskInv
  <2> QED
    BY <2>1, <2>3 DEF DiskInv, Closed, Current, HostStamps, Reached
<1>11. CASE Wipe
  BY <1>11 DEF Wipe, Forget, Running, DiskInv, Closed, Current, HostStamps, Reached
<1>12. CASE MakeEnds
  BY <1>1, <1>12 DEF MakeEnds, DiskInv, Reached, Running
<1>13. CASE UNCHANGED vars
  BY <1>13 DEF vars, DiskInv, Closed, Current, HostStamps, Reached, Running, GoalOf
<1> QED
  BY <1>2, <1>3, <1>4, <1>5, <1>6, <1>7, <1>8, <1>9, <1>10, <1>11, <1>12, <1>13
     DEF Calm, Next, Make, MakeStep, Disturb, RemoveCut, DirCleanCut, RemoveStamp, WipeCut

-----------------------------------------------------------------------------
(* Success.                                                                *)

\* A package that has been made in this invocation is up to date, and so is what it needs.
LEMMA MadeIsUpToDate ==
  ASSUME Inv, DiskInv, Running, NEW p \in Pkgs, at[p] = "made"
  PROVE  UpToDate(p)
<1>1. InstallSteps(p) \subseteq stamp[p] /\ InstallSteps(p) \subseteq {"staging", "target", "host"}
  BY InstallStepsType DEF Inv, Progress
<1>2. CASE InstallSteps(p) = {}
  BY <1>2 DEF UpToDate, Wanted
<1>3. CASE InstallSteps(p) # {}
  <2>1. PICK i \in InstallSteps(p) : i \in stamp[p] /\ i \in {"staging", "target", "host"}
    BY <1>1, <1>3
  <2>2. \A t \in {"extracted", "patched", "configured", "built"} : t \in stamp[p]
    <3>1. \A t \in {"extracted", "patched", "configured", "built"} : t \in Stages /\ i \in Later(t)
      BY <2>1 DEF Later, Stages
    <3> QED
      BY <2>1, <3>1 DEF DiskInv, Closed
  <2>3. Wanted(p, "install") \ {"downloaded", "depends"} \subseteq stamp[p] \ {"downloaded"}
    BY <1>1, <1>3, <2>2 DEF Wanted, ToConfigured, ToExtracted
  <2> QED
    BY <2>3 DEF UpToDate, DiskInv, Current
<1> QED
  BY <1>2, <1>3

FullInv ==
  Inv /\ StackInv /\ AskedInv /\ DepsMade /\ DiskInv /\ SuccessIsUpToDate

LEMMA SuccessNext ==
  Calm /\ FullInv /\ [Next]_vars => SuccessIsUpToDate'
<1> SUFFICES ASSUME Calm, FullInv, [Next]_vars PROVE SuccessIsUpToDate'
  OBVIOUS
<1>1. CASE MakeEnds
  <2>1. Running /\ cur = NoPkg /\ todo = <<>> /\ UNCHANGED <<stamp, effect, goal, asked>>
    BY <1>1 DEF MakeEnds, disk
  <2> SUFFICES ASSUME goal = "install"
               PROVE  \E S \in SUBSET Pkgs :
                        /\ asked \subseteq S
                        /\ \A p \in S : /\ UpToDate(p)
                                        /\ InstallSteps(p) # {} => DepSet(p) \subseteq S
    BY <2>1 DEF SuccessIsUpToDate, UpToDate
  <2> DEFINE S == {p \in Pkgs : at[p] = "made"}
  <2>2. asked \subseteq S
    <3>1. Waiting = {} /\ Stack = {}
      BY <2>1 DEF Waiting, FullInv, StackInv
    <3> QED
      BY <2>1, <3>1 DEF FullInv, Inv, TypeOK, AskedInv
  <2>3. \A p \in S : UpToDate(p)
    BY <2>1, MadeIsUpToDate DEF FullInv
  <2>4. \A p \in S : InstallSteps(p) # {} => DepSet(p) \subseteq S
    <3>1. \A p \in Pkgs : DepSet(p) \subseteq Pkgs
      BY PkgsAssumption DEF DepSet
    <3> QED
      BY <2>1, <3>1 DEF FullInv, DepsMade
  <2> QED
    BY <2>2, <2>3, <2>4
<1>2. CASE UNCHANGED vars
  BY <1>2 DEF vars, FullInv, SuccessIsUpToDate, UpToDate
<1>3. CASE Next /\ ~MakeEnds
  <2>1. outcome' # "ok"
    <3>1. TypeOK
      BY DEF FullInv, Inv
    <3>2. CASE StartPkg \/ StartWorld
      BY <3>2, Begins DEF Running
    <3>3. CASE NextGoal
      BY <3>3 DEF NextGoal, Running
    <3>4. ASSUME NEW p \in Pkgs, Passes(p) \/ MakeDependency(p) \/ Return(p) PROVE outcome' # "ok"
      BY <3>4 DEF Passes, MakeDependency, Return, Running
    <3> QED
      BY <1>3, <3>1, <3>2, <3>3, <3>4, StepKinds
  <2> QED
    BY <2>1 DEF SuccessIsUpToDate
<1> QED
  BY <1>1, <1>2, <1>3

LEMMA FullInit == Init => FullInv
<1> SUFFICES ASSUME Init PROVE FullInv
  OBVIOUS
<1>1. Inv
  BY DEF Init, Inv, TypeOK, Effects, AllGoals, StampHonest, Progress, Running
<1>2. ~Running /\ outcome # "ok" /\ \A p \in Pkgs : stamp[p] = {}
  BY DEF Init, Running
<1> QED
  BY <1>1, <1>2 DEF FullInv, StackInv, AskedInv, DepsMade, DiskInv, Closed, Current, HostStamps,
                    Reached, SuccessIsUpToDate

LEMMA FullNext == ASSUME Calm PROVE FullInv /\ [Next]_vars => FullInv'
<1> SUFFICES ASSUME FullInv, [Next]_vars PROVE FullInv'
  OBVIOUS
<1>1. "cut" \notin Ops /\ TypeOK
  BY DEF Calm, FullInv, Inv
<1>2. Inv'
  BY <1>1, InvStep DEF FullInv
<1>3. StackInv' /\ AskedInv' /\ DepsMade' /\ DiskInv'
  BY <1>1, StackNext, AskedNext, DepsNext, DiskNext DEF FullInv
<1>4. SuccessIsUpToDate'
  BY SuccessNext
<1> QED
  BY <1>2, <1>3, <1>4 DEF FullInv

\* A make that succeeds leaves everything it was asked for, with all it depends on, built
\* from its present sources: after any uninstalls, cleans, dircleans, failed and killed
\* builds, for every set of packages and every acyclic graph.  What can make it false is
\* left out by Ops: stamps removed by hand, cleaned host packages, interrupted removals.
THEOREM SuccessUpToDate ==
  ASSUME Ops \subseteq {"stop", "wipe"} PROVE Spec => []SuccessIsUpToDate
<1>1. Calm
  BY DEF Calm
<1>2. FullInv /\ [Next]_vars => FullInv'
  BY <1>1, FullNext
<1>3. FullInv => SuccessIsUpToDate
  BY DEF FullInv
<1> QED
  BY <1>2, <1>3, FullInit, PTL DEF Spec
=============================================================================
