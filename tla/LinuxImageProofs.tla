-------------------------- MODULE LinuxImageProofs --------------------------
(***************************************************************************)
(* Proofs about LinuxImage, for every series of patches and any number of  *)
(* changes and of makes that stop.                                         *)
(***************************************************************************)
EXTENDS LinuxImage, FiniteSetTheorems, TLAPS

-----------------------------------------------------------------------------
(* The times.                                                              *)

LEMMA FilesAre ==
  /\ Files = {"downloaded", "extracted", "patched", "configured", "compiled", "installed",
              "initramfs", "initramfs_rebuilt", "config"}
  /\ IsFiniteSet(Files) /\ Cardinality(Files) \in Nat
<1>1. DOMAIN Order = 1 .. 8
  BY DEF Order
<1>2. Files = {"downloaded", "extracted", "patched", "configured", "compiled", "installed",
               "initramfs", "initramfs_rebuilt", "config"}
  BY <1>1 DEF Files, Order
<1>3. IsFiniteSet(1 .. 9)
  <2>1. 1 \in Int /\ 9 \in Int
    OBVIOUS
  <2> QED
    BY <2>1, FS_Interval, Zenon
<1> DEFINE file == [n \in 1 .. 9 |-> IF n = 9 THEN "config" ELSE Order[n]]
<1>4. file \in Surjection(1 .. 9, Files)
  <2>1. file \in [1 .. 9 -> Files]
    BY <1>1 DEF Files
  <2>2. \A f \in Files : \E n \in 1 .. 9 : file[n] = f
    BY <1>1 DEF Files
  <2> QED
    BY <2>1, <2>2 DEF Surjection
<1>5. IsFiniteSet(Files)
  BY <1>3, <1>4, FS_Surjection
<1> QED
  BY <1>2, <1>5, FS_CardinalityType

\* Ranks keep the order of the times they are made of.
LEMMA Ranks ==
  ASSUME NEW time \in [Files -> Nat]
  PROVE  LET rank(f) == Cardinality({time[g] : g \in Files} \cap 1 .. time[f])
         IN /\ \A f \in Files : rank(f) \in 0 .. Cardinality(Files) /\ (rank(f) > 0 <=> time[f] > 0)
            /\ \A f, g \in Files : time[f] < time[g] => rank(f) < rank(g)
<1> DEFINE S == {time[g] : g \in Files}
           below(n) == S \cap 1 .. n
           rank(f) == Cardinality(below(time[f]))
<1>1. IsFiniteSet(S) /\ Cardinality(S) <= Cardinality(Files) /\ S \subseteq Nat
  <2>1. time \in Surjection(Files, S)
    BY DEF Surjection
  <2>2. S \subseteq Nat
    OBVIOUS
  <2> HIDE DEF S
  <2> QED
    BY <2>1, <2>2, FilesAre, FS_Surjection
<1>2. \A f \in Files : time[f] \in S /\ time[f] \in Nat
  OBVIOUS
<1> HIDE DEF S
<1>3. \A n \in Nat : /\ IsFiniteSet(below(n)) /\ Cardinality(below(n)) \in Nat
                     /\ Cardinality(below(n)) <= Cardinality(S)
  BY <1>1, FS_Subset, FS_CardinalityType
<1>4. \A f \in Files : rank(f) \in 0 .. Cardinality(Files)
  <2>1. Cardinality(S) \in Nat /\ Cardinality(Files) \in Nat
    BY <1>1, FilesAre, FS_CardinalityType
  <2> QED
    BY <1>1, <1>2, <1>3, <2>1
<1>5. \A f \in Files : rank(f) > 0 <=> time[f] > 0
  <2> TAKE f \in Files
  <2>1. CASE time[f] = 0
    <3>1. below(time[f]) = {}
      BY <1>1, <2>1
    <3> QED
      BY <2>1, <3>1, FS_EmptySet
  <2>2. CASE time[f] > 0
    <3>1. time[f] \in below(time[f])
      BY <1>2, <2>2
    <3>2. Cardinality(below(time[f])) # 0
      BY <3>1, <1>2, <1>3, FS_EmptySet
    <3> QED
      BY <2>2, <3>2, <1>2, <1>3
  <2> QED
    BY <2>1, <2>2, <1>2
<1>6. \A f, g \in Files : time[f] < time[g] => rank(f) < rank(g)
  <2> SUFFICES ASSUME NEW f \in Files, NEW g \in Files, time[f] < time[g]
               PROVE  rank(f) < rank(g)
    OBVIOUS
  <2>1. below(time[f]) \subseteq below(time[g])
    BY <1>2
  <2>2. time[g] \in below(time[g]) /\ time[g] \notin below(time[f])
    BY <1>2
  <2>3. /\ Cardinality(below(time[f])) <= Cardinality(below(time[g]))
        /\ Cardinality(below(time[f])) # Cardinality(below(time[g]))
    BY <1>2, <1>3, <2>1, <2>2, FS_Subset
  <2> QED
    BY <2>3, <1>2, <1>3
<1> QED
  BY <1>4, <1>5, <1>6 DEF S

\* What is written now is newer than the rest, and the rest keeps its order.
LEMMA WrittenOrder ==
  ASSUME mtime \in [Files -> 0 .. Cardinality(Files)],
         NEW which \in SUBSET Files, NEW new, new = Written(which)
  PROVE  /\ new \in [Files -> 0 .. Cardinality(Files)]
         /\ \A f \in which : new[f] > 0
         /\ \A f \in which, g \in Files \ which : new[g] < new[f]
         /\ \A f, g \in which : new[f] = new[g]
         /\ \A f \in Files \ which : new[f] > 0 <=> mtime[f] > 0
         /\ \A f, g \in Files \ which : new[f] <= new[g] <=> mtime[f] <= mtime[g]
<1> DEFINE time == [f \in Files |-> IF f \in which THEN Cardinality(Files) + 1 ELSE mtime[f]]
           rank(f) == Cardinality({time[g] : g \in Files} \cap 1 .. time[f])
<1>1. Cardinality(Files) \in Nat
  BY FilesAre
<1>2. time \in [Files -> Nat]
  BY <1>1
<1>3. new = [f \in Files |-> rank(f)]
  BY DEF Written
<1>4. /\ \A f \in which : time[f] = Cardinality(Files) + 1
      /\ \A f \in Files \ which : time[f] = mtime[f] /\ mtime[f] \in 0 .. Cardinality(Files)
  OBVIOUS
<1>5. \A f, g \in Files : time[f] = time[g] => rank(f) = rank(g)
  OBVIOUS
<1>6. /\ \A f \in Files : rank(f) \in 0 .. Cardinality(Files) /\ (rank(f) > 0 <=> time[f] > 0)
      /\ \A f, g \in Files : time[f] < time[g] => rank(f) < rank(g)
  <2> HIDE DEF time
  <2> QED
    BY <1>2, Ranks
<1> HIDE DEF time, rank
<1>7. /\ \A f \in Files : new[f] \in 0 .. Cardinality(Files) /\ (new[f] > 0 <=> time[f] > 0)
      /\ \A f, g \in Files : time[f] < time[g] => new[f] < new[g]
      /\ \A f, g \in Files : time[f] = time[g] => new[f] = new[g]
  BY <1>3, <1>5, <1>6
<1>8. new \in [Files -> 0 .. Cardinality(Files)]
  BY <1>3, <1>6
<1>9. \A f \in which : new[f] > 0
  BY <1>1, <1>4, <1>7
<1>10. \A f \in which, g \in Files \ which : new[g] < new[f]
  BY <1>1, <1>4, <1>7
<1>11. \A f, g \in which : new[f] = new[g]
  BY <1>4, <1>7
<1>12. \A f \in Files \ which : new[f] > 0 <=> mtime[f] > 0
  BY <1>4, <1>7
<1>13. \A f, g \in Files \ which : new[f] <= new[g] <=> mtime[f] <= mtime[g]
  BY <1>1, <1>4, <1>7
<1> QED
  BY <1>8, <1>9, <1>10, <1>11, <1>12, <1>13

-----------------------------------------------------------------------------
(* The inductive invariant.                                                *)

\* Between two calls make is at the start; within a recipe it is at one of its lines or past
\* the last.
Control ==
  /\ goal = "none" => at = 1 /\ line = 0
  /\ at = 9 => line = 0
  /\ at <= 8 => line <= Len(Lines[File]) + 1
  /\ finished => goal = "none"

\* A stamp stands on those before it; the first four are written once.
Times ==
  /\ mtime["extracted"] > 0 => mtime["downloaded"] > 0 /\ mtime["downloaded"] <= mtime["extracted"]
  /\ mtime["patched"] > 0 => mtime["extracted"] > 0 /\ mtime["extracted"] <= mtime["patched"]
  /\ mtime["configured"] > 0 => mtime["patched"] > 0 /\ mtime["patched"] <= mtime["configured"]
  /\ mtime["compiled"] > 0 =>
       mtime["configured"] > 0 /\ mtime["configured"] <= mtime["compiled"]
  /\ mtime["installed"] > 0 => mtime["compiled"] > 0

\* What is up to date when make has got so far: the list is always newer than the last stamp
\* when make comes to it.
Reached ==
  /\ at > 1 => mtime["downloaded"] > 0
  /\ at > 2 => mtime["extracted"] > 0
  /\ at > 3 => mtime["patched"] > 0
  /\ at > 4 => mtime["configured"] > 0
  /\ at > 5 => mtime["compiled"] > 0 /\ mtime["config"] <= mtime["compiled"]
  /\ at > 6 => mtime["installed"] > 0 /\ mtime["compiled"] <= mtime["installed"]
  /\ (at = 7 /\ line = 2) \/ at = 8 => mtime["initramfs_rebuilt"] < mtime["initramfs"]

\* Why a recipe runs: the stamp is missing, or the kernel is older than its configuration, or
\* the installed one than the kernel.
Redone ==
  line > 0 =>
    /\ at \in 1 .. 4 => mtime[File] = 0
    /\ at = 5 /\ mtime["compiled"] > 0 => mtime["compiled"] < mtime["config"]
    /\ at = 6 /\ mtime["installed"] > 0 => mtime["installed"] < mtime["compiled"]

\* A patch is in the tree, or has no file, or its failure shows in the status of its round.
Settled(p) == p \in tree.applied \ tree.cut \/ patches[p] = "missing"
Failing(p) == patches[p] \in {"broken", "nodir"}

\* The tree of PatchedMeansClean.
Clean ==
  /\ ~tree.rejects
  /\ \A p \in DOMAIN patches : Settled(p) \/ (Failing(p) /\ p < Len(patches))

\* The loop forgets the status of a round, but not the rejects: they stay in the tree.
PatchInv ==
  /\ tree.rejects => patches # <<>>
  /\ at = 3 /\ line = 1 =>
       /\ \A p \in 1 .. loop.next - 1 : Settled(p) \/ Failing(p) \/ tree.rejects
       /\ loop.ok /\ loop.next > 1 => ~tree.rejects /\ ~Failing(loop.next - 1)
  /\ at = 3 /\ line = 2 => Clean
  /\ mtime["patched"] > 0 => Clean

\* Modules i are those of the configuration, or modules_install has failed.
ModulesOf(i) == "modules" \notin lost => i = config
Good(i) == i.edit = config /\ HoldsTarget(i) /\ ModulesOf(i.files.modules)

\* The kernel in the tree, the copy of it and the modules, along the recipes that make them.
KernelInv ==
  /\ mtime["compiled"] > 0 /\ mtime["config"] <= mtime["compiled"] => built.edit = config
  /\ at = 5 /\ line > 1 => built.edit = config
  /\ at = 6 /\ line > 1 => image = built
  /\ at = 6 /\ line > 2 => ModulesOf(target.modules)
  /\ /\ mtime["installed"] > 0 /\ mtime["compiled"] <= mtime["installed"]
     /\ mtime["config"] <= mtime["compiled"]
     => ModulesOf(target.modules)

\* The list, the archive and the images, along the recipe that makes the kernel again.
RamInv ==
  /\ (at = 7 /\ line = 2) \/ at = 8 => list.kind = "full" /\ list.extra = target.extra
  /\ at = 8 /\ line = 2 => cpio.kind = "none"
  /\ at = 8 /\ line > 2 => Good(built)
  /\ at = 8 /\ line > 3 => Good(image)
  /\ at = 9 => Good(image)
  /\ finished => Good(image)

\* Why an image that is current stays: it is copied again only if it has the old configuration,
\* or from the same kernel.  A copy that was cut is NoImage.
ImageInv ==
  /\ {config, built.edit, image.edit} \subseteq 0 .. changes + 1
  /\ mtime["installed"] > 0 /\ image.edit = config /\ image # NoImage
       => /\ mtime["config"] <= mtime["compiled"]
          /\ mtime["installed"] < mtime["compiled"] => image = built

Ordered == Times /\ Reached /\ Redone
Kernel == KernelInv /\ ImageInv

\* The inductive invariant.
IInv == TypeOK /\ Control /\ Ordered /\ PatchInv /\ Kernel /\ RamInv

LEMMA Commands ==
  ASSUME TypeOK, Control
  PROVE  /\ Running <=> goal # "none" /\ line > 0
         /\ Running => at \in 1 .. 8 /\ line \in 1 .. 4
         /\ Order = <<"downloaded", "extracted", "patched", "configured", "compiled",
                      "installed", "initramfs", "initramfs_rebuilt">>
         /\ \A n \in 1 .. 8 : Order[n] \in Files
         /\ Doing("download") => at = 1 /\ line = 1
         /\ Doing("extract") => at = 2 /\ line = 1
         /\ Doing("patch") => at = 3 /\ line = 1
         /\ Doing("defconfig") => at = 4 /\ line = 1
         /\ Doing("fakelist") => at = 4 /\ line = 2
         /\ Doing("oldconfig") => at = 4 /\ line = 3
         /\ Doing("image") => (at = 5 /\ line = 1) \/ (at = 8 /\ line = 2)
         /\ Doing("modules") => at = 5 /\ line = 2
         /\ Doing("copy") => (at = 6 /\ line = 1) \/ (at = 8 /\ line = 3)
         /\ Doing("modules_install") => at = 6 /\ line = 2
         /\ Doing("fakeroot") => at = 7 /\ line = 1
         /\ Doing("rmcpio") => at = 8 /\ line = 1
<1>1. Running => at \in 1 .. 8 /\ line \in 1 .. 4
  BY DEF TypeOK, Control, Running
<1>2. \A n \in 1 .. 8 : Order[n] \in Files
  BY DEF Files, Order
<1>4. CASE ~Running
  BY <1>2, <1>4 DEF Running, Doing, Order
<1>5. CASE at = 1
  BY <1>1, <1>2, <1>5 DEF Running, Doing, Order, File, Lines
<1>6. CASE at = 2
  BY <1>1, <1>2, <1>6 DEF Running, Doing, Order, File, Lines
<1>7. CASE at = 3
  BY <1>1, <1>2, <1>7 DEF Running, Doing, Order, File, Lines
<1>8. CASE at = 4
  BY <1>1, <1>2, <1>8 DEF Running, Doing, Order, File, Lines
<1>9. CASE at = 5
  BY <1>1, <1>2, <1>9 DEF Running, Doing, Order, File, Lines
<1>10. CASE at = 6
  BY <1>1, <1>2, <1>10 DEF Running, Doing, Order, File, Lines
<1>11. CASE at = 7
  BY <1>1, <1>2, <1>11 DEF Running, Doing, Order, File, Lines
<1>12. CASE at = 8
  BY <1>1, <1>2, <1>12 DEF Running, Doing, Order, File, Lines
<1> QED
  BY <1>1, <1>4, <1>5, <1>6, <1>7, <1>8, <1>9, <1>10, <1>11, <1>12

\* The number of lines of each recipe.
LEMMA Lengths ==
  \A n \in 1 .. 8 :
    /\ Len(Lines[Order[n]]) \in 1 .. 3
    /\ n \in {1, 2, 3, 7} => Len(Lines[Order[n]]) = 1
    /\ n \in {5, 6} => Len(Lines[Order[n]]) = 2
    /\ n \in {4, 8} => Len(Lines[Order[n]]) = 3
BY DEF Lines, Order

-----------------------------------------------------------------------------
(* The types.                                                              *)

LEMMA Bounds ==
  ASSUME TypeOK
  PROVE  /\ patches \in PatchSeries /\ Len(patches) \in Nat
         /\ DOMAIN patches = 1 .. Len(patches)
         /\ \A p \in 1 .. Len(patches) : patches[p] \in PatchKinds
         /\ Changes \in Nat /\ Faults \in Nat
<1>1. patches \in PatchSeries
  BY DEF TypeOK
<1>2. patches \in Seq(PatchKinds)
  BY <1>1, LinuxImageAssumption
<1> QED
  BY <1>1, <1>2, LinuxImageAssumption

\* A step of a recipe, as far as make sees it.
Goes ==
  /\ Running
  /\ Stop \/ (line <= Len(Lines[File]) /\ (Proceed \/ UNCHANGED <<goal, at, line>>))
  /\ UNCHANGED finished

Fails == faults < Faults /\ faults' = faults + 1

\* Which steps write what.
LEMMA Frame ==
  ASSUME [Next]_vars
  PROVE  /\ patches' = patches
         /\ \/ UNCHANGED <<loop, tree>>
            \/ StartRecipe \/ Extract \/ PatchKernel \/ StopsInPatch \/ RemoveTree
         /\ UNCHANGED archive \/ archive' \in {"part", "whole"}
         /\ \/ UNCHANGED mtime
            \/ EndRecipe \/ Defconfig \/ FakeList \/ Oldconfig \/ Fakeroot \/ FakerootFails
            \/ EditConfig \/ RemoveTree
         /\ \/ UNCHANGED <<config, cpio, built, image>>
            \/ Defconfig \/ Image \/ Copy \/ StopsInCopy \/ RmCpio \/ EditConfig \/ RemoveTree
         /\ \/ UNCHANGED <<list, target, lost>>
            \/ FakeList \/ ModulesInstall \/ StopsInModules \/ Fakeroot \/ FakerootFails \/ ChangePackage
         /\ \/ Make \/ UpToDate \/ StartRecipe \/ EndRecipe \/ MakeEnds \/ Goes
            \/ UNCHANGED <<goal, at, line>> /\ (UNCHANGED finished \/ finished' = FALSE)
         /\ UNCHANGED faults \/ Fails
         /\ \/ UNCHANGED changes
            \/ changes < Changes /\ changes' = changes + 1 /\ finished' = FALSE /\ goal = "none"
<1> USE DEF vars, make, disk, kernel, bounds
<1>1. CASE Make
  BY <1>1 DEF Make
<1>2. CASE UpToDate
  BY <1>2 DEF UpToDate
<1>3. CASE StartRecipe
  BY <1>3 DEF StartRecipe
<1>4. CASE EndRecipe
  BY <1>4 DEF EndRecipe
<1>5. CASE MakeEnds
  BY <1>5 DEF MakeEnds
<1>6. CASE Download
  BY <1>6 DEF Download, Goes, Doing, Fails
<1>7. CASE Extract
  BY <1>7 DEF Extract, Goes, Doing, Fails
<1>8. CASE PatchKernel
  BY <1>8 DEF PatchKernel, Goes, Doing, Fails
<1>9. CASE Patched
  BY <1>9 DEF Patched, Goes, Doing, Fails
<1>10. CASE Defconfig
  BY <1>10 DEF Defconfig, Goes, Doing, Fails
<1>11. CASE FakeList
  BY <1>11 DEF FakeList, Goes, Doing, Fails
<1>12. CASE Oldconfig
  BY <1>12 DEF Oldconfig, Goes, Doing, Fails
<1>13. CASE Image
  BY <1>13 DEF Image, Goes, Doing, Fails
<1>14. CASE ImageFails
  BY <1>14 DEF ImageFails, Goes, Doing, Fails
<1>15. CASE Modules
  BY <1>15 DEF Modules, Goes, Doing, Fails
<1>16. CASE Copy
  BY <1>16 DEF Copy, Goes, Doing, Fails
<1>17. CASE ModulesInstall
  BY <1>17 DEF ModulesInstall, Goes, Doing, Fails
<1>18. CASE Fakeroot
  BY <1>18 DEF Fakeroot, Goes, Doing, Fails
<1>19. CASE FakerootFails
  BY <1>19 DEF FakerootFails, Goes, Doing, Fails
<1>20. CASE RmCpio
  BY <1>20 DEF RmCpio, Goes, Doing, Fails
<1>21. CASE MakeStops
  BY <1>21 DEF MakeStops, Interrupted, Goes, Fails
<1>22. CASE EditConfig
  BY <1>22 DEF EditConfig, Change
<1>23. CASE ChangePackage
  BY <1>23 DEF ChangePackage, Change
<1>24. CASE RemoveTree
  BY <1>24 DEF RemoveTree, Change
<1>25. CASE UNCHANGED vars
  BY <1>25
<1>26. CASE StopsInPatch
  BY <1>26 DEF StopsInPatch, Interrupted, Goes, Doing, Fails
<1>27. CASE StopsInCopy
  BY <1>27 DEF StopsInCopy, Interrupted, Goes, Doing, Fails
<1>28. CASE StopsInModules
  BY <1>28 DEF StopsInModules, Interrupted, Goes, Doing, Fails
<1>29. CASE DownloadCut
  BY <1>29 DEF DownloadCut, Goes, Doing, Fails
<1>30. CASE ExtractFails
  BY <1>30 DEF ExtractFails, Goes, Doing, Fails
<1> QED
  BY <1>1, <1>2, <1>3, <1>4, <1>5, <1>6, <1>7, <1>8, <1>9, <1>10, <1>11, <1>12, <1>13, <1>14,
     <1>15, <1>16, <1>17, <1>18, <1>19, <1>20, <1>21, <1>22, <1>23, <1>24, <1>25, <1>26, <1>27,
     <1>28, <1>29, <1>30
     DEF Next, Step, Faulty

\* The parts of the type invariant.
Counts == changes \in 0 .. Changes /\ faults \in 0 .. Faults /\ finished \in BOOLEAN
Place == goal \in {"none", "world", "linux"} /\ at \in 1 .. 9 /\ line \in 0 .. 4
Source ==
  /\ loop \in [next : 1 .. Len(patches) + 1, ok : BOOLEAN]
  /\ archive \in {"none", "part", "whole"}
  /\ tree \in [applied : SUBSET (DOMAIN patches), cut : SUBSET (DOMAIN patches),
               rejects : BOOLEAN]
Edits == 0 .. Changes + 1
Packs == [kind : {"none", "empty", "part", "full"}, pkg : Nat, extra : BOOLEAN, modules : Edits]
Images == [edit : Edits, files : Packs]
Kernels == config \in Edits /\ cpio \in Packs /\ built \in Images /\ image \in Images
Root ==
  /\ list \in [kind : {"none", "empty", "part", "full"}, extra : BOOLEAN]
  /\ target \in [pkg : Nat, extra : BOOLEAN, modules : Edits]
  /\ lost \subseteq {"modules", "devices"}

LEMMA TypeParts ==
  TypeOK <=> /\ patches \in PatchSeries
             /\ mtime \in [Files -> 0 .. Cardinality(Files)]
             /\ Counts /\ Place /\ Source /\ Kernels /\ Root
<1>1. DOMAIN LastOf = {"world", "linux"}
  BY DEF LastOf
<1> QED
  BY <1>1, Zenon DEF TypeOK, Counts, Place, Source, Edits, Packs, Images, Kernels, Root

LEMMA GoalReach ==
  ASSUME TypeOK, goal # "none"
  PROVE  LastOf[goal] \in {6, 8}
<1>1. Place
  BY TypeParts, Zenon
<1>2. LastOf.world = 8 /\ LastOf.linux = 6
  BY DEF LastOf
<1> QED
  BY <1>1, <1>2 DEF Place

LEMMA PlaceStays == TypeOK /\ Control /\ [Next]_vars => Counts' /\ Place' /\ Control'
<1> SUFFICES ASSUME TypeOK, Control, [Next]_vars
             PROVE  Counts' /\ Place' /\ Control'
  OBVIOUS
<1>1. Counts /\ Place /\ Changes \in Nat /\ Faults \in Nat
  BY TypeParts, LinuxImageAssumption
<1>2. \A n \in 1 .. 8 : Len(Lines[Order[n]]) \in 1 .. 3
  BY Lengths
<1>3. LastOf.world = 8 /\ LastOf.linux = 6 /\ DOMAIN LastOf = {"world", "linux"}
  BY DEF LastOf
<1>4. /\ goal # "none" => LastOf[goal] \in {6, 8}
      /\ goal = "none" => at = 1 /\ line = 0
      /\ line > 0 => at <= 8
  BY <1>1, <1>3 DEF Place, Control
<1>5. changes' \in 0 .. Changes /\ faults' \in 0 .. Faults
  <2>1. /\ UNCHANGED faults \/ Fails
        /\ \/ UNCHANGED changes
           \/ changes < Changes /\ changes' = changes + 1
    BY Frame, Zenon
  <2> QED
    BY <1>1, <2>1 DEF Counts, Fails
<1>6. CASE Make
  BY <1>1, <1>2, <1>3, <1>4, <1>5, <1>6 DEF Make, Control, Counts, Place, File
<1>7. CASE UpToDate
  BY <1>1, <1>2, <1>3, <1>4, <1>5, <1>7 DEF UpToDate, Control, Counts, Place, File
<1>8. CASE StartRecipe
  BY <1>1, <1>2, <1>3, <1>4, <1>5, <1>8 DEF StartRecipe, Control, Counts, Place, File
<1>9. CASE EndRecipe
  BY <1>1, <1>2, <1>3, <1>4, <1>5, <1>9 DEF EndRecipe, Running, Control, Counts, Place, File
<1>10. CASE MakeEnds
  BY <1>1, <1>2, <1>3, <1>4, <1>5, <1>10 DEF MakeEnds, Control, Counts, Place, File
<1>11. CASE Goes
  <2>1. CASE Stop
    BY <1>1, <1>2, <1>4, <1>5, <1>11, <2>1 DEF Goes, Running, Stop, Control, Counts, Place, File
  <2>2. CASE line <= Len(Lines[File]) /\ Proceed
    <3>1. /\ goal' = goal /\ at' = at /\ line' = line + 1 /\ finished' = finished
          /\ Lines[File]' = Lines[File] /\ goal # "none" /\ line > 0
      BY <1>11, <2>2 DEF Goes, Running, Proceed, File
    <3>2. at <= 8 /\ Len(Lines[File]) \in 1 .. 3
      BY <1>1, <1>2, <1>4, <3>1 DEF Place, File
    <3> DEFINE length == Len(Lines[File])
    <3>7. line <= length
      BY <2>2
    <3>8. line > 0 /\ length \in 1 .. 3
      BY <3>1, <3>2
    <3>9. line \in 0 .. 4
      BY <1>1 DEF Place
    <3> HIDE DEF length
    <3>10. line \in 1 .. 3 /\ line <= length
      BY <3>7, <3>8, <3>9
    <3>3. line \in 1 .. 3 /\ line <= Len(Lines[File])
      BY <3>10 DEF length
    <3>4. Counts'
      BY <1>1, <1>5, <3>1 DEF Counts
    <3>5. Place'
      BY <1>1, <3>1, <3>3 DEF Place
    <3>6. /\ line' <= Len(Lines[File])' + 1
          /\ at' # 9
      BY <3>1, <3>2, <3>3
    <3> QED
      BY <3>1, <3>2, <3>4, <3>5, <3>6, <1>4, Zenon DEF Control
  <2>3. CASE line <= Len(Lines[File]) /\ UNCHANGED <<goal, at, line>>
    <3>1. UNCHANGED <<goal, at, line>>
      BY <2>3
    <3>4. goal' = goal /\ at' = at /\ line' = line /\ Lines[File]' = Lines[File]
      BY <3>1 DEF File
    <3>2. finished' = finished
      BY <1>11 DEF Goes
    <3>3. Counts' /\ Place'
      BY <1>1, <1>5, <3>4, <3>2 DEF Counts, Place
    <3> QED
      BY <3>4, <3>2, <3>3 DEF Control
  <2> QED
    BY <1>11, <2>1, <2>2, <2>3 DEF Goes
<1>12. CASE UNCHANGED <<goal, at, line>> /\ (UNCHANGED finished \/ finished' = FALSE)
  <2>1. goal' = goal /\ at' = at /\ line' = line /\ Lines[File]' = Lines[File]
    BY <1>12 DEF File
  <2>2. Counts' /\ Place'
    BY <1>1, <1>5, <1>12, <2>1 DEF Counts, Place
  <2>3. finished' => finished
    BY <1>12
  <2> QED
    BY <2>1, <2>2, <2>3 DEF Control
<1> QED
  BY <1>6, <1>7, <1>8, <1>9, <1>10, <1>11, <1>12, Frame

LEMMA SourceStays == TypeOK /\ Control /\ [Next]_vars => Source'
<1> SUFFICES ASSUME TypeOK, Control, [Next]_vars
             PROVE  Source'
  OBVIOUS
<1>1. /\ Source /\ Len(patches) \in Nat /\ DOMAIN patches = 1 .. Len(patches)
      /\ patches' = patches /\ (UNCHANGED archive \/ archive' \in {"part", "whole"})
  BY TypeParts, Bounds, Frame, Zenon
<1> DEFINE Trees == [applied : SUBSET (1 .. Len(patches)), cut : SUBSET (1 .. Len(patches)),
                     rejects : BOOLEAN]
<1>2. /\ loop.next \in 1 .. Len(patches) + 1 /\ loop.ok \in BOOLEAN /\ tree \in Trees
      /\ tree.applied \subseteq 1 .. Len(patches) /\ tree.cut \subseteq 1 .. Len(patches)
      /\ tree.rejects \in BOOLEAN
      /\ archive' \in {"none", "part", "whole"}
  BY <1>1 DEF Source
<1>3. CASE UNCHANGED <<loop, tree>>
  BY <1>1, <1>2, <1>3 DEF Source
<1>4. CASE StartRecipe
  BY <1>1, <1>2, <1>4 DEF StartRecipe, Source, disk, kernel
<1>5. CASE Extract
  BY <1>1, <1>2, <1>5 DEF Extract, NoTree, Source
<1>6. CASE PatchKernel
  <2> DEFINE p == loop.next
  <2>1. p \in 1 .. Len(patches) /\ p + 1 \in 1 .. Len(patches) + 1
    BY <1>1, <1>2, <1>6 DEF PatchKernel
  <2>2. /\ (tree.rejects \/ RejectsOfThis(p)) \in BOOLEAN
        /\ (p \notin Of({"broken", "nodir"}) /\ ~Rejects(p)) \in BOOLEAN
    BY Zenon DEF Rejects
  <2>3. loop' \in [next : 1 .. Len(patches) + 1, ok : BOOLEAN]
    BY <1>6, <2>1, <2>2 DEF PatchKernel
  <2>4. tree' \in Trees
    <3>1. PICK part \in SUBSET ({p} \cap Of({"broken"})) :
            tree' = [applied |-> tree.applied \cup ({p} \cap Of({"good"})),
                     cut |-> tree.cut \cup part,
                     rejects |-> tree.rejects \/ RejectsOfThis(p)]
      BY <1>6 DEF PatchKernel
    <3> HIDE DEF p
    <3> QED
      BY <1>2, <2>1, <2>2, <3>1
  <2> QED
    BY <1>1, <1>2, <2>3, <2>4 DEF Source
<1>7. CASE RemoveTree
  BY <1>1, <1>2, <1>7 DEF RemoveTree, NoTree, Change, make, Source
<1>8. CASE StopsInPatch
  <2>1. PICK p \in {loop.next} \cap Of({"good", "broken"}) :
          tree' = [tree EXCEPT !.cut = @ \cup {p}]
    BY <1>8 DEF StopsInPatch
  <2>2. p \in 1 .. Len(patches)
    BY <1>1, <2>1 DEF Of
  <2>3. tree' \in Trees /\ loop' = loop
    BY <1>2, <1>8, <2>1, <2>2 DEF StopsInPatch, Interrupted
  <2> QED
    BY <1>1, <1>2, <2>3 DEF Source
<1> QED
  BY <1>3, <1>4, <1>5, <1>6, <1>7, <1>8, Frame, Zenon

LEMMA TimesTyped ==
  TypeOK /\ Control /\ [Next]_vars => mtime' \in [Files -> 0 .. Cardinality(Files)]
<1> SUFFICES ASSUME TypeOK, Control, [Next]_vars
             PROVE  mtime' \in [Files -> 0 .. Cardinality(Files)]
  OBVIOUS
<1>1. mtime \in [Files -> 0 .. Cardinality(Files)]
  BY TypeParts, Zenon
<1>2. \A which \in SUBSET Files : Written(which) \in [Files -> 0 .. Cardinality(Files)]
  BY <1>1, WrittenOrder, Zenon
<1>3. {"config"} \in SUBSET Files /\ {"initramfs"} \in SUBSET Files
      /\ {"initramfs", "config"} \in SUBSET Files
  BY FilesAre
<1>4. CASE UNCHANGED mtime
  BY <1>1, <1>4
<1>5. CASE EndRecipe
  <2>1. {File} \in SUBSET Files
    BY <1>5, Commands DEF EndRecipe, File
  <2> QED
    BY <1>1, <1>2, <1>5, <2>1 DEF EndRecipe
<1>6. CASE Defconfig \/ FakeList \/ Oldconfig \/ Fakeroot \/ FakerootFails \/ EditConfig
  <2>1. mtime' \in {Written({"config"}), Written({"initramfs"}), Written({"initramfs", "config"})}
    BY <1>6 DEF Defconfig, FakeList, Oldconfig, Fakeroot, FakerootFails, EditConfig
  <2> QED
    BY <1>2, <1>3, <2>1
<1>7. CASE RemoveTree
  BY <1>1, <1>7, FilesAre DEF RemoveTree
<1> QED
  BY <1>4, <1>5, <1>6, <1>7, Frame, Zenon

LEMMA KernelsStay == TypeOK /\ Control /\ [Next]_vars => Kernels' /\ Root'
<1> SUFFICES ASSUME TypeOK, Control, [Next]_vars
             PROVE  Kernels' /\ Root'
  OBVIOUS
<1>1. Kernels /\ Root /\ changes \in Nat /\ Changes \in Nat /\ 0 \in Edits /\ 1 \in Edits
  BY TypeParts, LinuxImageAssumption DEF Counts, Edits
<1>2. NoFiles \in Packs /\ NoImage \in Images
  BY <1>1 DEF NoFiles, NoImage, Packs, Images
<1>3. /\ list.kind \in {"none", "empty", "part", "full"} /\ list.extra \in BOOLEAN
      /\ target.pkg \in Nat /\ target.extra \in BOOLEAN /\ target.modules \in Edits
      /\ built.edit \in Edits
  BY <1>1 DEF Root, Kernels, Images
<1>4. Packed \in Packs
  BY <1>1, <1>2, <1>3 DEF Packed, Packs, NoFiles
<1>5. Kernels'
  <2>1. CASE UNCHANGED <<config, cpio, built, image>>
    BY <1>1, <2>1 DEF Kernels
  <2>2. CASE Defconfig
    BY <1>1, <2>2 DEF Defconfig, Kernels
  <2>3. CASE Image
    <3>1. cpio' \in Packs /\ config' = config /\ image' = image
      BY <1>1, <1>4, <2>3 DEF Image, Kernels
    <3>2. built' \in Images
      BY <1>1, <2>3, <3>1 DEF Image, Kernels, Images
    <3> QED
      BY <1>1, <3>1, <3>2 DEF Kernels
  <2>4. CASE Copy
    BY <1>1, <2>4 DEF Copy, Kernels, kernel
  <2>5. CASE RmCpio
    BY <1>1, <1>2, <2>5 DEF RmCpio, Kernels
  <2>6. CASE EditConfig
    <3>1. config' \in Edits
      BY <1>1, <2>6 DEF EditConfig, Change, Edits
    <3> QED
      BY <1>1, <2>6, <3>1 DEF EditConfig, Change, Kernels
  <2>7. CASE RemoveTree
    BY <1>1, <1>2, <2>7 DEF RemoveTree, Change, Kernels
  <2>8. CASE StopsInCopy
    BY <1>1, <1>2, <2>8 DEF StopsInCopy, Kernels, kernel
  <2> QED
    BY <2>1, <2>2, <2>3, <2>4, <2>5, <2>6, <2>7, <2>8, Frame, Zenon
<1>6. Root'
  <2>1. CASE UNCHANGED <<list, target, lost>>
    BY <1>1, <2>1 DEF Root
  <2>2. CASE FakeList
    BY <1>1, <2>2 DEF FakeList, Root, NoList
  <2>3. CASE ModulesInstall
    <3>1. target' \in [pkg : Nat, extra : BOOLEAN, modules : Edits]
      BY <1>1, <1>3, <2>3 DEF ModulesInstall, Root
    <3>2. lost' \subseteq {"modules", "devices"} /\ list' = list
      BY <1>1, <2>3 DEF ModulesInstall, Root
    <3> QED
      BY <1>1, <3>1, <3>2 DEF Root
  <2>4. CASE Fakeroot
    <3>1. lost' \subseteq {"modules", "devices"} /\ target' = target
      BY <1>1, <2>4 DEF Fakeroot, Root
    <3>2. list' \in [kind : {"none", "empty", "part", "full"}, extra : BOOLEAN]
      BY <1>3, <2>4 DEF Fakeroot, Listed
    <3> QED
      BY <1>1, <3>1, <3>2 DEF Root
  <2>5. CASE FakerootFails
    BY <1>1, <2>5 DEF FakerootFails, Root
  <2>6. CASE ChangePackage
    <3>1. target' \in [pkg : Nat, extra : BOOLEAN, modules : Edits]
      <4>1. PICK extra \in BOOLEAN : target' = [target EXCEPT !.pkg = @ + 1, !.extra = extra]
        BY <2>6 DEF ChangePackage
      <4>2. target \in [pkg : Nat, extra : BOOLEAN, modules : Edits] /\ target.pkg + 1 \in Nat
        BY <1>1, <1>3 DEF Root
      <4> QED
        BY <4>1, <4>2
    <3> QED
      BY <1>1, <2>6, <3>1 DEF ChangePackage, Change, Root
  <2>7. CASE StopsInModules
    <3>1. target' \in [pkg : Nat, extra : BOOLEAN, modules : Edits]
      BY <1>1, <1>3, <2>7 DEF StopsInModules, Root
    <3> QED
      BY <1>1, <2>7, <3>1 DEF StopsInModules, Interrupted, Root
  <2> QED
    BY <2>1, <2>2, <2>3, <2>4, <2>5, <2>6, <2>7, Frame, Zenon
<1> QED
  BY <1>5, <1>6

LEMMA TypesStay == TypeOK /\ Control /\ [Next]_vars => TypeOK' /\ Control'
<1> SUFFICES ASSUME TypeOK, Control, [Next]_vars
             PROVE  TypeOK' /\ Control'
  OBVIOUS
<1>1. Counts' /\ Place' /\ Control' /\ Source' /\ Kernels' /\ Root'
      /\ mtime' \in [Files -> 0 .. Cardinality(Files)]
  BY PlaceStays, SourceStays, KernelsStay, TimesTyped, Zenon
<1>2. patches' \in PatchSeries
  BY Frame, TypeParts, Zenon
<1> QED
  <2>1. DOMAIN LastOf = {"world", "linux"}
    BY DEF LastOf
  <2> QED
    BY <1>1, <1>2, <2>1, Zenon
       DEF TypeOK, Counts, Place, Source, Edits, Packs, Images, Kernels, Root

-----------------------------------------------------------------------------
(* The order of the stamps.                                                *)

\* The times are numbers.
TimesTypes ==
  /\ mtime["downloaded"] \in Nat /\ mtime["extracted"] \in Nat /\ mtime["patched"] \in Nat
  /\ mtime["configured"] \in Nat /\ mtime["compiled"] \in Nat /\ mtime["installed"] \in Nat
  /\ mtime["initramfs"] \in Nat /\ mtime["initramfs_rebuilt"] \in Nat /\ mtime["config"] \in Nat

LEMMA TimesAre ==
  /\ TypeOK => TimesTypes
  /\ TypeOK' => TimesTypes'
<1>1. ASSUME NEW m \in [Files -> 0 .. Cardinality(Files)], NEW f \in Files
      PROVE  m[f] \in Nat
  BY <1>1, FilesAre
<1>2. TypeOK => mtime \in [Files -> 0 .. Cardinality(Files)]
  BY DEF TypeOK
<1>3. TypeOK' => mtime' \in [Files -> 0 .. Cardinality(Files)]
  BY DEF TypeOK
<1> QED
  BY <1>1, <1>2, <1>3, FilesAre DEF TimesTypes

LEMMA StaleIs ==
  /\ Stale("downloaded") <=> mtime["downloaded"] = 0
  /\ Stale("extracted") <=> mtime["extracted"] = 0 \/ mtime["downloaded"] > mtime["extracted"]
  /\ Stale("patched") <=> mtime["patched"] = 0 \/ mtime["extracted"] > mtime["patched"]
  /\ Stale("configured") <=> mtime["configured"] = 0 \/ mtime["patched"] > mtime["configured"]
  /\ Stale("compiled") <=>
       \/ mtime["compiled"] = 0 \/ mtime["configured"] > mtime["compiled"]
       \/ mtime["config"] > mtime["compiled"]
  /\ Stale("installed") <=> mtime["installed"] = 0 \/ mtime["compiled"] > mtime["installed"]
  /\ Stale("initramfs")
  /\ mtime["initramfs"] > mtime["initramfs_rebuilt"] => Stale("initramfs_rebuilt")
BY DEF Stale, Needs

\* What WrittenOrder says when one file is written.
LEMMA OneWritten ==
  ASSUME TypeOK, NEW f \in Files, mtime' = Written({f})
  PROVE  /\ mtime'[f] > 0
         /\ \A g \in Files : g # f => mtime'[g] < mtime'[f] /\ (mtime'[g] > 0 <=> mtime[g] > 0)
         /\ \A g, h \in Files : g # f /\ h # f => (mtime'[g] <= mtime'[h] <=> mtime[g] <= mtime[h])
<1>1. mtime \in [Files -> 0 .. Cardinality(Files)] /\ {f} \in SUBSET Files
  BY DEF TypeOK
<1>2. \A g \in Files : g # f => g \in Files \ {f}
  OBVIOUS
<1> DEFINE new == Written({f})
<1>3. /\ \A g \in {f} : new[g] > 0
      /\ \A g \in {f}, h \in Files \ {f} : new[h] < new[g]
      /\ \A g \in Files \ {f} : new[g] > 0 <=> mtime[g] > 0
      /\ \A g, h \in Files \ {f} : new[g] <= new[h] <=> mtime[g] <= mtime[h]
  BY <1>1, WrittenOrder, Zenon
<1> QED
  BY <1>2, <1>3

LEMMA ListWritten ==
  ASSUME TypeOK, mtime' = Written({"initramfs", "config"})
  PROVE  /\ \A g \in Files \ {"initramfs", "config"} : mtime'[g] > 0 <=> mtime[g] > 0
         /\ \A g, h \in Files \ {"initramfs", "config"} :
              mtime'[g] <= mtime'[h] <=> mtime[g] <= mtime[h]
<1>1. /\ mtime \in [Files -> 0 .. Cardinality(Files)]
      /\ {"initramfs", "config"} \in SUBSET Files
  BY FilesAre DEF TypeOK
<1> QED
  BY <1>1, WrittenOrder, ZenonT(30)

\* A step of a recipe that writes no times, or writes that of the list.
LEMMA RecipeStays ==
  ASSUME TypeOK, Control, Ordered, Goes, TimesTypes, TimesTypes', Times',
         \A f \in Files \ {"initramfs", "config"} : mtime'[f] > 0 <=> mtime[f] > 0,
         \A f, g \in Files \ {"initramfs", "config"} : mtime'[f] <= mtime'[g] <=> mtime[f] <= mtime[g],
         at > 4 => (mtime'["config"] <= mtime'["compiled"] <=> mtime["config"] <= mtime["compiled"]),
         at = 7 /\ line' = 2 => mtime'["initramfs_rebuilt"] < mtime'["initramfs"],
         at = 8 => UNCHANGED mtime
  PROVE  Reached' /\ Redone'
<1>1. at \in 1 .. 8 /\ line \in 1 .. 4
  BY Commands DEF Goes
<1>2. /\ Order[1] = "downloaded" /\ Order[2] = "extracted" /\ Order[3] = "patched"
      /\ Order[4] = "configured" /\ Order[5] = "compiled" /\ Order[6] = "installed"
  BY DEF Order
<1>3. CASE Stop
  BY <1>3, <1>1 DEF Stop, Reached, Redone, TimesTypes, File
<1>4. CASE at' = at /\ (Proceed \/ UNCHANGED <<goal, at, line>>)
  <2>1. at' = at /\ line' \in 1 .. 5
    BY <1>1, <1>4 DEF Proceed
  <2>2. Reached'
    <3>1. /\ at > 1 => mtime'["downloaded"] > 0
          /\ at > 2 => mtime'["extracted"] > 0
          /\ at > 3 => mtime'["patched"] > 0
          /\ at > 4 => mtime'["configured"] > 0
          /\ at > 5 => mtime'["compiled"] > 0
          /\ at > 6 => mtime'["installed"] > 0
      BY FilesAre, <1>1 DEF Ordered, Reached
    <3>2. /\ at > 5 => mtime'["config"] <= mtime'["compiled"]
          /\ at > 6 => mtime'["compiled"] <= mtime'["installed"]
      BY FilesAre, <1>1 DEF Ordered, Reached
    <3>3. (at = 7 /\ line' = 2) \/ at = 8 => mtime'["initramfs_rebuilt"] < mtime'["initramfs"]
      BY <1>1, <2>1 DEF Ordered, Reached
    <3> QED
      BY <2>1, <3>1, <3>2, <3>3 DEF Reached
  <2>3. Redone'
    <3>1. Redone /\ line > 0 /\ File' = File
      BY <1>1, <2>1 DEF Ordered, File
    <3>2. at \in 1 .. 4 => mtime'[File] = 0
      <4>1. at \in 1 .. 4 => File \in Files \ {"initramfs", "config"} /\ mtime[File] = 0
        BY <1>2, <3>1, FilesAre DEF Redone, File
      <4>2. at \in 1 .. 4 => mtime'[File] \in Nat
        BY <1>2 DEF TimesTypes, File
      <4> QED
        BY <4>1, <4>2
    <3>3. at = 5 /\ mtime'["compiled"] > 0 => mtime'["compiled"] < mtime'["config"]
      BY <3>1, <1>1, FilesAre DEF Redone, TimesTypes
    <3>4. at = 6 /\ mtime'["installed"] > 0 => mtime'["installed"] < mtime'["compiled"]
      BY <3>1, <1>1, FilesAre DEF Redone, TimesTypes
    <3> QED
      BY <2>1, <3>1, <3>2, <3>3, <3>4 DEF Redone
  <2> QED
    BY <2>2, <2>3
<1> QED
  BY <1>3, <1>4 DEF Goes, Proceed

\* What happens while a recipe runs, and where in it.
LEMMA RecipeSteps ==
  ASSUME TypeOK, Control, Running, [Next]_vars
  PROVE  \/ UNCHANGED vars \/ MakeStops \/ EndRecipe
         \/ at = 1 /\ line = 1 /\ (Download \/ DownloadCut)
         \/ at = 2 /\ line = 1 /\ (Extract \/ ExtractFails)
         \/ at = 3 /\ line = 1 /\ StopsInPatch
         \/ ((at = 6 /\ line = 1) \/ (at = 8 /\ line = 3)) /\ StopsInCopy
         \/ at = 6 /\ line = 2 /\ StopsInModules
         \/ at = 3 /\ line = 1 /\ PatchKernel
         \/ at = 3 /\ line = 1 /\ Patched
         \/ at = 4 /\ line = 1 /\ Defconfig
         \/ at = 4 /\ line = 2 /\ FakeList
         \/ at = 4 /\ line = 3 /\ Oldconfig
         \/ ((at = 5 /\ line = 1) \/ (at = 8 /\ line = 2)) /\ Image
         \/ ((at = 5 /\ line = 1) \/ (at = 8 /\ line = 2)) /\ ImageFails
         \/ at = 5 /\ line = 2 /\ Modules
         \/ ((at = 6 /\ line = 1) \/ (at = 8 /\ line = 3)) /\ Copy
         \/ at = 6 /\ line = 2 /\ ModulesInstall
         \/ at = 7 /\ line = 1 /\ Fakeroot
         \/ at = 7 /\ line = 1 /\ FakerootFails
         \/ at = 8 /\ line = 1 /\ RmCpio
<1>1. goal # "none" /\ line > 0
  BY DEF Running
<1>2. ~Make
  BY <1>1 DEF Make
<1>3. ~UpToDate
  BY <1>1 DEF UpToDate
<1>4. ~StartRecipe
  BY <1>1 DEF StartRecipe
<1>5. ~MakeEnds
  BY <1>1 DEF MakeEnds
<1>6. ~EditConfig
  BY <1>1 DEF EditConfig, Change
<1>7. ~ChangePackage
  BY <1>1 DEF ChangePackage, Change
<1>8. ~RemoveTree
  BY <1>1 DEF RemoveTree, Change
<1>9. Download \/ DownloadCut => at = 1 /\ line = 1
  BY Commands DEF Download, DownloadCut
<1>10. Extract \/ ExtractFails => at = 2 /\ line = 1
  BY Commands DEF Extract, ExtractFails
<1>11. PatchKernel => at = 3 /\ line = 1
  BY Commands DEF PatchKernel
<1>12. Patched => at = 3 /\ line = 1
  BY Commands DEF Patched
<1>13. Defconfig => at = 4 /\ line = 1
  BY Commands DEF Defconfig
<1>14. FakeList => at = 4 /\ line = 2
  BY Commands DEF FakeList
<1>15. Oldconfig => at = 4 /\ line = 3
  BY Commands DEF Oldconfig
<1>16. Image => ((at = 5 /\ line = 1) \/ (at = 8 /\ line = 2))
  BY Commands DEF Image
<1>17. ImageFails => ((at = 5 /\ line = 1) \/ (at = 8 /\ line = 2))
  BY Commands DEF ImageFails
<1>18. Modules => at = 5 /\ line = 2
  BY Commands DEF Modules
<1>19. Copy => ((at = 6 /\ line = 1) \/ (at = 8 /\ line = 3))
  BY Commands DEF Copy
<1>20. ModulesInstall => at = 6 /\ line = 2
  BY Commands DEF ModulesInstall
<1>21. Fakeroot => at = 7 /\ line = 1
  BY Commands DEF Fakeroot
<1>22. FakerootFails => at = 7 /\ line = 1
  BY Commands DEF FakerootFails
<1>23. RmCpio => at = 8 /\ line = 1
  BY Commands DEF RmCpio
<1>24. StopsInPatch => at = 3 /\ line = 1
  BY Commands DEF StopsInPatch
<1>25. StopsInCopy => ((at = 6 /\ line = 1) \/ (at = 8 /\ line = 3))
  BY Commands DEF StopsInCopy
<1>26. StopsInModules => at = 6 /\ line = 2
  BY Commands DEF StopsInModules
<1> QED
  BY <1>2, <1>3, <1>4, <1>5, <1>6, <1>7, <1>8, <1>9, <1>10, <1>11, <1>12, <1>13, <1>14, <1>15,
     <1>16, <1>17, <1>18, <1>19, <1>20, <1>21, <1>22, <1>23, <1>24, <1>25, <1>26
     DEF Next, Step, Faulty

\* What happens when none does.
LEMMA OtherSteps ==
  ASSUME ~Running, [Next]_vars
  PROVE  \/ UNCHANGED vars
         \/ Make \/ UpToDate \/ StartRecipe \/ MakeEnds
         \/ EditConfig \/ ChangePackage \/ RemoveTree
<1>1. ~MakeStops /\ ~StopsInPatch /\ ~StopsInCopy /\ ~StopsInModules
  BY DEF MakeStops, StopsInPatch, StopsInCopy, StopsInModules, Doing
<1>2. ~EndRecipe
  BY DEF EndRecipe, Doing
<1>3. ~Download /\ ~DownloadCut
  BY DEF Download, DownloadCut, Doing
<1>4. ~Extract /\ ~ExtractFails
  BY DEF Extract, ExtractFails, Doing
<1>5. ~PatchKernel
  BY DEF PatchKernel, Doing
<1>6. ~Patched
  BY DEF Patched, Doing
<1>7. ~Defconfig
  BY DEF Defconfig, Doing
<1>8. ~FakeList
  BY DEF FakeList, Doing
<1>9. ~Oldconfig
  BY DEF Oldconfig, Doing
<1>10. ~Image
  BY DEF Image, Doing
<1>11. ~ImageFails
  BY DEF ImageFails, Doing
<1>12. ~Modules
  BY DEF Modules, Doing
<1>13. ~Copy
  BY DEF Copy, Doing
<1>14. ~ModulesInstall
  BY DEF ModulesInstall, Doing
<1>15. ~Fakeroot
  BY DEF Fakeroot, Doing
<1>16. ~FakerootFails
  BY DEF FakerootFails, Doing
<1>17. ~RmCpio
  BY DEF RmCpio, Doing
<1> QED
  BY <1>1, <1>2, <1>3, <1>4, <1>5, <1>6, <1>7, <1>8, <1>9, <1>10, <1>11, <1>12, <1>13, <1>14,
     <1>15, <1>16, <1>17, Zenon
     DEF Next, Step, Faulty

\* The recipe of the list has one line.
LEMMA OnlyFakeroot ==
  ASSUME TypeOK, Control, Running, at = 7, [Next]_vars
  PROVE  Fakeroot \/ EndRecipe \/ line' = 0 \/ UNCHANGED vars
<1>1. MakeStops \/ FakerootFails => line' = 0
  BY DEF MakeStops, Interrupted, FakerootFails, Stop
<1> QED
  BY <1>1, RecipeSteps

\* Within a recipe, and by linux-menuconfig, only the times of the list and of .config change.
LEMMA ListOnly ==
  ASSUME TypeOK, Control, [Next]_vars, ~EndRecipe, ~RemoveTree
  PROVE  /\ \A f \in Files \ {"initramfs", "config"} : mtime'[f] > 0 <=> mtime[f] > 0
         /\ \A f, g \in Files \ {"initramfs", "config"} :
              mtime'[f] <= mtime'[g] <=> mtime[f] <= mtime[g]
<1>1. CASE UNCHANGED mtime
  BY <1>1
<1>2. CASE FakeList
  BY <1>2, ListWritten DEF FakeList
<1>3. CASE Defconfig \/ Oldconfig \/ EditConfig
  <2>1. mtime' = Written({"config"}) /\ "config" \in Files
    BY <1>3, FilesAre DEF Defconfig, Oldconfig, EditConfig
  <2> QED
    BY <2>1, OneWritten
<1>4. CASE Fakeroot \/ FakerootFails
  <2>1. mtime' = Written({"initramfs"}) /\ "initramfs" \in Files
    BY <1>4, FilesAre DEF Fakeroot, FakerootFails
  <2> QED
    BY <2>1, OneWritten
<1> QED
  BY <1>1, <1>2, <1>3, <1>4, Frame, Zenon

LEMMA UpToDateOrdered ==
  ASSUME TypeOK, Control, Ordered, [Next]_vars, UpToDate
  PROVE  Ordered'
<1>1. TypeOK' /\ Control' /\ TimesTypes /\ TimesTypes'
  BY TypesStay, TimesAre
<1>2. /\ Order[1] = "downloaded" /\ Order[2] = "extracted" /\ Order[3] = "patched"
      /\ Order[4] = "configured" /\ Order[5] = "compiled" /\ Order[6] = "installed"
      /\ Order[7] = "initramfs" /\ Order[8] = "initramfs_rebuilt"
  BY DEF Order
<1>3. at \in 1 .. 9 /\ line \in 0 .. 4
  BY DEF TypeOK
<1>4. UNCHANGED mtime /\ UpToDate
  BY DEF UpToDate
<1>5. Times'
  BY <1>4 DEF Ordered, Times
<1>6. at \in 1 .. 8 /\ at' = at + 1 /\ line' = 0 /\ ~Stale(Order[at])
  BY <1>3, <1>4, GoalReach DEF UpToDate, File
<1>7. Reached'
  <2>1. CASE at = 1
    BY <1>1, <1>2, <1>4, <1>6, <2>1, StaleIs DEF Reached, TimesTypes
  <2>2. CASE at = 2
    BY <1>1, <1>2, <1>4, <1>6, <2>2, StaleIs DEF Ordered, Reached, TimesTypes
  <2>3. CASE at = 3
    BY <1>1, <1>2, <1>4, <1>6, <2>3, StaleIs DEF Ordered, Reached, TimesTypes
  <2>4. CASE at = 4
    BY <1>1, <1>2, <1>4, <1>6, <2>4, StaleIs DEF Ordered, Reached, TimesTypes
  <2>5. CASE at = 5
    BY <1>1, <1>2, <1>4, <1>6, <2>5, StaleIs DEF Ordered, Reached, TimesTypes
  <2>6. CASE at = 6
    BY <1>1, <1>2, <1>4, <1>6, <2>6, StaleIs DEF Ordered, Reached, TimesTypes
  <2>7. CASE at = 7 \/ at = 8
    BY <1>1, <1>2, <1>4, <1>6, <2>7, StaleIs DEF Ordered, Reached, TimesTypes
  <2> QED
    BY <1>6, <2>1, <2>2, <2>3, <2>4, <2>5, <2>6, <2>7
<1> QED
  BY <1>5, <1>6, <1>7 DEF Ordered, Redone

LEMMA StartOrdered ==
  ASSUME TypeOK, Control, Ordered, [Next]_vars, StartRecipe
  PROVE  Ordered'
<1>1. TypeOK' /\ Control' /\ TimesTypes /\ TimesTypes'
  BY TypesStay, TimesAre
<1>2. /\ Order[1] = "downloaded" /\ Order[2] = "extracted" /\ Order[3] = "patched"
      /\ Order[4] = "configured" /\ Order[5] = "compiled" /\ Order[6] = "installed"
      /\ Order[7] = "initramfs" /\ Order[8] = "initramfs_rebuilt"
  BY DEF Order
<1>3. at \in 1 .. 9 /\ line \in 0 .. 4
  BY DEF TypeOK
<1>4. UNCHANGED mtime /\ StartRecipe
  BY DEF StartRecipe
<1>5. Times'
  BY <1>4 DEF Ordered, Times
<1>6. at \in 1 .. 8 /\ at' = at /\ line = 0 /\ line' = 1 /\ Stale(Order[at])
  BY <1>3, <1>4, GoalReach DEF StartRecipe, File
<1>7. Reached'
  BY <1>4, <1>6 DEF Ordered, Reached
<1>8. Redone'
  <2>1. CASE at \in 1 .. 4
    <3>1. mtime[Order[at]] = 0
      <4>1. CASE at = 1
        BY <1>2, <1>6, <4>1, StaleIs
      <4>2. CASE at = 2
        BY <1>1, <1>2, <1>6, <4>2, StaleIs DEF Ordered, Times, TimesTypes
      <4>3. CASE at = 3
        BY <1>1, <1>2, <1>6, <4>3, StaleIs DEF Ordered, Times, TimesTypes
      <4>4. CASE at = 4
        BY <1>1, <1>2, <1>6, <4>4, StaleIs DEF Ordered, Times, TimesTypes
      <4> QED
        BY <2>1, <4>1, <4>2, <4>3, <4>4
    <3> QED
      BY <1>4, <1>6, <2>1, <3>1 DEF Redone, File
  <2>2. CASE at = 5
    BY <1>1, <1>2, <1>4, <1>6, <2>2, StaleIs DEF Ordered, Times, Redone, TimesTypes
  <2>3. CASE at = 6
    BY <1>1, <1>2, <1>4, <1>6, <2>3, StaleIs DEF Redone, TimesTypes
  <2>4. CASE at \in 7 .. 8
    BY <1>6, <2>4 DEF Redone
  <2> QED
    BY <1>6, <2>1, <2>2, <2>3, <2>4
<1> QED
  BY <1>5, <1>7, <1>8 DEF Ordered

LEMMA EndOrdered ==
  ASSUME TypeOK, Control, Ordered, [Next]_vars, EndRecipe
  PROVE  Ordered'
<1>1. TypeOK' /\ Control' /\ TimesTypes /\ TimesTypes'
  BY TypesStay, TimesAre
<1>2. /\ Order[1] = "downloaded" /\ Order[2] = "extracted" /\ Order[3] = "patched"
      /\ Order[4] = "configured" /\ Order[5] = "compiled" /\ Order[6] = "installed"
      /\ Order[7] = "initramfs" /\ Order[8] = "initramfs_rebuilt"
  BY DEF Order
<1>3. at \in 1 .. 9 /\ line \in 0 .. 4
  BY DEF TypeOK
<1>4. /\ at \in 1 .. 8 /\ line > 1 /\ at' = at + 1 /\ line' = 0
      /\ line = Len(Lines[Order[at]]) + 1
  <2>1. Running /\ line > Len(Lines[Order[at]]) /\ at' = at + 1 /\ line' = 0
    BY DEF EndRecipe, File
  <2>2. at \in 1 .. 8 /\ line \in 1 .. 4
    BY <2>1, Commands
  <2>3. Len(Lines[Order[at]]) \in 1 .. 3 /\ line <= Len(Lines[Order[at]]) + 1
    BY <2>2, Lengths DEF Control, File
  <2> DEFINE length == Len(Lines[Order[at]])
  <2> HIDE DEF length
  <2>4. line > length /\ length \in 1 .. 3 /\ line <= length + 1
    BY <2>1, <2>3 DEF length
  <2>5. line > 1 /\ line = length + 1
    BY <2>2, <2>4
  <2> QED
    BY <2>1, <2>2, <2>5 DEF length
<1>5. CASE at = 7
  <2>1. line = 2 /\ UNCHANGED mtime
    <3>1. Order[at] = "initramfs" /\ Len(Lines[Order[at]]) = 1
      BY <1>2, <1>5, Lengths
    <3> QED
      BY <1>4, <3>1 DEF EndRecipe, File
  <2> QED
    BY <1>4, <1>5, <2>1 DEF Ordered, Times, Reached, Redone
<1>6. CASE at # 7
  <2> DEFINE x == Order[at]
  <2>1. x \in Files /\ mtime' = Written({x})
    BY <1>2, <1>4, <1>6, FilesAre DEF EndRecipe, File
  <2>2. /\ mtime'[x] > 0
        /\ \A g \in Files : g # x => mtime'[g] < mtime'[x] /\ (mtime'[g] > 0 <=> mtime[g] > 0)
        /\ \A g, h \in Files : g # x /\ h # x => (mtime'[g] <= mtime'[h] <=> mtime[g] <= mtime[h])
    BY <2>1, OneWritten
  <2>3. Redone'
    BY <1>4 DEF Redone
  <2>4. CASE at = 1
    <3>1. mtime["downloaded"] = 0
      BY <1>2, <1>4, <2>4 DEF Ordered, Redone, File
    <3> QED
      BY <1>1, <1>2, <1>4, <2>2, <2>3, <2>4, <3>1, FilesAre
         DEF Ordered, Times, Reached, TimesTypes
  <2>5. CASE at = 2
    <3>1. mtime["extracted"] = 0
      BY <1>2, <1>4, <2>5 DEF Ordered, Redone, File
    <3> QED
      BY <1>1, <1>2, <1>4, <2>2, <2>3, <2>5, <3>1, FilesAre
         DEF Ordered, Times, Reached, TimesTypes
  <2>6. CASE at = 3
    <3>1. mtime["patched"] = 0
      BY <1>2, <1>4, <2>6 DEF Ordered, Redone, File
    <3>2. mtime["configured"] = 0 /\ mtime["compiled"] = 0 /\ mtime["installed"] = 0
      BY <1>1, <3>1 DEF Ordered, Times, TimesTypes
    <3>3. /\ mtime'["configured"] = 0 /\ mtime'["compiled"] = 0 /\ mtime'["installed"] = 0
          /\ mtime'["patched"] > 0 /\ mtime'["extracted"] < mtime'["patched"]
      BY <1>1, <1>2, <2>2, <2>6, <3>2, FilesAre DEF TimesTypes
    <3>4. /\ mtime["downloaded"] > 0 /\ mtime["extracted"] > 0
          /\ mtime["downloaded"] <= mtime["extracted"]
      BY <1>1, <2>6 DEF Ordered, Reached, Times, TimesTypes
    <3>5. /\ mtime'["downloaded"] > 0 /\ mtime'["extracted"] > 0
          /\ mtime'["downloaded"] <= mtime'["extracted"]
      BY <1>2, <2>2, <2>6, <3>4, FilesAre
    <3> QED
      BY <1>1, <1>4, <2>3, <2>6, <3>3, <3>5 DEF Ordered, Times, Reached, TimesTypes
  <2>7. CASE at = 4
    <3>1. mtime["configured"] = 0
      BY <1>2, <1>4, <2>7 DEF Ordered, Redone, File
    <3>2. mtime["compiled"] = 0 /\ mtime["installed"] = 0
      BY <1>1, <3>1 DEF Ordered, Times, TimesTypes
    <3>3. /\ mtime'["compiled"] = 0 /\ mtime'["installed"] = 0
          /\ mtime'["configured"] > 0 /\ mtime'["patched"] < mtime'["configured"]
      BY <1>1, <1>2, <2>2, <2>7, <3>2, FilesAre DEF TimesTypes
    <3>4. /\ mtime["downloaded"] > 0 /\ mtime["extracted"] > 0 /\ mtime["patched"] > 0
          /\ mtime["downloaded"] <= mtime["extracted"] /\ mtime["extracted"] <= mtime["patched"]
      BY <1>1, <2>7 DEF Ordered, Reached, Times, TimesTypes
    <3>5. /\ mtime'["downloaded"] > 0 /\ mtime'["extracted"] > 0 /\ mtime'["patched"] > 0
          /\ mtime'["downloaded"] <= mtime'["extracted"] /\ mtime'["extracted"] <= mtime'["patched"]
      BY <1>2, <2>2, <2>7, <3>4, FilesAre
    <3> QED
      BY <1>1, <1>4, <2>3, <2>7, <3>3, <3>5 DEF Ordered, Times, Reached, TimesTypes
  <2>8. CASE at = 5
    <3>1. /\ mtime'["compiled"] > 0 /\ mtime'["configured"] < mtime'["compiled"]
          /\ mtime'["config"] < mtime'["compiled"]
      BY <1>2, <2>2, <2>8, FilesAre
    <3>2. /\ mtime["downloaded"] > 0 /\ mtime["extracted"] > 0 /\ mtime["patched"] > 0
          /\ mtime["configured"] > 0
          /\ mtime["downloaded"] <= mtime["extracted"] /\ mtime["extracted"] <= mtime["patched"]
          /\ mtime["patched"] <= mtime["configured"]
      BY <1>1, <2>8 DEF Ordered, Reached, Times, TimesTypes
    <3>3. /\ mtime'["downloaded"] > 0 /\ mtime'["extracted"] > 0 /\ mtime'["patched"] > 0
          /\ mtime'["configured"] > 0
          /\ mtime'["downloaded"] <= mtime'["extracted"] /\ mtime'["extracted"] <= mtime'["patched"]
          /\ mtime'["patched"] <= mtime'["configured"]
      BY <1>2, <2>2, <2>8, <3>2, FilesAre
    <3>4. TimesTypes'
      BY <1>1
    <3>5. Times'
      BY <3>1, <3>3, <3>4 DEF Times, TimesTypes
    <3>6. at' = 6 /\ line' = 0
      BY <1>4, <2>8
    <3>7. Reached'
      BY <3>1, <3>3, <3>4, <3>6 DEF Reached, TimesTypes
    <3> QED
      BY <2>3, <3>5, <3>7 DEF Ordered
  <2>9. CASE at = 6
    BY <1>1, <1>2, <1>4, <2>2, <2>3, <2>9, FilesAre DEF Ordered, Times, Reached, TimesTypes
  <2>10. CASE at = 8
    BY <1>1, <1>2, <1>4, <2>2, <2>3, <2>10, FilesAre DEF Ordered, Times, Reached, TimesTypes
  <2> QED
    BY <1>4, <1>6, <2>4, <2>5, <2>6, <2>7, <2>8, <2>9, <2>10
<1> QED
  BY <1>5, <1>6

LEMMA OrderedStays ==
  ASSUME TypeOK, Control, Ordered, [Next]_vars
  PROVE  Ordered'
<1>1. TypeOK' /\ Control' /\ TimesTypes /\ TimesTypes'
  BY TypesStay, TimesAre
<1>2. /\ Order[1] = "downloaded" /\ Order[2] = "extracted" /\ Order[3] = "patched"
      /\ Order[4] = "configured" /\ Order[5] = "compiled" /\ Order[6] = "installed"
      /\ Order[7] = "initramfs" /\ Order[8] = "initramfs_rebuilt"
  BY DEF Order
<1>3. at \in 1 .. 9 /\ line \in 0 .. 4
  BY DEF TypeOK
<1>4. CASE UpToDate
  BY <1>4, UpToDateOrdered
<1>5. CASE StartRecipe
  BY <1>5, StartOrdered
<1>6. CASE EndRecipe
  BY <1>6, EndOrdered
<1>7. CASE RemoveTree
  BY <1>7, FilesAre DEF RemoveTree, Change, make, Control, Ordered, Times, Reached, Redone
<1>8. CASE ~EndRecipe /\ ~RemoveTree
  <2>1. Times'
    BY <1>1, <1>8, ListOnly, FilesAre DEF Ordered, Times, TimesTypes
  <2>2. CASE Make \/ MakeEnds
    BY <2>1, <2>2, <1>1 DEF Make, MakeEnds, Ordered, Reached, Redone
  <2>3. /\ \A f \in Files \ {"initramfs", "config"} : mtime'[f] > 0 <=> mtime[f] > 0
        /\ \A f, g \in Files \ {"initramfs", "config"} :
             mtime'[f] <= mtime'[g] <=> mtime[f] <= mtime[g]
    BY <1>8, ListOnly, Zenon
  <2>4. ASSUME Defconfig \/ FakeList \/ Oldconfig \/ Fakeroot \/ FakerootFails
        PROVE  Goes
    BY <2>4 DEF Defconfig, FakeList, Oldconfig, Fakeroot, FakerootFails, Goes, Doing
  <2>5. CASE Goes
    <3>1. at \in 1 .. 8 /\ line \in 1 .. 4 /\ Running
      BY <2>5, Commands DEF Goes
    <3>2. at > 4 => (mtime'["config"] <= mtime'["compiled"] <=> mtime["config"] <= mtime["compiled"])
      <4>1. CASE UNCHANGED mtime
        BY <4>1
      <4>2. CASE Defconfig \/ FakeList \/ Oldconfig
        BY <4>2, <3>1, Commands DEF Defconfig, FakeList, Oldconfig
      <4>3. CASE Fakeroot \/ FakerootFails
        <5>1. mtime' = Written({"initramfs"})
          BY <4>3 DEF Fakeroot, FakerootFails
        <5> QED
          BY <5>1, OneWritten, FilesAre
      <4>4. ~EditConfig
        BY <3>1 DEF EditConfig, Change, Running
      <4> QED
        BY <1>8, <4>1, <4>2, <4>3, <4>4, Frame, Zenon
    <3>3. at = 7 /\ line' = 2 => mtime'["initramfs_rebuilt"] < mtime'["initramfs"]
      <4> SUFFICES ASSUME at = 7, line' = 2
                   PROVE  mtime'["initramfs_rebuilt"] < mtime'["initramfs"]
        OBVIOUS
      <4>1. Fakeroot \/ UNCHANGED vars
        <5>1. line' # 0
          OBVIOUS
        <5> QED
          BY <1>8, <3>1, <5>1, OnlyFakeroot, Zenon
      <4>2. CASE Fakeroot
        <5>1. mtime' = Written({"initramfs"})
          BY <4>2 DEF Fakeroot
        <5> QED
          BY <5>1, OneWritten, FilesAre
      <4>3. CASE UNCHANGED vars
        <5>1. line' = line /\ UNCHANGED mtime
          BY <4>3 DEF vars, make
        <5> QED
          BY <5>1 DEF Ordered, Reached
      <4> QED
        BY <4>1, <4>2, <4>3
    <3>4. at = 8 => UNCHANGED mtime
      <4>1. at = 8 => ~Defconfig /\ ~FakeList /\ ~Oldconfig /\ ~Fakeroot /\ ~FakerootFails
        BY Commands DEF Defconfig, FakeList, Oldconfig, Fakeroot, FakerootFails
      <4>2. ~EditConfig
        BY <3>1 DEF EditConfig, Change, Running
      <4> QED
        BY <1>8, <4>1, <4>2, Frame, Zenon
    <3>5. Reached' /\ Redone'
      BY <1>1, <2>1, <2>3, <2>5, <3>2, <3>3, <3>4, RecipeStays, Zenon
    <3> QED
      BY <2>1, <3>5 DEF Ordered
  <2>6. CASE UNCHANGED <<goal, at, line>>
    <3>1. CASE UNCHANGED mtime
      BY <2>1, <2>6, <3>1 DEF Ordered, Reached, Redone, File
    <3>2. CASE EditConfig
      BY <2>1, <2>6, <3>2 DEF EditConfig, Change, Control, Ordered, Reached, Redone
    <3> QED
      BY <1>8, <2>4, <2>5, <3>1, <3>2, Frame, Zenon
  <2> QED
    BY <1>4, <1>5, <1>8, <2>2, <2>5, <2>6, Frame, Zenon
<1> QED
  BY <1>6, <1>7, <1>8

-----------------------------------------------------------------------------
(* The patches.                                                            *)

\* Which steps leave them alone: PatchInv depends on the place in the recipe of the patches.
LEMMA PatchKept ==
  ASSUME TypeOK, PatchInv, UNCHANGED <<patches, loop, tree>>,
         at' = 3 /\ line' \in {1, 2} => at = 3 /\ line' = line,
         mtime'["patched"] > 0 => mtime["patched"] > 0
  PROVE  PatchInv'
<1>1. /\ Clean' <=> Clean
      /\ \A p : (Settled(p)' <=> Settled(p)) /\ (Failing(p)' <=> Failing(p))
  BY DEF Clean, Settled, Failing
<1>2. (tree.rejects => patches # <<>>)'
  BY DEF PatchInv
<1>3. CASE at' = 3 /\ line' = 1
  BY <1>1, <1>2, <1>3 DEF PatchInv
<1>4. CASE at' = 3 /\ line' = 2
  BY <1>1, <1>2, <1>4 DEF PatchInv
<1>5. CASE ~(at' = 3 /\ line' \in {1, 2})
  BY <1>1, <1>2, <1>5 DEF PatchInv
<1> QED
  BY <1>3, <1>4, <1>5

LEMMA PatchStays == TypeOK /\ Control /\ Ordered /\ PatchInv /\ [Next]_vars => PatchInv'
<1> SUFFICES ASSUME TypeOK, Control, Ordered, PatchInv, [Next]_vars
             PROVE  PatchInv'
  OBVIOUS
<1>1. TypeOK' /\ Control' /\ Ordered' /\ TimesTypes /\ TimesTypes' /\ patches' = patches
  BY TypesStay, OrderedStays, TimesAre, Frame, Zenon
<1>2. /\ loop.next \in 1 .. Len(patches) + 1 /\ loop.ok \in BOOLEAN
      /\ tree.rejects \in BOOLEAN
      /\ Len(patches) \in Nat /\ DOMAIN patches = 1 .. Len(patches)
      /\ at \in 1 .. 9 /\ line \in 0 .. 4
  <2>1. Source /\ Place /\ Len(patches) \in Nat /\ DOMAIN patches = 1 .. Len(patches)
    BY TypeParts, Bounds, Zenon
  <2> QED
    BY <2>1 DEF Source, Place
<1>3. ~EndRecipe /\ ~RemoveTree => (mtime'["patched"] > 0 => mtime["patched"] > 0)
  BY ListOnly, FilesAre
<1>4. CASE ~Running
  <2>1. ~EndRecipe
    BY <1>4 DEF EndRecipe
  <2>2. CASE UNCHANGED vars
    BY <1>1, <1>3, <2>2, PatchKept DEF vars, make, disk, kernel
  <2>3. CASE Make
    BY <2>3, PatchKept DEF Make, disk, kernel
  <2>4. CASE UpToDate
    <3>1. line' = 0 /\ UNCHANGED <<patches, loop, tree, mtime>>
      BY <2>4 DEF UpToDate, disk, kernel
    <3> QED
      BY <3>1, PatchKept
  <2>5. CASE MakeEnds
    BY <2>5, PatchKept DEF MakeEnds, disk, kernel
  <2>6. CASE EditConfig \/ ChangePackage
    <3>1. /\ goal = "none" /\ UNCHANGED <<patches, loop, tree, goal, at, line>>
          /\ mtime'["patched"] > 0 => mtime["patched"] > 0
      <4>1. EditConfig => mtime' = Written({"config"}) /\ "config" \in Files /\ "patched" \in Files
        BY FilesAre DEF EditConfig
      <4>2. mtime'["patched"] > 0 => mtime["patched"] > 0
        BY <2>6, <4>1, OneWritten DEF ChangePackage
      <4> QED
        BY <2>6, <4>2 DEF EditConfig, ChangePackage, Change, make, kernel
    <3>2. at = 1
      BY <3>1 DEF Control
    <3> QED
      BY <3>1, <3>2, PatchKept
  <2>7. CASE RemoveTree
    <3>1. ~tree'.rejects /\ mtime'["patched"] = 0 /\ at' = 1
      BY <2>7, FilesAre DEF RemoveTree, NoTree, Change, make, Control
    <3> QED
      BY <3>1 DEF PatchInv
  <2>8. CASE StartRecipe
    <3>1. loop' = [next |-> 1, ok |-> TRUE] /\ line' = 1 /\ UNCHANGED <<patches, tree, mtime>>
      BY <2>8 DEF StartRecipe, disk, kernel
    <3>2. Clean' <=> Clean
      BY <3>1 DEF Clean, Settled, Failing
    <3> QED
      BY <3>1, <3>2 DEF PatchInv
  <2> QED
    BY <1>4, <2>2, <2>3, <2>4, <2>5, <2>6, <2>7, <2>8, OtherSteps
<1>5. CASE Running
  <2>1. line > 0 /\ ~RemoveTree
    BY <1>5 DEF Running, RemoveTree, Change
  <2>2. CASE EndRecipe
    <3>1. UNCHANGED <<patches, loop, tree>> /\ line' = 0
      BY <2>2 DEF EndRecipe, disk, kernel
    <3>2. CASE at # 3
      <4>1. File \in Files /\ File # "patched" /\ (mtime' = mtime \/ mtime' = Written({File}))
        BY <1>2, <2>2, <3>2, Commands DEF EndRecipe, File
      <4>2. mtime'["patched"] > 0 <=> mtime["patched"] > 0
        BY <4>1, OneWritten, FilesAre
      <4> QED
        BY <3>1, <4>2, PatchKept
    <3>3. CASE at = 3
      <4>1. line = 2
        <5>1. Len(Lines[File]) = 1 /\ line <= Len(Lines[File]) + 1
          BY <3>3, Lengths DEF Control, File
        <5> QED
          BY <1>2, <2>2, <5>1 DEF EndRecipe
      <4>2. Clean /\ (Clean' <=> Clean)
        BY <3>1, <3>3, <4>1 DEF PatchInv, Clean, Settled, Failing
      <4> QED
        BY <3>1, <4>2 DEF PatchInv
    <3> QED
      BY <3>2, <3>3
  <2>3. CASE at = 2 /\ line = 1 /\ Extract
    <3>1. mtime["patched"] = 0 /\ UNCHANGED <<mtime, patches>>
      <4>1. mtime["extracted"] = 0
        BY <2>1, <2>3 DEF Ordered, Redone, File, Order
      <4> QED
        BY <1>1, <2>3, <4>1 DEF Ordered, Times, TimesTypes, Extract
    <3>2. at' = 2 /\ tree'.rejects = tree.rejects
      BY <2>3 DEF Extract, NoTree, Proceed
    <3> QED
      BY <1>1, <3>1, <3>2 DEF PatchInv
  <2>4. CASE at = 3 /\ line = 1 /\ PatchKernel
    <3>9. PICK p \in 1 .. Len(patches) : p = loop.next
      BY <1>2, <2>4 DEF PatchKernel
    <3>1. mtime'["patched"] = 0
      <4>1. mtime["patched"] = 0
        BY <2>1, <2>4 DEF Ordered, Redone, File, Order
      <4> QED
        BY <2>4, <4>1 DEF PatchKernel
    <3>2. p \in 1 .. Len(patches) /\ at' = 3 /\ line' = 1 /\ patches # <<>>
      BY <1>2, <2>4, <3>9 DEF PatchKernel
    <3>3. \A q \in 1 .. p - 1 : Settled(q) \/ Failing(q) \/ tree.rejects
      BY <2>4, <3>9 DEF PatchInv
    <3>4. p \in Of({"good"}) <=> patches[p] = "good"
      BY <1>2, <3>2 DEF Of
    <3>5. PICK part \in SUBSET ({p} \cap Of({"broken"})) :
            /\ tree'.applied = tree.applied \cup ({p} \cap Of({"good"}))
            /\ tree'.cut = tree.cut \cup part
            /\ tree'.rejects <=> Rejects(p)
      <4>1. PICK part \in SUBSET ({p} \cap Of({"broken"})) :
              tree' = [applied |-> tree.applied \cup ({p} \cap Of({"good"})),
                       cut |-> tree.cut \cup part,
                       rejects |-> tree.rejects \/ RejectsOfThis(p)]
        BY <2>4, <3>9 DEF PatchKernel
      <4> QED
        BY <4>1 DEF Rejects
    <3>6. /\ loop'.next = p + 1 /\ loop'.next - 1 = p
          /\ loop'.ok => ~Failing(p) /\ ~Rejects(p)
      <4>1. p \in Of({"broken", "nodir"}) <=> Failing(p)
        BY <1>2, <3>2 DEF Of, Failing
      <4> DEFINE ok == p \notin Of({"broken", "nodir"}) /\ ~Rejects(p)
      <4>2. loop' = [next |-> p + 1, ok |-> ok]
        BY <2>4, <3>9 DEF PatchKernel
      <4>3. ok => ~Failing(p) /\ ~Rejects(p)
        BY <4>1
      <4>4. p \in Nat
        BY <1>2, <3>2
      <4> HIDE DEF ok
      <4>5. loop'.next = p + 1 /\ loop'.ok = ok
        BY <4>2
      <4> QED
        BY <4>3, <4>4, <4>5
    <3>7. \A q \in 1 .. p : (Settled(q) \/ Failing(q) \/ tree.rejects)'
      <4> TAKE q \in 1 .. p
      <4>1. CASE q = p
        <5>1. patches[p] \in PatchKinds
          BY <3>2, Bounds
        <5>2. CASE patches[p] = "good" /\ ~Rejects(p)
          <6>1. p \notin tree.cut /\ p \notin Of({"broken"})
            BY <5>2 DEF Rejects, RejectsOfThis, Of
          <6>2. Settled(p)'
            BY <1>1, <3>4, <3>5, <5>2, <6>1 DEF Settled
          <6> QED
            BY <4>1, <6>2
        <5>3. CASE Rejects(p)
          BY <3>5, <5>3
        <5>4. CASE patches[p] = "missing"
          BY <1>1, <4>1, <5>4 DEF Settled
        <5>5. CASE patches[p] \in {"broken", "nodir"}
          BY <1>1, <4>1, <5>5 DEF Failing
        <5>6. CASE patches[p] = "rejected"
          BY <5>3, <5>6 DEF Rejects, RejectsOfThis
        <5> QED
          BY <5>1, <5>2, <5>3, <5>4, <5>5, <5>6 DEF PatchKinds
      <4>2. CASE q # p
        <5>1. Settled(q) \/ Failing(q) \/ tree.rejects
          BY <1>2, <3>2, <3>3, <4>2
        <5>2. Settled(q) => Settled(q)'
          BY <1>1, <3>5, <4>2 DEF Settled
        <5>3. Failing(q) => Failing(q)'
          BY <1>1 DEF Failing
        <5>4. tree.rejects => tree'.rejects
          BY <3>5 DEF Rejects
        <5> QED
          BY <5>1, <5>2, <5>3, <5>4
      <4> QED
        BY <4>1, <4>2
    <3>8. Failing(p)' <=> Failing(p)
      BY <1>1 DEF Failing
    <3> QED
      <4>1. (loop.ok /\ loop.next > 1 => ~tree.rejects /\ ~Failing(loop.next - 1))'
        BY <1>1, <3>5, <3>6 DEF Failing
      <4>2. (\A q \in 1 .. loop.next - 1 : Settled(q) \/ Failing(q) \/ tree.rejects)'
        BY <3>6, <3>7
      <4> QED
        BY <1>1, <3>1, <3>2, <4>1, <4>2 DEF PatchInv
  <2>5. CASE at = 3 /\ line = 1 /\ Patched
    <3>1. UNCHANGED <<patches, loop, tree, mtime>> /\ loop.next = Len(patches) + 1
      BY <1>2, <2>5 DEF Patched, disk, kernel
    <3>2. CASE ~loop.ok
      <4>1. at' = 1
        BY <2>5, <3>2 DEF Patched, Stop
      <4> QED
        BY <3>1, <4>1, PatchKept
    <3>3. CASE loop.ok
      <4>1. at' = 3 /\ line' = 2
        BY <2>5, <3>3 DEF Patched, Proceed
      <4>2. ~tree.rejects
        <5>1. CASE loop.next > 1
          BY <2>5, <3>3, <5>1 DEF PatchInv
        <5>2. CASE Len(patches) = 0
          <6>1. patches = <<>>
            BY <5>2, LinuxImageAssumption DEF TypeOK
          <6> QED
            BY <6>1 DEF PatchInv
        <5> QED
          BY <1>2, <3>1, <5>1, <5>2
      <4>3. \A q \in DOMAIN patches : Settled(q) \/ (Failing(q) /\ q < Len(patches))
        <5> TAKE q \in DOMAIN patches
        <5>1. q \in 1 .. loop.next - 1 /\ q \in 1 .. Len(patches) /\ loop.next - 1 = Len(patches)
          BY <1>2, <3>1
        <5>2. Settled(q) \/ Failing(q)
          BY <2>5, <4>2, <5>1 DEF PatchInv
        <5>3. loop.next > 1
          BY <1>2, <5>1
        <5>4. ~Failing(Len(patches))
          BY <2>5, <3>3, <5>1, <5>3 DEF PatchInv
        <5> QED
          BY <1>2, <5>1, <5>2, <5>4
      <4>4. Clean /\ (Clean' <=> Clean)
        BY <3>1, <4>2, <4>3 DEF Clean, Settled, Failing
      <4> QED
        BY <3>1, <4>1, <4>2, <4>4 DEF PatchInv
    <3> QED
      BY <3>2, <3>3
  <2>6. CASE UNCHANGED vars
    BY <2>6, PatchKept DEF vars, make, disk, kernel
  <2>7. CASE ~EndRecipe /\ UNCHANGED <<patches, loop, tree>> /\ (at' = 1 \/ (at # 3 /\ at' = at))
    BY <1>3, <2>1, <2>7, PatchKept
  <2>8. MakeStops \/ StopsInCopy \/ StopsInModules => UNCHANGED <<patches, loop, tree>> /\ at' = 1
    BY DEF MakeStops, StopsInCopy, StopsInModules, Interrupted, Stop, kernel
  <2>11. CASE at = 3 /\ line = 1 /\ StopsInPatch
    <3>1. mtime'["patched"] = 0 /\ at' = 1
      <4>1. mtime["patched"] = 0
        BY <2>1, <2>11 DEF Ordered, Redone, File, Order
      <4> QED
        BY <2>11, <4>1 DEF StopsInPatch, Interrupted, Stop
    <3>2. tree'.rejects = tree.rejects
      <4>1. tree \in [applied : SUBSET (DOMAIN patches), cut : SUBSET (DOMAIN patches),
                      rejects : BOOLEAN]
        BY DEF TypeOK
      <4> QED
        BY <2>11, <4>1 DEF StopsInPatch
    <3> QED
      BY <1>1, <3>1, <3>2 DEF PatchInv
  <2>9. ASSUME \/ at = 1 /\ (Download \/ DownloadCut)
               \/ at = 2 /\ ExtractFails
               \/ at = 4 /\ (Defconfig \/ FakeList \/ Oldconfig)
               \/ (at = 5 \/ at = 8) /\ (Image \/ ImageFails)
        PROVE  UNCHANGED <<patches, loop, tree>> /\ (at' = 1 \/ (at # 3 /\ at' = at))
    BY <2>9
       DEF Download, DownloadCut, ExtractFails, Defconfig, FakeList, Oldconfig, Image, ImageFails,
           Stop, Proceed, disk, kernel
  <2>10. ASSUME \/ at = 5 /\ Modules
                \/ (at = 6 \/ at = 8) /\ Copy
                \/ at = 6 /\ ModulesInstall
                \/ at = 7 /\ (Fakeroot \/ FakerootFails)
                \/ at = 8 /\ RmCpio
         PROVE  UNCHANGED <<patches, loop, tree>> /\ (at' = 1 \/ (at # 3 /\ at' = at))
    BY <2>10
       DEF Modules, Copy, ModulesInstall, Fakeroot, FakerootFails, RmCpio, Stop, Proceed, disk, kernel
  <2> QED
    BY <1>5, <2>2, <2>3, <2>4, <2>5, <2>6, <2>7, <2>8, <2>9, <2>10, <2>11, RecipeSteps
<1> QED
  BY <1>4, <1>5

-----------------------------------------------------------------------------
(* The kernel, before its list of files is known.                          *)

LEMMA KernelKept ==
  ASSUME Kernel, UNCHANGED <<config, built, image>>, target'.modules = target.modules,
         "modules" \in lost' <=> "modules" \in lost,
         changes \in Nat, changes' \in {changes, changes + 1},
         mtime'["compiled"] > 0 <=> mtime["compiled"] > 0,
         mtime'["installed"] > 0 <=> mtime["installed"] > 0,
         mtime'["config"] <= mtime'["compiled"] <=> mtime["config"] <= mtime["compiled"],
         mtime'["compiled"] <= mtime'["installed"] <=> mtime["compiled"] <= mtime["installed"],
         TimesTypes, TimesTypes',
         at' = 5 /\ line' > 1 => at = 5 /\ line > 1,
         at' = 6 /\ line' > 1 => at = 6 /\ line > 1,
         at' = 6 /\ line' > 2 => at = 6 /\ line > 2
  PROVE  Kernel'
<1>1. \A i : ModulesOf(i)' <=> ModulesOf(i)
  BY DEF ModulesOf
<1>2. KernelInv'
  BY <1>1 DEF Kernel, KernelInv, ModulesOf
<1>3. mtime'["installed"] < mtime'["compiled"] <=> mtime["installed"] < mtime["compiled"]
  BY DEF TimesTypes
<1>4. ImageInv'
  BY <1>3 DEF Kernel, ImageInv
<1> QED
  BY <1>2, <1>4 DEF Kernel

LEMMA KernelStays ==
  TypeOK /\ Control /\ Ordered /\ Kernel /\ [Next]_vars => Kernel'
<1> SUFFICES ASSUME TypeOK, Control, Ordered, Kernel, [Next]_vars
             PROVE  Kernel'
  OBVIOUS
<1>1. TypeOK' /\ Control' /\ Ordered' /\ TimesTypes /\ TimesTypes'
  BY TypesStay, OrderedStays, TimesAre, Zenon
<1>2. at \in 1 .. 9 /\ line \in 0 .. 4 /\ changes \in Nat
  BY LinuxImageAssumption DEF TypeOK
<1>3. ASSUME (UNCHANGED mtime) \/ (~EndRecipe /\ ~RemoveTree)
      PROVE  /\ mtime'["compiled"] > 0 <=> mtime["compiled"] > 0
             /\ mtime'["installed"] > 0 <=> mtime["installed"] > 0
             /\ mtime'["compiled"] <= mtime'["installed"] <=> mtime["compiled"] <= mtime["installed"]
  <2>1. CASE UNCHANGED mtime
    BY <2>1
  <2>2. CASE ~EndRecipe /\ ~RemoveTree
    BY <2>2, ListOnly, FilesAre
  <2> QED
    BY <1>3, <2>1, <2>2
<1>4. CASE /\ UNCHANGED <<mtime, config, built, image, lost, changes>>
           /\ target'.modules = target.modules
           /\ line' <= 1 \/ (at' = at /\ line' = line) \/ (at' = at /\ at \notin {5, 6})
  <2>1. /\ at' = 5 /\ line' > 1 => at = 5 /\ line > 1
        /\ at' = 6 /\ line' > 1 => at = 6 /\ line > 1
        /\ at' = 6 /\ line' > 2 => at = 6 /\ line > 2
    <3>1. line' \in Nat
      <4>1. Place'
        BY PlaceStays
      <4> QED
        BY <4>1 DEF Place
    <3> QED
      BY <1>4, <3>1
  <2>2. /\ mtime'["config"] <= mtime'["compiled"] <=> mtime["config"] <= mtime["compiled"]
        /\ UNCHANGED <<config, built, image, lost, changes>>
    BY <1>4
  <2> QED
    BY <1>1, <1>2, <1>3, <1>4, <2>1, <2>2, KernelKept
<1>5. CASE ~Running
  <2>1. CASE UNCHANGED vars
    BY <1>4, <2>1 DEF vars, make, disk, kernel, bounds
  <2>2. CASE Make
    BY <1>4, <2>2 DEF Make, disk, kernel, bounds
  <2>3. CASE UpToDate
    BY <1>4, <2>3 DEF UpToDate, disk, kernel, bounds
  <2>4. CASE StartRecipe
    BY <1>4, <2>4 DEF StartRecipe, disk, kernel, bounds
  <2>5. CASE MakeEnds
    BY <1>4, <2>5 DEF MakeEnds, disk, kernel, bounds
  <2>6. CASE ChangePackage
    <3>1. /\ UNCHANGED <<mtime, config, built, image, lost, at, line>> /\ changes' = changes + 1
          /\ target'.modules = target.modules
      <4>1. PICK extra \in BOOLEAN : target' = [target EXCEPT !.pkg = @ + 1, !.extra = extra]
        BY <2>6 DEF ChangePackage
      <4>2. target \in [pkg : Nat, extra : BOOLEAN, modules : 0 .. Changes + 1]
        BY DEF TypeOK
      <4>3. target'.modules = target.modules
        BY <4>1, <4>2
      <4> QED
        BY <2>6, <4>3 DEF ChangePackage, Change, make, kernel
    <3> QED
      BY <1>1, <1>2, <1>3, <3>1, KernelKept
  <2>7. CASE EditConfig
    <3>1. /\ UNCHANGED <<built, image, lost, target>> /\ changes' = changes + 1
          /\ config' = changes + 2 /\ mtime' = Written({"config"}) /\ at' = 1
      BY <2>7 DEF EditConfig, Change, make, Control
    <3>2. mtime'["compiled"] < mtime'["config"]
      BY <3>1, OneWritten, FilesAre
    <3>3. {built.edit, image.edit} \subseteq 0 .. changes + 1
      BY DEF Kernel, ImageInv
    <3>4. KernelInv'
      BY <1>1, <3>1, <3>2 DEF KernelInv, TimesTypes
    <3>5. ImageInv'
      BY <1>1, <1>2, <3>1, <3>2, <3>3 DEF ImageInv, TimesTypes
    <3> QED
      BY <3>4, <3>5 DEF Kernel
  <2>8. CASE RemoveTree
    <3>1. /\ config' = 0 /\ built' = NoImage /\ image' = image /\ at' = 1 /\ changes' = changes + 1
          /\ mtime'["compiled"] = 0 /\ mtime'["installed"] = 0
      BY <2>8, FilesAre DEF RemoveTree, Change, make, Control
    <3>2. {config', built'.edit, image'.edit} \subseteq 0 .. changes' + 1
      BY <1>2, <3>1 DEF NoImage, Kernel, ImageInv
    <3> QED
      BY <3>1, <3>2 DEF Kernel, KernelInv, ImageInv
  <2> QED
    BY <1>5, <2>1, <2>2, <2>3, <2>4, <2>5, <2>6, <2>7, <2>8, OtherSteps
<1>6. CASE Running
  <2>1. line > 0 /\ ~RemoveTree /\ changes' = changes
    <3>1. goal # "none"
      BY <1>6 DEF Running
    <3>2. changes' = changes
      BY <3>1, Frame, Zenon
    <3> QED
      BY <1>6, <3>2 DEF Running, RemoveTree, Change
  <2>2. CASE EndRecipe
    <3>1. UNCHANGED <<config, built, image, lost, target>> /\ line' = 0 /\ at' = at + 1
      BY <2>2 DEF EndRecipe, disk, kernel
    <3>2. at \in 1 .. 8
      BY <1>6, Commands
    <3>3. at # 7 => Order[at] \in Files /\ mtime' = Written({Order[at]})
      BY <2>2, <3>2, Commands DEF EndRecipe, File, Order
    <3>4. CASE at \in {1, 2, 3, 4, 7, 8}
      <4>1. Order[at] \notin {"compiled", "installed", "config"}
        BY <3>4 DEF Order
      <4>2. /\ mtime'["compiled"] > 0 <=> mtime["compiled"] > 0
            /\ mtime'["installed"] > 0 <=> mtime["installed"] > 0
            /\ mtime'["config"] <= mtime'["compiled"] <=> mtime["config"] <= mtime["compiled"]
            /\ mtime'["compiled"] <= mtime'["installed"] <=> mtime["compiled"] <= mtime["installed"]
        <5>1. CASE at = 7
          <6>1. UNCHANGED mtime
            BY <2>2, <5>1 DEF EndRecipe, File, Order
          <6> QED
            BY <6>1
        <5>2. CASE at # 7
          BY <3>3, <4>1, <5>2, OneWritten, FilesAre
        <5> QED
          BY <5>1, <5>2
      <4> QED
        BY <1>1, <1>2, <2>1, <3>1, <4>2, KernelKept
    <3>5. CASE at = 5
      <4>1. /\ mtime'["compiled"] > 0 /\ mtime'["installed"] < mtime'["compiled"]
            /\ mtime'["config"] < mtime'["compiled"]
            /\ mtime'["installed"] > 0 <=> mtime["installed"] > 0
        BY <3>3, <3>5, OneWritten, FilesAre DEF Order
      <4>2. built.edit = config
        <5>1. line > 1
          <6>1. Len(Lines[File]) = 2
            BY <3>5, Lengths DEF File
          <6> QED
            BY <1>2, <2>2, <6>1 DEF EndRecipe
        <5> QED
          BY <3>5, <5>1 DEF Kernel, KernelInv
      <4>3. ~(mtime["installed"] > 0 /\ image.edit = config /\ image # NoImage)
        BY <1>1, <2>1, <3>5 DEF Kernel, ImageInv, Ordered, Times, Redone, TimesTypes
      <4>4. KernelInv'
        BY <1>1, <3>1, <3>5, <4>1, <4>2 DEF KernelInv, TimesTypes
      <4>5. ImageInv'
        BY <1>1, <2>1, <3>1, <4>1, <4>3 DEF Kernel, ImageInv, TimesTypes
      <4> QED
        BY <4>4, <4>5 DEF Kernel
    <3>6. CASE at = 6
      <4>1. /\ mtime'["installed"] > 0 /\ mtime'["compiled"] < mtime'["installed"]
            /\ mtime'["compiled"] > 0 /\ mtime'["config"] <= mtime'["compiled"]
        <5>1. mtime["compiled"] > 0 /\ mtime["config"] <= mtime["compiled"]
          BY <3>6 DEF Ordered, Reached
        <5> QED
          BY <3>3, <3>6, <5>1, OneWritten, FilesAre DEF Order
      <4>2. line > 2
        <5>1. Len(Lines[File]) = 2
          BY <3>6, Lengths DEF File
        <5> QED
          BY <1>2, <2>2, <5>1 DEF EndRecipe
      <4>3. image = built /\ ModulesOf(target.modules) /\ built.edit = config
        <5>1. mtime["compiled"] > 0 /\ mtime["config"] <= mtime["compiled"]
          BY <3>6 DEF Ordered, Reached
        <5>2. line > 1
          BY <1>2, <4>2
        <5> QED
          BY <3>6, <4>2, <5>1, <5>2 DEF Kernel, KernelInv
      <4>4. KernelInv'
        BY <3>1, <3>6, <4>3 DEF KernelInv, ModulesOf
      <4>5. ImageInv'
        BY <1>1, <2>1, <3>1, <4>1, <4>3 DEF Kernel, ImageInv, TimesTypes
      <4> QED
        BY <4>4, <4>5 DEF Kernel
    <3> QED
      BY <3>2, <3>4, <3>5, <3>6
  <2>3. CASE at = 4 /\ (Defconfig \/ FakeList \/ Oldconfig)
    <3>1. mtime["compiled"] = 0 /\ mtime["installed"] = 0
      <4>1. mtime["configured"] = 0
        BY <2>1, <2>3 DEF Ordered, Redone, File, Order
      <4> QED
        BY <1>1, <4>1 DEF Ordered, Times, TimesTypes
    <3>2. mtime'["compiled"] = 0 /\ mtime'["installed"] = 0
      <4>1. ~EndRecipe
        BY <2>3, <2>1 DEF EndRecipe, Defconfig, FakeList, Oldconfig, Proceed
      <4> QED
        BY <1>1, <1>3, <2>1, <3>1, <4>1 DEF TimesTypes
    <3>3. config' \in {config, 1} /\ UNCHANGED <<built, image>> /\ at' = 4
      BY <2>3 DEF Defconfig, FakeList, Oldconfig, disk, kernel, Proceed
    <3>4. ImageInv'
      BY <1>1, <1>2, <2>1, <3>2, <3>3 DEF Kernel, ImageInv, TimesTypes
    <3> QED
      BY <1>1, <3>2, <3>3, <3>4 DEF Kernel, KernelInv, TimesTypes
  <2>4. CASE at = 5 /\ line = 1 /\ Image
    <3>1. /\ built'.edit = config /\ UNCHANGED <<config, image, mtime, target, lost>> /\ at' = 5
      BY <2>4 DEF Image, Proceed
    <3>2. ~(mtime["installed"] > 0 /\ image.edit = config /\ image # NoImage)
      BY <1>1, <2>1, <2>4 DEF Kernel, ImageInv, Ordered, Times, Redone, TimesTypes
    <3>3. KernelInv'
      <4>1. \A i : ModulesOf(i)' <=> ModulesOf(i)
        BY <3>1 DEF ModulesOf
      <4> QED
        BY <3>1, <4>1 DEF Kernel, KernelInv, ModulesOf
    <3>4. ImageInv'
      BY <2>1, <3>1, <3>2 DEF Kernel, ImageInv
    <3> QED
      BY <3>3, <3>4 DEF Kernel
  <2>5. CASE at = 8 /\ line = 2 /\ Image
    <3>1. /\ built'.edit = config /\ UNCHANGED <<config, image, mtime, target, lost>> /\ at' = 8
      BY <2>5 DEF Image, Proceed
    <3>2. ~(mtime["installed"] < mtime["compiled"])
      BY <1>1, <2>5 DEF Ordered, Reached, TimesTypes
    <3>3. KernelInv'
      BY <3>1 DEF Kernel, KernelInv, ModulesOf
    <3>4. ImageInv'
      BY <2>1, <3>1, <3>2 DEF Kernel, ImageInv
    <3> QED
      BY <3>3, <3>4 DEF Kernel
  <2>6. CASE ((at = 6 /\ line = 1) \/ (at = 8 /\ line = 3)) /\ Copy
    <3>1. /\ image' = built /\ UNCHANGED <<config, built, mtime, target, lost>>
          /\ at' = at /\ line' = line + 1
      BY <2>6 DEF Copy, Proceed, kernel
    <3>2. mtime["config"] <= mtime["compiled"]
      BY <2>6 DEF Ordered, Reached
    <3>3. KernelInv'
      BY <2>6, <3>1 DEF Kernel, KernelInv, ModulesOf
    <3>4. ImageInv'
      BY <2>1, <3>1, <3>2 DEF Kernel, ImageInv
    <3> QED
      BY <3>3, <3>4 DEF Kernel
  <2>7. CASE at = 6 /\ line = 2 /\ ModulesInstall
    <3>1. /\ UNCHANGED <<config, built, image, mtime>> /\ at' = at /\ line' = 3
          /\ target'.modules = built.edit \/ "modules" \in lost'
      <4>1. target \in [pkg : Nat, extra : BOOLEAN, modules : 0 .. Changes + 1]
        BY DEF TypeOK
      <4> QED
        BY <2>7, <4>1 DEF ModulesInstall, Proceed, kernel
    <3>2. /\ mtime["compiled"] > 0 /\ mtime["config"] <= mtime["compiled"]
          /\ ~(mtime["installed"] > 0 /\ mtime["compiled"] <= mtime["installed"])
      BY <1>1, <2>7 DEF Ordered, Reached, Redone, TimesTypes
    <3>3. built.edit = config /\ image = built
      BY <2>7, <3>2 DEF Kernel, KernelInv
    <3>4. KernelInv'
      BY <2>7, <3>1, <3>2, <3>3 DEF KernelInv, ModulesOf
    <3>5. ImageInv'
      BY <2>1, <3>1, <3>3 DEF Kernel, ImageInv
    <3> QED
      BY <3>4, <3>5 DEF Kernel
  <2>8. CASE UNCHANGED vars
    BY <1>4, <2>8 DEF vars, make, disk, kernel, bounds
  <2>9. CASE MakeStops \/ StopsInPatch
    <3>1. UNCHANGED <<mtime, config, built, image, lost, changes, target>> /\ line' = 0
      BY <2>9 DEF MakeStops, StopsInPatch, Interrupted, Stop, kernel
    <3> QED
      BY <1>4, <3>1
  <2>15. CASE StopsInCopy
    <3>1. /\ UNCHANGED <<mtime, config, built, lost, target>> /\ image' = NoImage /\ at' = 1
      BY <2>15 DEF StopsInCopy, Interrupted, Stop, kernel
    <3>2. {config', built'.edit, image'.edit} \subseteq 0 .. changes' + 1
      BY <1>2, <2>1, <3>1 DEF NoImage, Kernel, ImageInv
    <3> QED
      BY <3>1, <3>2 DEF Kernel, KernelInv, ImageInv, ModulesOf
  <2>16. CASE at = 6 /\ line = 2 /\ StopsInModules
    <3>1. UNCHANGED <<mtime, config, built, image, lost>> /\ at' = 1
      BY <2>16 DEF StopsInModules, Interrupted, Stop, kernel
    <3>2. ~(mtime["installed"] > 0 /\ mtime["compiled"] <= mtime["installed"])
      BY <1>1, <2>1, <2>16 DEF Ordered, Redone, TimesTypes
    <3> QED
      BY <2>1, <3>1, <3>2 DEF Kernel, KernelInv, ImageInv
  <2>10. CASE \/ at \in {1, 2, 3} /\ (Download \/ DownloadCut \/ Extract \/ ExtractFails)
              \/ at \in {1, 2, 3} /\ (PatchKernel \/ Patched)
    <3>1. /\ UNCHANGED <<mtime, config, built, image, lost, target>>
          /\ line' <= 1 \/ at' = at
      BY <2>10
         DEF Download, DownloadCut, Extract, ExtractFails, PatchKernel, Patched, Proceed, Stop,
             disk, kernel
    <3> QED
      BY <1>4, <2>1, <2>10, <3>1
  <2>11. CASE ImageFails
    BY <1>4, <2>1, <2>11 DEF ImageFails, Stop, disk, kernel
  <2>12. CASE at = 5 /\ line = 2 /\ Modules
    <3>1. UNCHANGED <<mtime, config, built, image, lost, target>> /\ at' = 5
      BY <2>12 DEF Modules, Proceed, disk, kernel
    <3> QED
      BY <1>1, <1>2, <1>3, <2>1, <2>12, <3>1, KernelKept
  <2>13. CASE at = 7 /\ (Fakeroot \/ FakerootFails)
    <3>1. /\ mtime' = Written({"initramfs"}) /\ UNCHANGED <<config, built, image, target>>
          /\ "modules" \in lost' <=> "modules" \in lost
          /\ at' \in {1, 7}
      BY <2>13 DEF Fakeroot, FakerootFails, Proceed, Stop, kernel
    <3>2. /\ mtime'["compiled"] > 0 <=> mtime["compiled"] > 0
          /\ mtime'["installed"] > 0 <=> mtime["installed"] > 0
          /\ mtime'["config"] <= mtime'["compiled"] <=> mtime["config"] <= mtime["compiled"]
          /\ mtime'["compiled"] <= mtime'["installed"] <=> mtime["compiled"] <= mtime["installed"]
      BY <3>1, OneWritten, FilesAre
    <3>3. /\ at' = 5 /\ line' > 1 => at = 5 /\ line > 1
          /\ at' = 6 /\ line' > 1 => at = 6 /\ line > 1
          /\ at' = 6 /\ line' > 2 => at = 6 /\ line > 2
      BY <3>1
    <3>4. UNCHANGED <<config, built, image>> /\ target'.modules = target.modules
      BY <3>1
    <3> QED
      BY <1>1, <1>2, <2>1, <3>1, <3>2, <3>3, <3>4, KernelKept
  <2>14. CASE at = 8 /\ RmCpio
    <3>1. UNCHANGED <<mtime, config, built, image, lost, target>> /\ at' = 8
      BY <2>14 DEF RmCpio, Proceed
    <3> QED
      BY <1>4, <2>1, <2>14, <3>1
  <2> QED
    BY <1>6, <2>2, <2>3, <2>4, <2>5, <2>6, <2>7, <2>8, <2>9, <2>10, <2>11, <2>12, <2>13, <2>14,
       <2>15, <2>16, RecipeSteps
<1> QED
  BY <1>5, <1>6

-----------------------------------------------------------------------------
(* The ram disk.                                                           *)

\* Before the list is written there is nothing to show.
LEMMA RamLater ==
  ASSUME at' <= 7, at' = 7 => line' # 2, at' \in Int, ~finished'
  PROVE  RamInv'
BY DEF RamInv

\* Good depends on the configuration, the target and what was lost.
LEMMA GoodKept ==
  ASSUME NEW i, UNCHANGED <<config, target, lost>>
  PROVE  Good(i)' <=> Good(i)
BY DEF Good, HoldsTarget, ModulesOf

LEMMA RamStays ==
  TypeOK /\ Control /\ Ordered /\ Kernel /\ RamInv /\ [Next]_vars => RamInv'
<1> SUFFICES ASSUME TypeOK, Control, Ordered, Kernel, RamInv, [Next]_vars
             PROVE  RamInv'
  OBVIOUS
<1>1. TimesTypes /\ at \in 1 .. 9 /\ line \in 0 .. 4 /\ finished \in BOOLEAN
  BY TimesAre DEF TypeOK
<1>2. /\ Order[1] = "downloaded" /\ Order[2] = "extracted" /\ Order[3] = "patched"
      /\ Order[4] = "configured" /\ Order[5] = "compiled" /\ Order[6] = "installed"
      /\ Order[7] = "initramfs" /\ Order[8] = "initramfs_rebuilt"
  BY DEF Order
<1>3. CASE UNCHANGED vars
  <2>1. UNCHANGED <<at, line, list, cpio, built, image, finished, config, target, lost>>
    BY <1>3 DEF vars, make, disk, kernel
  <2>2. (Good(built)' <=> Good(built)) /\ (Good(image)' <=> Good(image))
    BY <2>1 DEF Good, HoldsTarget, ModulesOf
  <2> QED
    BY <2>1, <2>2 DEF RamInv
<1>4. CASE ~Running /\ ~UNCHANGED vars
  <2>1. CASE Make
    BY <2>1, RamLater DEF Make
  <2>2. CASE UpToDate
    <3>1. at <= 8 /\ ~Stale(Order[at]) /\ at' = at + 1 /\ line' = 0 /\ goal # "none"
      BY <1>1, <2>2, GoalReach DEF UpToDate, File
    <3>2. at <= 6
      <4>1. at # 7
        BY <1>2, <3>1, StaleIs
      <4>2. at # 8
        BY <1>1, <1>2, <3>1, StaleIs DEF Ordered, Reached, TimesTypes
      <4> QED
        BY <1>1, <3>1, <4>1, <4>2
    <3>3. ~finished'
      BY <2>2, <3>1 DEF UpToDate, Control
    <3> QED
      BY <1>1, <3>1, <3>2, <3>3, RamLater
  <2>3. CASE StartRecipe
    <3>1. /\ at <= 8 /\ at' = at /\ line' = 1 /\ goal # "none"
          /\ UNCHANGED <<list, target>>
      BY <1>1, <2>3, GoalReach DEF StartRecipe, disk
    <3>2. ~finished'
      BY <2>3, <3>1 DEF StartRecipe, Control
    <3>3. CASE at <= 7
      BY <1>1, <3>1, <3>2, <3>3, RamLater
    <3>4. CASE at = 8
      BY <3>1, <3>2, <3>4 DEF RamInv
    <3> QED
      BY <1>1, <3>1, <3>3, <3>4
  <2>4. CASE MakeEnds
    <3>1. UNCHANGED <<config, target, lost, image, line>> /\ at' = 1
      BY <2>4 DEF MakeEnds, disk, kernel
    <3>2. finished' => Good(image)
      <4>1. goal = "world" => at > 8
        BY <2>4 DEF MakeEnds, LastOf
      <4>2. goal = "world" => at = 9
        BY <1>1, <4>1
      <4> QED
        BY <2>4, <4>2 DEF MakeEnds, RamInv
    <3>3. Good(image)' <=> Good(image)
      BY <3>1 DEF Good, HoldsTarget, ModulesOf
    <3> QED
      BY <3>1, <3>2, <3>3 DEF RamInv
  <2>5. CASE EditConfig \/ ChangePackage \/ RemoveTree
    <3>1. Change
      BY <2>5 DEF EditConfig, ChangePackage, RemoveTree
    <3>2. ~finished' /\ at' = 1
      BY <3>1 DEF Change, make, Control
    <3> QED
      BY <3>2, RamLater
  <2> QED
    BY <1>4, <2>1, <2>2, <2>3, <2>4, <2>5, OtherSteps
<1>5. CASE Running /\ ~UNCHANGED vars
  <2>1. line > 0 /\ goal # "none" /\ ~finished
    BY <1>5 DEF Running, Control
  <2>2. ~finished'
    <3>1. Make => goal = "none"
      BY DEF Make
    <3>2. MakeEnds => line = 0
      BY DEF MakeEnds
    <3>3. UpToDate => UNCHANGED finished
      BY DEF UpToDate
    <3>4. StartRecipe \/ EndRecipe => UNCHANGED finished
      BY DEF StartRecipe, EndRecipe
    <3>5. Goes => UNCHANGED finished
      BY DEF Goes
    <3>6. \/ Make \/ UpToDate \/ StartRecipe \/ EndRecipe \/ MakeEnds \/ Goes
          \/ UNCHANGED finished \/ finished' = FALSE
      BY Frame, Zenon
    <3> QED
      BY <2>1, <3>1, <3>2, <3>3, <3>4, <3>5, <3>6
  <2>3. CASE EndRecipe
    <3>1. /\ UNCHANGED <<config, list, target, lost, image>> /\ at' = at + 1 /\ line' = 0
          /\ line > Len(Lines[Order[at]]) /\ at \in 1 .. 8
      BY <1>5, <2>3, Commands DEF EndRecipe, disk, kernel, File
    <3>2. CASE at <= 6
      BY <1>1, <2>2, <3>1, <3>2, RamLater
    <3>3. CASE at = 7
      <4>1. line = 2
        <5>1. Len(Lines[Order[at]]) = 1 /\ line <= Len(Lines[Order[at]]) + 1
          BY <3>3, Lengths DEF Control, File
        <5> QED
          BY <1>1, <3>1, <5>1
      <4> QED
        BY <2>2, <3>1, <3>3, <4>1 DEF RamInv
    <3>4. CASE at = 8
      <4>1. line > 3
        <5>1. Len(Lines[Order[at]]) = 3
          BY <3>4, Lengths
        <5> QED
          BY <1>1, <3>1, <5>1
      <4>2. Good(image)
        BY <3>4, <4>1 DEF RamInv
      <4>3. Good(image)'
        BY <3>1, <4>2 DEF Good, HoldsTarget, ModulesOf
      <4> QED
        BY <2>2, <3>1, <3>4, <4>3 DEF RamInv
    <3> QED
      BY <3>1, <3>2, <3>3, <3>4
  <2>4. CASE at' = 1
    BY <2>2, <2>4, RamLater
  <2>5. CASE at \in 1 .. 6 /\ at' = at
    BY <2>2, <2>5, RamLater
  <2>6. CASE at = 7 /\ line = 1 /\ Fakeroot
    <3>1. list' = [kind |-> "full", extra |-> target.extra] /\ UNCHANGED target /\ at' = 7
      BY <2>6 DEF Fakeroot, Listed, Proceed
    <3> QED
      BY <2>2, <3>1 DEF RamInv
  <2>7. CASE at = 8 /\ line = 1 /\ RmCpio
    <3>1. UNCHANGED <<list, target>> /\ cpio' = NoFiles /\ at' = 8 /\ line' = 2
      BY <2>7 DEF RmCpio, Proceed
    <3> QED
      BY <2>2, <2>7, <3>1 DEF RamInv, NoFiles
  <2>8. CASE at = 8 /\ line = 2 /\ Image
    <3>1. /\ UNCHANGED <<config, list, target, lost>> /\ at' = 8 /\ line' = 3
          /\ list.kind = "full" /\ list.extra = target.extra
      BY <2>8 DEF Image, Proceed, RamInv
    <3>2. built' = [edit |-> config, files |-> Packed]
      BY <2>8 DEF Image, RamInv
    <3>3. /\ Packed = [kind |-> "full", pkg |-> target.pkg, extra |-> list.extra,
                       modules |-> target.modules]
      BY <3>1 DEF Packed
    <3>4. ModulesOf(target.modules)
      <4>1. /\ mtime["installed"] > 0 /\ mtime["compiled"] <= mtime["installed"]
            /\ mtime["config"] <= mtime["compiled"]
        BY <2>8 DEF Ordered, Reached
      <4> QED
        BY <4>1 DEF Kernel, KernelInv
    <3>5. Good(built)'
      BY <3>1, <3>2, <3>3, <3>4 DEF Good, HoldsTarget, ModulesOf
    <3> QED
      BY <2>2, <3>1, <3>5 DEF RamInv
  <2>9. CASE at = 8 /\ line = 3 /\ Copy
    <3>1. UNCHANGED <<config, list, target, lost, built>> /\ image' = built /\ at' = 8 /\ line' = 4
      BY <2>9 DEF Copy, Proceed, kernel
    <3>2. Good(built)
      BY <2>9 DEF RamInv
    <3>3. Good(built)' /\ Good(image)'
      BY <3>1, <3>2 DEF Good, HoldsTarget, ModulesOf
    <3>4. list'.kind = "full" /\ list'.extra = target'.extra
      BY <2>9, <3>1 DEF RamInv
    <3> QED
      BY <2>2, <3>1, <3>3, <3>4 DEF RamInv
  <2>10. /\ MakeStops \/ ImageFails \/ FakerootFails \/ ExtractFails => at' = 1
         /\ StopsInPatch \/ StopsInCopy \/ StopsInModules => at' = 1
    BY DEF MakeStops, StopsInPatch, StopsInCopy, StopsInModules, Interrupted, ImageFails,
           FakerootFails, ExtractFails, Stop
  <2>11. Download \/ Extract \/ PatchKernel \/ Defconfig \/ FakeList \/ Oldconfig => at' = at
    BY DEF Download, Extract, PatchKernel, Defconfig, FakeList, Oldconfig, Proceed
  <2>12. Image \/ Modules \/ Copy \/ ModulesInstall => at' = at
    BY DEF Image, Modules, Copy, ModulesInstall, Proceed
  <2>13. Patched \/ DownloadCut => at' = 1 \/ at' = at
    BY DEF Patched, DownloadCut, Proceed, Stop
  <2> QED
    BY <1>5, <2>3, <2>4, <2>5, <2>6, <2>7, <2>8, <2>9, <2>10, <2>11, <2>12, <2>13, RecipeSteps
<1> QED
  BY <1>3, <1>4, <1>5

-----------------------------------------------------------------------------
(* The theorems.                                                           *)

LEMMA InitIInv == Init => IInv
<1> SUFFICES ASSUME Init
             PROVE  IInv
  OBVIOUS
<1>1. patches \in PatchSeries /\ Len(patches) \in Nat /\ Changes \in Nat /\ Faults \in Nat
  BY LinuxImageAssumption DEF Init
<1>2. /\ Cardinality(Files) \in Nat
      /\ \A f \in Files : mtime[f] = 0
      /\ mtime \in [Files -> 0 .. Cardinality(Files)]
  BY FilesAre DEF Init
<1>3. Counts /\ Place
  <2>1. /\ goal = "none" /\ at = 1 /\ line = 0 /\ finished = FALSE /\ changes = 0 /\ faults = 0
    BY DEF Init
  <2>2. 0 \in 0 .. Changes /\ 0 \in 0 .. Faults
    BY <1>1
  <2>4. Counts
    BY <2>1, <2>2, Zenon DEF Counts
  <2>3. Place
    BY <2>1 DEF Place
  <2> QED
    BY <2>3, <2>4
<1>4. Source
  BY <1>1 DEF Init, NoTree, Source
<1>5. Kernels /\ Root
  <2>1. 0 \in Edits
    BY <1>1 DEF Edits
  <2>2. NoFiles \in Packs
    BY <2>1 DEF NoFiles, Packs
  <2>3. NoImage \in Images
    BY <2>1, <2>2 DEF NoImage, Images
  <2>4. Kernels
    BY <2>1, <2>2, <2>3 DEF Init, Kernels
  <2>5. Root
    BY <2>1 DEF Init, Root, NoList
  <2> QED
    BY <2>4, <2>5
<1>6. TypeOK
  BY <1>1, <1>2, <1>3, <1>4, <1>5, TypeParts, Zenon
<1>7. Control
  BY Lengths DEF Init, Control, File
<1>8. Ordered
  BY <1>2, FilesAre DEF Init, Ordered, Times, Reached, Redone
<1>9. PatchInv
  BY <1>2, FilesAre DEF Init, NoTree, PatchInv
<1>10. Kernel
  BY <1>1, <1>2, FilesAre DEF Init, Kernel, KernelInv, ImageInv, NoImage
<1>11. RamInv
  BY DEF Init, RamInv
<1> QED
  BY <1>6, <1>7, <1>8, <1>9, <1>10, <1>11 DEF IInv

LEMMA NextIInv == IInv /\ [Next]_vars => IInv'
<1>1. ASSUME IInv, [Next]_vars
      PROVE  TypeOK' /\ Control' /\ Ordered' /\ PatchInv' /\ Kernel' /\ RamInv'
  BY <1>1, TypesStay, OrderedStays, PatchStays, KernelStays, RamStays, Zenon DEF IInv
<1> QED
  BY <1>1 DEF IInv

\* The invariant of the kernel and its images.
THEOREM ImageInvariant == Spec => []IInv
BY InitIInv, NextIInv, PTL DEF Spec

\* Every variable keeps its type, for every series of patches and any number of changes and
\* of makes that stop.
THEOREM ImageTypeCorrect == Spec => []TypeOK
<1>1. IInv => TypeOK
  BY DEF IInv
<1> QED
  BY <1>1, ImageInvariant, PTL

\* A stamp .stamp_patched stands for a clean tree with all the patches that there are, whole and
\* once, although the loop over them keeps only the status of its last round (linux.mk:93): the
\* two kinds that it lies about are a patch without a file, and one before the last that failed
\* and left no reject.
THEOREM PatchedClean == Spec => []PatchedMeansClean
<1>1. IInv => PatchedMeansClean
  BY DEF IInv, PatchInv, PatchedMeansClean, Clean, Settled, Failing
<1> QED
  BY <1>1, ImageInvariant, PTL

\* The image that make world leaves is that of the present configuration, with its modules.
THEOREM KernelMatches == Spec => []KernelMatchesConfig
<1>1. IInv => KernelMatchesConfig
  <2> SUFFICES ASSUME IInv, finished
               PROVE  /\ image.edit = config
                      /\ image.files.kind = "full" /\ "modules" \notin lost =>
                           image.files.modules = config
    BY DEF KernelMatchesConfig
  <2>1. Good(image)
    BY DEF IInv, RamInv
  <2> QED
    BY <2>1 DEF Good, ModulesOf
<1> QED
  BY <1>1, ImageInvariant, PTL

\* The ram disk that make world leaves holds what the target directory does (linux.mk:168).
THEOREM RamDiskCurrent == Spec => []RamDiskIsCurrent
<1>1. IInv => RamDiskIsCurrent
  BY DEF IInv, RamInv, RamDiskIsCurrent, Good
<1> QED
  BY <1>1, ImageInvariant, PTL

\* An image that is up to date stays so until the user changes something, whatever fails: make
\* never replaces it by an older one, and only a copy that is cut takes it away.
THEOREM CurrentStays == Spec => CurrentImageStays
<1>1. IInv /\ [Next]_vars =>
        [Current /\ changes' = changes => Current' \/ (image' = NoImage /\ faults' > faults)]_vars
  <2> SUFFICES ASSUME IInv, [Next]_vars, Current, changes' = changes, ~StopsInCopy
               PROVE  Current'
    <3>1. StopsInCopy /\ IInv => image' = NoImage /\ faults' > faults
      BY LinuxImageAssumption DEF StopsInCopy, Interrupted, IInv, TypeOK
    <3> QED
      BY <3>1
  <2>1. /\ TypeOK /\ Control /\ Ordered /\ Kernel /\ RamInv /\ TimesTypes /\ TimesTypes'
        /\ mtime["installed"] > 0 /\ image.edit = config /\ HoldsTarget(image)
        /\ changes \in Nat
    <3>1. TypeOK /\ Control /\ Ordered /\ Kernel /\ RamInv
      BY DEF IInv
    <3>2. TypeOK' /\ TimesTypes /\ TimesTypes'
      BY <3>1, TypesStay, TimesAre, Zenon
    <3>3. changes \in Nat
      <4>1. Counts /\ Changes \in Nat
        BY <3>1, TypeParts, LinuxImageAssumption, Zenon
      <4> QED
        BY <4>1 DEF Counts
    <3> QED
      BY <3>1, <3>2, <3>3, Zenon DEF Current
  <2>2. ~EditConfig /\ ~ChangePackage /\ ~RemoveTree
    <3>1. Change => changes' = changes + 1
      BY DEF Change
    <3>2. ~Change
      BY <2>1, <3>1
    <3> QED
      BY <3>2 DEF EditConfig, ChangePackage, RemoveTree
  <2>3. mtime'["installed"] > 0
    <3>1. CASE ~EndRecipe
      BY <2>1, <2>2, <3>1, ListOnly, FilesAre
    <3>2. CASE EndRecipe
      <4>1. CASE UNCHANGED mtime
        BY <2>1, <4>1
      <4>2. CASE ~UNCHANGED mtime
        <5>1. File \in Files /\ mtime' = Written({File})
          BY <2>1, <3>2, <4>2, Commands DEF EndRecipe, File
        <5> QED
          BY <2>1, <5>1, OneWritten, FilesAre
      <4> QED
        BY <4>1, <4>2
    <3> QED
      BY <3>1, <3>2
  <2>4. config' = config
    <3>1. ~Defconfig
      <4> SUFFICES ASSUME Defconfig
                   PROVE  FALSE
        OBVIOUS
      <4>1. at = 4 /\ line = 1
        BY <2>1, Commands DEF Defconfig
      <4>2. mtime["configured"] = 0
        BY <4>1 DEF IInv, Ordered, Redone, File, Order
      <4> QED
        BY <2>1, <4>2 DEF Ordered, Times, TimesTypes
    <3>2. Image \/ Copy \/ RmCpio => UNCHANGED config
      BY DEF Image, Copy, RmCpio, kernel
    <3> QED
      BY <2>2, <3>1, <3>2, Frame
  <2>5. target'.pkg = target.pkg /\ target'.extra = target.extra
    <3>1. target \in [pkg : Nat, extra : BOOLEAN, modules : 0 .. Changes + 1]
      BY <2>1 DEF TypeOK
    <3>4. StopsInModules => target'.pkg = target.pkg /\ target'.extra = target.extra
      BY <3>1 DEF StopsInModules
    <3>2. FakeList \/ Fakeroot \/ FakerootFails => UNCHANGED target
      BY DEF FakeList, Fakeroot, FakerootFails
    <3>3. ModulesInstall => target'.pkg = target.pkg /\ target'.extra = target.extra
      BY <3>1 DEF ModulesInstall
    <3> QED
      BY <2>2, <3>2, <3>3, <3>4, Frame
  <2>6. image'.edit = config /\ HoldsTarget(image')
    <3>1. CASE image' = image
      BY <2>1, <3>1
    <3>2. CASE Copy
      <4>1. image' = built
        BY <3>2 DEF Copy
      <4>2. CASE at = 6 /\ line = 1
        <5>1. mtime["installed"] < mtime["compiled"]
          BY <2>1, <4>2 DEF Ordered, Redone
        <5>2. image = built
          <6>1. image # NoImage
            <7>1. image.files.kind = "full" /\ NoImage.files.kind = "none"
              BY <2>1 DEF HoldsTarget, NoImage, NoFiles
            <7> QED
              BY <7>1
          <6> QED
            BY <2>1, <5>1, <6>1 DEF Kernel, ImageInv
        <5> QED
          BY <2>1, <4>1, <5>2
      <4>3. CASE at = 8 /\ line = 3
        <5>1. Good(built)
          BY <2>1, <4>3 DEF RamInv
        <5> QED
          BY <4>1, <5>1 DEF Good
      <4> QED
        BY <2>1, <3>2, <4>2, <4>3, Commands DEF Copy
    <3>3. Defconfig \/ Image \/ RmCpio => UNCHANGED image
      BY DEF Defconfig, Image, RmCpio
    <3> QED
      BY <2>2, <3>1, <3>2, <3>3, Frame
  <2> QED
    BY <2>3, <2>4, <2>5, <2>6 DEF Current, HoldsTarget
<1> QED
  BY <1>1, ImageInvariant, PTL DEF Spec, CurrentImageStays

=============================================================================
