----------------------------- MODULE LinuxImage -----------------------------
(***************************************************************************)
(* linux/linux.mk, toolchain/patch-kernel.sh, fs/common.mk and             *)
(* fs/initramfs/initramfs.mk: the kernel, built before the root            *)
(* filesystem, and built again when the list of the files of its initial   *)
(* ram disk is there.  Make compares the times of the stamps; a recipe is  *)
(* a sequence of lines, and make or the machine may stop in any.           *)
(* The kernel's own makefiles are external.  There is one make at a time.  *)
(***************************************************************************)
EXTENDS Integers, Sequences, FiniteSets

CONSTANTS
  PatchSeries,  \* values of BR2_LINUX_KERNEL_PATCH: sequences of PatchKinds
  Changes,      \* bound: what the user changes
  Faults        \* bound: what fails

\* What patch-kernel.sh finds: a patch that fits, one that does not, one that fails but
\* leaves no reject, no such file in its directory, no such directory.
PatchKinds == {"good", "rejected", "broken", "missing", "nodir"}

ASSUME LinuxImageAssumption ==
  /\ PatchSeries \subseteq Seq(PatchKinds)
  /\ Changes \in Nat /\ Faults \in Nat

VARIABLES
  patches,
  goal,      \* what make was called for, "none" between two calls
  at,        \* the file that make considers
  line,      \* the line of its recipe, 0 before the first
  loop,      \* the loop over the patches: how far it is, the status of its last round
  mtime,     \* mtime[f]: the rank of the time when f was written, 0 if it does not exist
  archive,   \* the kernel's, in DL_DIR
  tree,      \* the kernel source: patches applied to it, or a part of them, and rejects
  config,    \* .config: which edit it is, 0 if it does not exist
  cpio,      \* usr/initramfs_data.cpio in the tree
  built,     \* the kernel image in the tree
  image,     \* the one in BINARIES_DIR; NoImage is also a part of one
  list,      \* rootfs.initramfs
  target,    \* TARGET_DIR
  lost,      \* what failed with a status that nobody looked at (history)
  finished,  \* the last make world succeeded and nothing was changed since (history)
  changes, faults

make == <<goal, at, line, loop>>
kernel == <<archive, tree, config, cpio, built>>
disk == <<kernel, image, list, target, lost>>
bounds == <<changes, faults>>
vars == <<patches, make, mtime, disk, finished, bounds>>

-----------------------------------------------------------------------------
(* What make does for a goal.                                              *)

\* The prerequisites come before the files that need them.
Order == <<"downloaded", "extracted", "patched", "configured", "compiled", "installed",
           "initramfs", "initramfs_rebuilt">>
Files == {Order[n] : n \in DOMAIN Order} \cup {"config"}

\* Only the last three are made for the root filesystem.
LastOf == [world |-> 8, linux |-> 6]

\* A variant: the kernel does not hang on its configuration.
NeedsWithoutConfig ==
  [downloaded |-> {}, extracted |-> {"downloaded"}, patched |-> {"extracted"},
   configured |-> {"patched"}, compiled |-> {"configured"},
   installed |-> {"compiled"}, initramfs |-> {}, initramfs_rebuilt |-> {"installed", "initramfs"}]

\* A variant: the kernel is compiled again when the list has changed.
NeedsList ==
  [downloaded |-> {}, extracted |-> {"downloaded"}, patched |-> {"extracted"},
   configured |-> {"patched"}, compiled |-> {"configured", "config", "initramfs"},
   installed |-> {"compiled"}, initramfs |-> {}, initramfs_rebuilt |-> {"installed", "initramfs"}]

Needs ==
  [downloaded |-> {}, extracted |-> {"downloaded"}, patched |-> {"extracted"},
   configured |-> {"patched"}, compiled |-> {"configured", "config"},
   installed |-> {"compiled"}, initramfs |-> {}, initramfs_rebuilt |-> {"installed", "initramfs"}]

\* rootfs.initramfs needs host-fakeroot and host-makedevs, which are no files: it is made
\* whenever it is considered.
Stale(f) ==
  \/ f = "initramfs" \/ mtime[f] = 0
  \/ \E p \in Needs[f] : mtime[p] > mtime[f]

Lines ==
  [downloaded |-> <<"download">>,
   extracted |-> <<"extract">>,
   patched |-> <<"patch">>,
   configured |-> <<"defconfig", "fakelist", "oldconfig">>,
   compiled |-> <<"image", "modules">>,
   installed |-> <<"copy", "modules_install">>,
   initramfs |-> <<"fakeroot">>,
   initramfs_rebuilt |-> <<"rmcpio", "image", "copy">>]

File == Order[at]
Running == goal # "none" /\ line > 0
Doing(command) == Running /\ line <= Len(Lines[File]) /\ Lines[File][line] = command

\* The names in the list, and what the image holds of the target.
NoList == [kind |-> "none", extra |-> FALSE]
NoFiles == [kind |-> "none", pkg |-> 0, extra |-> FALSE, modules |-> 0]
NoImage == [edit |-> 0, files |-> NoFiles]
NoTree == [applied |-> {}, cut |-> {}, rejects |-> FALSE]

Init ==
  /\ patches \in PatchSeries
  /\ goal = "none" /\ at = 1 /\ line = 0 /\ loop = [next |-> 1, ok |-> TRUE]
  /\ mtime = [f \in Files |-> 0]
  /\ archive = "none" /\ tree = NoTree
  /\ config = 0
  /\ cpio = NoFiles /\ built = NoImage /\ image = NoImage
  /\ list = NoList
  /\ target = [pkg |-> 1, extra |-> TRUE, modules |-> 0]
  /\ lost = {} /\ finished = FALSE
  /\ changes = 0 /\ faults = 0

Make ==
  /\ goal = "none"
  /\ goal' \in DOMAIN LastOf
  /\ at' = 1 /\ line' = 0
  /\ finished' = FALSE
  /\ UNCHANGED <<patches, loop, mtime, disk, bounds>>

UpToDate ==
  /\ goal # "none" /\ line = 0 /\ at <= LastOf[goal]
  /\ ~Stale(File)
  /\ at' = at + 1
  /\ UNCHANGED <<patches, goal, line, loop, mtime, disk, finished, bounds>>

StartRecipe ==
  /\ goal # "none" /\ line = 0 /\ at <= LastOf[goal]
  /\ Stale(File)
  /\ line' = 1
  /\ loop' = [next |-> 1, ok |-> TRUE]
  /\ UNCHANGED <<patches, goal, at, mtime, disk, finished, bounds>>

\* A variant: the times of the others stay.
WrittenLast(which) ==
  [f \in Files |-> IF f \in which THEN Cardinality(Files) + 1 ELSE mtime[f]]

\* The times when the files in which are written now.
Written(which) ==
  LET time == [f \in Files |-> IF f \in which THEN Cardinality(Files) + 1 ELSE mtime[f]]
  IN [f \in Files |-> Cardinality({time[g] : g \in Files} \cap 1 .. time[f])]

\* The last line of a recipe touches the stamp; rootfs.initramfs has been written.
EndRecipe ==
  /\ Running /\ line > Len(Lines[File])
  /\ line' = 0 /\ at' = at + 1
  /\ mtime' = IF File = "initramfs" THEN mtime ELSE Written({File})
  /\ UNCHANGED <<patches, goal, loop, disk, finished, bounds>>

MakeEnds ==
  /\ goal # "none" /\ line = 0 /\ at > LastOf[goal]
  /\ finished' = (goal = "world")
  /\ goal' = "none" /\ at' = 1
  /\ UNCHANGED <<patches, line, loop, mtime, disk, bounds>>

Of(kinds) == {p \in DOMAIN patches : patches[p] \in kinds}

\* Make stops at the first line that fails.
Stop == goal' = "none" /\ at' = 1 /\ line' = 0
Proceed == line' = line + 1 /\ UNCHANGED <<goal, at>>

\* It is interrupted, the machine stops, or a command fails.
Interrupted ==
  /\ faults < Faults
  /\ faults' = faults + 1
  /\ Stop
  /\ UNCHANGED <<patches, loop, mtime, list, lost, finished, changes>>

\* Between two lines, or in a command that leaves nothing behind.
MakeStops ==
  /\ Running /\ Interrupted
  /\ UNCHANGED <<kernel, image, target>>

\* In a patch that fits.
StopsInPatch ==
  /\ Doing("patch") /\ Interrupted
  /\ \E p \in {loop.next} \cap Of({"good", "broken"}) : tree' = [tree EXCEPT !.cut = @ \cup {p}]
  /\ UNCHANGED <<archive, config, cpio, built, image, target>>

\* In cp, which writes over the image that is there, or with the disk full.
StopsInCopy ==
  /\ Doing("copy") /\ Interrupted
  /\ image' = NoImage
  /\ UNCHANGED <<kernel, target>>

\* In modules_install, which removes the old modules first: 0 is also a part of them.
StopsInModules ==
  /\ Doing("modules_install") /\ Interrupted
  /\ target' = [target EXCEPT !.modules = 0]
  /\ UNCHANGED <<kernel, image>>

-----------------------------------------------------------------------------
(* The recipes.                                                            *)

\* An archive that is there is not looked into (test -e).
Download ==
  /\ Doing("download")
  /\ archive' = IF archive = "none" THEN "whole" ELSE archive
  /\ Proceed
  /\ UNCHANGED <<patches, loop, mtime, tree, config, cpio, built, image, list, target, lost,
                 finished, bounds>>

\* The transfer is cut; for the next site the archive is there.
DownloadCut ==
  /\ Doing("download") /\ faults < Faults
  /\ archive = "none" /\ archive' = "part"
  /\ faults' = faults + 1
  /\ Proceed \/ Stop
  /\ UNCHANGED <<patches, loop, mtime, tree, config, cpio, built, image, list, target, lost,
                 finished, changes>>

\* tar writes over the files that are there.
Extract ==
  /\ Doing("extract") /\ archive = "whole"
  /\ tree' = [NoTree EXCEPT !.rejects = tree.rejects]
  /\ Proceed
  /\ UNCHANGED <<patches, loop, mtime, archive, config, cpio, built, image, list, target, lost,
                 finished, bounds>>

ExtractFails ==
  /\ Doing("extract") /\ archive = "part"
  /\ Stop
  /\ UNCHANGED <<patches, loop, mtime, disk, finished, bounds>>

\* A round leaves rejects when its patch does not fit, or was applied before, or a part of it.
RejectsOfThis(p) == patches[p] = "rejected" \/ p \in tree.applied \cup tree.cut

\* patch-kernel.sh looks for rejects in the whole tree.
Rejects(p) == tree.rejects \/ RejectsOfThis(p)

\* One round of the loop.  A patch that fails without rejects may have been applied in part;
\* where there is no file, nothing fails.
PatchKernel ==
  /\ Doing("patch") /\ loop.next <= Len(patches)
  /\ LET p == loop.next
     IN /\ \E part \in SUBSET ({p} \cap Of({"broken"})) :
             tree' = [applied |-> tree.applied \cup ({p} \cap Of({"good"})),
                      cut |-> tree.cut \cup part,
                      rejects |-> tree.rejects \/ RejectsOfThis(p)]
        /\ loop' = [next |-> p + 1, ok |-> p \notin Of({"broken", "nodir"}) /\ ~Rejects(p)]
  /\ UNCHANGED <<patches, goal, at, line, mtime, archive, config, cpio, built, image, list,
                 target, lost, finished, bounds>>

\* The status of the loop is that of its last round.
Patched ==
  /\ Doing("patch") /\ loop.next > Len(patches)
  /\ IF loop.ok THEN Proceed ELSE Stop
  /\ UNCHANGED <<patches, loop, mtime, disk, finished, bounds>>

\* The configuration starts anew; with the next two it names the list.
Defconfig ==
  /\ Doing("defconfig")
  /\ config' = 1
  /\ mtime' = Written({"config"})
  /\ Proceed
  /\ UNCHANGED <<patches, loop, archive, tree, cpio, built, image, list, target, lost, finished,
                 bounds>>

\* An empty list, if there is none.
FakeList ==
  /\ Doing("fakelist")
  /\ list' = IF mtime["initramfs"] = 0 THEN [NoList EXCEPT !.kind = "empty"] ELSE list
  /\ mtime' = Written({"initramfs", "config"})
  /\ Proceed
  /\ UNCHANGED <<patches, loop, kernel, image, target, lost, finished, bounds>>

Oldconfig ==
  /\ Doing("oldconfig")
  /\ mtime' = Written({"config"})
  /\ Proceed
  /\ UNCHANGED <<patches, loop, disk, finished, bounds>>

\* External: the archive that the kernel makes of the files that the list names.
Packed ==
  IF list.kind = "full"
    THEN [kind |-> "full", pkg |-> target.pkg, extra |-> list.extra, modules |-> target.modules]
    ELSE [NoFiles EXCEPT !.kind = list.kind]

\* The list names a file that is not there any more.
Gone == list.kind = "full" /\ list.extra /\ ~target.extra

\* External: make in the kernel tree.  The archive is made if there is none; whether a list
\* that changed is noticed is the kernel's business.
Image ==
  /\ Doing("image")
  /\ \/ /\ cpio.kind # "none"
        /\ UNCHANGED cpio
     \/ /\ ~Gone
        /\ cpio' = Packed
  /\ built' = [edit |-> config, files |-> cpio']
  /\ Proceed
  /\ UNCHANGED <<patches, loop, mtime, archive, tree, config, image, list, target, lost, finished,
                 bounds>>

ImageFails ==
  /\ Doing("image") /\ Gone
  /\ Stop
  /\ UNCHANGED <<patches, loop, mtime, disk, finished, bounds>>

Modules ==
  /\ Doing("modules")
  /\ Proceed
  /\ UNCHANGED <<patches, loop, mtime, disk, finished, bounds>>

Copy ==
  /\ Doing("copy")
  /\ image' = built
  /\ Proceed
  /\ UNCHANGED <<patches, loop, mtime, kernel, list, target, lost, finished, bounds>>

\* The commands after modules_install hide its status.
ModulesInstall ==
  /\ Doing("modules_install")
  /\ \/ /\ target' = [target EXCEPT !.modules = built.edit]
        /\ lost' = lost \ {"modules"}
        /\ UNCHANGED faults
     \/ /\ faults < Faults
        /\ faults' = faults + 1
        /\ lost' = lost \cup {"modules"}
        /\ target' \in {target, [target EXCEPT !.modules = 0]}
  /\ Proceed
  /\ UNCHANGED <<patches, loop, mtime, kernel, image, list, finished, changes>>

\* A variant: the list is written behind the old one.
ListedToo == list.extra \/ target.extra

Listed == target.extra

\* The script that fakeroot runs: chown, makedevs, then the list; only the status of the last
\* one counts.
Fakeroot ==
  /\ Doing("fakeroot")
  /\ list' = [kind |-> "full", extra |-> Listed]
  /\ mtime' = Written({"initramfs"})
  /\ \/ lost' = lost \ {"devices"} /\ UNCHANGED faults
     \/ faults < Faults /\ faults' = faults + 1 /\ lost' = lost \cup {"devices"}
  /\ Proceed
  /\ UNCHANGED <<patches, loop, kernel, image, target, finished, changes>>

\* The list fails: what was written of it stays.
FakerootFails ==
  /\ Doing("fakeroot") /\ faults < Faults
  /\ faults' = faults + 1
  /\ list' = [kind |-> "part", extra |-> FALSE]
  /\ mtime' = Written({"initramfs"})
  /\ Stop
  /\ UNCHANGED <<patches, loop, kernel, image, target, lost, finished, changes>>

\* A variant: the archive is left to the kernel.
CpioKept ==
  /\ Doing("rmcpio")
  /\ Proceed
  /\ UNCHANGED <<patches, loop, mtime, disk, finished, bounds>>

RmCpio ==
  /\ Doing("rmcpio")
  /\ cpio' = NoFiles
  /\ Proceed
  /\ UNCHANGED <<patches, loop, mtime, archive, tree, config, built, image, list, target, lost,
                 finished, bounds>>

-----------------------------------------------------------------------------
(* The user, between two calls of make.                                    *)

Change ==
  /\ goal = "none" /\ changes < Changes
  /\ changes' = changes + 1
  /\ finished' = FALSE
  /\ UNCHANGED <<patches, make, faults, image, list, lost>>

\* linux-menuconfig.
EditConfig ==
  /\ Change
  /\ mtime["configured"] > 0
  /\ config' = changes + 2
  /\ mtime' = Written({"config"})
  /\ UNCHANGED <<archive, tree, cpio, built, target>>

\* A package is built again, and perhaps installs a file less.
ChangePackage ==
  /\ Change
  /\ \E extra \in BOOLEAN : target' = [target EXCEPT !.pkg = @ + 1, !.extra = extra]
  /\ UNCHANGED <<mtime, kernel>>

\* LINUX26_DIR is removed.
RemoveTree ==
  /\ Change
  /\ mtime' = [f \in Files |-> IF f = "initramfs" THEN mtime[f] ELSE 0]
  /\ tree' = NoTree
  /\ config' = 0
  /\ cpio' = NoFiles /\ built' = NoImage
  /\ UNCHANGED <<archive, target>>

-----------------------------------------------------------------------------
Step ==
  \/ UpToDate \/ StartRecipe \/ EndRecipe \/ MakeEnds
  \/ Download \/ Extract \/ ExtractFails \/ PatchKernel \/ Patched \/ Defconfig \/ FakeList \/ Oldconfig
  \/ Image \/ ImageFails \/ Modules \/ Copy \/ ModulesInstall
  \/ Fakeroot \/ FakerootFails \/ RmCpio

Faulty == MakeStops \/ StopsInPatch \/ StopsInCopy \/ StopsInModules \/ DownloadCut

Next == Make \/ Step \/ Faulty \/ EditConfig \/ ChangePackage \/ RemoveTree

Spec == Init /\ [][Next]_vars

MakeWorld == Make /\ goal' = "world"

\* The user calls make world again and again, and make goes on while it runs.
FairSpec == Spec /\ WF_vars(Step) /\ SF_vars(MakeWorld)

-----------------------------------------------------------------------------
(* Properties.                                                             *)

\* Each variable has the values that its declaration says.
TypeOK ==
  /\ patches \in PatchSeries
  /\ goal \in {"none"} \cup DOMAIN LastOf /\ at \in 1 .. 9 /\ line \in 0 .. 4
  /\ loop \in [next : 1 .. Len(patches) + 1, ok : BOOLEAN]
  /\ mtime \in [Files -> 0 .. Cardinality(Files)]
  /\ archive \in {"none", "part", "whole"}
  /\ tree \in [applied : SUBSET (DOMAIN patches), cut : SUBSET (DOMAIN patches),
               rejects : BOOLEAN]
  /\ config \in 0 .. Changes + 1
  /\ LET Packs == [kind : {"none", "empty", "part", "full"}, pkg : Nat, extra : BOOLEAN,
                   modules : 0 .. Changes + 1]
         Images == [edit : 0 .. Changes + 1, files : Packs]
     IN cpio \in Packs /\ built \in Images /\ image \in Images
  /\ list \in [kind : {"none", "empty", "part", "full"}, extra : BOOLEAN]
  /\ target \in [pkg : Nat, extra : BOOLEAN, modules : 0 .. Changes + 1]
  /\ lost \subseteq {"modules", "devices"} /\ finished \in BOOLEAN
  /\ changes \in 0 .. Changes /\ faults \in 0 .. Faults

\* A tree with .stamp_patched has every patch, whole and once, and no rejects, except two
\* kinds that patch-kernel.sh cannot tell: a patch whose file is missing in its directory,
\* and, as the loop loses the status of every round but the last, one before the last that
\* failed without rejects or whose directory is missing (linux.mk:93).
PatchedMeansClean ==
  mtime["patched"] > 0 =>
    /\ ~tree.rejects
    /\ \A p \in DOMAIN patches :
         \/ p \in tree.applied \ tree.cut
         \/ patches[p] = "missing"
         \/ patches[p] \in {"broken", "nodir"} /\ p < Len(patches)

\* After make world the image is that of the present .config, edited with linux-menuconfig or
\* not, and the modules in its ram disk are its own, unless modules_install failed unnoticed.
KernelMatchesConfig ==
  finished =>
    /\ image.edit = config
    /\ image.files.kind = "full" /\ "modules" \notin lost => image.files.modules = config

HoldsTarget(i) == i.files.kind = "full" /\ i.files.pkg = target.pkg /\ i.files.extra = target.extra

\* After make world the ram disk in the image holds what is in the target directory now: the
\* empty list that the kernel was first built with, or one that is out of date, is replaced
\* whatever the kernel notices of it (linux.mk:168).
RamDiskIsCurrent == finished => HoldsTarget(image)

Current == mtime["installed"] > 0 /\ image.edit = config /\ HoldsTarget(image)

\* An installed image that is up to date is not replaced by one that is not, whatever fails or
\* stops while the user changes nothing; a copy that is cut leaves no image at all.
CurrentImageStays ==
  [][Current /\ changes' = changes =>
       Current' \/ (image' = NoImage /\ faults' > faults)]_vars

\* A tree that make cannot get out of by itself: its archive is cut, patches are applied
\* twice, or cannot be, or the kernel is to be made with a list that names a removed file.
Stuck ==
  \/ archive = "part" \/ tree.rejects
  \/ Len(patches) \in Of({"broken", "nodir"})
  \/ Gone /\ \E n \in 1 .. 5 : Stale(Order[n])

\* When the user calls make world again and again, it finishes, whatever failed before or
\* stopped it, unless the tree is stuck.
RepeatedMakeFinishes == []<>(finished \/ Stuck)
=============================================================================
