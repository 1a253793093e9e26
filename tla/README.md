# Verification of the H6 lichee buildroot

This directory holds TLA+ models of the Allwinner H6 SDK's buildroot tree: the
build system (a 2011 Buildroot with SDK scripts around it) and the one larger
program that is developed in it, the *dragonboard* factory test under
`src/target/dragonboard`, with the bluetooth attach program it runs. Modules are translated from the code; the documents
(`src/docs/buildroot.html`, the help texts of `Config.in`) are only quoted where
a property states what they promise.

    tlc -workers 2 -config package_build.cfg MCPackageBuild     # a run
    tlapm PackageBuildProofs.tla                                # the proofs

Contents: 1 inventory, 2 modules and code, 3 runs and bounds, 4 fairness,
5 proofs, 6 disagreements with the documents, 7 what is not modelled, 8 plan.


## 1. Inventory

How the parts meet: the SDK's `build.sh` selects a chip, a platform and a board, saves
the selection, and builds buildroot, the kernel and the root filesystem with the
configurations that belong to it. In buildroot, Kconfig writes `.config`; the top `Makefile` reads it, collects the
enabled packages in `TARGETS` and makes them one after the other (`.NOTPARALLEL`).
Each package is a chain of stamp files, whose first link fetches an archive into
`DL_DIR` and whose third applies patches. Then come the kernel and the file system
images. State between two invocations lives on disk only: stamp files, the trees
they vouch for, `DL_DIR`. On the board the dragonboard core, its launcher and the
test programs are separate processes that share a memory segment and a named pipe;
the core has two more threads, for the touch panel and for the list of wifi hot points.

### Modelled, wholly or in part

**Package infrastructure** (`package/Makefile.package.in`, `Makefile`)
- *State*: the stamps in each build directory; the trees, staging, target and host
  directories; in memory, which targets this make has made.
- *Operations*: `make <pkg>` and `<pkg>-source ... -install`, `-uninstall`, `-clean`,
  `-dirclean`, `make world`, `make clean`, removing a stamp by hand.
- *Hard*: stamp rules have no prerequisites, so only the existence of a stamp counts;
  a recipe may die between its commands and its `touch`; removals may die between the
  files and the stamp; dependencies are made depth first, through the extract step.
- *Correct when*: a stamp means a complete result; a package is configured after all
  it depends on is installed; success means that nothing asked for is old.

**Source download** (`DOWNLOAD`, `DOWNLOAD_WGET`, `_GIT`, `_SVN`)
- *State*: archives and checkouts in `DL_DIR`, shared by all builds of a source tree.
- *Operations*: test, fetch or check out and pack, next site, give up.
- *Hard*: `test -e` and the transfer are two steps; transfers break off; two builds.
- *Correct when*: a complete archive is never damaged, an incomplete one has a cause
  (a cut or a kill), and a build goes on only with an archive.

**Dragonboard core, launcher and test programs** (`core/core.c`, `core/launcher.c`,
`core/script.c`, `testcases/`)
- *State*: the table of test cases (System V shared memory), the pipe
  `/tmp/cmd_pipe`, the launcher's list of programs not waited for, the programs.
- *Operations*: parse the configuration, fork the launcher, run one test case, wait,
  report a result, send `TEST_COMPLETION`.
- *Hard*: many writers and one reader of a bounded pipe; programs that never end, die,
  or do not exist; a failed fork that nobody looks at.
- *Correct when*: the table is the selection the file describes; a test that is waited
  for runs before the following ones start; no result is missed at the end.

**Dragonboard view** (`view/df_view.c`, `view/tp_track.c`, `wifitester.sh`)
- *State*: two windows of items with a fixed number of rows, statuses; the surfaces with
  their colour and font; the track of the finger; the wifi list and its rows.
- *Operations*: insert, update, draw; touch events, two buttons, the track; the script's
  scans, the thread that lists them.
- *Hard*: two threads draw on one surface without a lock; the wifi thread is started
  before the list it fills; coordinates and button arrive as separate events.
- *Correct when*: every active test case finds a row; a result reaches the item; a row
  shows its item; a track joins no two touches and stays on the screen; the wifi
  window shows the last scan.

**Realtek H5 attach** (`rtk_hciattach/hciattach_rtk.c`)
- *State*: the state of the link, two sequence numbers, the last command, the patch
  indices, an alarm handler with a static count.
- *Operations*: link establishment, the version and speed commands, the download of the
  patch, an alarm that sends again or gives up.
- *Hard*: lost and repeated frames without a window; an alarm between the answer and
  `alarm(0)`; an event that comes twice; eight numbers that must be at 0 at the end.
- *Correct when*: the controller executes each command once and in order, only after
  both sides are configured; the end is reached; the driver that takes over finds the
  numbers it expects.

**Kernel, initial ram disk, patches** (`linux/linux.mk`, `toolchain/patch-kernel.sh`,
`fs/common.mk`, `fs/initramfs/initramfs.mk`)
- *State*: the times of stamps, `.config` and `rootfs.initramfs`; the kernel tree, the
  image, the target directory.
- *Operations*: `make world`, `make linux26`, a recipe line by line, `linux-menuconfig`,
  a package that is built again, a tree that is removed.
- *Hard*: unlike packages, the kernel's stamps have prerequisites; the kernel is compiled
  before the files of its ram disk exist, and again after; loops and scripts that
  lose the status of a command.
- *Correct when*: a patched tree has all patches and no rejects; a finished make leaves
  an image of the present `.config` with the present files; it can always be repeated.

**SDK scripts** (`build.sh`, `scripts/mkcommon.sh`, `mksetup.sh`, `mkcmd.sh`, `build.sh`)
- *State*: `.buildconfig`, two toolchain directories with `.installed`, buildroot's
  `.config` in each output directory, the kernel trees with `.config.mark`, the root
  filesystem of dragonboard.
- *Operations*: `config`, `lunch`, a plain call, a call with arguments, `kernel`,
  `buildroot`, `clean`, `distclean`, `pack_debug`.
- *Hard*: `.buildconfig` is removed and written line by line in every call; selections
  share trees; a call may be killed anywhere; statuses are lost.
- *Correct when*: what is built is what was chosen; a kernel is made from the
  configuration of its selection; what one call leaves does not stop the next.

### Not modelled

| component | state and operations | why |
|---|---|---|
| `make source` (`Makefile:339-359`, `:502`) | the set of archives to fetch | a function of the dependency graph, changes nothing but `DL_DIR`: see 8 |
| ext4 writer (`package/ext4-utils/src`) | block groups, reservations | sequential, one pass of one process: see 8 |
| other images (`fs/cpio`, `ext2`, `tar`, ...) | `rootfs.*` | one command each on the finished target directory |
| toolchains (`toolchain/*.mk`) | trees | straight-line recipes, no state beyond stamps |
| Kconfig (`package/config`) | symbol values | vendored from the Linux kernel |
| FAT checker (`package/fsck_msdos`) | a FAT image | vendored, sequential |
| host tools (`makedevs`, `elf2flt`) | files | pure input and output |
| camera, audio (`cameratest.c`, `audio_id.c`, `lib/`) | devices | ioctls on hardware, vendored libraries |

The 2000 package files (`package/*/*.mk`) are data for the package infrastructure:
a name, a version, a site, dependencies and the commands of each stage.


## 2. Modules and the code they model

### PackageBuild, DependencyOrder

`PackageBuild` models `GENTARGETS` and the stamp rules. `stamp[p]` is the set of stages
of `p` that have a stamp file, `effect[p][s]` what the commands of stage `s` really
left on disk: `none`, `partial`, `done`, or `stale` (complete, but made from a former
result of an earlier stage). `at`, `caller` and `cur` are make's recursion, `todo`
the goals left, `outcome` and `asked` the invocation as the user sees it.

| code | action |
|---|---|
| a stamp rule that runs to its `touch` | `RunRecipe` |
| a recipe whose commands cannot succeed (truncated archive, tree patched twice) | `RecipeFails` |
| a recipe that dies anywhere before the `touch` | `RecipeStops` |
| a target that is up to date | `Skip` |
| `<pkg>-depends: <pkg>-source $(DEPENDENCIES)` | `MakeDependency`, `DependenciesMade`, `Return` |
| `.stamp_*_uninstalled`, `.stamp_cleaned`, `.stamp_dircleaned` | `Remove`, `DirClean` |
| the same, interrupted | `RemoveCut`, `DirCleanCut` |
| `make clean` and its interruption | `Wipe`, `WipeCut` |
| `rm .stamp_configured` by hand | `RemoveStamp` |

Make is serial and nobody else looks at the build directories, so a recipe is one
action when it completes and another, with all it may leave, when it does not. Not in the
model: `<PKG>_SRCDIR_OVERRIDE`, and `make` options such as `-k`.

`DependencyOrder` is the abstract specification: packages are configured when their
dependencies are installed, installed when configured, and anything may be undone.
`DependencyOrderSpec` in `PackageBuild` states that the stamps implement it, under the
mapping *configured = has `.stamp_configured`*, *installed = complete files where
dependents look for them*.

### Download

One archive, its checkout directory, and any number of builds going through `DOWNLOAD`.
`file` is `absent`, `part`, `whole` or `broken` (two writers), `owns` the builds with the
archive open, `try[b]` the site build `b` is at. `TestExists` is the `test -e` of each
`DOWNLOAD_*`; `WgetOpens` has wget's way with a name that is taken (`<name>.1`);
`Pack` is the redirection of `gzip` or `tar`, which truncates; `Cut` and `Kill` are
transfers and builds that end early; `NextSite` is what follows a command without
`&& exit`; `Extract` is the `tar` of the next stage, which judges the archive.
`PackageBuild` keeps of all this only that an archive is there, whole or not.

### TestCaseTable, TestRun

`TestCaseTable!parse_testcase` is the loop of `core.c` as a fold over the sections of
`test_config.fex`, with the slot `info[j]` that the touch panel section writes to without
taking it. `Sections` is what `script_fetch` can find in one. `Lists` is the reference definition:
the places of the sections that should be in the table (`Selected`) and what is in each
of its entries, said without the loop.

`TestRun` has one group of actions per process: the core (`ParseAndInitView`,
`DrawTestcase`, `ForkLauncher`, `OpenPipe`, `Listen`), its event thread (`Touch`), the
launcher (`RunOneTestcase`, `NoBinary`, `WaitCompletion`, `WaitNoWaitTask`, `CleanUp`,
`ForkFails`) and the test programs (`Exec`, `CannotExec`, `Report`, `Exit`, `Crash`).
`info` is the shared table, `rows` the rows each window was given, `status` the items
on display, `waits` the `no_wait_task_list`, `pipe` the lines in the pipe. `said` is a
history variable: the last result written about each test case. Test case `i` of
the model has id `i - 1` in the code; item 0 is the built-in touch panel item.

### DfView

The three threads of the core that use the screen. `main`, `evt` and `wifi` are their
program counters, `job[t]` is a drawing under way: `SetColor`, `FillRectangle`, `SetFont`,
`SetColor`, `DrawString` are separate steps, and `pen[s]` is what the surface remembers
between them. Threads interleave between any two. `events` is the buffer of the event
thread; `GetEvent`, `button_handle` and `Press` are `show_mouse_event` cut where it draws;
`tp_track_draw` and `Pixel` are the track. `tester` is `wifitester.sh`, which writes a
scan and then `FLAG` into `wifi_pipe`; `wifi_hot_point_proccess` reads a line. `disturbed`,
`joined`, `edge`, `of`, `pre_of` and `finger` are history variables. `DfView` and
`TestRun` model the same items from two sides: `TestRun` has what reaches
`df_update_item` and takes the drawing for done, `DfView` has the drawing and takes any result
that may come.

### H5Link

`at` is the answer the host waits for; `HostGoesOn` are the steps from one wait to the
next (`rtk_init` to `PatchDone`), `h5_recv` handles one frame by `link_estab_state`, `Alarm` is
the signal. The static retry counts are one variable, since each handler is in charge
once; `handler` is what the uninitialised `sa_flags` of some `sigaction` calls make of it.
`toCtrl` and `toHost` are the frames in flight: overrun beyond `Wire`, lost up to `Losses`
times. The controller (`PeerReceives`, `PeerRepeats`, `PeerAsks`) is external: it does what
the host's code relies on and no more, and repeats events and link messages at will.

### LinuxImage

One action per line of a recipe, because make may stop after any (`MakeStops`), and one
round of the patch loop per step. `mtime[f]` is the rank of a file's time among the
others, 0 if it does not exist: `Written` makes some files the newest and closes the gaps. `Needs` are
the prerequisites, `Lines` the recipes, `Stale` is make's test. `tree`, `config`, `cpio`,
`built` and `image` are what the kernel tree and `BINARIES_DIR` hold, told apart by edits of `.config`,
by builds of packages, and by whether one file (`extra`) is there. A patch is of one of five
`PatchKinds`: it fits, leaves rejects, fails without any (a malformed file, a bad archive), or its
file or its directory does not exist. `tree.cut` are patches of which a part was applied. A command that is
interrupted in the middle, or fails there, leaves what it has done: half a patch (`StopsInPatch`), an image
that `cp` has begun to write over (`StopsInCopy`, `NoImage`), modules that were removed
(`StopsInModules`), a part of the archive that `test -e` takes for the archive (`DownloadCut`). `Image` is the kernel's own make, external:
whether it notices that the list has changed is left open, which is what `rm -f *.cpio` in
`linux.mk` is for. `lost` records statuses that nobody looked at.

### SdkBuild

A call is `Call`, then one action per command that changes the disk; `at` is the step, `env`
the `LICHEE_` variables, `todo` the lines of `.buildconfig` still to be written. `Defconf` is
the search through `mkrule` in `init_defconf`, `Mark` the test of `.config.mark`, `mkbr` the
subroutine that two places call. `Kill` may end a call at any step; after the `rm` of
`distclean` parts of the directories may be left. `half` are the places where a buildroot make, or
the removal of its output directory, was stopped: a package may then be patched in part, which every
later make refuses, or an archive cut, which it takes for whole. Which of these there are depends on
the packages, so from then on `MakeBuildroot` may fail (`mkbrFails`) and may not. Output
directories are in it one by one; `Shared` stands for buildroot's `dl` and `external-packages`, which all
of them use and nothing removes. `chosen`, `hurt` and `broken` are
history variables. The kernel's own `scripts/build.sh` is external.

The `MC*` modules hold the instances; every definition whose comment begins with
"A variant" is a plausible mistake of that code, kept beside the definition it changes
to see that a property notices.


## 3. What the runs check

| run | question | properties | bounds |
|---|---|---|---|
| `package_build` | Do stamps, dependencies and success mean what they should, if recipes die anywhere? | `StampHonest`, `DepsInstalledAtConfigure`, `SuccessIsUpToDate`, `DependencyOrderSpec`, `TypeOK` | library (with patches) and application; install, uninstall, clean, dirclean |
| `package_live` | Does any legal sequence of goals leave a tree that cannot be built? | `BuildSucceeds` | host library and application; all nine goals, `host-<pkg>-clean` and `make clean` |
| `package_rough` | When do stamps begin to lie? | `HonestyLostOnlyWhenInterrupted` | one package; dying recipes, stamps removed, `make clean`, removals cut |
| `package_doc_rmstamp` | Is the package recompiled after `.stamp_configured` is removed? | `RecompiledAfterConfigure` (violated) | two packages |
| `download` | What do two builds do to one archive? | `WholeUnlessDisturbed`, `WholeStaysWhole`, `ArchiveArrives`, `TypeOK` | two builds, three sites, wget, git and svn, any cut, kills |
| `download_doc_parallel` | May builds of one source tree run in parallel? | `ParallelBuildsSafe` (violated) | two builds, two sites, no fault |
| `download_doc_backup` | Does the backup site help when the normal one fails? | `BackupIsUsed` (violated) | one build, two sites, one that breaks off |
| `testrun` | Is every test case shown, run in its turn, and its result not missed? | `TableIsSelection`, `EveryItemFits`, `WaitedTestsRunAlone`, `NothingMissedAtTheEnd`, `EveryResultIsShown`, `RunCompletes`, `TypeOK` | six boards, with and without LCD, pipe of 2 lines, 2 reports per program |
| `h5` | Does the attachment survive what a serial line and alarms do? | `ExecutesPlan`, `CommandsOnlyWhenConfigured`, `SequenceStartsOver`, `CommandKept`, `Terminates`, `TypeOK` | five controllers, 2 retries, 2 frames each way, 1 loss beyond overruns |
| `dfview` | What do three threads make of the screen? | `RowsShowStatus`, `TouchesApart`, `TrackOnScreen`, `WifiRoundShown`, `TypeOK` | four boards, each with one kind of load; 3 by 3 pixels; up to 6 touch events, 2 scans of 3 names for 2 rows |
| `linux_image` | Is the kernel image what the configuration and the files say? | `PatchedMeansClean`, `KernelMatchesConfig`, `RamDiskIsCurrent`, `CurrentImageStays`, `RepeatedMakeFinishes`, `TypeOK` | five series of two patches, 2 changes, 2 faults |
| `sdk_build` | Is what is built what was chosen? | `BuildsTheChosen`, `BuiltAsSelected`, `FailsOnlyByFault`, `RootfsComplete`, `TypeOK` | five selections on two chips and one kernel tree, 2 calls besides the plain one, 2 faults |

What the properties say, beyond their names:

- `StampHonest` leaves `.stamp_downloaded` out: `test -e` takes what a killed download
  left, so that stamp vouches for nothing (see `Download`).
- `SuccessIsUpToDate` is about whole histories: uninstall, clean, dirclean and dying
  recipes in any order, then a make that succeeds. It holds because `-clean` uninstalls
  first (the variant `WantedCleanAlone` breaks it). It does **not** hold for
  `make host-<pkg>-clean`, which removes `.stamp_built` and not `.stamp_host_installed`;
  `package_build` has no `hostclean`. `package_live` has it: a later install still ends well. That it
  takes no honesty away is the theorem `HonestyLost`, for every set of host packages.
- `HonestyLostOnlyWhenInterrupted` is the answer to "may I delete stamps and interrupt
  things": stamps begin to lie only in an invocation that ends badly, in a removal.
- `WholeUnlessDisturbed` and `WholeStaysWhole` are claims about wget. With git and svn
  the archive is truncated by a redirection, and another build may see it half written.
- `TableIsSelection` and `EveryItemFits` assume `Complete` sections: each has a category,
  and the touch panel, which the view tests itself, names no program. Without that,
  what the touch panel left in `info[j]` does show in the next entry, and the counters
  and the items disagree.
- `WaitedTestsRunAlone` claims no more than the code does: programs started *before*
  a waited test without waiting may still run beside it.
- `RunCompletes` has the launcher's failures as exits: the core then blocks in `fopen`
  or spins on end-of-file, and no more is claimed.
- `RowsShowStatus` says which rows may be wrong and why. Between two drawing calls another
  thread may change colour and font of the same surface; the row is then `disturbed`,
  and stays wrong until it is drawn again. The second claim is that this happens in the
  manual window only: the event thread draws nowhere else.
- `TouchesApart` excludes events with a coordinate 0 (`edge`), which the program takes for
  the button: such a touch does join the next one.
- `WifiRoundShown` compares the rows with a definition over the whole scan, and says that the wifi
  thread, which runs before `INIT_LIST_HEAD`, does not touch the list by then: `fopen` on
  the pipe keeps it until the launcher has started the script.
- `ExecutesPlan` compares what the controller did with the list of commands that board and files
  call for. `SequenceStartsOver` says where the numbers end for every controller: at 0, or at 7 if the
  speed is not in the config file. `rtk_config` has then put a code into `baudrate`, for a speed in its
  table or not (`uart_speed_to_rtk_speed`, line 2034), and sent nothing; `rtk_download_fw_config`
  takes it for a speed command that was sent, and pads one packet too few. `CommandKept` excludes a host that took over a number out of order
  (`OutOfOrder`): an event that comes twice then frees the command after the one it
  answers, and an alarm has nothing to send.
- `PatchedMeansClean`: the loop over patch directories loses all statuses but the last. What
  saves the tree is that `patch-kernel.sh` looks for rejects in the *whole* tree each time;
  so a patch that left rejects fails every later round. Two kinds it cannot tell, and then `.stamp_patched`
  lies: a file that does not exist, which `ls` passes over in silence even when it is the last, and,
  before the last, a patch that fails without rejects or a directory that does not exist.
- `CurrentImageStays`: an image that is up to date is never replaced by one that is not. `cp`
  writes over it in place, so a copy that is cut leaves no usable image; if that is the copy of
  `.stamp_initramfs_rebuilt`, `make linux26` has nothing to do afterwards and says so, and only
  `make world` copies again.
- `KernelMatchesConfig` excepts modules whose installation failed, since the commands
  that follow on the line hide it.
- `RepeatedMakeFinishes` excepts trees that are `Stuck`: with a cut archive, with rejects, with a last patch that fails
  without rejects or whose directory is missing, or with a list that names a file that was
  removed. In that last case the kernel is compiled with the old list *before* the list is made anew, and fails.
- `BuildsTheChosen` says which fields of a saved selection may be missing when a call goes
  on: `check_env` asks for neither `ARCH` nor, on android, the board. Without `ARCH` the
  32 bit toolchain compiles the kernel.
- `FailsOnlyByFault` says how far one may kill the build at will. For android and dragonboard always, but
  for `distclean`: a killed `rm -rf` may leave `.installed` in a directory that has lost its files. On
  linux and eyeseelinux a buildroot make that was stopped, or a removal of its output directory, may
  leave something that stops later builds. For the output directory the removal, or a build that
  comes to its end, helps; for a cut archive in `dl`, which all output directories share, neither
  does.

**Why the bounds are enough.** A stamp rule looks at its own package, and `-depends`
at the direct dependencies; what two packages and one edge cannot show (longer
chains, diamonds) is covered by the theorems, which hold for every graph.
The packages have patches, staging and target installation or are host packages, so
every recipe occurs. In `Download` interference is between two writers or a writer and a reader; the
chain of three sites is all the code has. The boards contain what the loop tells
apart: a touch panel in two places and in two categories, an inactive section, a section without program,
a missing program, an endless one that is waited for and one that is not. A pipe of 2
lines makes the launcher and the programs block. `MaxReports` is 2 because a result
may replace another; a message that is no result (`UNTESTED`) leaves room for one more line.
`MaxTests` only bounds a quantifier.

The controllers of `h5` are one for each path of the commands (with and without the ROM
version, the speed in the file or on the line, no patch), and their patches fit
the eight numbers exactly, need padding, or consist mostly of padding. Two frames each way are
a command and its repetition, an event and its repetition; the bound of 40 retries is
2, because the counts only matter when they run out. The boards of `dfview` have
one kind of load each, since the parts meet only through the surfaces: results against
touches, six events for two touches in every order of axes and button, a panel that
is not tested, wifi scans. A screen of 3 by 3 has every octant of a line. In `linux_image`
two changes and two faults are an edit while something is already wrong, and every pair of
failures; the series have each kind of patch first and last. The selections of
`sdk_build` have a rule for the business, the platform, the architecture and the board, and one
that no rule with a kernel configuration of its own serves; two calls besides any number
of plain ones, with two faults, are a call cut, another selection on its remains, and
the plain call that takes up what is saved. Beyond these bounds all safety properties are
covered by theorems, some under the restrictions that section 5 names.

Deadlock is checked everywhere but in three runs, where the program really stops: in
`testrun` the core exits (an empty table) or blocks for ever (a lost launcher), in `h5` the
host is done or gives up, in `dfview` the finite load runs out.


## 4. Fairness

- `PackageBuild!FairSpec`: `WF(Make)`. A make that runs goes on; nothing in it waits for
  anybody. Starting an invocation, dying recipes and removals by hand are not fair.
- `Download!FairSpec`: `WF(Go(b))` for each build. A process is scheduled, wget ends
  (it has a limit of retries). Starts, cuts and kills are not fair.
- `TestRun!FairSpec`: `WF` of the core, of the launcher and of each test program, which
  are separate processes. A line is shorter than `PIPE_BUF`, so `write` is atomic, and
  a writer that finds the pipe full sleeps until there is room. In a
  `TesterStep` is execution, result and exit, so a program that is not in `Endless`
  ends; a program's crash, a failed fork, a touch and messages without a result are not fair.
  `WF` is enough although programs compete for the pipe: a program writes a
  bounded number of lines (`MaxReports`), so nobody can fill the pipe for ever.
- `H5Link!FairSpec`: `WF` of the host's steps, of `h5_recv` and of the alarm. The process is
  scheduled, what has arrived is read, and the kernel delivers an alarm that stands. Nothing is fair about the
  controller or the line: `Terminates` holds if the controller never answers, and if it
  repeats itself for ever.
- `LinuxImage!FairSpec`: `WF(Step)`, make goes on, and `SF(MakeWorld)`: the user calls `make world`
  again and again. Strong, because between two calls other goals may be made; faults
  and changes are bounded, so in the end such a call is left alone.
- `DfView` and `SdkBuild` have safety properties only.


## 5. Proofs

Checked by TLAPS for every value of the constants under the named assumptions
(`PkgsAssumption`, `DepsAcyclic`, `DownloadAssumption`, `TestRunAssumption`,
`ConfigsAssumption`, `SdkBuildAssumption`, `LinuxImageAssumption`, `H5Assumption`,
`DfViewAssumption`, which TLC also evaluates on the instances).

**PackageBuildProofs.** `TypeCorrect`, and `HonestyLost` with every disturbance allowed. Then,
assuming `"cut" \notin Ops` (no removal is interrupted): `StampsAreHonest`,
`DependenciesFirst` and `ImplementsDependencyOrder`. The invariant is
`Inv == TypeOK /\ StampHonest /\ Progress`. `StampHonest` speaks of the disk and
`DepsInstalledAtConfigure` of one moment in a run; neither is inductive. `Progress` ties
them to where make is: a package that is `made` has its install stamps; one whose goal is an
install has the stamp of each install stage it has passed; one between `depends` and the
compilation has all its dependencies made; one past the configure step has its stamp,
if the goal includes that step. A dependency that is `made` stays so until the invocation ends,
and an install removes nothing, so what was installed is still there when it is needed.
These proofs do not use `DepsAcyclic`: order and honesty hold even where make would go in circles;
only `BuildSucceeds`, and `SuccessIsUpToDate` below, need it. `DependenciesFirst` follows from `Inv` at the configure step,
and in the refinement each recipe is a `Configure`, an `Install` or an `Undo`.
With `"cut"` the three statements are false: `package_rough` shows what is left.

The same module proves `SuccessUpToDate`: `SuccessIsUpToDate` for every set of packages and every acyclic
graph, assuming `Ops \subseteq {"stop", "wipe"}`: no stamps removed by hand (`package_doc_rmstamp`
shows what then happens), no host package cleaned, no removal interrupted. This proof needs `DepsAcyclic`.
When the last target returns, whatever was asked for must have been made, so nothing may be left half way:
`StackInv` says that the packages under way are a stack of falling `Level`, each entry called
by the next one up, hence empty when make is back at the top, and `AskedInv` that what was
asked for is made, waits or is on that stack. `DiskInv` is about the disk: stamps are `Closed`
downwards (objects have no stamp without a configured tree), so a recipe never runs below
a stage that has one and what has a stamp is `Current`. A clean keeps that because it
uninstalls first (`Reached`, `CleanBare`); for host packages it does not, which is the reason for the assumption.

**TestRunProofs.** `TestRunTypeCorrect`, `WaitedAlone`, `NothingMissed`. The type is not
inductive alone: the table is replaced only while nothing refers to it (`Unparsed`).
`OrderInv` adds that programs run only for test cases the launcher has passed and
still lists, or for the one it waits for (`StartedInOrder`, `ListedNotWaited`); so a
waited test is over when `next` has moved on. `RunInv` adds the channel: the
completion message is the last line (`DoneIsLast`), the last line about a test case is the last
result written about it (`LastLineIsSaid`), and an item about which no line is on its
way shows that result (`ShownWhenHeard`). Together they give `NothingMissed`
for every capacity of the pipe and every configuration. `ConfigsAssumption` is that a
configuration is a finite sequence of sections with the types that `script_fetch` returns; that
`parse_testcase` makes a table and two counters of it is a lemma (`ParsedType`).
`TableLists` and `ItemsFit` are about the loop itself. `FoldLeft` of the library is a choice
among iterations over sets of positions; `IterationExists` and `ParseBySection` show, by
induction, that it goes through the sections one by one. `TableSoFar` then holds after each round (`TableRound`):
the table lists the sections so far that belong in it, what the slot `info[j]` has left over is
never a program, and the counters count the entries. The view draws an item when there is room for it, and
`FitInv` relates the rows it has given out to the entries it has been through, so that
with the counters of a `Complete` configuration there is always room.

**DownloadProofs.** `DownloadTypeCorrect`, `WgetLeavesWhole`, `WholeForGood`, for any number
of builds and any chain of sites. With wget the archive has at most one writer, and it is not whole
while it has one (`OneWriter`), because `wget` opens it only if the name is free.

**SdkBuildProofs.** `TypeCorrect`, `ChosenBuilt`, `SelectedBuilt`, `OnlyFaultsFail`, `WholeRootfs`, for any
selections, rules and numbers of calls and faults, under `SdkBuildAssumption`. Two inductive
invariants. `SelectionInv` is about `.buildconfig`: what it holds is a part of what was chosen
(`PartOfChosen`), the lines that are missing are the ones still to be written, in the order in which they are
written (`WrittenInOrder`), and a call past `check_env` has the fields it asks for; so
when a cut file passes `check_env`, only fields that come late and are not asked for can be missing.
`DiskInv` relates the disk to the step of the call: `MarksHold` (the objects
in a kernel tree are those of its mark, unless a clean failed unnoticed), `ToolsInv` (a
toolchain with `.installed` is whole), `BuildrootInv` with `ConfigsRuled` (the `.config` of an output
directory is that of the rules that lead there), `RootfsInv`. `FailsOnlyByFault`
is a part of `DiskInv`, too: a step fails from a fault of its own, a half-made buildroot or a
toolchain that is not whole, and for the last `ToolsInv` leaves only a removal that was cut. The proof of `ConfigsRuled`
needs an assumption that the table `mkrule` meets: one buildroot configuration for each
chip and platform. The output directory `common` is shared by all businesses, and its `.config` is
never written again once it is there; with two configurations for one platform the second
would not be used.

**LinuxImageProofs.** `ImageTypeCorrect`, `PatchedClean`, `KernelMatches`, `RamDiskCurrent` and the action
property `CurrentStays`, for any patch series and numbers of changes and faults, under
`LinuxImageAssumption`. The invariant `IInv` adds to the type: `Control` (where make is);
`Times` (a stamp stands on those before it), `Reached` (what make has passed in this call
exists and is no older than its prerequisites) and `Redone` (a recipe runs because its stamp
is missing or older than its prerequisite); `PatchInv` (what the loop over patches has done to
each patch of each kind, whole or in part, until it ends with the status of its last round); `KernelInv` and `ImageInv` (a compiled stamp no older than `.config` means a
kernel of this configuration, and along the recipes where it has been copied to); `RamInv` (once the list has been made in
this call, it, the archive, the kernel and the image are one after the other of the target
directory). Times are ranks: the lemma `Ranks` shows that ranks keep the order of the
times they are made of, `WrittenOrder` what that means for `Written`, and nothing else in the proof
looks inside.

**H5LinkProofs.** `H5TypeCorrect`, `ConfiguredFirst`, `CommandStored`, `PlanExecuted` and
`NumbersStartOver`, under `H5Assumption`: for
any controllers, length of the line, number of lost frames and of retries, and without
fairness. That the patch index stays below 128 rests on the at most 98 packets with data of `Board` (`TotalType`): 24576 bytes are
97 packets of 252 and a rest, and the padding adds at most seven.
`LinkInv` relates the two ends: a `confresp` is on its way only from a configured controller
and the host leaves `H5_CONFIG` only with one. `CommandInv` rests on a count: before the
patch at most three numbers are used, so a number tells the command (`Numbered` holds of each frame
in flight and each unacked event, `peer.expect = peer.seq` carries it through the controller).
An event in order is therefore the answer to the outstanding command (`AnswersIt`), and only that frees
the stored one. During the download nothing frees it (`PatchKept`). `EarlyOpening` says
that the link cannot move on before the speed command is answered.
`PlanExecuted` and `NumbersStartOver` go through the download as well, where numbers come round
modulo 8. What makes a number unambiguous is that it is never far off: every command under way
to the controller is at most one place behind and two ahead of the next one it will execute (`UnderWay`), so
its number tells its `Place` in the plan, and a frame the controller takes is the next command. That
the host is at most three ahead is `SentInv`, with `PatchInv` for the one way in which it gets
ahead at all: the indices of the first packets of a patch may be matched by events of earlier commands,
later ones only by an event that was sent for them. `ExecutedInv` and `AnsweredInv` say the
same of the beginning and of each wait; together they are `OrderInv`. For the numbers at the
end, `Padding` computes that the commands of a board with a patch are a multiple of eight,
`LinkOver` that nothing of the link establishment is under way any more once commands are,
and `TakenInv` that a host that never took over a number out of order expects exactly the event of the
outstanding command (`Accepted`): so each command acknowledges the event before it, and
the controller never holds more than one that it could repeat.

**DfViewProofs.** `DfTypeCorrect`, `RowsShown`, `TouchesStayApart`, `TrackStaysOnScreen` and `RoundsShown`, under `DfViewAssumption`:
for any test cases, rows, results, touches, scans and sizes of the screen. `RowsInv` says who draws what
(`CoreDraws`: the core inserts the touch panel item before the event thread starts and leaves it
alone then; `EventDraws`: that item or the clear button), so no two threads draw one
row, and what each call has left behind (`PenHolds`: as long as the row is not
`disturbed`, the background is drawn, the font set, the colour chosen, in this order). The last call then gives
the row the look of its item (`DrawnLook`). `TouchInv` is about the events that wait: there is a count of
the finger's moves for each of them (`Fingers`), and the program's `press` is that count's parity
where it reads (`Follows`), so its last point is of the touch that it takes the next event for.

`TrackStaysOnScreen` is an induction along the line that `tp_track_draw_line` draws: the long axis
advances by one, the short one by at most one and never beyond its end, because the error term stays
between its two bounds. `RoundsShown` rests on `RoundInv`: the list is initialised before the thread uses it
(`ListsReady`, `NothingRead`), the lines in the pipe are the part of the scan that has not been read, in order, with `FLAG` behind them
(`PipeFollows`), and the list has the distinct names of the part that has been read
(`ReadInOrder`), which is what `Places` counts in the whole scan.

**InductionOnNat.** Induction for a *set* of numbers, and the least and the greatest
number of a set, from the library's well-founded relations (its own induction theorems take
an operator, which the provers cannot instantiate). The proofs about the loop of `parse_testcase`
and the line cite it.

**Only model-checked**: liveness (`BuildSucceeds`, `ArchiveArrives`, `EveryResultIsShown`,
`RunCompletes`, `Terminates`, `RepeatedMakeFinishes`), which is out of the prover's reach. Every
invariant and action property of a passing run is stated by a theorem; those of `PackageBuild` hold
without the disturbances named above, with which they are false.


## 6. Where the documents say otherwise

1. *Removing `.stamp_configured`* (`docs/buildroot.html:472`, "will trigger the
   recompilation of the package from the configuration step"): `./configure` runs
   again, and no later rule does, since their stamps exist and have no prerequisites.
2. *Parallel builds* (`docs/buildroot.html:284`, "you can safely run multiple builds in
   parallel using the same source tree as long as they use unique output
   directories"): they share `DL_DIR`, and one build takes the archive that another is
   in the middle of fetching.
3. *Backup site* (`Config.in:100`, "will fall back to download package sources from
   here if the normal location fails"): only if the normal location failed before the
   first byte. A truncated archive is found by `test -e`, and the download counts as done.


## 7. What is left out of the modelled parts

- Commands of packages: what `configure`, `make` and `make install` do is complete,
  partial or old.
- Parallel make: `Makefile` has `.NOTPARALLEL`. (`-j` goes to the packages' own builds.)
- `DL_MODE` other than `DOWNLOAD`, bzr, a version that git does not know.
- `script_parser.c`: a section is what `script_fetch` returns from it.
- `DfView`: the layout of windows, menus, figures; the fonts' sizes; the audio and camera
  windows. Freed list nodes (`df_view.c:707`) are read with the pointers they had. A hot point's
  `single_level` is uninitialised for some signal levels and only chooses the number of bars. The clear button stays cyan when the
  finger goes elsewhere next, as in the code.
- `H5Link`: SLIP bytes and checksums (a frame arrives whole or not at all), H4
  controllers, the contents of the files, read errors, the change of the baud rate itself, the versions that the controller reports (byte 6 of these events,
  is 0 in the model; with any value up to 6 there the run has the same outcome), and
  what `malloc` in a signal handler may do.
- `LinuxImage`: the kernel's makefiles, device trees, the copy of the target skeleton
  (`Makefile:423-432`; a copy that is cut is never completed), parallel calls of make, changes while make runs.
- `SdkBuild`: u-boot, packing of images, what external packages install, tinyandroid, the squashfs
  check of sun8iw11p1, the product output of `-m clean`.
- Hardware tests: a test program is what it writes to the pipe and how it ends.
- Lines longer than the 127 characters of `fgets`; ids that were not given out.


## 8. Plan

1. `SourceTargets`: `TARGETS_HOST_DEPS`, `HOST_DEPS` and `HOST_SOURCE` against the closure of
   the dependency graph. "make source" promises an offline build
   (`docs/buildroot.html`, section on offline builds); a chain of host packages three deep
   (`shared-mime-info`, `host-shared-mime-info`, `host-intltool`,
   `host-libxml-parser-perl`, `host-expat`) is a candidate for a disagreement.
2. `BlockAllocator`: block groups and reservations of `ext4-utils`, with the widths of
   the integers.
3. Composition: `Download` as the implementation of the `downloaded` stage of
   `PackageBuild`, `LinuxImage` below the `make` of `SdkBuild`.
4. Proofs about the modules of 1 to 3, when they are there.
