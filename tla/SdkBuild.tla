------------------------------ MODULE SdkBuild ------------------------------
(***************************************************************************)
(* scripts/mkcommon.sh, mksetup.sh, mkcmd.sh and build.sh: the calls of    *)
(* the SDK's build.sh.  A call selects a chip, a platform and a board, or  *)
(* takes the selection of .buildconfig, saves it, and builds: the          *)
(* toolchains and buildroot, the kernel, the root filesystem.  What a call *)
(* leaves on disk when it is killed or a command fails is what the next    *)
(* one finds.  The kernel's own scripts/build.sh is external.  There is    *)
(* one call at a time.                                                     *)
(***************************************************************************)
EXTENDS Integers, Sequences

CONSTANTS
  Selections,  \* what the user may select (Selection)
  Rules,       \* mkrule: records [pattern, br, kern]
  Calls,       \* bound: calls other than the plain one
  Faults       \* bound: commands that fail, calls that are killed

Fields == {"CHIP", "PLATFORM", "BUSINESS", "KERN_VER", "ARCH", "BOARD"}

\* An empty field is one that is not set.
NoSelection == [f \in Fields |-> ""]

Platforms == {"android", "dragonboard", "linux", "eyeseelinux"}

ASSUME SdkBuildAssumption ==
  /\ Selections \subseteq [Fields -> STRING]
  /\ \A s \in Selections :
       /\ s.PLATFORM \in Platforms
       /\ s.CHIP # "" /\ s.KERN_VER \notin {"", "toolchain", "rootfs"} /\ s.ARCH # ""
       /\ s.PLATFORM = "android" <=> s.BOARD = ""
  /\ Rules \subseteq [pattern : Seq(STRING), br : STRING \ {"", "none"}, kern : STRING \ {"", "none"}]
  /\ \A r, q \in Rules : r.pattern = q.pattern => r = q
  \* One buildroot configuration for each chip and platform, as in mkrule.
  /\ \A r \in Rules : Len(r.pattern) \in 2 .. 3
  /\ \A r, q \in Rules : (\A k \in 1 .. 2 : r.pattern[k] = q.pattern[k]) => r.br = q.br
  /\ Calls \in Nat /\ Faults \in Nat

VARIABLES
  command,      \* the arguments of the call, "none" between two calls
  at,           \* the step it is at, or how it ended
  todo,         \* the fields still to be written to .buildconfig
  env,          \* its LICHEE_ variables
  defconf,      \* LICHEE_BR_DEFCONF, LICHEE_KERN_DEFCONF, LICHEE_PLAT_OUT
  tool, back,   \* of mkbr: the toolchain it is at, the step it returns to
  buildconfig,  \* .buildconfig
  toolchain,    \* the two directories: their files, and the .installed in them
  br,           \* LICHEE_BR_OUT/.config, for each output directory
  half,         \* where a stopped make or rm of buildroot left something half made
  kernel,       \* each kernel tree: .config.mark, .config, what was built
  rootfs,       \* dragonboard/rootfs: its files and its modules
  chosen,       \* the selection that was last begun to be saved (history)
  hurt,         \* what earlier faults damaged (history)
  broken,       \* a command of this call has failed (history)
  calls, faults

process == <<command, at, todo, env, defconf, tool, back>>
disk == <<buildconfig, toolchain, br, half, kernel, rootfs>>
history == <<chosen, hurt, broken>>
bounds == <<calls, faults>>
vars == <<process, disk, history, bounds>>

Full == {"config", "lunch", "plain", "all"}
Ended == {"ok", "failed", "killed"}
KernVers == {s.KERN_VER : s \in Selections}
Tools == {"external-toolchain", "external-toolchain_32"}

\* A call that goes on with the next step.
Goto(step) == at' = step /\ UNCHANGED <<command, todo, env, defconf, tool, back>>

\* The command of the step fails.
Fault == faults < Faults /\ faults' = faults + 1 /\ broken' = TRUE /\ UNCHANGED <<chosen, calls>>

NoFault == UNCHANGED <<history, bounds>>

-----------------------------------------------------------------------------
(* The selection.                                                          *)

\* select_board, which calls the others first; init_defconf; select_lunch.
SelectOrder == <<"CHIP", "PLATFORM", "BUSINESS", "KERN_VER", "ARCH", "BOARD">>
InfoOrder == <<"CHIP", "PLATFORM", "BUSINESS", "ARCH", "KERN_VER", "BOARD">>
LunchOrder == <<"CHIP", "PLATFORM", "BUSINESS", "BOARD", "KERN_VER", "ARCH">>

Boards == {s.BOARD : s \in Selections} \ {""}

\* Output directories: those of a board with a rule of its own, and the common ones.
Outs ==
  {<<s.CHIP, s.PLATFORM, "common">> : s \in Selections}
  \cup {r.pattern : r \in {q \in Rules : Len(q.pattern) = 3 /\ q.pattern[3] \in Boards}}

\* What all output directories share: dl, with its archives, and external-packages.
Shared == <<"buildroot">>

NoRule == [br |-> "", kern |-> "", out |-> <<>>]

\* What may stand behind chip and platform in a pattern, in the order of init_defconf.
Thirds(s) == <<<<s.BOARD>>, <<s.BUSINESS>>, <<s.ARCH>>, <<>>>>

\* The rule for the n-th pattern; an empty name leaves a pattern that no line of mkrule has.
RuleFor(s, n) ==
  {r \in Rules : Thirds(s)[n] # <<"">> /\ r.pattern = <<s.CHIP, s.PLATFORM>> \o Thirds(s)[n]}

\* A variant: the output directory is that of the board, as mklichee prints it.
DefconfOfBoard(s) ==
  LET found == {n \in 1 .. 4 : RuleFor(s, n) # {}}
      first == CHOOSE n \in found : \A k \in found : n <= k
      rule == CHOOSE r \in RuleFor(s, first) : TRUE
  IN [br |-> rule.br, kern |-> rule.kern, out |-> <<s.CHIP, s.PLATFORM, s.BOARD>>]

Defconf(s) ==
  LET found == {n \in 1 .. 4 : RuleFor(s, n) # {}}
      first == CHOOSE n \in found : \A k \in found : n <= k
      rule == CHOOSE r \in RuleFor(s, first) : TRUE
  IN IF found = {}
     THEN [NoRule EXCEPT !.out = <<s.CHIP, s.PLATFORM, "common">>]
     ELSE [br |-> rule.br, kern |-> rule.kern,
           out |-> <<s.CHIP, s.PLATFORM, IF first = 1 THEN s.BOARD ELSE "common">>]

Init ==
  /\ command = "none" /\ at = "ok" /\ todo = <<>>
  /\ env = NoSelection /\ defconf = NoRule
  /\ tool = "external-toolchain" /\ back = "ok"
  /\ buildconfig = NoSelection
  /\ toolchain = [t \in Tools |-> [files |-> "none", installed |-> FALSE]]
  /\ br = [o \in Outs |-> "none"] /\ half = {}
  /\ kernel = [v \in KernVers |-> [mark |-> "none", config |-> "none", built |-> "none"]]
  /\ rootfs = [files |-> "none", modules |-> {}]
  /\ chosen = NoSelection /\ hurt = {} /\ broken = FALSE
  /\ calls = 0 /\ faults = 0

\* What a call takes its selection from: the user asked step by step, the arguments, or
\* .buildconfig, which was sourced before (pack_debug asks for the board only).
Ask(s) ==
  /\ \/ command' = "config" /\ todo' = SelectOrder
     \/ command' = "lunch" /\ s.PLATFORM = "android" /\ todo' = LunchOrder
  /\ env' = s /\ chosen' = s
  /\ buildconfig' = NoSelection
  /\ at' = "select"

Arguments(s) ==
  /\ command' \in {"all", "buildroot", "kernel", "clean", "distclean"}
  /\ env' = s
  /\ at' = "defconf"
  /\ UNCHANGED <<todo, chosen, buildconfig>>

select_board_ex(board) ==
  /\ command' = "pack_debug"
  /\ env' = [buildconfig EXCEPT !.BOARD = board] /\ chosen' = [chosen EXCEPT !.BOARD = board]
  /\ buildconfig' = [buildconfig EXCEPT !.BOARD = board]
  /\ at' = "defconf"
  /\ UNCHANGED todo

Plain ==
  /\ command' = "plain"
  /\ env' = buildconfig
  /\ at' = "defconf"
  /\ UNCHANGED <<todo, chosen, buildconfig>>

Call ==
  /\ at \in Ended
  /\ \/ Plain /\ UNCHANGED calls
     \/ /\ calls < Calls /\ calls' = calls + 1
        /\ \/ \E s \in Selections : Ask(s) \/ Arguments(s)
           \/ \E b \in Boards : select_board_ex(b)
  /\ defconf' = NoRule
  /\ broken' = FALSE
  /\ UNCHANGED <<tool, back, toolchain, br, half, kernel, rootfs, hurt, faults>>

\* One echo into .buildconfig.
WriteField ==
  /\ todo # <<>>
  /\ buildconfig' = [buildconfig EXCEPT ![Head(todo)] = env[Head(todo)]]
  /\ todo' = Tail(todo)
  /\ UNCHANGED <<command, at, env, defconf, tool, back, toolchain, br, half, kernel, rootfs>>
  /\ NoFault

Selected == at = "select" /\ todo = <<>> /\ Goto("defconf") /\ UNCHANGED disk /\ NoFault

\* A variant: the kernel is not asked for.
check_env_loose(s) ==
  /\ s.CHIP # "" /\ s.PLATFORM # ""
  /\ s.PLATFORM # "android" => s.BOARD # ""

check_env(s) ==
  /\ s.CHIP # "" /\ s.PLATFORM # "" /\ s.KERN_VER # ""
  /\ s.PLATFORM # "android" => s.BOARD # ""

Refused == at = "defconf" /\ ~check_env(env) /\ Goto("failed") /\ UNCHANGED disk /\ NoFault

\* init_defconf, up to the rm of set_build_info.
init_defconf ==
  /\ at = "defconf" /\ check_env(env)
  /\ defconf' = Defconf(env)
  /\ buildconfig' = NoSelection
  /\ todo' = InfoOrder
  /\ at' = "info"
  /\ chosen' = IF command \in {"plain", "pack_debug"} THEN chosen ELSE env
  /\ UNCHANGED <<command, env, tool, back, toolchain, br, half, kernel, rootfs, hurt, broken, bounds>>

-----------------------------------------------------------------------------
(* mkbr: called before the kernel, and wherever a toolchain directory is   *)
(* missing; only in the first case does its status count.                  *)

mkbr(return) ==
  /\ at' = "mkdir" /\ tool' = "external-toolchain" /\ back' = return
  /\ UNCHANGED <<command, todo, env, defconf>>

Begin ==
  /\ at = "info" /\ todo = <<>>
  /\ \/ command \in Full /\ mkbr("mkkernel")
     \/ command = "buildroot" /\ mkbr("ok")
     \/ command = "kernel" /\ Goto("mkkernel")
     \/ command \in {"clean", "distclean"} /\ Goto("clkernel")
     \/ command = "pack_debug" /\ Goto("ok")
  /\ UNCHANGED disk
  /\ NoFault

prepare_toolchain(t, next) ==
  /\ IF toolchain[t].files = "none" THEN mkbr(next) ELSE Goto(next)
  /\ UNCHANGED disk
  /\ NoFault

\* build_toolchain is done with one directory.
NextTool ==
  /\ IF tool = "external-toolchain"
     THEN at' = "mkdir" /\ tool' = "external-toolchain_32"
     ELSE at' = "buildroot" /\ tool' = tool
  /\ UNCHANGED <<command, todo, env, defconf, back>>

SetTool(part, value) ==
  /\ toolchain' = [toolchain EXCEPT ![tool][part] = value]
  /\ UNCHANGED <<buildconfig, br, half, kernel, rootfs>>

\* A variant: what was unpacked before counts, whole or not.
MakeToolDirTrusting ==
  /\ at = "mkdir"
  /\ IF toolchain[tool].files # "none"
     THEN NextTool /\ UNCHANGED toolchain
     ELSE Goto("untar") /\ toolchain' = [toolchain EXCEPT ![tool].files = "part"]
  /\ UNCHANGED <<buildconfig, br, half, kernel, rootfs>>
  /\ NoFault

MakeToolDir ==
  /\ at = "mkdir"
  /\ IF toolchain[tool].installed
     THEN NextTool /\ UNCHANGED disk
     ELSE Goto("untar") /\ SetTool("files", "part")
  /\ NoFault

Untar == at = "untar" /\ Goto("touch") /\ SetTool("files", "whole") /\ NoFault

TouchInstalled == at = "touch" /\ NextTool /\ SetTool("installed", TRUE) /\ NoFault

HasBuildroot == env.PLATFORM \in {"linux", "eyeseelinux"}

\* Without the name of a configuration make asks for one.
ConfigureBuildroot ==
  /\ at = "buildroot"
  /\ IF HasBuildroot
     THEN /\ br' = [br EXCEPT ![defconf.out] =
                      CASE @ # "none" -> @ [] defconf.br # "" -> defconf.br [] OTHER -> "asked"]
          /\ Goto("makebr")
     ELSE Goto(back) /\ UNCHANGED br
  /\ UNCHANGED <<buildconfig, toolchain, half, kernel, rootfs>>
  /\ NoFault

Whole(t) == toolchain[t].files = "whole"

\* A package whose patches were begun is refused by every later make, an archive that was
\* cut is taken for the archive; which of these there are, the packages decide.
HalfMade == HasBuildroot /\ half \cap {defconf.out, Shared} # {}

LeaveHalf ==
  /\ half' = half \cup {defconf.out, Shared}
  /\ UNCHANGED <<buildconfig, toolchain, br, kernel, rootfs>>

MakeBuildroot ==
  /\ at = "makebr" /\ Whole("external-toolchain_32")
  /\ Goto(back)
  /\ UNCHANGED disk
  /\ NoFault

\* tar or make fails: set -e ends scripts/build.sh.
mkbrFails ==
  /\ at \in {"untar", "makebr"}
  /\ Goto(IF back \in {"mkkernel", "ok"} THEN "failed" ELSE back)
  /\ \/ at = "makebr" /\ (~Whole("external-toolchain_32") \/ HalfMade) /\ UNCHANGED disk /\ NoFault
     \/ /\ IF at = "makebr" THEN LeaveHalf ELSE UNCHANGED disk
        /\ Fault /\ UNCHANGED hurt

-----------------------------------------------------------------------------
(* mkkernel and clkernel.                                                  *)

\* Only the chips with 64 bits have this architecture.
KernelTool ==
  IF env.ARCH = "arm64" THEN "external-toolchain" ELSE "external-toolchain_32"

PrepareKernel ==
  \/ at = "mkkernel" /\ prepare_toolchain(KernelTool, "mark")
  \/ at = "clkernel" /\ prepare_toolchain(KernelTool, "clean")

tree == kernel[env.KERN_VER]

InTree(t) ==
  /\ kernel' = [kernel EXCEPT ![env.KERN_VER] = t]
  /\ UNCHANGED <<buildconfig, toolchain, br, half, rootfs>>

\* grep -q finds the empty name in every mark.
Marked == tree.mark # "none" /\ defconf.kern \in {tree.mark, ""}

\* LIHCEE_BUILD_CMD is empty.
NoBuildCmd == command \in {"plain", "kernel"}

WriteMark == InTree([tree EXCEPT !.mark = defconf.kern])

\* A variant: the mark is written before the tree is cleaned.
MarkFirst ==
  /\ at = "mark"
  /\ \/ tree.mark = "none" /\ Goto("config") /\ WriteMark
     \/ Marked /\ NoBuildCmd /\ Goto("config") /\ UNCHANGED disk
     \/ Marked /\ ~NoBuildCmd /\ Goto("clean") /\ UNCHANGED disk
     \/ tree.mark # "none" /\ ~Marked /\ Goto("clean") /\ WriteMark
  /\ NoFault

Mark ==
  /\ at = "mark"
  /\ \/ tree.mark = "none" /\ Goto("config") /\ WriteMark
     \/ Marked /\ NoBuildCmd /\ Goto("config") /\ UNCHANGED disk
     \/ Marked /\ ~NoBuildCmd /\ Goto("clean") /\ UNCHANGED disk
     \/ tree.mark # "none" /\ ~Marked /\ Goto("clean") /\ UNCHANGED disk
  /\ NoFault

AfterClean ==
  CASE command = "clean" -> "ok"
    [] command = "distclean" -> "clbr"
    [] command \notin {"clean", "distclean"} /\ Marked -> "config"
    [] OTHER -> "remark"

Clean ==
  /\ at = "clean"
  /\ Goto(AfterClean)
  /\ InTree([tree EXCEPT !.config = "none", !.built = "none"])
  /\ hurt' = hurt \ {env.KERN_VER}
  /\ UNCHANGED <<chosen, broken, bounds>>

\* Nobody looks at the status of the clean.
CleanFails ==
  /\ at = "clean"
  /\ Goto(AfterClean)
  /\ UNCHANGED disk
  /\ hurt' = hurt \cup {env.KERN_VER}
  /\ Fault

Remark == at = "remark" /\ Goto("config") /\ WriteMark /\ NoFault

\* The kernel's script, external: it makes a .config where there is none.
ConfigureKernel ==
  /\ at = "config"
  /\ IF tree.config # "none" \/ defconf.kern # ""
     THEN /\ Goto("compile")
          /\ InTree([tree EXCEPT !.config = IF @ = "none" THEN defconf.kern ELSE @])
     ELSE Goto("failed") /\ UNCHANGED disk
  /\ NoFault

CompileKernel ==
  /\ at = "compile" /\ Whole(KernelTool)
  /\ Goto(IF command = "kernel" THEN "ok" ELSE "mkrootfs")
  /\ InTree([tree EXCEPT !.built = tree.config])
  /\ NoFault

CompileFails ==
  /\ at = "compile"
  /\ Goto("failed")
  /\ UNCHANGED <<disk, hurt>>
  /\ IF Whole(KernelTool) THEN Fault ELSE NoFault

-----------------------------------------------------------------------------
(* mkrootfs.                                                               *)

PrepareRootfs == at = "mkrootfs" /\ prepare_toolchain("external-toolchain_32", "rootfs")

\* The makes of the root filesystem, of which any may fail: they build what the first make
\* leaves out (LICHEE_GEN_ROOTFS=n), and then nothing of the configuration is half made.
MakeRootfs ==
  /\ at = "rootfs" /\ env.PLATFORM # "dragonboard"
  /\ \/ /\ Goto("ok")
        /\ half' = IF HasBuildroot THEN half \ {defconf.out} ELSE half
        /\ UNCHANGED <<buildconfig, toolchain, br, kernel, rootfs>>
        /\ NoFault
     \/ HalfMade /\ Goto("failed") /\ UNCHANGED disk /\ NoFault
     \/ HasBuildroot /\ Goto("failed") /\ LeaveHalf /\ Fault /\ UNCHANGED hurt

InRootfs(files, modules) ==
  /\ rootfs' = [files |-> files, modules |-> modules]
  /\ UNCHANGED <<buildconfig, toolchain, br, half, kernel>>

\* Only a missing directory is unpacked; tar's status is lost.
UnpackRootfs ==
  /\ at = "rootfs" /\ env.PLATFORM = "dragonboard"
  /\ IF rootfs.files = "none"
     THEN Goto("unpack") /\ InRootfs("part", {})
     ELSE Goto("modules") /\ UNCHANGED disk
  /\ NoFault

RootfsUnpacked ==
  /\ at = "unpack"
  /\ Goto("modules")
  /\ \/ InRootfs("whole", rootfs.modules) /\ NoFault
     \/ UNCHANGED disk /\ Fault /\ hurt' = hurt \cup {"rootfs"}

\* A variant: what is there stays.
KeepModules ==
  /\ at = "modules"
  /\ Goto("copy")
  /\ UNCHANGED disk
  /\ NoFault

RemoveModules ==
  /\ at = "modules"
  /\ Goto("copy")
  /\ InRootfs(rootfs.files, {})
  /\ NoFault

\* The status of cp is lost.
CopyModules ==
  /\ at = "copy"
  /\ Goto("image")
  /\ \/ InRootfs(rootfs.files, rootfs.modules \cup {tree.built}) /\ NoFault
     \/ UNCHANGED <<disk, hurt>> /\ Fault

MakeImage ==
  /\ at = "image"
  /\ UNCHANGED disk
  /\ \/ Goto("ok") /\ NoFault
     \/ Goto("failed") /\ Fault /\ UNCHANGED hurt

-----------------------------------------------------------------------------
(* mkdistclean, and the end of the process from outside.                   *)

clbr ==
  /\ at = "clbr"
  /\ Goto("wipe")
  /\ br' = [br EXCEPT ![defconf.out] = "none"] /\ half' = half \ {defconf.out}
  /\ UNCHANGED <<buildconfig, toolchain, kernel, rootfs>>
  /\ NoFault

\* rm -rf of the output directory; buildroot's dl is not in it.
Wipe ==
  /\ at = "wipe"
  /\ Goto("ok")
  /\ toolchain' = [t \in Tools |-> [files |-> "none", installed |-> FALSE]]
  /\ br' = [o \in Outs |-> "none"] /\ half' = half \cap {Shared}
  /\ hurt' = hurt \ {"toolchain"}
  /\ UNCHANGED <<buildconfig, kernel, rootfs, chosen, broken, bounds>>

\* What a killed rm may leave of a toolchain: the stamp may go first, or last.
LeftOf(t) ==
  {toolchain[t], [files |-> "none", installed |-> FALSE]}
  \cup IF toolchain[t].files = "none" THEN {} ELSE {[files |-> "part", installed |-> i] : i \in {FALSE, toolchain[t].installed}}

Killed ==
  /\ at' = "killed" /\ command' = "none" /\ todo' = <<>> /\ env' = NoSelection
  /\ defconf' = NoRule
  /\ UNCHANGED <<tool, back, chosen, calls>>
  /\ faults < Faults /\ faults' = faults + 1
  /\ broken' = FALSE

\* Of the output directories some .config files are gone, and what is left is half.
Torn(outs) ==
  /\ \E gone \in SUBSET {o \in outs : br[o] # "none"} :
       br' = [o \in Outs |-> IF o \in gone THEN "none" ELSE br[o]]
  /\ half' = half \cup outs
  /\ UNCHANGED <<buildconfig, kernel, rootfs>>

Kill ==
  /\ at \notin Ended
  /\ Killed
  /\ \/ UNCHANGED disk /\ hurt' = IF at = "unpack" THEN hurt \cup {"rootfs"} ELSE hurt
     \/ at \in {"makebr", "rootfs"} /\ HasBuildroot /\ LeaveHalf /\ UNCHANGED hurt
     \/ at = "clbr" /\ Torn({defconf.out}) /\ UNCHANGED <<toolchain, hurt>>
     \/ /\ at = "wipe"
        /\ \E a \in LeftOf("external-toolchain"), b \in LeftOf("external-toolchain_32") :
             toolchain' = [t \in Tools |-> IF t = "external-toolchain" THEN a ELSE b]
        /\ Torn({o \in Outs : br[o] # "none"})
        /\ hurt' = hurt \cup {"toolchain"}

-----------------------------------------------------------------------------
Working ==
  \/ WriteField \/ Selected \/ Refused \/ init_defconf \/ Begin
  \/ MakeToolDir \/ Untar \/ TouchInstalled \/ ConfigureBuildroot \/ MakeBuildroot \/ mkbrFails
  \/ PrepareKernel \/ Mark \/ Clean \/ CleanFails \/ Remark \/ ConfigureKernel
  \/ CompileKernel \/ CompileFails
  \/ PrepareRootfs \/ MakeRootfs \/ UnpackRootfs \/ RootfsUnpacked \/ RemoveModules
  \/ CopyModules \/ MakeImage
  \/ clbr \/ Wipe

Next == Call \/ Working \/ Kill

Spec == Init /\ [][Next]_vars

-----------------------------------------------------------------------------
Steps ==
  {"select", "defconf", "info", "mkdir", "untar", "touch", "buildroot", "makebr", "mkkernel",
   "clkernel", "mark", "clean", "remark", "config", "compile", "mkrootfs", "rootfs", "unpack",
   "modules", "copy", "image", "clbr", "wipe"}

Defconfs == {r.kern : r \in Rules} \cup {""}
BrDefconfs == {r.br : r \in Rules} \cup {""}
Values == {""} \cup UNION {{s[f] : f \in Fields} : s \in Selections}

\* Every value is one that the scripts' variables and files can hold.
TypeOK ==
  /\ command \in Full \cup {"none", "buildroot", "kernel", "clean", "distclean", "pack_debug"}
  /\ at \in Steps \cup Ended
  /\ todo \in Seq(Fields)
  /\ env \in [Fields -> Values] /\ buildconfig \in [Fields -> Values] /\ chosen \in [Fields -> Values]
  /\ defconf \in [br : BrDefconfs, kern : Defconfs, out : Outs \cup {<<>>}]
  /\ tool \in Tools /\ back \in Steps \cup {"ok"}
  /\ toolchain \in [Tools -> [files : {"none", "part", "whole"}, installed : BOOLEAN]]
  /\ br \in [Outs -> (BrDefconfs \ {""}) \cup {"none", "asked"}]
  /\ half \subseteq Outs \cup {Shared}
  /\ kernel \in [KernVers -> [mark : Defconfs \cup {"none"}, config : (Defconfs \ {""}) \cup {"none"},
                              built : (Defconfs \ {""}) \cup {"none"}]]
  /\ rootfs \in [files : {"none", "part", "whole"}, modules : SUBSET Defconfs]
  /\ hurt \subseteq KernVers \cup {"toolchain", "rootfs"}
  /\ broken \in BOOLEAN
  /\ calls \in 0 .. Calls /\ faults \in 0 .. Faults

Building == at \in Steps \ {"select", "defconf"}

\* A call without arguments builds what was chosen last, in full, even when the choice or
\* the saving of it was cut short: then it is refused.  Only the architecture may be
\* missing, and the board of android: check_env does not ask for them, and pack_debug may
\* have filled in the board (the order of the fields in select_board, select_lunch and
\* set_build_info).
BuildsTheChosen ==
  Building =>
    \A f \in Fields :
      \/ env[f] = chosen[f]
      \/ env[f] = "" /\ f = "ARCH"
      \/ env[f] = "" /\ f = "BOARD" /\ env.PLATFORM = "android"

\* A build that says it is OK has built the kernel from the configuration that belongs to
\* the selection, in a tree that all selections share, whatever was killed before
\* (.config.mark); not if a clean failed unnoticed, or no rule names a configuration.
\* Its buildroot has the configuration of the selection, too.
BuiltAsSelected ==
  at = "ok" /\ command \in Full \cup {"kernel"} =>
    /\ tree.built # "none"
    /\ defconf.kern # "" /\ env.KERN_VER \notin hurt => tree.built = defconf.kern
    /\ command # "kernel" /\ HasBuildroot /\ defconf.br # "" => br[defconf.out] \in {defconf.br, "asked"}

\* A full build fails only from a command that fails in this very call: what earlier
\* calls left behind, killed or not, does not stop it (.installed, .config.mark), unless
\* no rule fits the selection, the removal of the toolchains was cut short, or the platform
\* has a buildroot and a make or the removal of it was stopped: in this output directory,
\* if it was not removed or built to the end since, or in any, for the archives in dl.
FailsOnlyByFault ==
  at = "failed" /\ command \in Full =>
    \/ broken
    \/ ~check_env(env) \/ defconf.kern = ""
    \/ "toolchain" \in hurt
    \/ HalfMade

\* The dragonboard image of a build that says it is OK has the modules of its kernel and
\* no others, and a whole root filesystem (mkrootfs); not if the copy failed unnoticed,
\* or the unpacking was once cut short.
RootfsComplete ==
  at = "ok" /\ command \in Full /\ env.PLATFORM = "dragonboard" =>
    /\ broken \/ rootfs.modules = {tree.built}
    /\ rootfs.files = "whole" \/ "rootfs" \in hurt

=============================================================================
